---------------------------- MODULE DispatchQueue ----------------------------
(***************************************************************************)
(* src/src/dispatchqueue.cpp: a queue of closures, served by a fixed set   *)
(* of threads, guarded by one mutex (lockMutex) and one condition variable *)
(* (condition).  The program owns one instance, MainThread, on which the   *)
(* libdatachannel callbacks enqueue every change to a client's state.      *)
(*                                                                         *)
(* The mutex is explicit: a critical section is entered by one step and    *)
(* left by another, and the notify calls are steps of their own, after the *)
(* unlock, as in the code.  Blocking on the mutex is a disabled action.    *)
(* An operation is identified by its ticket, the number of the push that   *)
(* queued it; an operation may itself call dispatch() (destroying a        *)
(* client inside one does), so the callers include the workers.            *)
(***************************************************************************)
EXTENDS Naturals, FiniteSets, SequencesExt

CONSTANTS Workers,    \* the threads of the queue (one for MainThread)
          Producers,  \* other threads that call dispatch() and removePending()
          Owner,      \* the thread that runs the destructor
          None,       \* no thread
          Idle,       \* no operation
          MaxOps      \* bound on the number of dispatch() calls

Callers == Workers \union Producers
Threads == Callers \union {Owner}

ASSUME DispatchQueueAssumption ==
    /\ Workers # {}
    /\ Workers \intersect Producers = {}
    /\ Owner \notin Callers
    /\ None \notin Threads
    /\ MaxOps \in Nat
    /\ Idle \notin 1..MaxOps

VARIABLES
    lockMutex,  \* the thread that holds the mutex, or None
    queue,      \* tickets of the queued operations
    quit,
    worker,     \* where each dispatch thread is in dispatchThreadHandler
    op,         \* the operation each dispatch thread is executing
    caller,     \* where each caller is in dispatch() or removePending()
    owner,      \* where the owner is in the destructor
    pushed,     \* number of operations pushed so far
    lastStarted \* history: the youngest ticket started so far

vars == <<lockMutex, queue, quit, worker, op, caller, owner, pushed, lastStarted>>

WorkerState == {"acquire", "holding", "asleep", "running", "done"}
CallerState == {"idle", "push", "clear", "notify"}
OwnerState  == {"alive", "locked", "notify", "join", "destroyed"}

Init ==
    /\ lockMutex = None
    /\ queue = <<>>
    /\ quit = FALSE
    /\ worker = [w \in Workers |-> "acquire"]
    /\ op = [w \in Workers |-> Idle]
    /\ caller = [c \in Callers |-> "idle"]
    /\ owner = "alive"
    /\ pushed = 0
    /\ lastStarted = 0

-----------------------------------------------------------------------------
(* dispatch() and removePending().                                         *)

\* A dispatch thread calls from inside the operation it is executing.
CanCall(c) ==
    /\ caller[c] = "idle"
    /\ c \in Workers => worker[c] = "running"
    /\ owner # "destroyed"

LockToPush(c) ==
    /\ CanCall(c)
    /\ pushed < MaxOps
    /\ lockMutex = None
    /\ lockMutex' = c
    /\ caller' = [caller EXCEPT ![c] = "push"]
    /\ UNCHANGED <<queue, quit, worker, op, owner, pushed, lastStarted>>

Push(c, ticket, next) ==
    /\ caller[c] = "push"
    /\ queue' = Append(queue, ticket)
    /\ pushed' = pushed + 1
    /\ lockMutex' = None
    /\ caller' = [caller EXCEPT ![c] = next]
    /\ UNCHANGED <<quit, worker, op, owner, lastStarted>>

\* Mutant: the ticket is not yet counted.
PushOldTicket(c) == Push(c, pushed, "notify")

PushAndUnlock(c) == Push(c, pushed + 1, "notify")

Sleepers == {w \in Workers : worker[w] = "asleep"}

\* Mutant: nobody is woken.
NotifyNobody(c) ==
    /\ caller[c] = "notify"
    /\ caller' = [caller EXCEPT ![c] = "idle"]
    /\ UNCHANGED <<lockMutex, queue, quit, worker, op, owner, pushed, lastStarted>>

\* condition.notify_one(), after the unlock: some sleeper wakes, if there is one.
NotifyOne(c) ==
    /\ caller[c] = "notify"
    /\ caller' = [caller EXCEPT ![c] = "idle"]
    /\ \/ \E w \in Sleepers : worker' = [worker EXCEPT ![w] = "acquire"]
       \/ Sleepers = {} /\ UNCHANGED worker
    /\ UNCHANGED <<lockMutex, queue, quit, op, owner, pushed, lastStarted>>

LockToClear(c) ==
    /\ CanCall(c)
    /\ lockMutex = None
    /\ lockMutex' = c
    /\ caller' = [caller EXCEPT ![c] = "clear"]
    /\ UNCHANGED <<queue, quit, worker, op, owner, pushed, lastStarted>>

ClearAndUnlock(c) ==
    /\ caller[c] = "clear"
    /\ queue' = <<>>
    /\ lockMutex' = None
    /\ caller' = [caller EXCEPT ![c] = "idle"]
    /\ UNCHANGED <<quit, worker, op, owner, pushed, lastStarted>>

-----------------------------------------------------------------------------
(* dispatchThreadHandler().                                                *)

\* The first lock, the lock retaken on wake-up and the lock retaken after op().
WorkerLock(w) ==
    /\ worker[w] = "acquire"
    /\ lockMutex = None
    /\ lockMutex' = w
    /\ worker' = [worker EXCEPT ![w] = "holding"]
    /\ UNCHANGED <<queue, quit, op, caller, owner, pushed, lastStarted>>

Wait(w) ==
    /\ worker[w] = "holding"
    /\ ~quit
    /\ lockMutex' = None
    /\ worker' = [worker EXCEPT ![w] = "asleep"]
    /\ UNCHANGED <<queue, quit, op, caller, owner, pushed, lastStarted>>

\* Mutant: wait() without its predicate.
SleepBlindly(w) == Wait(w)

\* The wait predicate is false: the mutex is released and the thread blocks, atomically.
Sleep(w) == queue = <<>> /\ Wait(w)

\* The wait of a condition variable may return without a notify.
SpuriousWake(w) ==
    /\ worker[w] = "asleep"
    /\ worker' = [worker EXCEPT ![w] = "acquire"]
    /\ UNCHANGED <<lockMutex, queue, quit, op, caller, owner, pushed, lastStarted>>

Take(w, ticket, rest, holder) ==
    /\ worker[w] = "holding"
    /\ queue # <<>>
    /\ op' = [op EXCEPT ![w] = ticket]
    /\ lastStarted' = ticket
    /\ queue' = rest
    /\ lockMutex' = holder
    /\ worker' = [worker EXCEPT ![w] = "running"]
    /\ UNCHANGED <<quit, caller, owner, pushed>>

\* Mutants: quit is not looked at; back() in place of front().
TakeAfterQuit(w) == Take(w, Head(queue), Tail(queue), None)
TakeYoungest(w)  == ~quit /\ Take(w, Last(queue), Front(queue), None)

TakeAndUnlock(w) == ~quit /\ Take(w, Head(queue), Tail(queue), None)

\* op() returns, outside the mutex.
FinishOp(w) ==
    /\ worker[w] = "running"
    /\ caller[w] = "idle"
    /\ op' = [op EXCEPT ![w] = Idle]
    /\ worker' = [worker EXCEPT ![w] = "acquire"]
    /\ UNCHANGED <<lockMutex, queue, quit, caller, owner, pushed, lastStarted>>

\* quit is set: the loop ends, whatever is still queued, and unlocks.
LeaveLoop(w) ==
    /\ worker[w] = "holding"
    /\ quit
    /\ lockMutex' = None
    /\ worker' = [worker EXCEPT ![w] = "done"]
    /\ UNCHANGED <<queue, quit, op, caller, owner, pushed, lastStarted>>

-----------------------------------------------------------------------------
(* The destructor.                                                         *)

OwnerLock ==
    /\ owner = "alive"
    /\ lockMutex = None
    /\ lockMutex' = Owner
    /\ owner' = "locked"
    /\ UNCHANGED <<queue, quit, worker, op, caller, pushed, lastStarted>>

SetQuitAndUnlock ==
    /\ owner = "locked"
    /\ quit' = TRUE
    /\ lockMutex' = None
    /\ owner' = "notify"
    /\ UNCHANGED <<queue, worker, op, caller, pushed, lastStarted>>

WakeAndJoin(woken) ==
    /\ owner = "notify"
    /\ worker' = [w \in Workers |-> IF w \in woken THEN "acquire" ELSE worker[w]]
    /\ owner' = "join"
    /\ UNCHANGED <<lockMutex, queue, quit, op, caller, pushed, lastStarted>>

\* Mutants: notify_one() in the destructor; no notify at all.
NotifyJustOne == IF Sleepers = {} THEN WakeAndJoin({}) ELSE \E w \in Sleepers : WakeAndJoin({w})
NotifyNone    == WakeAndJoin({})

NotifyAll == WakeAndJoin(Sleepers)

JoinAll ==
    /\ owner = "join"
    /\ \A w \in Workers : worker[w] = "done"
    /\ owner' = "destroyed"
    /\ UNCHANGED <<lockMutex, queue, quit, worker, op, caller, pushed, lastStarted>>

-----------------------------------------------------------------------------
Finished ==
    /\ owner = "destroyed"
    /\ \A c \in Callers : caller[c] = "idle"
    /\ UNCHANGED vars

WorkerStep(w) ==
    \/ WorkerLock(w) \/ Sleep(w) \/ SpuriousWake(w)
    \/ TakeAndUnlock(w) \/ FinishOp(w) \/ LeaveLoop(w)

CallerStep(c) ==
    \/ LockToPush(c) \/ PushAndUnlock(c) \/ NotifyOne(c)
    \/ LockToClear(c) \/ ClearAndUnlock(c)

OwnerStep == OwnerLock \/ SetQuitAndUnlock \/ NotifyAll \/ JoinAll

Next ==
    \/ \E w \in Workers : WorkerStep(w)
    \/ \E c \in Callers : CallerStep(c)
    \/ OwnerStep
    \/ Finished

SafeSpec == Init /\ [][Next]_vars

(***************************************************************************)
(* A thread inside a critical section, or past one, keeps running; a       *)
(* thread that wants the mutex gets it if it is free again and again       *)
(* (others hold it only for a push, a pop or a swap); an operation         *)
(* returns.  Nobody has to call dispatch(), removePending() or the         *)
(* destructor, and no spurious wake-up has to happen.                      *)
(***************************************************************************)
Fairness ==
    /\ \A w \in Workers :
          /\ SF_vars(WorkerLock(w))
          /\ WF_vars(Sleep(w) \/ TakeAndUnlock(w) \/ LeaveLoop(w))
          /\ SF_vars(FinishOp(w))
    /\ \A c \in Callers :
          WF_vars(PushAndUnlock(c) \/ ClearAndUnlock(c) \/ NotifyOne(c))
    /\ WF_vars(SetQuitAndUnlock \/ NotifyAll \/ JoinAll)

Spec == SafeSpec /\ Fairness

-----------------------------------------------------------------------------
(* Properties.                                                             *)

\* The types of the variables.
TypeOK ==
    /\ lockMutex \in Threads \union {None}
    /\ queue \in Seq(1..MaxOps)
    /\ quit \in BOOLEAN
    /\ worker \in [Workers -> WorkerState]
    /\ op \in [Workers -> 1..MaxOps \union {Idle}]
    /\ caller \in [Callers -> CallerState]
    /\ owner \in OwnerState
    /\ pushed \in 0..MaxOps
    /\ lastStarted \in 0..MaxOps

InCritical(t) ==
    \/ t \in Workers /\ worker[t] = "holding"
    \/ t \in Callers /\ caller[t] \in {"push", "clear"}
    \/ t = Owner /\ owner = "locked"

\* The hand-written lock()/unlock() pairs balance on every path: the mutex is
\* held exactly by the thread inside a critical section, so at most one is, and
\* an operation runs with the mutex free for its own dispatch() calls.
LockBalanced == \A t \in Threads : InCritical(t) <=> lockMutex = t

\* Unlocking before notify_one() loses no wake-up: while the queue is in use,
\* a queued operation never meets all workers asleep with nobody about to notify.
NoLostWakeup ==
    queue # <<>> /\ ~quit =>
        \/ \E w \in Workers : worker[w] \notin {"asleep", "done"}
        \/ \E c \in Callers : caller[c] = "notify"

\* Once the destructor waits in join(), no worker is asleep (nothing would wake
\* it), and none goes back to sleep.
NobodySleepsThroughQuit ==
    owner \in {"join", "destroyed"} => Sleepers = {}

\* The queue is the youngest operations, oldest first, with none lost in the
\* middle or twice, and all of them younger than whatever was started.
NothingSkipped ==
    /\ \A i \in 1..Len(queue) : queue[i] = pushed - Len(queue) + i
    /\ lastStarted + Len(queue) <= pushed

\* An operation is started by a worker that was running none, after every
\* older one and at most once, and never after the destructor set quit.
StartsInOrder ==
    [][\A w \in Workers : op'[w] \notin {op[w], Idle} =>
          op[w] = Idle /\ lastStarted < op'[w] /\ ~quit]_vars

\* Once entered, the destructor returns: every worker it joins ends.
DestructorReturns == owner = "locked" ~> owner = "destroyed"

\* What the queue promises, with the lock and the condition variable hidden.
Abstract == INSTANCE TaskQueue WITH
    submitted <- pushed, pending <- queue, running <- op, closed <- quit

\* Every behaviour of the threads is one of the abstract queue ...
ImplementsTaskQueue == Abstract!SafeSpec
\* ... and the scheduling of the threads serves the abstract queue's fairness.
ServesTaskQueue == Abstract!Spec
=============================================================================
