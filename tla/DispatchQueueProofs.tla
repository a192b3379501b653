-------------------------- MODULE DispatchQueueProofs --------------------------
(***************************************************************************)
(* Proofs about DispatchQueue for any number of workers, callers and       *)
(* operations: its safety invariants, that operations start in order, and  *)
(* that it implements TaskQueue.                                           *)
(***************************************************************************)
EXTENDS DispatchQueue, FiniteSetTheorems, TLAPS

\* How the program counters, the flag and the operations hang together.
Roles ==
    /\ \A w \in Workers :
          /\ caller[w] # "idle" => worker[w] = "running"
          /\ op[w] # Idle <=> worker[w] = "running"
          /\ worker[w] = "done" => quit
    /\ \A c \in Callers : caller[c] = "push" => pushed < MaxOps
    /\ quit <=> owner \notin {"alive", "locked"}

IInv ==
    /\ TypeOK
    /\ LockBalanced
    /\ Roles
    /\ NoLostWakeup
    /\ NobodySleepsThroughQuit
    /\ NothingSkipped

\* The type of every variable is kept by every step from a state of IInv.
LEMMA TypeStep == ASSUME IInv, [Next]_vars PROVE TypeOK'
<1> USE DispatchQueueAssumption DEF IInv, TypeOK, Threads, Callers,
        WorkerState, CallerState, OwnerState
<1>1. ASSUME NEW w \in Workers, WorkerStep(w) PROVE TypeOK'
  <2>1. CASE TakeAndUnlock(w)
    <3>1. Head(queue) \in 1..MaxOps /\ Tail(queue) \in Seq(1..MaxOps)
      BY <2>1 DEF TakeAndUnlock, Take
    <3> QED BY <2>1, <3>1 DEF TakeAndUnlock, Take
  <2>2. CASE WorkerLock(w) BY <2>2 DEF WorkerLock
  <2>3. CASE Sleep(w) BY <2>3 DEF Sleep, Wait
  <2>4. CASE SpuriousWake(w) BY <2>4 DEF SpuriousWake
  <2>5. CASE FinishOp(w) BY <2>5 DEF FinishOp
  <2>6. CASE LeaveLoop(w) BY <2>6 DEF LeaveLoop
  <2> QED BY <1>1, <2>1, <2>2, <2>3, <2>4, <2>5, <2>6 DEF WorkerStep
<1>2. ASSUME NEW c \in Callers, CallerStep(c) PROVE TypeOK'
  <2>1. CASE PushAndUnlock(c)
    <3>1. pushed + 1 \in 1..MaxOps BY <2>1 DEF PushAndUnlock, Push, Roles
    <3>2. Append(queue, pushed + 1) \in Seq(1..MaxOps) BY <3>1
    <3> QED BY <2>1, <3>1, <3>2 DEF PushAndUnlock, Push
  <2>2. CASE LockToPush(c) BY <2>2 DEF LockToPush
  <2>3. CASE NotifyOne(c) BY <2>3 DEF NotifyOne, Sleepers
  <2>4. CASE LockToClear(c) BY <2>4 DEF LockToClear
  <2>5. CASE ClearAndUnlock(c) BY <2>5 DEF ClearAndUnlock
  <2> QED BY <1>2, <2>1, <2>2, <2>3, <2>4, <2>5 DEF CallerStep
<1>3. CASE OwnerStep
  BY <1>3 DEF OwnerStep, OwnerLock, SetQuitAndUnlock, NotifyAll, WakeAndJoin, JoinAll
<1>4. CASE Finished BY <1>4 DEF Finished, vars
<1>5. CASE UNCHANGED vars BY <1>5 DEF vars
<1> QED BY <1>1, <1>2, <1>3, <1>4, <1>5 DEF Next

\* Every lock() is undone by one unlock(): no step breaks the correspondence
\* between the mutex and the critical sections.
LEMMA LockStep == ASSUME IInv, [Next]_vars PROVE LockBalanced'
<1> USE DispatchQueueAssumption DEF IInv, TypeOK, LockBalanced, InCritical,
        Threads, Callers, WorkerState, CallerState, OwnerState
<1>1. ASSUME NEW w \in Workers, WorkerStep(w) PROVE LockBalanced'
  <2>1. CASE WorkerLock(w) BY <2>1 DEF WorkerLock, Roles
  <2>2. CASE Sleep(w) BY <2>2 DEF Sleep, Wait, Roles
  <2>3. CASE SpuriousWake(w) BY <2>3 DEF SpuriousWake
  <2>4. CASE TakeAndUnlock(w) BY <2>4 DEF TakeAndUnlock, Take, Roles
  <2>5. CASE FinishOp(w) BY <2>5 DEF FinishOp
  <2>6. CASE LeaveLoop(w) BY <2>6 DEF LeaveLoop, Roles
  <2> QED BY <1>1, <2>1, <2>2, <2>3, <2>4, <2>5, <2>6 DEF WorkerStep
<1>2. ASSUME NEW c \in Callers, CallerStep(c) PROVE LockBalanced'
  <2>1. CASE LockToPush(c) BY <2>1 DEF LockToPush, CanCall
  <2>2. CASE PushAndUnlock(c) BY <2>2 DEF PushAndUnlock, Push, Roles
  <2>3. CASE NotifyOne(c) BY <2>3 DEF NotifyOne, Sleepers
  <2>4. CASE LockToClear(c) BY <2>4 DEF LockToClear, CanCall
  <2>5. CASE ClearAndUnlock(c) BY <2>5 DEF ClearAndUnlock, Roles
  <2> QED BY <1>2, <2>1, <2>2, <2>3, <2>4, <2>5 DEF CallerStep
<1>3. CASE OwnerStep
  <2>1. CASE OwnerLock BY <2>1 DEF OwnerLock
  <2>2. CASE SetQuitAndUnlock BY <2>2 DEF SetQuitAndUnlock
  <2>3. CASE NotifyAll BY <2>3 DEF NotifyAll, WakeAndJoin, Sleepers
  <2>4. CASE JoinAll BY <2>4 DEF JoinAll
  <2> QED BY <1>3, <2>1, <2>2, <2>3, <2>4 DEF OwnerStep
<1>4. CASE Finished BY <1>4 DEF Finished, vars
<1>5. CASE UNCHANGED vars BY <1>5 DEF vars
<1> QED BY <1>1, <1>2, <1>3, <1>4, <1>5 DEF Next

\* A thread calls dispatch() only from an operation, a worker runs an operation
\* exactly while it says so, and ends only after quit.
LEMMA RolesStep == ASSUME IInv, [Next]_vars PROVE Roles'
<1> USE DispatchQueueAssumption DEF IInv, TypeOK, Roles, Callers, Threads,
        WorkerState, CallerState, OwnerState
<1>1. ASSUME NEW w \in Workers, WorkerStep(w) PROVE Roles'
  <2>1. CASE TakeAndUnlock(w)
    <3>1. Head(queue) \in 1..MaxOps BY <2>1 DEF TakeAndUnlock, Take
    <3>2. Head(queue) # Idle BY <3>1
    <3> QED BY <2>1, <3>2 DEF TakeAndUnlock, Take
  <2>2. CASE WorkerLock(w) BY <2>2 DEF WorkerLock
  <2>3. CASE Sleep(w) BY <2>3 DEF Sleep, Wait
  <2>4. CASE SpuriousWake(w) BY <2>4 DEF SpuriousWake
  <2>5. CASE FinishOp(w) BY <2>5 DEF FinishOp
  <2>6. CASE LeaveLoop(w) BY <2>6 DEF LeaveLoop
  <2> QED BY <1>1, <2>1, <2>2, <2>3, <2>4, <2>5, <2>6 DEF WorkerStep
<1>2. ASSUME NEW c \in Callers, CallerStep(c) PROVE Roles'
  <2>1. CASE LockToPush(c) BY <2>1 DEF LockToPush, CanCall, LockBalanced, InCritical
  <2>2. CASE PushAndUnlock(c)
    \* The mutex admits one caller at a time, so no other one is about to push.
    <3>1. \A d \in Callers : caller[d] = "push" => d = c
      BY <2>2 DEF PushAndUnlock, Push, LockBalanced, InCritical
    <3> QED BY <2>2, <3>1 DEF PushAndUnlock, Push
  <2>3. CASE NotifyOne(c) BY <2>3 DEF NotifyOne, Sleepers
  <2>4. CASE LockToClear(c) BY <2>4 DEF LockToClear, CanCall
  <2>5. CASE ClearAndUnlock(c) BY <2>5 DEF ClearAndUnlock
  <2> QED BY <1>2, <2>1, <2>2, <2>3, <2>4, <2>5 DEF CallerStep
<1>3. CASE OwnerStep
  BY <1>3 DEF OwnerStep, OwnerLock, SetQuitAndUnlock, NotifyAll, WakeAndJoin, JoinAll, Sleepers
<1>4. CASE Finished BY <1>4 DEF Finished, vars
<1>5. CASE UNCHANGED vars BY <1>5 DEF vars
<1> QED BY <1>1, <1>2, <1>3, <1>4, <1>5 DEF Next

\* A push is followed by its notify, and only an empty queue is slept on, so no
\* step leaves work in the queue with everybody asleep.
LEMMA WakeupStep ==
    ASSUME IInv, [Next]_vars PROVE NoLostWakeup' /\ NobodySleepsThroughQuit'
<1> USE DispatchQueueAssumption DEF IInv, TypeOK, NoLostWakeup,
        NobodySleepsThroughQuit, Sleepers, Callers, WorkerState, CallerState, OwnerState
<1> DEFINE Goal == NoLostWakeup' /\ NobodySleepsThroughQuit'
<1>1. ASSUME NEW w \in Workers, WorkerStep(w) PROVE Goal
  <2>1. CASE WorkerLock(w) BY <2>1 DEF WorkerLock
  <2>2. CASE Sleep(w) BY <2>2 DEF Sleep, Wait, Roles
  <2>3. CASE SpuriousWake(w) BY <2>3 DEF SpuriousWake
  <2>4. CASE TakeAndUnlock(w) BY <2>4 DEF TakeAndUnlock, Take
  <2>5. CASE FinishOp(w) BY <2>5 DEF FinishOp
  <2>6. CASE LeaveLoop(w) BY <2>6 DEF LeaveLoop
  <2> QED BY <1>1, <2>1, <2>2, <2>3, <2>4, <2>5, <2>6 DEF WorkerStep
<1>2. ASSUME NEW c \in Callers, CallerStep(c) PROVE Goal
  <2>1. CASE LockToPush(c) BY <2>1 DEF LockToPush, CanCall
  <2>2. CASE PushAndUnlock(c) BY <2>2 DEF PushAndUnlock, Push
  <2>3. CASE NotifyOne(c)
    <3>1. CASE Sleepers = {} BY <2>3, <3>1 DEF NotifyOne, Roles
    <3>2. CASE \E w \in Sleepers : worker' = [worker EXCEPT ![w] = "acquire"]
      BY <2>3, <3>2 DEF NotifyOne
    <3> QED BY <2>3, <3>1, <3>2 DEF NotifyOne
  <2>4. CASE LockToClear(c) BY <2>4 DEF LockToClear, CanCall
  <2>5. CASE ClearAndUnlock(c) BY <2>5 DEF ClearAndUnlock
  <2> QED BY <1>2, <2>1, <2>2, <2>3, <2>4, <2>5 DEF CallerStep
<1>3. CASE OwnerStep
  BY <1>3 DEF OwnerStep, OwnerLock, SetQuitAndUnlock, NotifyAll, WakeAndJoin, JoinAll, Roles
<1>4. CASE Finished BY <1>4 DEF Finished, vars
<1>5. CASE UNCHANGED vars BY <1>5 DEF vars
<1> QED BY <1>1, <1>2, <1>3, <1>4, <1>5 DEF Next

\* Appending the next ticket, taking the head and dropping everything each
\* leave the queue an unbroken run of the youngest tickets.
LEMMA TicketsStep == ASSUME IInv, [Next]_vars PROVE NothingSkipped'
<1> USE DispatchQueueAssumption DEF IInv, TypeOK, NothingSkipped
<1>1. ASSUME NEW w \in Workers, TakeAndUnlock(w) PROVE NothingSkipped'
  <2>1. Len(queue) > 0 /\ Len(queue) \in Nat /\ Head(queue) = queue[1]
    BY <1>1 DEF TakeAndUnlock, Take
  <2>2. Len(Tail(queue)) = Len(queue) - 1 /\ Tail(queue) \in Seq(1..MaxOps)
    BY <1>1, <2>1 DEF TakeAndUnlock, Take
  <2>3. \A i \in 1..(Len(queue) - 1) : Tail(queue)[i] = queue[i + 1]
    BY <1>1, <2>1 DEF TakeAndUnlock, Take
  <2> QED BY <1>1, <2>1, <2>2, <2>3 DEF TakeAndUnlock, Take
<1>2. ASSUME NEW c \in Callers, PushAndUnlock(c) PROVE NothingSkipped'
  <2>1. Len(queue') = Len(queue) + 1 /\ Len(queue) \in Nat
    BY <1>2 DEF PushAndUnlock, Push
  <2>2. \A i \in 1..Len(queue) : queue'[i] = queue[i]
    BY <1>2 DEF PushAndUnlock, Push
  <2>3. queue'[Len(queue) + 1] = pushed + 1
    BY <1>2 DEF PushAndUnlock, Push
  <2>4. pushed' = pushed + 1 /\ lastStarted' = lastStarted
    BY <1>2 DEF PushAndUnlock, Push
  <2>5. \A i \in 1..Len(queue') : i \in 1..Len(queue) \/ i = Len(queue) + 1
    BY <2>1
  <2> QED BY <2>1, <2>2, <2>3, <2>4, <2>5
<1>3. ASSUME NEW c \in Callers, ClearAndUnlock(c) PROVE NothingSkipped'
  <2>1. Len(queue') = 0 BY <1>3 DEF ClearAndUnlock
  <2>2. lastStarted <= pushed BY SMT
  <2> QED BY <1>3, <2>1, <2>2 DEF ClearAndUnlock
<1>4. CASE UNCHANGED <<queue, pushed, lastStarted>> BY <1>4
<1> QED BY <1>1, <1>2, <1>3, <1>4 DEF Next, vars, WorkerStep, CallerStep, OwnerStep,
    WorkerLock, Sleep, Wait, SpuriousWake, FinishOp, LeaveLoop, LockToPush, NotifyOne,
    LockToClear, OwnerLock, SetQuitAndUnlock, NotifyAll, WakeAndJoin, JoinAll, Finished

\* The constructor leaves the queue in a state of IInv.
LEMMA InitInv == ASSUME Init PROVE IInv
<1> USE DispatchQueueAssumption DEF Init, Threads, Callers
<1>1. TypeOK
  <2>1. queue \in Seq(1..MaxOps) BY DEF Init
  <2>2. pushed \in 0..MaxOps /\ lastStarted \in 0..MaxOps BY DEF Init
  <2> QED BY <2>1, <2>2 DEF TypeOK, WorkerState, CallerState, OwnerState
<1>2. LockBalanced BY DEF LockBalanced, InCritical
<1>3. Roles BY DEF Roles
<1>4. NoLostWakeup BY DEF NoLostWakeup
<1>5. NobodySleepsThroughQuit BY DEF NobodySleepsThroughQuit, Sleepers
<1>6. NothingSkipped BY DEF NothingSkipped
<1> QED BY <1>1, <1>2, <1>3, <1>4, <1>5, <1>6 DEF IInv

\* The inductive invariant holds of every reachable state.
THEOREM Invariant == SafeSpec => []IInv
<1>0. Init => IInv BY InitInv
<1>1. IInv /\ [Next]_vars => IInv'
  BY TypeStep, LockStep, RolesStep, WakeupStep, TicketsStep DEF IInv
<1> QED BY <1>0, <1>1, PTL DEF SafeSpec

\* The type invariant, for any number of threads and operations.
THEOREM TypeCorrect == SafeSpec => []TypeOK
BY Invariant, PTL DEF IInv

\* The mutex is held exactly by the thread inside a critical section.
THEOREM MutexBalanced == SafeSpec => []LockBalanced
BY Invariant, PTL DEF IInv

\* No wake-up is lost between unlock() and notify_one().
THEOREM WakeupsKept == SafeSpec => []NoLostWakeup
BY Invariant, PTL DEF IInv

\* join() never waits for a sleeping worker.
THEOREM QuitWakesAll == SafeSpec => []NobodySleepsThroughQuit
BY Invariant, PTL DEF IInv

\* The queue is an unbroken run of the youngest operations.
THEOREM QueueUnbroken == SafeSpec => []NothingSkipped
BY Invariant, PTL DEF IInv

-----------------------------------------------------------------------------
\* What a step does to the operations the workers run: it starts the head of
\* the queue on a worker that ran none, ends one, or leaves them alone.
LEMMA OpStep ==
    ASSUME IInv, [Next]_vars,
           NEW w \in Workers, op'[w] \notin {op[w], Idle}
    PROVE  TakeAndUnlock(w)
<1> USE DispatchQueueAssumption DEF IInv, TypeOK
<1>1. CASE UNCHANGED op BY <1>1
<1>2. ASSUME NEW v \in Workers, FinishOp(v) PROVE FALSE BY <1>2 DEF FinishOp
<1>3. ASSUME NEW v \in Workers, TakeAndUnlock(v) PROVE TakeAndUnlock(w)
  BY <1>3 DEF TakeAndUnlock, Take
<1> QED BY <1>1, <1>2, <1>3 DEF Next, vars, WorkerStep, CallerStep, OwnerStep,
    WorkerLock, Sleep, Wait, SpuriousWake, LeaveLoop, LockToPush, PushAndUnlock, Push, NotifyOne,
    LockToClear, ClearAndUnlock, OwnerLock, SetQuitAndUnlock, NotifyAll, WakeAndJoin, JoinAll, Finished

\* Operations start oldest first, at most once each, on a free worker, and
\* never after quit.
THEOREM OrderedStarts == SafeSpec => StartsInOrder
<1> DEFINE InOrder == \A w \in Workers : op'[w] \notin {op[w], Idle} =>
                          op[w] = Idle /\ lastStarted < op'[w] /\ ~quit
<1>1. ASSUME IInv, [Next]_vars PROVE InOrder
  <2> SUFFICES ASSUME NEW w \in Workers, op'[w] \notin {op[w], Idle}
               PROVE  op[w] = Idle /\ lastStarted < op'[w] /\ ~quit
    OBVIOUS
  <2>1. TakeAndUnlock(w) BY <1>1, OpStep
  <2>2. op[w] = Idle BY <1>1, <2>1 DEF TakeAndUnlock, Take, IInv, Roles
  <2>3. op'[w] = queue[1] /\ Len(queue) >= 1
    BY <1>1, <2>1 DEF TakeAndUnlock, Take, IInv, TypeOK
  <2>4. lastStarted < queue[1] BY <1>1, <2>3 DEF IInv, TypeOK, NothingSkipped
  <2> QED BY <2>1, <2>2, <2>3, <2>4 DEF TakeAndUnlock, Take
<1> QED BY Invariant, <1>1, PTL DEF SafeSpec, StartsInOrder

-----------------------------------------------------------------------------
\* Every step of the threads is a step of the abstract queue or a stutter.
LEMMA StepSimulation == ASSUME IInv, [Next]_vars PROVE [Abstract!Next]_(Abstract!tqvars)
<1> USE DispatchQueueAssumption DEF IInv, TypeOK, Abstract!tqvars
<1>1. ASSUME NEW c \in Callers, PushAndUnlock(c) PROVE Abstract!Submit
  BY <1>1 DEF PushAndUnlock, Push, Abstract!Submit, Roles
<1>2. ASSUME NEW w \in Workers, TakeAndUnlock(w) PROVE Abstract!Start(w)
  BY <1>2 DEF TakeAndUnlock, Take, Abstract!Start, Roles
<1>3. ASSUME NEW w \in Workers, FinishOp(w) PROVE Abstract!Finish(w)
  BY <1>3 DEF FinishOp, Abstract!Finish, Roles
<1>4. ASSUME NEW c \in Callers, ClearAndUnlock(c) PROVE Abstract!Discard
  BY <1>4 DEF ClearAndUnlock, Abstract!Discard
<1>5. CASE SetQuitAndUnlock BY <1>5 DEF SetQuitAndUnlock, Abstract!Close, Abstract!Next
<1>6. CASE UNCHANGED <<pushed, queue, op, lastStarted, quit>> BY <1>6
<1> QED BY <1>1, <1>2, <1>3, <1>4, <1>5, <1>6 DEF Abstract!Next, Next, vars,
    WorkerStep, CallerStep, OwnerStep, WorkerLock, Sleep, Wait, SpuriousWake, LeaveLoop,
    LockToPush, NotifyOne, LockToClear, OwnerLock, NotifyAll, WakeAndJoin, JoinAll, Finished

\* The threads, the mutex and the condition variable implement the abstract
\* task queue.
THEOREM Implements == SafeSpec => ImplementsTaskQueue
<1>1. Init => Abstract!Init BY DEF Init, Abstract!Init
<1> QED BY <1>1, Invariant, StepSimulation, PTL
        DEF SafeSpec, ImplementsTaskQueue, Abstract!SafeSpec

-----------------------------------------------------------------------------
(* One wake-up for each operation that waits.                              *)

\* The workers on their way to the front of the queue, and the notifies to come.
Awake     == {w \in Workers : worker[w] \in {"acquire", "holding"}}
Notifying == {c \in Callers : caller[c] = "notify"}

\* While a worker sleeps, every queued operation has a worker on its way to it, or
\* a notify_one() that will send one.
EnoughAwake ==
    ~quit /\ Sleepers # {} => Len(queue) <= Cardinality(Awake) + Cardinality(Notifying)

\* What a step does to the two counts.
LEMMA Counts ==
    ASSUME IsFiniteSet(Workers), IsFiniteSet(Producers)
    PROVE  /\ Cardinality(Awake) \in Nat /\ Cardinality(Notifying) \in Nat
           /\ \A t : Cardinality(Awake \union {t}) =
                        IF t \in Awake THEN Cardinality(Awake) ELSE Cardinality(Awake) + 1
           /\ \A t : Cardinality(Awake \ {t}) =
                        IF t \in Awake THEN Cardinality(Awake) - 1 ELSE Cardinality(Awake)
           /\ \A t : Cardinality(Notifying \union {t}) =
                        IF t \in Notifying THEN Cardinality(Notifying)
                        ELSE Cardinality(Notifying) + 1
           /\ \A t : Cardinality(Notifying \ {t}) =
                        IF t \in Notifying THEN Cardinality(Notifying) - 1
                        ELSE Cardinality(Notifying)
<1>1. IsFiniteSet(Callers)
  BY FS_Union DEF Callers
<1>2. IsFiniteSet(Awake) /\ IsFiniteSet(Notifying)
  BY <1>1, FS_Subset DEF Awake, Notifying
<1> QED BY <1>2, FS_CardinalityType, FS_AddElement, FS_RemoveElement

\* A push brings its notify_one(), a notify_one() a worker, and a worker takes one
\* operation: no step leaves an operation behind while a worker sleeps.
LEMMA AwakeStep ==
    ASSUME IsFiniteSet(Workers), IsFiniteSet(Producers), IInv, EnoughAwake, [Next]_vars
    PROVE  EnoughAwake'
<1> DEFINE a == Cardinality(Awake)
           n == Cardinality(Notifying)
<1>1. /\ queue \in Seq(1..MaxOps) /\ Len(queue) \in Nat
      /\ worker \in [Workers -> WorkerState] /\ caller \in [Callers -> CallerState]
      /\ Workers \subseteq Callers
  BY DEF IInv, TypeOK, Callers
<1>2. /\ a \in Nat /\ n \in Nat
      /\ \A t : t \notin Awake => Cardinality(Awake \union {t}) = a + 1
      /\ \A t : t \in Awake => Cardinality(Awake \ {t}) = a - 1
      /\ \A t : t \notin Notifying => Cardinality(Notifying \union {t}) = n + 1
      /\ \A t : t \in Notifying => Cardinality(Notifying \ {t}) = n - 1
  BY Counts
<1> HIDE DEF a, n
<1>3. Cardinality(Awake') \in Nat /\ Cardinality(Notifying') \in Nat
  <2>1. IsFiniteSet(Callers)
    BY FS_Union DEF Callers
  <2>2. IsFiniteSet(Awake') /\ IsFiniteSet(Notifying')
    BY <2>1, FS_Subset DEF Awake, Notifying
  <2> QED BY <2>2, FS_CardinalityType
<1> DEFINE Kept == /\ (~quit' /\ Sleepers' # {} => ~quit /\ Sleepers # {})
                   /\ Len(queue') - Len(queue)
                         <= (Cardinality(Awake') - a) + (Cardinality(Notifying') - n)
                   /\ Len(queue') \in Nat
<1>4. ASSUME Kept PROVE EnoughAwake'
  <2>1. CASE ~quit /\ Sleepers # {}
    <3>1. Len(queue) <= a + n
      BY <2>1 DEF EnoughAwake, a, n
    <3>2. Len(queue') <= Cardinality(Awake') + Cardinality(Notifying')
      BY <1>1, <1>2, <1>4, <1>3, <3>1
    <3> QED BY <3>2 DEF EnoughAwake
  <2> QED BY <1>4, <2>1 DEF EnoughAwake
<1>5. CASE UNCHANGED <<worker, caller, queue, quit>>
  <2>1. Awake' = Awake /\ Notifying' = Notifying /\ Sleepers' = Sleepers
    BY <1>5 DEF Awake, Notifying, Sleepers
  <2> QED BY <1>5, <2>1 DEF EnoughAwake
<1>6. CASE quit' \/ queue' = <<>>
  <2>1. queue' = <<>> => Len(queue') = 0
    OBVIOUS
  <2> QED BY <1>6, <1>3, <2>1 DEF EnoughAwake
<1>7. ASSUME NEW w \in Workers, WorkerStep(w) PROVE EnoughAwake'
  <2>1. CASE WorkerLock(w)
    <3>1. Awake' = Awake /\ Notifying' = Notifying /\ Sleepers' = Sleepers
          /\ UNCHANGED <<quit, queue>>
      BY <1>1, <2>1 DEF WorkerLock, Awake, Notifying, Sleepers
    <3> QED BY <3>1 DEF EnoughAwake
  <2>2. CASE Sleep(w)
    BY <1>6, <2>2 DEF Sleep, Wait
  <2>3. CASE SpuriousWake(w)
    <3>1. /\ Awake' = Awake \union {w} /\ w \notin Awake /\ Notifying' = Notifying
          /\ Sleepers # {} /\ UNCHANGED <<quit, queue>>
      BY <1>1, <2>3 DEF SpuriousWake, Awake, Notifying, Sleepers
    <3>2. Kept
      BY <1>1, <1>2, <3>1 DEF n
    <3> QED BY <1>4, <3>2
  <2>4. CASE TakeAndUnlock(w)
    <3>1. /\ Awake' = Awake \ {w} /\ w \in Awake /\ Notifying' = Notifying
          /\ Sleepers' = Sleepers /\ UNCHANGED quit
      BY <1>1, <2>4 DEF TakeAndUnlock, Take, Awake, Notifying, Sleepers
    <3>2. Len(queue') = Len(queue) - 1 /\ Len(queue') \in Nat
      BY <1>1, <2>4 DEF TakeAndUnlock, Take
    <3>3. Kept
      BY <1>1, <1>2, <3>1, <3>2 DEF n
    <3> QED BY <1>4, <3>3
  <2>5. CASE FinishOp(w)
    <3>1. /\ Awake' = Awake \union {w} /\ w \notin Awake /\ Notifying' = Notifying
          /\ Sleepers' = Sleepers /\ UNCHANGED <<quit, queue>>
      BY <1>1, <2>5 DEF FinishOp, Awake, Notifying, Sleepers
    <3>2. Kept
      BY <1>1, <1>2, <3>1 DEF n
    <3> QED BY <1>4, <3>2
  <2>6. CASE LeaveLoop(w)
    BY <1>6, <2>6 DEF LeaveLoop
  <2> QED BY <1>7, <2>1, <2>2, <2>3, <2>4, <2>5, <2>6 DEF WorkerStep
<1>8. ASSUME NEW c \in Callers, CallerStep(c) PROVE EnoughAwake'
  <2>1. CASE LockToPush(c) \/ LockToClear(c)
    <3>1. Awake' = Awake /\ Notifying' = Notifying /\ Sleepers' = Sleepers
          /\ UNCHANGED <<quit, queue>>
      BY <1>1, <2>1 DEF LockToPush, LockToClear, CanCall, Awake, Notifying, Sleepers
    <3> QED BY <3>1 DEF EnoughAwake
  <2>2. CASE PushAndUnlock(c)
    <3>1. /\ Notifying' = Notifying \union {c} /\ c \notin Notifying /\ Awake' = Awake
          /\ Sleepers' = Sleepers /\ UNCHANGED quit
      BY <1>1, <2>2 DEF PushAndUnlock, Push, Awake, Notifying, Sleepers
    <3>2. Len(queue') = Len(queue) + 1 /\ Len(queue') \in Nat
      BY <1>1, <2>2 DEF PushAndUnlock, Push
    <3>3. Kept
      BY <1>1, <1>2, <3>1, <3>2 DEF a
    <3> QED BY <1>4, <3>3
  <2>3. CASE NotifyOne(c)
    <3>1. /\ Notifying' = Notifying \ {c} /\ c \in Notifying /\ UNCHANGED <<quit, queue>>
      BY <1>1, <2>3 DEF NotifyOne, Notifying
    <3>2. CASE Sleepers = {} /\ UNCHANGED worker
      BY <3>2 DEF EnoughAwake, Sleepers
    <3>3. ASSUME NEW w \in Sleepers, worker' = [worker EXCEPT ![w] = "acquire"]
          PROVE  EnoughAwake'
      <4>1. Awake' = Awake \union {w} /\ w \notin Awake /\ Sleepers # {}
        BY <1>1, <3>3 DEF Awake, Sleepers
      <4>2. Kept
        BY <1>1, <1>2, <3>1, <4>1
      <4> QED BY <1>4, <4>2
    <3> QED BY <2>3, <3>2, <3>3 DEF NotifyOne
  <2>4. CASE ClearAndUnlock(c)
    BY <1>6, <2>4 DEF ClearAndUnlock
  <2> QED BY <1>8, <2>1, <2>2, <2>3, <2>4 DEF CallerStep
<1>9. CASE OwnerStep
  <2>1. UNCHANGED <<worker, caller, queue, quit>> \/ quit'
    BY <1>9 DEF OwnerStep, OwnerLock, SetQuitAndUnlock, NotifyAll, WakeAndJoin, JoinAll,
                IInv, Roles
  <2> QED BY <1>5, <1>6, <2>1
<1>10. CASE Finished \/ UNCHANGED vars
  BY <1>5, <1>10 DEF Finished, vars
<1> QED BY <1>7, <1>8, <1>9, <1>10 DEF Next

\* notify_one() after each push is enough however many operations are queued and
\* workers asleep: none of the workers sleeps through an operation that nobody
\* else is on the way to.
THEOREM EveryOperationAwaited ==
    ASSUME IsFiniteSet(Workers), IsFiniteSet(Producers)
    PROVE  SafeSpec => []EnoughAwake
<1>1. Init => EnoughAwake
  BY DEF Init, EnoughAwake, Sleepers
<1>2. IInv /\ EnoughAwake /\ [Next]_vars => EnoughAwake'
  BY AwakeStep
<1> QED BY <1>1, <1>2, Invariant, PTL DEF SafeSpec

=============================================================================
