------------------------------ MODULE TaskQueue ------------------------------
(***************************************************************************)
(* What DispatchQueue (src/src/dispatchqueue.hpp) promises its users, with *)
(* no mutex and no condition variable in sight: operations handed over     *)
(* through dispatch() are started by the worker threads one at a time per  *)
(* worker, oldest first, each at most once, and none once the queue has    *)
(* been told to quit.                                                      *)
(*                                                                         *)
(* An operation is named by its ticket, the number of the dispatch() call  *)
(* that pushed it.                                                         *)
(***************************************************************************)
EXTENDS Naturals, Sequences

CONSTANTS Workers,   \* the dispatch threads
          MaxOps,    \* bound on the number of dispatch() calls
          Idle       \* what a worker runs when it runs nothing: no ticket

VARIABLES submitted,  \* number of operations submitted so far
          pending,    \* tickets submitted and not yet started, oldest first
          running,    \* the ticket each worker is executing
          lastStarted,\* the youngest ticket started so far (0: none)
          closed      \* the destructor has set quit

tqvars == <<submitted, pending, running, lastStarted, closed>>

Init ==
    /\ submitted = 0
    /\ pending = <<>>
    /\ running = [w \in Workers |-> Idle]
    /\ lastStarted = 0
    /\ closed = FALSE

Submit ==
    /\ submitted < MaxOps
    /\ submitted' = submitted + 1
    /\ pending' = Append(pending, submitted + 1)
    /\ UNCHANGED <<running, lastStarted, closed>>

Start(w) ==
    /\ ~closed
    /\ pending # <<>>
    /\ running[w] = Idle
    /\ running' = [running EXCEPT ![w] = Head(pending)]
    /\ lastStarted' = Head(pending)
    /\ pending' = Tail(pending)
    /\ UNCHANGED <<submitted, closed>>

Finish(w) ==
    /\ running[w] # Idle
    /\ running' = [running EXCEPT ![w] = Idle]
    /\ UNCHANGED <<submitted, pending, lastStarted, closed>>

Discard ==
    /\ pending' = <<>>
    /\ UNCHANGED <<submitted, running, lastStarted, closed>>

Close ==
    /\ closed' = TRUE
    /\ UNCHANGED <<submitted, pending, running, lastStarted>>

Next ==
    \/ Submit
    \/ \E w \in Workers : Start(w) \/ Finish(w)
    \/ Discard
    \/ Close

SafeSpec == Init /\ [][Next]_tqvars

\* An open queue with work in it does not leave all its workers idle forever,
\* and every operation returns.
Spec ==
    /\ SafeSpec
    /\ WF_tqvars(\E w \in Workers : Start(w))
    /\ \A w \in Workers : WF_tqvars(Finish(w))
=============================================================================
