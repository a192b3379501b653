---------------------------- MODULE SessionsProofs ----------------------------
(***************************************************************************)
(* Proofs about the map of clients, for any number of pages and of peer    *)
(* connections: whose entry it holds, that the removal of a lost client is *)
(* always on its way, that nothing else is removed, and that the answer of *)
(* a page finds the connection it was offered.  They also show that the    *)
(* sessions use the queue as TaskQueue allows, and that the bounds of the  *)
(* model block nothing.                                                    *)
(***************************************************************************)
EXTENDS Sessions, FiniteSetTheorems, FunctionTheorems, SequenceTheorems, TLAPS

\* A callback knows its client's id, and runs for a peer connection there is.
Known ==
    \A p \in Pcs :
        /\ pcState[p] # "none" => pcId[p] \in Ids
        /\ callback[p] # "idle" => pcState[p] # "none"

\* No ticket is queued twice, nor queued while it is executed.
Tickets ==
    /\ executing[Main] <= dispatched
    /\ \A k \in DOMAIN waiting :
          waiting[k] <= dispatched /\ waiting[k] # executing[Main]
    /\ \A j, k \in DOMAIN waiting : j # k => waiting[j] # waiting[k]

MapInv == Known /\ Tickets /\ EntryOwnsId /\ LostClientHasErase /\ ClosedDoesNotDrive
IInv   == TypeOK /\ MapInv

-----------------------------------------------------------------------------
(* The queue of MainThread.                                                *)

\* A dispatch() queues a new ticket, and leaves the others as they are.
LEMMA Queued ==
    ASSUME TypeOK, Tickets, NEW operation \in Ops, Dispatch(operation)
    PROVE  /\ dispatched' \in 0..MaxOps /\ waiting' \in Seq(1..MaxOps)
           /\ ops' \in [1..MaxOps -> Ops]
           /\ UNCHANGED <<executing, lastStarted, crashed>>
           /\ Tickets'
           /\ \A k \in DOMAIN waiting :
                 k \in DOMAIN waiting' /\ waiting'[k] = waiting[k]
                 /\ ops'[waiting'[k]] = ops[waiting[k]]
           /\ \E k \in DOMAIN waiting' : ops'[waiting'[k]] = operation
<1> DEFINE new == dispatched + 1
<1>0. /\ MaxOps \in Nat /\ dispatched \in 0..MaxOps /\ waiting \in Seq(1..MaxOps)
      /\ executing[Main] \in 0..MaxOps /\ ops \in [1..MaxOps -> Ops]
  BY SessionsAssumption DEF TypeOK
<1>1. /\ new \in 1..MaxOps /\ dispatched' = new /\ waiting' = Append(waiting, new)
      /\ UNCHANGED <<executing, lastStarted, crashed>>
      /\ ops' = [ops EXCEPT ![new] = operation]
  BY <1>0 DEF Dispatch, MainThread!Submit
<1>2. /\ waiting' \in Seq(1..MaxOps) /\ Len(waiting') = Len(waiting) + 1
      /\ \A k \in 1..Len(waiting) : waiting'[k] = waiting[k]
      /\ waiting'[Len(waiting) + 1] = new
  BY <1>0, <1>1, AppendProperties
<1>3. /\ DOMAIN waiting = 1..Len(waiting) /\ DOMAIN waiting' = 1..(Len(waiting) + 1)
      /\ Len(waiting) \in Nat
  BY <1>0, <1>2
<1>4. \A k \in 1..Len(waiting) : waiting[k] \in 1..MaxOps
  BY <1>0, ElementOfSeq
<1>5. /\ executing[Main] <= dispatched
      /\ \A k \in 1..Len(waiting) : waiting[k] <= dispatched /\ waiting[k] # executing[Main]
      /\ \A j, k \in 1..Len(waiting) : j # k => waiting[j] # waiting[k]
  BY <1>3 DEF Tickets
<1>6. /\ new # executing[Main] /\ executing[Main] <= new
      /\ \A k \in 1..Len(waiting) : waiting[k] # new /\ waiting[k] <= new
  BY <1>0, <1>4, <1>5
<1> HIDE DEF new
<1>7. ops' \in [1..MaxOps -> Ops] /\ dispatched' \in 0..MaxOps
  BY <1>0, <1>1
<1>8. \A k \in 1..Len(waiting) : ops'[waiting'[k]] = ops[waiting[k]]
  BY <1>0, <1>1, <1>2, <1>4, <1>6
<1>9. ops'[waiting'[Len(waiting) + 1]] = operation
  BY <1>0, <1>1, <1>2
<1>10. Tickets'
  <2>1. \A k \in 1..(Len(waiting) + 1) : k \in 1..Len(waiting) \/ k = Len(waiting) + 1
    BY <1>3
  <2>2. new <= new
    BY <1>0, <1>1
  <2> QED BY <1>1, <1>2, <1>3, <1>5, <1>6, <2>1, <2>2 DEF Tickets
<1> QED
  BY <1>1, <1>2, <1>3, <1>7, <1>8, <1>9, <1>10

\* MainThread starts the oldest operation; the others stay as they are.
LEMMA Started ==
    ASSUME TypeOK, Tickets, MainThread!Start(Main), UNCHANGED ops
    PROVE  /\ waiting # <<>> /\ Head(waiting) \in 1..MaxOps
           /\ waiting' \in Seq(1..MaxOps) /\ executing' \in [{Main} -> 0..MaxOps]
           /\ lastStarted' \in 0..MaxOps
           /\ UNCHANGED <<dispatched, crashed>>
           /\ Tickets'
           /\ \A k \in DOMAIN waiting :
                 \/ waiting[k] = Head(waiting)
                 \/ \E j \in DOMAIN waiting' : waiting'[j] = waiting[k]
<1>0. /\ MaxOps \in Nat /\ dispatched \in 0..MaxOps /\ waiting \in Seq(1..MaxOps)
      /\ executing \in [{Main} -> 0..MaxOps]
  BY SessionsAssumption DEF TypeOK
<1>1. /\ waiting # <<>> /\ waiting' = Tail(waiting) /\ lastStarted' = Head(waiting)
      /\ executing' = [executing EXCEPT ![Main] = Head(waiting)]
      /\ UNCHANGED <<dispatched, crashed>>
  BY DEF MainThread!Start
<1>2. /\ Head(waiting) \in 1..MaxOps /\ Tail(waiting) \in Seq(1..MaxOps)
      /\ Len(Tail(waiting)) = Len(waiting) - 1
      /\ \A k \in 1..Len(Tail(waiting)) : Tail(waiting)[k] = waiting[k + 1]
      /\ Head(waiting) = waiting[1]
  BY <1>0, <1>1, HeadTailProperties
<1>3. /\ Len(waiting) \in Nat \ {0} /\ DOMAIN waiting = 1..Len(waiting)
      /\ DOMAIN waiting' = 1..(Len(waiting) - 1)
  BY <1>0, <1>1, <1>2, EmptySeq
<1>4. /\ \A k \in 1..Len(waiting) : waiting[k] <= dispatched
      /\ \A j, k \in 1..Len(waiting) : j # k => waiting[j] # waiting[k]
  BY <1>3 DEF Tickets
<1>5. executing'[Main] = Head(waiting) /\ executing' \in [{Main} -> 0..MaxOps]
  BY <1>0, <1>1, <1>2
<1>6. \A k \in 1..(Len(waiting) - 1) :
         waiting'[k] = waiting[k + 1] /\ k + 1 \in 1..Len(waiting) /\ k + 1 # 1
  BY <1>1, <1>2, <1>3
<1>7. Tickets'
  <2>1. 1 \in 1..Len(waiting)
    BY <1>3
  <2>2. \A j, k \in 1..(Len(waiting) - 1) : j # k => j + 1 # k + 1
    BY <1>3
  <2> QED BY <1>1, <1>2, <1>3, <1>4, <1>5, <1>6, <2>1, <2>2 DEF Tickets
<1>8. ASSUME NEW k \in DOMAIN waiting
      PROVE  waiting[k] = Head(waiting) \/ \E j \in DOMAIN waiting' : waiting'[j] = waiting[k]
  <2>1. CASE k = 1
    BY <1>2, <2>1
  <2>2. CASE k # 1
    <3>1. k - 1 \in DOMAIN waiting' /\ (k - 1) + 1 = k
      BY <1>3, <2>2
    <3> QED BY <1>3, <1>6, <3>1
  <2> QED BY <2>1, <2>2
<1> QED BY <1>1, <1>2, <1>5, <1>7, <1>8

-----------------------------------------------------------------------------
(* The removal on its way.                                                 *)

\* A removal stays on its way while its callback and its ticket stay.
LEMMA ComingKept ==
    ASSUME NEW i \in Ids, EraseComing(i), DOMAIN waiting = 1..Len(waiting),
           DOMAIN waiting' = 1..Len(waiting'),
           \A p \in Pcs : callback[p] = "erase" /\ pcId[p] = i
               => \/ callback'[p] = "erase" /\ pcId'[p] = i
                  \/ \E k \in DOMAIN waiting' : ops'[waiting'[k]] = Erase(i),
           \A k \in DOMAIN waiting : ops[waiting[k]] = Erase(i)
               => \E j \in DOMAIN waiting' : ops'[waiting'[j]] = Erase(i)
    PROVE  EraseComing(i)'
BY DEF EraseComing

-----------------------------------------------------------------------------
(* The types.                                                              *)

\* The operations that are handed over.
LEMMA Operations ==
    /\ NoOp \in Ops
    /\ \A i \in Ids : Erase(i) \in Ops /\ Erase(i).op = "erase" /\ Erase(i).id = i
    /\ \A p \in Pcs : Add(p) \in Ops /\ Add(p).op = "addToStream"
    /\ \A i \in Ids, p \in Pcs : Erase(i) # Add(p) /\ Erase(i) # NoOp
    /\ \A i, j \in Ids : i # j => Erase(i) # Erase(j)
    /\ \A o \in Ops : o.op = "addToStream" => o.pc \in Pcs
<1>1. /\ NoOp.op = "none"
      /\ \A i : Erase(i).op = "erase" /\ Erase(i).id = i
      /\ \A p : Add(p).op = "addToStream" /\ Add(p).pc = p
  BY DEF NoOp, Erase, Add
<1>2. /\ NoOp \in Ops
      /\ \A i \in Ids : Erase(i) \in Ops
      /\ \A p \in Pcs : Add(p) \in Ops
  BY DEF Ops
<1>3. /\ \A i \in Ids, p \in Pcs : Erase(i) # Add(p)
      /\ \A i \in Ids : Erase(i) # NoOp
      /\ \A i, j \in Ids : i # j => Erase(i) # Erase(j)
  BY <1>1
<1>4. \A o \in Ops : o.op = "addToStream" => o.pc \in Pcs
  BY <1>1 DEF Ops
<1> QED BY <1>1, <1>2, <1>3, <1>4

\* The initial state.
LEMMA InitInv == Init => IInv
<1> SUFFICES ASSUME Init PROVE IInv
  OBVIOUS
<1> USE SessionsAssumption
<1>1. /\ waiting = <<>> /\ dispatched = 0 /\ lastStarted = 0
      /\ executing = [w \in {Main} |-> 0] /\ crashed = FALSE
  BY DEF Init, MainThread!Init
<1>2. waiting \in Seq(1..MaxOps) /\ DOMAIN waiting = {}
  BY <1>1
<1>4. TypeOK
  <2>1. /\ inbox \in [Ids -> Seq({"request", "answer"})]
        /\ outbox \in [Ids -> Seq({"offer"})]
        /\ loaded \in SUBSET Ids
        /\ asked \in SUBSET Ids
    BY DEF Init
  <2>2. /\ pcState \in [Pcs -> PcStates]
        /\ trackOpen \in SUBSET Pcs
        /\ clients \in [Ids -> Pcs \union {NoPc}]
        /\ pcId \in [Pcs -> Ids \union {NoId}]
        /\ gathering \in [Pcs -> {"new", "inprogress", "complete"}]
        /\ clientState \in [Pcs -> {"Waiting", "Ready"}]
        /\ callback \in [Pcs -> {"idle", "erase", "neutral"}]
    BY DEF Init, PcStates
  <2>3. /\ signaling \in Ids \union {NoId}
        /\ gpio \in {"starting", "ready", "failed"}
        /\ throttle \in Pcs \union {NoPc}
        /\ locked \in Pcs \union {NoPc}
        /\ camera \in [id : Ids \union {NoId}, pc : Pcs \union {NoPc}, passed : SUBSET Ids]
    BY DEF Init, NoFrame
  <2>4. handler \in [Ids -> [step : {"idle", "create", "emplaced", "describe"},
                             pc : Pcs \union {NoPc}]]
    BY DEF Init, Resting
  <2>5. dispatched \in 0..MaxOps /\ lastStarted \in 0..MaxOps
    BY <1>1
  <2>8. crashed \in BOOLEAN
    BY <1>1
  <2>7. executing \in [{Main} -> 0..MaxOps]
    BY <1>1
  <2>6. ops \in [1..MaxOps -> Ops]
    BY Operations DEF Init
  <2> QED BY <1>2, <2>1, <2>2, <2>3, <2>4, <2>5, <2>6, <2>7, <2>8 DEF TypeOK
<1>5. Known /\ EntryOwnsId /\ LostClientHasErase /\ ClosedDoesNotDrive
  BY DEF Init, Known, EntryOwnsId, LostClientHasErase, ClosedDoesNotDrive
<1>6. Tickets
  BY <1>1, <1>2 DEF Tickets
<1> QED BY <1>4, <1>5, <1>6 DEF IInv, MapInv

\* The types after a step of a page or of its handler.
LEMMA TypesPage ==
    ASSUME IInv, NEW i \in Ids, Page(i) \/ Handler(i)
    PROVE  TypeOK'
<1> USE SessionsAssumption DEF IInv, envVars, pcVars, queueVars, motorVars
<1>1. CASE OpenPage(i)
  BY <1>1 DEF OpenPage, TypeOK
<1>2. CASE SendRequest(i)
  <2>1. Append(inbox[i], "request") \in Seq({"request", "answer"})
    <3>1. inbox[i] \in Seq({"request", "answer"})
      BY DEF TypeOK
    <3> QED BY <3>1
  <2> QED BY <1>2, <2>1 DEF SendRequest, TypeOK
<1>3. CASE AnswerOffer(i)
  <2>1. outbox[i] \in Seq({"offer"}) /\ outbox[i] # <<>> /\ inbox[i] \in Seq({"request", "answer"})
    BY <1>3 DEF AnswerOffer, TypeOK
  <2>2. /\ Tail(outbox[i]) \in Seq({"offer"})
        /\ Append(inbox[i], "answer") \in Seq({"request", "answer"})
    BY <2>1
  <2> QED BY <1>3, <2>2 DEF AnswerOffer, TypeOK
<1>4. CASE Receive(i)
  <2>1. /\ inbox[i] \in Seq({"request", "answer"}) /\ inbox[i] # <<>>
        /\ clients[i] \in Pcs \union {NoPc}
    BY <1>4 DEF Receive, TypeOK
  <2>2. Tail(inbox[i]) \in Seq({"request", "answer"})
    BY <2>1
  <2>3. handler' \in [Ids -> [step : {"idle", "create", "emplaced", "describe"},
                              pc : Pcs \union {NoPc}]]
    BY <1>4, <2>1 DEF Receive, TypeOK, Resting
  <2>4. inbox' \in [Ids -> Seq({"request", "answer"})]
    BY <1>4, <2>2 DEF Receive, TypeOK
  <2> QED BY <1>4, <2>3, <2>4 DEF Receive, TypeOK
<1>5. CASE Create(i)
  BY <1>5 DEF Create, TypeOK, PcStates
<1>6. CASE Negotiate(i)
  BY <1>6 DEF Negotiate, TypeOK, Resting
<1>7. CASE Describe(i)
  <2>1. CASE Crash
    BY <2>1 DEF Crash, TypeOK
  <2>3. CASE ~Crash
    <3>1. /\ handler' = [handler EXCEPT ![i] = Resting]
          /\ \/ pcState' = [pcState EXCEPT ![handler[i].pc] = "connecting"]
             \/ pcState' = pcState
          /\ UNCHANGED <<envVars, trackOpen, gathering, pcId, clients, clientState,
                         signaling, callback, camera, motorVars, crashed, queueVars, locked>>
      BY <1>7, <2>3 DEF Describe
    <3>2. handler' \in [Ids -> [step : {"idle", "create", "emplaced", "describe"},
                                pc : Pcs \union {NoPc}]]
      BY <3>1 DEF TypeOK, Resting
    <3>3. pcState' \in [Pcs -> PcStates]
      BY <3>1 DEF TypeOK, PcStates
    <3> QED BY <3>1, <3>2, <3>3 DEF TypeOK
  <2> QED BY <2>1, <2>3
<1> QED
  BY <1>1, <1>2, <1>3, <1>4, <1>5, <1>6, <1>7 DEF Page, Handler

\* The types after a step of the library.
LEMMA TypesLibrary ==
    ASSUME IInv, NEW p \in Pcs, Library(p)
    PROVE  TypeOK'
<1> USE SessionsAssumption DEF IInv, envVars, pcVars, queueVars, motorVars
<1>0. pcState[p] # "none" => pcId[p] \in Ids
  BY DEF MapInv, Known
<1>7. Crash => TypeOK'
  BY DEF Crash, TypeOK
<1>1. CASE GatheringComplete(p)
  <2>1. outbox' \in [Ids -> Seq({"offer"})]
    <3>1. CASE outbox' = outbox
      BY <3>1 DEF TypeOK
    <3>2. CASE outbox' # outbox
      <4>1. pcId[p] \in Ids /\ outbox' = [outbox EXCEPT ![pcId[p]] = Append(@, "offer")]
        BY <1>0, <1>1, <3>2 DEF GatheringComplete
      <4>2. Append(outbox[pcId[p]], "offer") \in Seq({"offer"})
        BY <4>1 DEF TypeOK
      <4> QED BY <4>1, <4>2 DEF TypeOK
    <3> QED BY <3>1, <3>2
  <2> QED BY <1>1, <2>1 DEF GatheringComplete, TypeOK
<1>2. CASE DispatchErase(p)
  <2>1. pcId[p] \in Ids
    BY <1>2 DEF DispatchErase, MapInv, Known
  <2>2. /\ dispatched' \in 0..MaxOps /\ waiting' \in Seq(1..MaxOps)
        /\ ops' \in [1..MaxOps -> Ops]
        /\ UNCHANGED <<executing, lastStarted, crashed>>
    BY <1>2, <2>1, Operations, Queued DEF DispatchErase, MapInv
  <2> QED BY <1>2, <2>2 DEF DispatchErase, TypeOK
<1>3. CASE StopMotor(p)
  <2>1. CASE ~Crash
    <3>1. /\ throttle' = NoPc /\ callback' = [callback EXCEPT ![p] = "idle"]
          /\ UNCHANGED <<envVars, pcVars, clients, clientState, signaling, handler, camera,
                         gpio, crashed, queueVars, locked>>
      BY <1>3, <2>1 DEF StopMotor
    <3> QED BY <3>1 DEF TypeOK
  <2> QED BY <1>7, <2>1
<1>4. CASE OpenTrack(p)
  <2>1. /\ dispatched' \in 0..MaxOps /\ waiting' \in Seq(1..MaxOps)
        /\ ops' \in [1..MaxOps -> Ops]
        /\ UNCHANGED <<executing, lastStarted, crashed>>
    BY <1>4, Operations, Queued DEF OpenTrack, MapInv
  <2> QED BY <1>4, <2>1 DEF OpenTrack, TypeOK
<1>5. CASE Drive(p)
  <2>1. CASE ~Crash
    <3>1. /\ throttle' \in Pcs \union {NoPc}
          /\ UNCHANGED <<envVars, pcVars, clients, clientState, signaling, handler, callback,
                         camera, gpio, crashed, queueVars, locked>>
      BY <1>5, <2>1 DEF Drive
    <3> QED BY <3>1 DEF TypeOK
  <2> QED BY <1>7, <2>1
<1>6. ASSUME NEW s \in PcStates, ReportState(p, s) PROVE TypeOK'
  BY <1>6 DEF ReportState, Report, TypeOK
<1> QED
  BY <1>1, <1>2, <1>3, <1>4, <1>5, <1>6 DEF Library

\* The types after a step of MainThread, of the camera or of main.
LEMMA TypesRest ==
    ASSUME IInv, MainOp \/ Camera \/ InitGpio \/ Rest
    PROVE  TypeOK'
<1> USE SessionsAssumption DEF IInv, envVars, pcVars, queueVars, motorVars
<1>1. CASE RunErase \/ RunAddToStream
  <2>1. MainThread!Start(Main) /\ UNCHANGED ops
    BY <1>1 DEF RunErase, RunAddToStream
  <2>2. /\ waiting # <<>> /\ Head(waiting) \in 1..MaxOps
        /\ waiting' \in Seq(1..MaxOps) /\ executing' \in [{Main} -> 0..MaxOps]
        /\ lastStarted' \in 0..MaxOps
        /\ UNCHANGED <<dispatched, crashed>>
    BY <2>1, Started DEF MapInv
  <2>3. clients' \in [Ids -> Pcs \union {NoPc}]
    BY <1>1 DEF RunErase, RunAddToStream, TypeOK
  <2>4. CASE RunErase
    BY <2>2, <2>3, <2>4 DEF RunErase, TypeOK
  <2>5. CASE RunAddToStream
    <3>1. ops[Head(waiting)] \in Ops
      BY <2>2 DEF TypeOK
    <3>2. ops[Head(waiting)].pc \in Pcs
      <4>1. ops[Head(waiting)].op = "addToStream"
        BY <2>5 DEF RunAddToStream
      <4> QED BY <3>1, <4>1, Operations
    <3>3. locked' \in Pcs \union {NoPc} /\ clientState' \in [Pcs -> {"Waiting", "Ready"}]
      BY <2>5, <3>2 DEF RunAddToStream, TypeOK
    <3> QED BY <2>2, <2>3, <2>5, <3>3 DEF RunAddToStream, TypeOK
  <2> QED BY <1>1, <2>4, <2>5
<1>2. CASE FinishOp
  <2>1. /\ executing' = [executing EXCEPT ![Main] = 0]
        /\ UNCHANGED <<dispatched, waiting, lastStarted, crashed>>
    BY <1>2 DEF FinishOp, MainThread!Finish
  <2>2. ops' \in [1..MaxOps -> Ops]
    BY <1>2, Operations DEF FinishOp, TypeOK
  <2>3. executing' \in [{Main} -> 0..MaxOps]
    BY <2>1 DEF TypeOK
  <2> QED BY <1>2, <2>1, <2>2, <2>3 DEF FinishOp, TypeOK
<1>3. CASE Camera
  <2>1. ASSUME NEW i \in Ids, VisitClient(i) PROVE TypeOK'
    <3>1. camera' \in [id : Ids \union {NoId}, pc : Pcs \union {NoPc}, passed : SUBSET Ids]
      BY <2>1 DEF VisitClient, TypeOK
    <3> QED BY <2>1, <3>1 DEF VisitClient, TypeOK
  <2>2. CASE EndFrame
    BY <2>2 DEF EndFrame, TypeOK, NoFrame
  <2>3. CASE DanglingRead
    BY <2>3 DEF DanglingRead, Crash, TypeOK
  <2> QED BY <1>3, <2>1, <2>2, <2>3 DEF Camera
<1>4. CASE InitGpio
  BY <1>4 DEF InitGpio, TypeOK
<1>5. CASE Rest
  BY <1>5 DEF Rest, vars, TypeOK
<1> QED
  BY <1>1, <1>2, <1>3, <1>4, <1>5 DEF MainOp

-----------------------------------------------------------------------------
(* The map and the removals.                                               *)

\* A step that moves neither the map, nor a connection, nor a removal.
LEMMA Unmoved ==
    ASSUME IInv, TypeOK',
           UNCHANGED <<clients, pcState, pcId, callback, waiting, ops, executing, dispatched>>,
           throttle' = throttle \/ throttle' = NoPc, crashed' = crashed \/ crashed' = TRUE
    PROVE  MapInv'
<1> USE SessionsAssumption DEF IInv, MapInv
<1>1. Known' /\ Tickets' /\ EntryOwnsId'
  BY DEF Known, Tickets, EntryOwnsId
<1>2. LostClientHasErase'
  BY DEF LostClientHasErase, EraseComing
<1>3. ClosedDoesNotDrive'
  BY DEF ClosedDoesNotDrive
<1> QED BY <1>1, <1>2, <1>3

\* A step that changes the queue of MainThread in no way.
LEMMA SameQueue ==
    ASSUME IInv, UNCHANGED queueVars
    PROVE  /\ Tickets' /\ DOMAIN waiting' = 1..Len(waiting')
           /\ \A i \in Ids :
                 /\ EraseComing(i)
                 /\ \A p \in Pcs : callback[p] = "erase" /\ pcId[p] = i
                       => callback'[p] = "erase" /\ pcId'[p] = i
                 => EraseComing(i)'
<1>1. waiting \in Seq(1..MaxOps) /\ Tickets
  BY DEF IInv, MapInv, TypeOK
<1> QED BY <1>1 DEF queueVars, Tickets, EraseComing

\* Create: the connection is new, and the map takes it under its own id.
LEMMA MapCreate ==
    ASSUME IInv, NEW i \in Ids, Create(i)
    PROVE  MapInv'
<1> USE SessionsAssumption DEF IInv, MapInv
<1>0. /\ clients \in [Ids -> Pcs \union {NoPc}] /\ pcState \in [Pcs -> PcStates]
      /\ pcId \in [Pcs -> Ids \union {NoId}] /\ callback \in [Pcs -> {"idle", "erase", "neutral"}]
  BY DEF TypeOK
<1>1. PICK p \in Pcs :
          /\ pcState[p] = "none"
          /\ pcState' = [pcState EXCEPT ![p] = "new"]
          /\ pcId' = [pcId EXCEPT ![p] = i]
          /\ clients' = IF clients[i] = NoPc THEN [clients EXCEPT ![i] = p] ELSE clients
  BY DEF Create
<1>2. UNCHANGED <<callback, queueVars, throttle, crashed>>
  BY DEF Create, motorVars
<1>3. /\ pcState'[p] = "new" /\ pcId'[p] = i /\ callback[p] = "idle"
      /\ \A q \in Pcs \ {p} : pcState'[q] = pcState[q] /\ pcId'[q] = pcId[q]
      /\ \A j \in Ids : \/ clients'[j] = clients[j] /\ clients'[j] # p
                        \/ clients'[j] = p /\ j = i
  <2>1. \A j \in Ids : clients[j] # p
    BY <1>1 DEF EntryOwnsId
  <2> QED BY <1>0, <1>1, <2>1 DEF Known
<1>4. Known'
  BY <1>2, <1>3 DEF Known
<1>5. Tickets' /\ \A j \in Ids : EraseComing(j) => EraseComing(j)'
  BY <1>2, <1>3, SameQueue
<1>6. EntryOwnsId'
  BY <1>0, <1>3 DEF EntryOwnsId
<1>7. LostClientHasErase'
  <2> SUFFICES ASSUME NEW j \in Ids, clients'[j] # NoPc, pcState'[clients'[j]] \in Down
               PROVE  EraseComing(j)'
    BY DEF LostClientHasErase
  <2>1. clients'[j] # p
    BY <1>3 DEF Down
  <2>2. clients'[j] = clients[j] /\ clients[j] \in Pcs \ {p}
    BY <1>0, <1>3, <2>1
  <2> QED BY <1>3, <1>5, <2>2 DEF LostClientHasErase
<1>8. ClosedDoesNotDrive'
  BY <1>2, <1>3 DEF ClosedDoesNotDrive
<1> QED BY <1>4, <1>5, <1>6, <1>7, <1>8

\* ReportState, and an answer that is applied: a connection that is lost has
\* its removal in the callback.
LEMMA MapState ==
    ASSUME IInv, NEW p \in Pcs, NEW s \in PcStates \ {"none"},
           pcState[p] # "none", pcState' = [pcState EXCEPT ![p] = s],
           \/ s \in Down /\ callback' = [callback EXCEPT ![p] = "erase"]
           \/ s \notin Down /\ UNCHANGED callback,
           UNCHANGED <<clients, pcId, queueVars, throttle, crashed>>
    PROVE  MapInv'
<1> USE SessionsAssumption DEF IInv, MapInv
<1>0. /\ clients \in [Ids -> Pcs \union {NoPc}] /\ pcState \in [Pcs -> PcStates]
      /\ pcId \in [Pcs -> Ids \union {NoId}] /\ callback \in [Pcs -> {"idle", "erase", "neutral"}]
  BY DEF TypeOK
<1>1. /\ pcState'[p] = s
      /\ \A q \in Pcs \ {p} : pcState'[q] = pcState[q] /\ callback'[q] = callback[q]
      /\ callback'[p] = "erase" \/ (callback'[p] = callback[p] /\ s \notin Down)
  BY <1>0
<1>2. Known'
  BY <1>1 DEF Known
<1>3. Tickets' /\ DOMAIN waiting' = 1..Len(waiting')
      /\ \A j \in Ids : EraseComing(j) => EraseComing(j)'
  BY <1>1, SameQueue
<1>4. EntryOwnsId'
  BY <1>0, <1>1 DEF EntryOwnsId
<1>5. LostClientHasErase'
  <2> SUFFICES ASSUME NEW j \in Ids, clients'[j] # NoPc, pcState'[clients'[j]] \in Down
               PROVE  EraseComing(j)'
    BY DEF LostClientHasErase
  <2>1. clients'[j] = clients[j] /\ clients[j] \in Pcs /\ pcId[clients[j]] = j
    BY <1>0 DEF EntryOwnsId
  <2>2. CASE clients[j] = p
    BY <1>1, <2>1, <2>2 DEF EraseComing
  <2>3. CASE clients[j] # p
    BY <1>1, <1>3, <2>1, <2>3 DEF LostClientHasErase
  <2> QED BY <2>2, <2>3
<1>6. ClosedDoesNotDrive'
  BY <1>1 DEF ClosedDoesNotDrive, Down
<1> QED BY <1>2, <1>3, <1>4, <1>5, <1>6

\* An operation is handed over; a callback may go on to the motor once its
\* removal is queued.
LEMMA MapDispatch ==
    ASSUME IInv, NEW p \in Pcs, DispatchErase(p) \/ OpenTrack(p)
    PROVE  MapInv'
<1> USE SessionsAssumption DEF IInv, MapInv
<1>0. /\ callback \in [Pcs -> {"idle", "erase", "neutral"}] /\ waiting \in Seq(1..MaxOps)
      /\ clients \in [Ids -> Pcs \union {NoPc}]
  BY DEF TypeOK
<1>1. PICK operation \in Ops :
          /\ Dispatch(operation)
          /\ \/ operation = Erase(pcId[p]) /\ callback' = [callback EXCEPT ![p] = "neutral"]
             \/ callback' = callback
  <2>1. DispatchErase(p) => pcId[p] \in Ids
    BY DEF DispatchErase, Known
  <2> QED BY <2>1, Operations DEF DispatchErase, OpenTrack
<1>2. UNCHANGED <<clients, pcState, pcId, throttle>>
  BY DEF DispatchErase, OpenTrack, pcVars, motorVars
<1>3. /\ UNCHANGED crashed /\ Tickets' /\ waiting' \in Seq(1..MaxOps)
      /\ \A k \in DOMAIN waiting :
            k \in DOMAIN waiting' /\ ops'[waiting'[k]] = ops[waiting[k]]
      /\ \E k \in DOMAIN waiting' : ops'[waiting'[k]] = operation
  BY <1>1, Queued
<1>4. \A q \in Pcs : 
        callback'[q] = callback[q] \/ (callback'[q] = "neutral" /\ callback[q] # "idle")
  <2>1. callback' = callback \/ DispatchErase(p)
    BY DEF DispatchErase, OpenTrack
  <2> QED BY <1>0, <2>1 DEF DispatchErase
<1>5. ASSUME NEW i \in Ids, EraseComing(i) PROVE EraseComing(i)'
  <2>1. DOMAIN waiting = 1..Len(waiting) /\ DOMAIN waiting' = 1..Len(waiting')
    BY <1>0, <1>3
  <2>2. \A q \in Pcs : callback[q] = "erase" /\ pcId[q] = i
            => \/ callback'[q] = "erase" /\ pcId'[q] = i
               \/ \E k \in DOMAIN waiting' : ops'[waiting'[k]] = Erase(i)
    BY <1>0, <1>1, <1>2, <1>3
  <2>3. \A k \in DOMAIN waiting : ops[waiting[k]] = Erase(i)
            => \E j \in DOMAIN waiting' : ops'[waiting'[j]] = Erase(i)
    BY <1>3
  <2> QED BY <1>5, <2>1, <2>2, <2>3, ComingKept
<1>6. Known' /\ EntryOwnsId'
  BY <1>2, <1>4 DEF Known, EntryOwnsId
<1>7. LostClientHasErase'
  BY <1>2, <1>5 DEF LostClientHasErase
<1>8. ClosedDoesNotDrive'
  BY <1>2, <1>3, <1>4 DEF ClosedDoesNotDrive
<1> QED BY <1>3, <1>6, <1>7, <1>8

\* MainThread starts an operation: a removal leaves the queue with its entry.
LEMMA MapStart ==
    ASSUME IInv, TypeOK', RunErase \/ RunAddToStream
    PROVE  MapInv'
<1> USE SessionsAssumption DEF IInv, MapInv
<1> DEFINE first == Head(waiting)
<1>0. /\ ops \in [1..MaxOps -> Ops] /\ waiting \in Seq(1..MaxOps) /\ waiting' \in Seq(1..MaxOps)
      /\ clients \in [Ids -> Pcs \union {NoPc}]
  BY DEF TypeOK
<1>1. MainThread!Start(Main) /\ UNCHANGED <<ops, pcState, pcId, callback, throttle>>
  BY DEF RunErase, RunAddToStream, pcVars, motorVars
<1>2. /\ UNCHANGED crashed /\ Tickets' /\ first \in 1..MaxOps
      /\ \A k \in DOMAIN waiting :
            \/ waiting[k] = first
            \/ \E j \in DOMAIN waiting' : waiting'[j] = waiting[k]
  BY <1>1, Started
<1> HIDE DEF first
<1>3. \/ /\ ops[first].op = "addToStream" /\ UNCHANGED clients
      \/ /\ ops[first].op = "erase" /\ ops[first].id \in Ids
         /\ clients' = [clients EXCEPT ![ops[first].id] = NoPc]
  <2>1. ops[first].op = "erase" => ops[first].id \in Ids
    BY <1>0, <1>2 DEF Ops, NoOp, Erase, Add
  <2> QED BY <2>1 DEF RunErase, RunAddToStream, first
<1>4. ASSUME NEW i \in Ids, EraseComing(i), ops[first] # Erase(i) PROVE EraseComing(i)'
  <2>1. DOMAIN waiting = 1..Len(waiting) /\ DOMAIN waiting' = 1..Len(waiting')
    BY <1>0
  <2>2. \A k \in DOMAIN waiting : ops[waiting[k]] = Erase(i)
            => \E j \in DOMAIN waiting' : ops'[waiting'[j]] = Erase(i)
    BY <1>1, <1>2, <1>4
  <2>3. \A q \in Pcs : callback[q] = "erase" /\ pcId[q] = i
            => callback'[q] = "erase" /\ pcId'[q] = i
    BY <1>1
  <2> QED BY <1>4, <2>1, <2>2, <2>3, ComingKept
<1>5. Known' /\ EntryOwnsId'
  BY <1>0, <1>1, <1>3, SessionsAssumption DEF Known, EntryOwnsId
<1>6. LostClientHasErase'
  <2> SUFFICES ASSUME NEW i \in Ids, clients'[i] # NoPc, pcState'[clients'[i]] \in Down
               PROVE  EraseComing(i)'
    BY DEF LostClientHasErase
  <2>1. clients'[i] = clients[i] /\ ops[first] # Erase(i)
    BY <1>0, <1>3, Operations
  <2> QED BY <1>1, <1>4, <2>1 DEF LostClientHasErase
<1>7. ClosedDoesNotDrive'
  BY <1>1, <1>2 DEF ClosedDoesNotDrive
<1> QED BY <1>2, <1>5, <1>6, <1>7

\* MainThread is done with an operation, which was no longer queued.
LEMMA MapFinish ==
    ASSUME IInv, TypeOK', FinishOp
    PROVE  MapInv'
<1> USE SessionsAssumption DEF IInv, MapInv
<1>0. /\ ops \in [1..MaxOps -> Ops] /\ waiting \in Seq(1..MaxOps)
      /\ executing \in [{Main} -> 0..MaxOps] /\ dispatched \in 0..MaxOps
  BY DEF TypeOK
<1>1. /\ executing' = [executing EXCEPT ![Main] = 0]
      /\ ops' = [ops EXCEPT ![executing[Main]] = NoOp]
      /\ UNCHANGED <<dispatched, waiting, crashed, clients, pcState, pcId, callback, throttle>>
  BY DEF FinishOp, MainThread!Finish, pcVars, motorVars
<1>2. \A k \in DOMAIN waiting : waiting[k] \in 1..MaxOps /\ waiting[k] # executing[Main]
  <2>1. \A k \in 1..Len(waiting) : waiting[k] \in 1..MaxOps
    BY <1>0, ElementOfSeq
  <2> QED BY <1>0, <2>1 DEF Tickets
<1>3. \A k \in DOMAIN waiting : ops'[waiting[k]] = ops[waiting[k]]
  BY <1>0, <1>1, <1>2
<1>4. Tickets'
  <2>1. executing'[Main] = 0 /\ 0 <= dispatched
    BY <1>0, <1>1
  <2>2. \A k \in DOMAIN waiting : waiting[k] # 0
    BY <1>2
  <2> QED BY <1>1, <2>1, <2>2 DEF Tickets
<1>5. ASSUME NEW i \in Ids, EraseComing(i) PROVE EraseComing(i)'
  <2>1. DOMAIN waiting = 1..Len(waiting)
    BY <1>0
  <2> QED BY <1>1, <1>3, <1>5, <2>1 DEF EraseComing
<1>6. Known' /\ EntryOwnsId' /\ ClosedDoesNotDrive'
  BY <1>1 DEF Known, EntryOwnsId, ClosedDoesNotDrive
<1>7. LostClientHasErase'
  BY <1>1, <1>5 DEF LostClientHasErase
<1> QED BY <1>4, <1>6, <1>7

\* The motor is set to neutral, or obeys a connection that is open.
LEMMA MapMotor ==
    ASSUME IInv, TypeOK', NEW p \in Pcs, StopMotor(p) \/ Drive(p)
    PROVE  MapInv'
<1> USE SessionsAssumption DEF IInv, MapInv
<1>1. CASE Crash
  BY <1>1, Unmoved DEF Crash, pcVars, motorVars, queueVars
<1>2. CASE ~Crash
  <2>0. callback \in [Pcs -> {"idle", "erase", "neutral"}] /\ waiting \in Seq(1..MaxOps)
    BY DEF TypeOK
  <2>1. /\ UNCHANGED <<clients, pcState, pcId, queueVars, crashed>>
        /\ \/ /\ callback' = [callback EXCEPT ![p] = "idle"] /\ throttle' = NoPc
              /\ callback[p] = "neutral"
           \/ /\ UNCHANGED callback /\ throttle' \in {p, NoPc}
              /\ pcState[p] # "closed"
    BY <1>2 DEF StopMotor, Drive, pcVars
  <2>2. \A q \in Pcs : callback[q] = "erase" => callback'[q] = "erase"
    BY <2>0, <2>1
  <2>3. Tickets' /\ \A i \in Ids : EraseComing(i) => EraseComing(i)'
    BY <2>1, <2>2, SameQueue
  <2>4. Known'
    BY <2>0, <2>1 DEF Known
  <2>5. EntryOwnsId' /\ LostClientHasErase'
    BY <2>1, <2>3 DEF EntryOwnsId, LostClientHasErase
  <2>6. ClosedDoesNotDrive'
    BY <2>1 DEF ClosedDoesNotDrive
  <2> QED BY <2>3, <2>4, <2>5, <2>6
<1> QED BY <1>1, <1>2

-----------------------------------------------------------------------------
(* The theorems.                                                           *)

\* Every step keeps the invariant.
LEMMA NextInv == IInv /\ [Next]_vars => IInv'
<1> SUFFICES ASSUME IInv, [Next]_vars PROVE IInv'
  OBVIOUS
<1>1. TypeOK'
  <2>1. CASE UNCHANGED vars
    BY <2>1 DEF vars, envVars, pcVars, queueVars, motorVars, IInv, TypeOK
  <2> QED BY <2>1, TypesPage, TypesLibrary, TypesRest DEF Next
<1>2. ASSUME NEW i \in Ids, Page(i) \/ Handler(i) PROVE MapInv'
  <2>1. CASE Create(i)
    BY <2>1, MapCreate
  <2>2. CASE Page(i) \/ Receive(i) \/ Negotiate(i)
    BY <1>1, <2>2, Unmoved
    DEF Page, OpenPage, SendRequest, AnswerOffer, Receive, Negotiate, pcVars, queueVars, motorVars
  <2>3. CASE Describe(i)
    <3>1. CASE Crash \/ UNCHANGED pcState
      BY <1>1, <2>3, <3>1, Unmoved DEF Describe, Crash, pcVars, queueVars, motorVars
    <3>2. CASE ~(Crash \/ UNCHANGED pcState)
      <4> DEFINE p == handler[i].pc
      <4>1. /\ p # NoPc /\ pcState[p] = "new" /\ pcState' = [pcState EXCEPT ![p] = "connecting"]
            /\ UNCHANGED <<callback, clients, pcId, queueVars, throttle, crashed>>
        BY <2>3, <3>2 DEF Describe, motorVars
      <4>2. p \in Pcs
        BY <4>1 DEF IInv, TypeOK
      <4>3. "connecting" \in PcStates \ {"none"} /\ "connecting" \notin Down
        BY DEF PcStates, Down
      <4> HIDE DEF p
      <4> QED BY <4>1, <4>2, <4>3, MapState
    <3> QED BY <3>1, <3>2
  <2> QED BY <1>2, <2>1, <2>2, <2>3 DEF Handler
<1>3. ASSUME NEW p \in Pcs, Library(p) PROVE MapInv'
  <2>1. CASE DispatchErase(p) \/ OpenTrack(p)
    BY <2>1, MapDispatch
  <2>2. CASE StopMotor(p) \/ Drive(p)
    BY <1>1, <2>2, MapMotor
  <2>3. CASE GatheringComplete(p)
    BY <1>1, <2>3, Unmoved DEF GatheringComplete, queueVars, motorVars
  <2>4. ASSUME NEW s \in PcStates, ReportState(p, s) PROVE MapInv'
    <3>1. /\ pcState' = [pcState EXCEPT ![p] = s] /\ callback[p] = "idle"
          /\ callback' = [callback EXCEPT ![p] = IF s \in Down THEN "erase" ELSE "idle"]
          /\ pcState[p] # "none" /\ s # "none"
          /\ UNCHANGED <<clients, pcId, queueVars, throttle, crashed>>
      BY <2>4 DEF ReportState, Report, motorVars
    <3>2. callback \in [Pcs -> {"idle", "erase", "neutral"}]
      BY DEF IInv, TypeOK
    <3>3. s \notin Down => callback' = callback
      BY <3>1, <3>2
    <3> QED BY <3>1, <3>3, MapState
  <2> QED BY <1>3, <2>1, <2>2, <2>3, <2>4 DEF Library
<1>4. ASSUME MainOp PROVE MapInv'
  BY <1>1, <1>4, MapStart, MapFinish DEF MainOp
<1>5. ASSUME Camera \/ InitGpio \/ Rest \/ UNCHANGED vars PROVE MapInv'
  BY <1>1, <1>5, Unmoved
  DEF Camera, VisitClient, EndFrame, DanglingRead, Crash, InitGpio, Rest, vars, pcVars,
      queueVars, motorVars
<1>6. MapInv'
  BY <1>2, <1>3, <1>4, <1>5 DEF Next
<1> QED BY <1>1, <1>6 DEF IInv

\* The inductive invariant.
THEOREM Invariant == SafeSpec => []IInv
  BY InitInv, NextInv, PTL DEF SafeSpec

\* The variables keep their types.
THEOREM TypeCorrect == SafeSpec => []TypeOK
  BY Invariant, PTL DEF IInv

\* An entry's callbacks look for it under its own id.
THEOREM OwnsId == SafeSpec => []EntryOwnsId
<1>1. IInv => EntryOwnsId
  BY DEF IInv, MapInv
<1> QED BY <1>1, Invariant, PTL

\* The removal of a client whose connection is lost is always on its way.
THEOREM EraseOnItsWay == SafeSpec => []LostClientHasErase
<1>1. IInv => LostClientHasErase
  BY DEF IInv, MapInv
<1> QED BY <1>1, Invariant, PTL

\* A closed connection does not drive the motor once its callback is done.
THEOREM MotorLetGo == SafeSpec => []ClosedDoesNotDrive
<1>1. IInv => ClosedDoesNotDrive
  BY DEF IInv, MapInv
<1> QED BY <1>1, Invariant, PTL

-----------------------------------------------------------------------------
(* Sessions uses the queue of MainThread as TaskQueue allows.              *)

\* Every step of the program is one of the abstract queue, or none.
LEMMA QueueStep == [Next]_vars => [MainThread!Next]_(MainThread!tqvars)
<1> SUFFICES ASSUME [Next]_vars PROVE [MainThread!Next]_(MainThread!tqvars)
  OBVIOUS
<1>1. ASSUME NEW operation, Dispatch(operation) PROVE MainThread!Submit
  BY <1>1 DEF Dispatch
<1>2. CASE RunErase \/ RunAddToStream
  <2>1. MainThread!Start(Main)
    BY <1>2 DEF RunErase, RunAddToStream
  <2> QED BY <2>1 DEF MainThread!Next
<1>3. CASE FinishOp
  <2>1. MainThread!Finish(Main)
    BY <1>3 DEF FinishOp
  <2> QED BY <2>1 DEF MainThread!Next
<1>4. CASE Crash
  <2>1. MainThread!Close
    BY <1>4 DEF Crash, queueVars, MainThread!Close
  <2> QED BY <2>1 DEF MainThread!Next
<1>5. ASSUME NEW p \in Pcs, DispatchErase(p) \/ OpenTrack(p)
      PROVE  MainThread!Next
  <2>1. MainThread!Submit
    BY <1>1, <1>5 DEF DispatchErase, OpenTrack
  <2> QED BY <2>1 DEF MainThread!Next
<1>6. CASE UNCHANGED <<queueVars, crashed>>
  BY <1>6 DEF queueVars, MainThread!tqvars
<1>7. ASSUME NEW i \in Ids, Page(i) \/ Handler(i) PROVE UNCHANGED <<queueVars, crashed>> \/ Crash
  BY <1>7
  DEF Page, OpenPage, SendRequest, AnswerOffer, Handler, Receive, Create, Negotiate, Describe
<1>8. ASSUME NEW p \in Pcs, Library(p)
      PROVE  UNCHANGED <<queueVars, crashed>> \/ Crash \/ DispatchErase(p) \/ OpenTrack(p)
  BY <1>8 DEF Library, GatheringComplete, StopMotor, Drive, ReportState, Report
<1>9. ASSUME Camera \/ InitGpio \/ Rest \/ UNCHANGED vars
      PROVE  UNCHANGED <<queueVars, crashed>> \/ Crash
  BY <1>9 DEF Camera, VisitClient, EndFrame, DanglingRead, InitGpio, Rest, vars
<1> QED
  BY <1>2, <1>3, <1>4, <1>5, <1>6, <1>7, <1>8, <1>9 DEF Next, MainOp

\* What the callbacks hand to MainThread, and what it executes, is a behaviour of
\* the abstract queue, which DispatchQueueProofs shows the threads to implement.
THEOREM UsesTaskQueue == SafeSpec => MainThread!SafeSpec
<1>1. Init => MainThread!Init
  BY DEF Init
<1> QED BY <1>1, QueueStep, PTL DEF SafeSpec, MainThread!SafeSpec

-----------------------------------------------------------------------------
(* Why an entry is removed.                                                *)

\* A connection of page i is lost.
Lost(i) == \E p \in Pcs : pcId[p] = i /\ pcState[p] \in Down

\* A removal on its way was asked for by a connection of that page that is lost.
ErasesHaveCause ==
    /\ \A p \in Pcs : callback[p] = "erase" => pcState[p] \in Down
    /\ \A i \in Ids : EraseComing(i) => Lost(i)

\* A lost connection stays lost, and its callbacks keep their page.
LEMMA LostStays ==
    ASSUME IInv, [Next]_vars, NEW i \in Ids, NEW p \in Pcs, pcId[p] = i, pcState[p] \in Down
    PROVE  pcId'[p] = i /\ pcState'[p] \in Down
<1>1. /\ pcState \in [Pcs -> PcStates] /\ pcId \in [Pcs -> Ids \union {NoId}]
  BY DEF IInv, TypeOK
<1>2. "none" \notin Down /\ "new" \notin Down /\ "connecting" \notin Down /\ "connected" \notin Down
      /\ "failed" \in Down /\ "closed" \in Down
  BY DEF Down
<1>3. CASE UNCHANGED <<pcState, pcId>>
  BY <1>3
<1>4. ASSUME NEW j \in Ids, Create(j)
      PROVE  pcId'[p] = i /\ pcState'[p] \in Down
  BY <1>1, <1>2, <1>4 DEF Create
<1>5. ASSUME NEW j \in Ids, Describe(j)
      PROVE  pcId'[p] = i /\ pcState'[p] \in Down
  BY <1>1, <1>2, <1>5 DEF Describe, Crash, pcVars
<1>6. ASSUME NEW q \in Pcs, NEW s \in PcStates, ReportState(q, s)
      PROVE  pcId'[p] = i /\ pcState'[p] \in Down
  BY <1>1, <1>2, <1>6 DEF ReportState, Report
<1>7. ASSUME NEW j \in Ids, Page(j) \/ Handler(j)
      PROVE  UNCHANGED <<pcState, pcId>> \/ Create(j) \/ Describe(j)
  BY <1>7
  DEF Page, OpenPage, SendRequest, AnswerOffer, Handler, Receive, Negotiate, pcVars
<1>8. ASSUME NEW q \in Pcs, Library(q)
      PROVE  UNCHANGED <<pcState, pcId>> \/ \E s \in PcStates : ReportState(q, s)
  BY <1>8 DEF Library, GatheringComplete, DispatchErase, StopMotor, Crash, OpenTrack, Drive, pcVars
<1>9. ASSUME MainOp \/ Camera \/ InitGpio \/ Rest \/ UNCHANGED vars
      PROVE  UNCHANGED <<pcState, pcId>>
  BY <1>9
  DEF MainOp, RunErase, RunAddToStream, FinishOp, Camera, VisitClient, EndFrame, DanglingRead,
      Crash, InitGpio, Rest, vars, pcVars
<1> QED
  BY <1>3, <1>4, <1>5, <1>6, <1>7, <1>8, <1>9 DEF Next

\* A dispatch() adds one operation to the queue and no other.
LEMMA QueuedOnly ==
    ASSUME TypeOK, Tickets, NEW operation \in Ops, Dispatch(operation), NEW k \in DOMAIN waiting'
    PROVE  \/ ops'[waiting'[k]] = operation
           \/ k \in DOMAIN waiting /\ ops'[waiting'[k]] = ops[waiting[k]]
<1>1. /\ MaxOps \in Nat /\ dispatched \in 0..MaxOps /\ waiting \in Seq(1..MaxOps)
      /\ ops \in [1..MaxOps -> Ops]
  BY SessionsAssumption DEF TypeOK
<1>2. /\ dispatched + 1 \in 1..MaxOps /\ waiting' = Append(waiting, dispatched + 1)
      /\ ops' = [ops EXCEPT ![dispatched + 1] = operation]
  BY <1>1 DEF Dispatch, MainThread!Submit
<1>3. /\ waiting' \in Seq(1..MaxOps) /\ Len(waiting') = Len(waiting) + 1
      /\ waiting'[Len(waiting) + 1] = dispatched + 1
  BY <1>1, <1>2, AppendProperties
<1>4. k \in 1..Len(waiting) + 1 /\ DOMAIN waiting = 1..Len(waiting) /\ Len(waiting) \in Nat
  BY <1>1, <1>3
<1>5. CASE k = Len(waiting) + 1
  BY <1>1, <1>2, <1>3, <1>5
<1>6. CASE k # Len(waiting) + 1
  <2>1. k \in DOMAIN waiting
    BY <1>4, <1>6
  <2> QED BY <2>1, Queued
<1> QED BY <1>5, <1>6

\* What is queued after an operation is started was queued before.
LEMMA StartedOnly ==
    ASSUME TypeOK, MainThread!Start(Main), NEW k \in DOMAIN waiting'
    PROVE  \E j \in DOMAIN waiting : waiting'[k] = waiting[j]
<1>1. waiting \in Seq(1..MaxOps) /\ waiting # <<>> /\ waiting' = Tail(waiting)
  BY DEF TypeOK, MainThread!Start
<1>2. /\ Tail(waiting) \in Seq(1..MaxOps)
      /\ Len(Tail(waiting)) = Len(waiting) - 1
      /\ \A j \in 1..Len(Tail(waiting)) : Tail(waiting)[j] = waiting[j + 1]
      /\ Len(waiting) \in Nat
  BY <1>1, HeadTailProperties, LenProperties
<1>3. k \in 1..Len(waiting) - 1 /\ DOMAIN waiting = 1..Len(waiting)
  BY <1>1, <1>2
<1>4. k + 1 \in DOMAIN waiting /\ waiting'[k] = waiting[k + 1]
  BY <1>1, <1>2, <1>3
<1> QED BY <1>4

\* Only onStateChange of a lost connection makes a callback ask for a removal.
LEMMA AskedByLost ==
    ASSUME IInv, [Next]_vars, NEW p \in Pcs, callback'[p] = "erase"
    PROVE  callback[p] = "erase" \/ pcState'[p] \in Down
<1>1. callback \in [Pcs -> {"idle", "erase", "neutral"}] /\ pcState \in [Pcs -> PcStates]
  BY DEF IInv, TypeOK
<1>2. CASE UNCHANGED callback
  BY <1>2
<1>3. ASSUME NEW q \in Pcs, NEW s \in PcStates, ReportState(q, s)
      PROVE  callback[p] = "erase" \/ pcState'[p] \in Down
  BY <1>1, <1>3 DEF ReportState, Report
<1>4. ASSUME NEW q \in Pcs, DispatchErase(q) \/ StopMotor(q)
      PROVE  callback[p] = "erase" \/ pcState'[p] \in Down
  BY <1>1, <1>4 DEF DispatchErase, StopMotor, Crash
<1>5. ASSUME NEW q \in Pcs, Library(q)
      PROVE  \/ UNCHANGED callback
             \/ DispatchErase(q) \/ StopMotor(q) \/ \E s \in PcStates : ReportState(q, s)
  BY <1>5 DEF Library, GatheringComplete, OpenTrack, Drive, Crash
<1>6. ASSUME NEW j \in Ids, Page(j) \/ Handler(j) PROVE UNCHANGED callback
  BY <1>6
  DEF Page, OpenPage, SendRequest, AnswerOffer, Handler, Receive, Create, Negotiate, Describe,
      Crash
<1>7. ASSUME MainOp \/ Camera \/ InitGpio \/ Rest \/ UNCHANGED vars PROVE UNCHANGED callback
  BY <1>7
  DEF MainOp, RunErase, RunAddToStream, FinishOp, Camera, VisitClient, EndFrame, DanglingRead,
      Crash, InitGpio, Rest, vars
<1> QED
  BY <1>2, <1>3, <1>4, <1>5, <1>6, <1>7 DEF Next

\* A removal that is queued was queued before, or its callback was about to queue it.
LEMMA QueuedByCallback ==
    ASSUME IInv, [Next]_vars, NEW i \in Ids,
           NEW k \in DOMAIN waiting', ops'[waiting'[k]] = Erase(i)
    PROVE  EraseComing(i)
<1>1. /\ TypeOK /\ Tickets /\ Known
      /\ waiting \in Seq(1..MaxOps) /\ ops \in [1..MaxOps -> Ops]
      /\ pcId \in [Pcs -> Ids \union {NoId}]
  BY DEF IInv, MapInv, TypeOK
<1>2. DOMAIN waiting = 1..Len(waiting)
  BY <1>1
<1>3. ASSUME NEW j \in DOMAIN waiting, ops[waiting[j]] = Erase(i) PROVE EraseComing(i)
  BY <1>2, <1>3 DEF EraseComing
<1>4. CASE UNCHANGED <<waiting, ops>>
  BY <1>3, <1>4
<1>5. ASSUME NEW p \in Pcs, DispatchErase(p) PROVE EraseComing(i)
  <2>1. callback[p] = "erase" /\ Dispatch(Erase(pcId[p])) /\ pcId[p] \in Ids
    BY <1>1, <1>5 DEF DispatchErase, Known
  <2>2. \/ ops'[waiting'[k]] = Erase(pcId[p])
        \/ k \in DOMAIN waiting /\ ops'[waiting'[k]] = ops[waiting[k]]
    <3>1. Erase(pcId[p]) \in Ops
      BY <2>1, Operations
    <3> QED BY <1>1, <2>1, <3>1, QueuedOnly
  <2>3. CASE pcId[p] = i
    BY <2>1, <2>3 DEF EraseComing
  <2>4. CASE pcId[p] # i
    BY <1>3, <2>1, <2>2, <2>4, Operations
  <2> QED BY <2>3, <2>4
<1>6. ASSUME NEW p \in Pcs, OpenTrack(p) PROVE EraseComing(i)
  <2>1. Dispatch(Add(p))
    BY <1>6 DEF OpenTrack
  <2>2. \/ ops'[waiting'[k]] = Add(p)
        \/ k \in DOMAIN waiting /\ ops'[waiting'[k]] = ops[waiting[k]]
    BY <1>1, <2>1, QueuedOnly, Operations
  <2> QED BY <1>3, <2>2, Operations
<1>7. CASE RunErase \/ RunAddToStream
  <2>1. MainThread!Start(Main) /\ UNCHANGED ops
    BY <1>7 DEF RunErase, RunAddToStream
  <2>2. PICK j \in DOMAIN waiting : waiting'[k] = waiting[j]
    BY <1>1, <2>1, StartedOnly
  <2> QED BY <1>3, <2>1, <2>2
<1>8. CASE FinishOp
  <2>1. UNCHANGED waiting /\ ops' = [ops EXCEPT ![executing[Main]] = NoOp]
    BY <1>8 DEF FinishOp, MainThread!Finish
  <2>2. k \in DOMAIN waiting /\ waiting[k] \in 1..MaxOps
    <3>1. k \in 1..Len(waiting)
      BY <1>2, <2>1
    <3> QED BY <1>1, <1>2, <3>1, ElementOfSeq
  <2>3. ops'[waiting[k]] = Erase(i)
    BY <2>1
  <2>4. ops'[waiting[k]] = NoOp \/ ops'[waiting[k]] = ops[waiting[k]]
    BY <1>1, <2>1, <2>2
  <2>5. ops[waiting[k]] = Erase(i)
    BY <2>3, <2>4 DEF NoOp, Erase
  <2> QED BY <1>3, <2>2, <2>5
<1>9. ASSUME NEW j \in Ids, Page(j) \/ Handler(j) PROVE UNCHANGED <<waiting, ops>>
  BY <1>9
  DEF Page, OpenPage, SendRequest, AnswerOffer, Handler, Receive, Create, Negotiate, Describe,
      Crash, queueVars
<1>10. ASSUME NEW p \in Pcs, Library(p)
       PROVE  UNCHANGED <<waiting, ops>> \/ DispatchErase(p) \/ OpenTrack(p)
  BY <1>10
  DEF Library, GatheringComplete, StopMotor, Drive, ReportState, Report, Crash, queueVars
<1>11. CASE Camera \/ InitGpio \/ Rest \/ UNCHANGED vars
  <2>1. UNCHANGED <<waiting, ops>>
    BY <1>11
    DEF Camera, VisitClient, EndFrame, DanglingRead, Crash, InitGpio, Rest, vars, queueVars
  <2> QED BY <1>4, <2>1
<1> QED
  BY <1>4, <1>5, <1>6, <1>7, <1>8, <1>9, <1>10, <1>11 DEF Next, MainOp

\* Every step keeps the cause of the removals on their way.
LEMMA CauseKept == IInv /\ ErasesHaveCause /\ [Next]_vars => ErasesHaveCause'
<1> SUFFICES ASSUME IInv, ErasesHaveCause, [Next]_vars PROVE ErasesHaveCause'
  OBVIOUS
<1>1. ASSUME NEW p \in Pcs, callback'[p] = "erase" PROVE pcState'[p] \in Down
  <2>1. CASE callback[p] = "erase"
    <3>1. pcState[p] \in Down /\ pcId[p] \in Ids
      BY <2>1 DEF ErasesHaveCause, IInv, MapInv, Known
    <3> QED BY <3>1, LostStays
  <2> QED BY <1>1, <2>1, AskedByLost
<1>2. ASSUME NEW i \in Ids, EraseComing(i) PROVE Lost(i)'
  <2>1. PICK p \in Pcs : pcId[p] = i /\ pcState[p] \in Down
    BY <1>2 DEF ErasesHaveCause, Lost
  <2> QED BY <2>1, LostStays DEF Lost
<1>3. ASSUME NEW i \in Ids, EraseComing(i)' PROVE Lost(i)'
  <2>1. CASE \E p \in Pcs : callback'[p] = "erase" /\ pcId'[p] = i
    BY <1>1, <2>1 DEF Lost
  <2>2. ASSUME NEW k \in 1..Len(waiting'), ops'[waiting'[k]] = Erase(i) PROVE Lost(i)'
    <3>1. waiting' \in Seq(1..MaxOps)
      BY NextInv DEF IInv, TypeOK
    <3>2. k \in DOMAIN waiting'
      BY <3>1
    <3> QED BY <1>2, <2>2, <3>2, QueuedByCallback
  <2>3. Erase(i)' = Erase(i)
    BY DEF Erase
  <2> QED BY <1>3, <2>1, <2>2, <2>3 DEF EraseComing
<1> QED BY <1>1, <1>3 DEF ErasesHaveCause

\* A removal of a page's entry is asked for only by a connection of that page
\* that is lost, in the callback and in the queue alike.
THEOREM RemovalsHaveCause == SafeSpec => []ErasesHaveCause
<1>1. Init => ErasesHaveCause
  <2> SUFFICES ASSUME Init PROVE ErasesHaveCause
    OBVIOUS
  <2>1. waiting = <<>> /\ \A p \in Pcs : callback[p] = "idle"
    BY DEF Init, MainThread!Init
  <2> QED BY <2>1 DEF ErasesHaveCause, EraseComing
<1> QED BY <1>1, CauseKept, Invariant, PTL DEF SafeSpec

\* An entry leaves the map only after some connection of that page was lost.
LEMMA RemovedAfterLoss ==
    ASSUME IInv, ErasesHaveCause, Next, NEW i \in Ids,
           clients[i] # NoPc, clients'[i] # clients[i]
    PROVE  Lost(i)
<1>1. TypeOK /\ waiting \in Seq(1..MaxOps) /\ ops \in [1..MaxOps -> Ops]
      /\ clients \in [Ids -> Pcs \union {NoPc}]
  BY DEF IInv, TypeOK
<1>2. RunErase
  <2>1. ASSUME NEW j \in Ids, Page(j) \/ Handler(j) PROVE clients'[i] = clients[i]
    BY <1>1, <2>1
    DEF Page, OpenPage, SendRequest, AnswerOffer, Handler, Receive, Create, Negotiate,
        Describe, Crash
  <2>2. ASSUME NEW p \in Pcs, Library(p) PROVE UNCHANGED clients
    BY <2>2
    DEF Library, GatheringComplete, DispatchErase, StopMotor, Crash, OpenTrack, Drive,
        ReportState, Report
  <2>3. CASE RunAddToStream \/ FinishOp \/ Camera \/ InitGpio \/ Rest
    <3>1. UNCHANGED clients
      BY <2>3
      DEF RunAddToStream, FinishOp, Camera, VisitClient, EndFrame, DanglingRead, Crash,
          InitGpio, Rest, vars
    <3> QED BY <3>1
  <2> QED BY <2>1, <2>2, <2>3 DEF Next, MainOp
<1>3. /\ waiting # <<>> /\ ops[Head(waiting)].op = "erase"
      /\ clients' = [clients EXCEPT ![ops[Head(waiting)].id] = NoPc]
  BY <1>2 DEF RunErase, MainThread!Start
<1>4. ops[Head(waiting)].id = i
  BY <1>1, <1>3
<1>5. Head(waiting) = waiting[1] /\ 1 \in 1..Len(waiting) /\ Head(waiting) \in 1..MaxOps
  <2>1. waiting \in Seq(1..MaxOps) /\ waiting # <<>>
    BY <1>1, <1>3
  <2>3. Head(waiting) \in 1..MaxOps
    BY <2>1, HeadTailProperties
  <2>4. Head(waiting) = waiting[1]
    BY <2>1
  <2>2. Len(waiting) \in Nat \ {0}
    BY <2>1, EmptySeq
  <2> QED BY <2>2, <2>3, <2>4
<1>6. ops[Head(waiting)] \in Ops
  BY <1>1, <1>5
<1>7. ops[Head(waiting)] = Erase(i)
  <2>1. NoOp.op # "erase" /\ \A p \in Pcs : Add(p).op # "erase"
    BY DEF NoOp, Add
  <2>2. PICK j \in Ids : ops[Head(waiting)] = Erase(j)
    BY <1>3, <1>6, <2>1 DEF Ops
  <2> QED BY <1>4, <2>2, Operations
<1>8. EraseComing(i)
  BY <1>5, <1>7 DEF EraseComing
<1> QED BY <1>8 DEF ErasesHaveCause

-----------------------------------------------------------------------------
(* The conversation of a page with the server.                             *)

\* No peer connection was created for the page.
Unused(i) == \A p \in Pcs : pcState[p] # "none" => pcId[p] # i

\* The page's connection is in the map and awaits the answer to its offer.
Awaiting(i) ==
    clients[i] # NoPc /\ pcState[clients[i]] = "new" /\ gathering[clients[i]] = "complete"

\* The conversation is in one of seven phases: nothing is under way ...
Quiet(i)  == inbox[i] = <<>> /\ outbox[i] = <<>>
Silent(i) == Quiet(i) /\ handler[i] = Resting

\* ... or the request is, then the handler that it starts ...
Asking(i)   == inbox[i] = <<"request">> /\ outbox[i] = <<>> /\ handler[i] = Resting /\ Unused(i)
Creating(i) == Quiet(i) /\ handler[i].step = "create" /\ Unused(i)
Emplaced(i) ==
    /\ Quiet(i) /\ handler[i] = [step |-> "emplaced", pc |-> clients[i]]
    /\ clients[i] # NoPc /\ pcState[clients[i]] = "new"

\* ... or the offer is, then the answer, then the handler of the answer.
Offering(i)   == inbox[i] = <<>> /\ outbox[i] = <<"offer">> /\ handler[i] = Resting /\ Awaiting(i)
Answering(i)  == inbox[i] = <<"answer">> /\ outbox[i] = <<>> /\ handler[i] = Resting /\ Awaiting(i)
Describing(i) == Quiet(i) /\ handler[i] = [step |-> "describe", pc |-> clients[i]] /\ Awaiting(i)

Phase(i) ==
    /\ \/ Silent(i) \/ Asking(i) \/ Creating(i) \/ Emplaced(i)
       \/ Offering(i) \/ Answering(i) \/ Describing(i)
    /\ i \notin asked => Silent(i) /\ Unused(i)

\* A page has one connection, which is in the map until it is lost, and whose
\* description is gathered while nothing else is under way.
OneEach ==
    /\ \A p, q \in Pcs :
          pcState[p] # "none" /\ pcState[q] # "none" /\ pcId[p] = pcId[q] => p = q
    /\ \A p \in Pcs :
          /\ pcState[p] \in {"new", "connecting", "connected"} => clients[pcId[p]] = p
          /\ gathering[p] = "inprogress" => pcState[p] # "none" /\ Silent(pcId[p])

Talk    == OneEach /\ \A i \in Ids : Phase(i)
TalkInv == IInv /\ ErasesHaveCause /\ Talk

\* An entry that leaves the map leads to a connection that is lost.
LEMMA RemovedIsLost ==
    ASSUME TalkInv, Next, NEW i \in Ids, clients[i] # NoPc, clients'[i] # clients[i]
    PROVE  pcState[clients[i]] \in Down
<1>1. PICK p \in Pcs : pcId[p] = i /\ pcState[p] \in Down
  BY RemovedAfterLoss DEF TalkInv, Lost
<1>2. clients[i] \in Pcs /\ pcId[clients[i]] = i /\ pcState[clients[i]] # "none"
  BY DEF TalkInv, IInv, MapInv, EntryOwnsId, TypeOK
<1>3. pcState[p] # "none"
  BY <1>1 DEF Down
<1>4. clients[i] = p
  BY <1>1, <1>2, <1>3 DEF TalkInv, Talk, OneEach
<1> QED BY <1>1, <1>4

\* The phase of a page lasts while its messages, its handler and the connection
\* it is offered stay as they are.
LEMMA PhaseKept ==
    ASSUME NEW i \in Ids, Phase(i),
           inbox'[i] = inbox[i], outbox'[i] = outbox[i], handler'[i] = handler[i],
           i \in asked => i \in asked', Unused(i) => Unused(i)',
           clients[i] # NoPc /\ pcState[clients[i]] = "new"
              => /\ clients'[i] = clients[i] /\ pcState'[clients[i]] = "new"
                 /\ gathering'[clients[i]] = gathering[clients[i]]
    PROVE  Phase(i)'
<1>1. Silent(i) => Silent(i)'
  BY DEF Silent, Quiet, Resting
<1>2. Asking(i) => Asking(i)'
  BY DEF Asking, Resting
<1>3. Creating(i) => Creating(i)'
  BY DEF Creating, Quiet
<1>4. Emplaced(i) => Emplaced(i)'
  BY DEF Emplaced, Quiet
<1>5. Awaiting(i) => Awaiting(i)' /\ clients'[i] = clients[i]
  BY DEF Awaiting
<1>6. Offering(i) => Offering(i)'
  BY <1>5 DEF Offering, Resting
<1>7. Answering(i) => Answering(i)'
  BY <1>5 DEF Answering, Resting
<1>8. Describing(i) => Describing(i)'
  BY <1>5 DEF Describing, Quiet
<1> QED BY <1>1, <1>2, <1>3, <1>4, <1>6, <1>7, <1>8 DEF Phase

\* A step that leaves the conversations and the connections as they are.
LEMMA TalkUnmoved ==
    ASSUME Talk, UNCHANGED <<inbox, outbox, asked, handler, clients, pcState, pcId, gathering>>
    PROVE  Talk'
<1>1. ASSUME NEW i \in Ids PROVE Phase(i)'
  BY PhaseKept DEF Talk, Unused
<1>2. OneEach'
  BY DEF Talk, OneEach, Silent, Quiet, Resting
<1> QED BY <1>1, <1>2 DEF Talk

\* What a page does.
LEMMA TalkPage ==
    ASSUME TalkInv, NEW i \in Ids, Page(i)
    PROVE  Talk'
<1>1. /\ UNCHANGED <<handler, clients, pcState, pcId, gathering>>
      /\ inbox \in [Ids -> Seq({"request", "answer"})] /\ outbox \in [Ids -> Seq({"offer"})]
      /\ \A j \in Ids : Phase(j)
  BY DEF Page, OpenPage, SendRequest, AnswerOffer, pcVars, TalkInv, IInv, TypeOK, Talk
<1>2. \A j \in Ids : Unused(j)' <=> Unused(j)
  BY <1>1 DEF Unused
<1>4. CASE OpenPage(i)
  <2>1. ASSUME NEW j \in Ids PROVE Phase(j)' /\ (Silent(j) => Silent(j)')
    <3>1. Quiet(j)' /\ UNCHANGED asked
      BY <1>4 DEF OpenPage, Quiet
    <3>2. Silent(j)' \/ Creating(j)' \/ Emplaced(j)' \/ Describing(j)'
      BY <1>1, <1>2, <3>1
      DEF Phase, Silent, Asking, Creating, Emplaced, Offering, Answering, Describing, Awaiting,
          Resting
    <3>3. Silent(j) => Silent(j)'
      BY <1>1, <3>1 DEF Silent, Resting
    <3> QED BY <1>1, <1>2, <3>1, <3>2, <3>3 DEF Phase
  <2>2. OneEach'
    BY <1>1, <2>1 DEF TalkInv, Talk, OneEach, IInv, MapInv, Known
  <2> QED BY <2>1, <2>2 DEF Talk
<1>5. CASE SendRequest(i)
  <2>1. /\ i \notin asked /\ asked' = asked \union {i} /\ UNCHANGED outbox
        /\ inbox' = [inbox EXCEPT ![i] = Append(@, "request")]
    BY <1>5 DEF SendRequest
  <2>2. Silent(i) /\ Unused(i)
    BY <1>1, <2>1 DEF Phase
  <2>3. inbox'[i] = <<"request">> /\ \A j \in Ids : j # i => inbox'[j] = inbox[j]
    BY <1>1, <2>1, <2>2 DEF Silent, Quiet
  <2>4. Asking(i)'
    BY <1>1, <1>2, <2>1, <2>2, <2>3 DEF Asking, Silent, Quiet, Resting
  <2>5. Phase(i)'
    BY <2>1, <2>4 DEF Phase
  <2>6. ASSUME NEW j \in Ids, j # i PROVE Phase(j)' /\ (Silent(j) => Silent(j)')
    <3>1. Phase(j)'
      BY <1>1, <1>2, <2>1, <2>3, <2>6, PhaseKept
    <3> QED BY <1>1, <2>1, <2>3, <2>6, <3>1 DEF Silent, Quiet, Resting
  <2>7. \A p \in Pcs : pcState[p] # "none" => pcId[p] # i
    BY <2>2 DEF Unused
  <2>8. OneEach'
    BY <1>1, <2>6, <2>7 DEF TalkInv, Talk, OneEach, IInv, MapInv, Known
  <2> QED BY <2>5, <2>6, <2>8 DEF Talk
<1>6. CASE AnswerOffer(i)
  <2>1. /\ outbox[i] # <<>> /\ UNCHANGED asked
        /\ inbox' = [inbox EXCEPT ![i] = Append(@, "answer")]
        /\ outbox' = [outbox EXCEPT ![i] = Tail(@)]
    BY <1>6 DEF AnswerOffer
  <2>2. Offering(i) /\ i \in asked
    BY <1>1, <2>1
    DEF Phase, Silent, Quiet, Asking, Creating, Emplaced, Answering, Describing
  <2>3. /\ inbox'[i] = <<"answer">> /\ outbox'[i] = <<>>
        /\ \A j \in Ids : j # i => inbox'[j] = inbox[j] /\ outbox'[j] = outbox[j]
    BY <1>1, <2>1, <2>2 DEF Offering
  <2>4. Answering(i)'
    BY <1>1, <2>2, <2>3 DEF Answering, Offering, Awaiting, Resting
  <2>5. Phase(i)'
    BY <2>1, <2>2, <2>4 DEF Phase
  <2>6. ASSUME NEW j \in Ids, j # i PROVE Phase(j)' /\ (Silent(j) => Silent(j)')
    <3>1. Phase(j)'
      BY <1>1, <1>2, <2>1, <2>3, <2>6, PhaseKept
    <3> QED BY <1>1, <2>3, <2>6, <3>1 DEF Silent, Quiet, Resting
  <2>7. ~Silent(i)
    BY <2>2 DEF Offering, Silent, Quiet
  <2>8. OneEach'
    BY <1>1, <2>6, <2>7 DEF TalkInv, Talk, OneEach, IInv, MapInv, Known
  <2> QED BY <2>5, <2>6, <2>8 DEF Talk
<1> QED BY <1>4, <1>5, <1>6 DEF Page

\* The connections of other pages are other connections.
LEMMA OthersApart ==
    ASSUME TalkInv, NEW i \in Ids, NEW j \in Ids, j # i, clients[i] # NoPc
    PROVE  clients[j] # clients[i]
BY DEF TalkInv, IInv, MapInv, EntryOwnsId

\* Where the handler is in each phase.
LEMMA PhaseSteps ==
    ASSUME NEW i \in Ids
    PROVE  /\ Silent(i) \/ Asking(i) \/ Offering(i) \/ Answering(i) => handler[i].step = "idle"
           /\ Creating(i) => handler[i].step = "create"
           /\ Emplaced(i) => handler[i].step = "emplaced"
           /\ Describing(i) => handler[i].step = "describe"
BY DEF Silent, Asking, Offering, Answering, Creating, Emplaced, Describing, Resting

\* What the handler of a socket does.
LEMMA TalkHandler ==
    ASSUME TalkInv, NEW i \in Ids, Handler(i)
    PROVE  Talk'
<1>1. /\ clients \in [Ids -> Pcs \union {NoPc}] /\ pcState \in [Pcs -> PcStates]
      /\ pcId \in [Pcs -> Ids \union {NoId}]
      /\ gathering \in [Pcs -> {"new", "inprogress", "complete"}]
      /\ inbox \in [Ids -> Seq({"request", "answer"})]
      /\ handler \in [Ids -> [step : {"idle", "create", "emplaced", "describe"},
                              pc : Pcs \union {NoPc}]]
  BY DEF TalkInv, IInv, TypeOK
<1>2. /\ OneEach /\ EntryOwnsId /\ Known /\ \A j \in Ids : Phase(j)
  BY DEF TalkInv, Talk, IInv, MapInv
<1>3. CASE Receive(i)
  <2>1. /\ handler[i] = Resting /\ inbox[i] # <<>>
        /\ UNCHANGED <<outbox, asked, clients, pcState, pcId, gathering>>
        /\ inbox' = [inbox EXCEPT ![i] = Tail(@)]
        /\ handler' = [handler EXCEPT ![i] =
             IF Head(inbox[i]) = "answer" THEN [step |-> "describe", pc |-> clients[i]]
             ELSE IF clients[i] = NoPc THEN [step |-> "create", pc |-> NoPc] ELSE Resting]
    BY <1>3 DEF Receive, pcVars
  <2>2. ~Silent(i) /\ i \in asked /\ (Asking(i) \/ Answering(i))
    BY <1>2, <2>1
    DEF Phase, Silent, Quiet, Creating, Emplaced, Offering, Describing
  <2>3. \A j \in Ids : j # i => inbox'[j] = inbox[j] /\ handler'[j] = handler[j]
    BY <1>1, <2>1
  <2>4. Phase(i)'
    <3>1. CASE Asking(i)
      <4>1. clients[i] = NoPc
        BY <1>1, <1>2, <3>1 DEF Asking, Unused, EntryOwnsId
      <4>2. Head(inbox[i]) = "request" /\ inbox'[i] = <<>>
        BY <1>1, <2>1, <3>1 DEF Asking
      <4>3. handler'[i] = [step |-> "create", pc |-> NoPc]
        BY <1>1, <2>1, <4>1, <4>2
      <4>4. Creating(i)'
        BY <2>1, <3>1, <4>2, <4>3 DEF Creating, Asking, Quiet, Unused
      <4> QED BY <2>1, <2>2, <4>4 DEF Phase
    <3>2. CASE Answering(i)
      <4>1. Head(inbox[i]) = "answer" /\ inbox'[i] = <<>>
        BY <1>1, <2>1, <3>2 DEF Answering
      <4>2. handler'[i] = [step |-> "describe", pc |-> clients[i]]
        BY <1>1, <2>1, <4>1
      <4>3. Describing(i)'
        BY <2>1, <3>2, <4>1, <4>2 DEF Describing, Answering, Quiet, Awaiting
      <4> QED BY <2>1, <2>2, <4>3 DEF Phase
    <3> QED BY <2>2, <3>1, <3>2
  <2>5. ASSUME NEW j \in Ids, j # i PROVE Phase(j)' /\ (Silent(j) => Silent(j)')
    <3>1. Phase(j)'
      BY <1>2, <2>1, <2>3, <2>5, PhaseKept DEF Unused
    <3> QED BY <2>1, <2>3, <2>5, <3>1 DEF Silent, Quiet, Resting
  <2>6. OneEach'
    BY <1>2, <2>1, <2>2, <2>5 DEF OneEach, Known
  <2> QED BY <2>4, <2>5, <2>6 DEF Talk
<1>4. CASE Create(i)
  <2>1. PICK p \in Pcs :
          /\ pcState[p] = "none"
          /\ pcState' = [pcState EXCEPT ![p] = "new"]
          /\ pcId' = [pcId EXCEPT ![p] = i]
          /\ clients' = IF clients[i] = NoPc THEN [clients EXCEPT ![i] = p] ELSE clients
          /\ handler' = [handler EXCEPT ![i] = [step |-> "emplaced", pc |-> p]]
    BY <1>4 DEF Create
  <2>2. UNCHANGED <<inbox, outbox, asked, gathering>> /\ handler[i].step = "create"
    BY <1>4 DEF Create, envVars
  <2>3. Creating(i) /\ ~Silent(i) /\ i \in asked
    BY <1>2, <2>2, PhaseSteps DEF Phase
  <2>4. clients[i] = NoPc /\ Unused(i)
    BY <1>1, <1>2, <2>3 DEF Creating, Unused, EntryOwnsId
  <2>5. /\ clients'[i] = p /\ pcState'[p] = "new" /\ pcId'[p] = i
        /\ handler'[i] = [step |-> "emplaced", pc |-> p]
        /\ \A j \in Ids : j # i => clients'[j] = clients[j] /\ handler'[j] = handler[j]
        /\ \A q \in Pcs : q # p => pcState'[q] = pcState[q] /\ pcId'[q] = pcId[q]
        /\ p # NoPc
    BY <1>1, <2>1, <2>4, SessionsAssumption
  <2>6. Phase(i)'
    <3>1. Emplaced(i)'
      BY <2>2, <2>3, <2>5 DEF Emplaced, Creating, Quiet
    <3> QED BY <2>2, <2>3, <3>1 DEF Phase
  <2>7. ASSUME NEW j \in Ids, j # i PROVE Phase(j)' /\ (Silent(j) => Silent(j)')
    <3>1. Unused(j) => Unused(j)'
      BY <2>5, <2>7 DEF Unused
    <3>2. clients[j] # NoPc => clients[j] \in Pcs /\ clients[j] # p
      BY <1>1, <1>2, <2>1 DEF EntryOwnsId
    <3>3. Phase(j)'
      BY <1>2, <2>2, <2>5, <2>7, <3>1, <3>2, PhaseKept
    <3> QED BY <2>2, <2>5, <2>7, <3>3 DEF Silent, Quiet, Resting
  <2>8. \A q \in Pcs : pcState[q] # "none" => pcId[q] # i /\ q # p /\ pcId[q] \in Ids
    BY <1>2, <2>1, <2>4 DEF Unused, Known
  <2>9. gathering'[p] # "inprogress"
    BY <1>2, <2>1, <2>2 DEF OneEach
  <2>10. OneEach'
    <3>1. \A q, r \in Pcs :
             pcState'[q] # "none" /\ pcState'[r] # "none" /\ pcId'[q] = pcId'[r] => q = r
      BY <1>2, <2>5, <2>8 DEF OneEach
    <3>2. ASSUME NEW q \in Pcs, q # p
          PROVE  /\ pcState'[q] \in {"new", "connecting", "connected"} => clients'[pcId'[q]] = q
                 /\ gathering'[q] = "inprogress" => pcState'[q] # "none" /\ Silent(pcId[q])'
      <4>1. pcState'[q] = pcState[q] /\ pcId'[q] = pcId[q] /\ gathering'[q] = gathering[q]
        BY <2>2, <2>5, <3>2
      <4>2. CASE pcState[q] = "none"
        BY <1>2, <4>1, <4>2 DEF OneEach
      <4>3. ASSUME NEW j \in Ids, pcId[q] = j, pcState[q] # "none"
            PROVE  /\ pcState'[q] \in {"new", "connecting", "connected"} => clients'[pcId'[q]] = q
                   /\ gathering'[q] = "inprogress" => pcState'[q] # "none" /\ Silent(pcId[q])'
        <5>1. j # i
          BY <2>8, <4>3
        <5>2. gathering[q] = "inprogress" => Silent(j)
          BY <1>2, <4>3 DEF OneEach
        <5>3. pcState[q] \in {"new", "connecting", "connected"} => clients[j] = q
          BY <1>2, <4>3 DEF OneEach
        <5> QED BY <2>5, <2>7, <4>1, <4>3, <5>1, <5>2, <5>3
      <4> QED BY <2>8, <4>2, <4>3
    <3> QED BY <2>5, <2>9, <3>1, <3>2 DEF OneEach
  <2> QED BY <2>6, <2>7, <2>10 DEF Talk
<1>5. CASE Negotiate(i)
  <2>1. /\ handler[i].step = "emplaced"
        /\ gathering' = [gathering EXCEPT ![handler[i].pc] = "inprogress"]
        /\ handler' = [handler EXCEPT ![i] = Resting]
        /\ UNCHANGED <<inbox, outbox, asked, clients, pcState, pcId>>
    BY <1>5 DEF Negotiate, envVars
  <2>2. Emplaced(i) /\ ~Silent(i) /\ i \in asked
    BY <1>2, <2>1, PhaseSteps DEF Phase
  <2>3. /\ handler[i].pc = clients[i] /\ clients[i] \in Pcs /\ pcId[clients[i]] = i
        /\ pcState[clients[i]] = "new"
    BY <1>1, <1>2, <2>2 DEF Emplaced, EntryOwnsId
  <2>4. /\ handler'[i] = Resting /\ \A j \in Ids : j # i => handler'[j] = handler[j]
        /\ \A q \in Pcs : q # clients[i] => gathering'[q] = gathering[q]
    BY <1>1, <2>1, <2>3
  <2>5. Silent(i)'
    BY <2>1, <2>2, <2>4 DEF Emplaced, Silent, Quiet, Resting
  <2>6. Phase(i)'
    BY <2>1, <2>2, <2>5 DEF Phase
  <2>7. ASSUME NEW j \in Ids, j # i PROVE Phase(j)' /\ (Silent(j) => Silent(j)')
    <3>1. clients[j] # NoPc => clients[j] \in Pcs /\ clients[j] # clients[i]
      BY <1>1, <2>7, OthersApart, <2>3, SessionsAssumption
    <3>2. Phase(j)'
      BY <1>2, <2>1, <2>4, <2>7, <3>1, PhaseKept DEF Unused
    <3> QED BY <2>1, <2>4, <2>7, <3>2 DEF Silent, Quiet, Resting
  <2>8. OneEach'
    BY <1>2, <2>1, <2>3, <2>4, <2>5, <2>7 DEF OneEach, Known
  <2> QED BY <2>6, <2>7, <2>8 DEF Talk
<1>6. CASE Describe(i)
  <2>1. handler[i].step = "describe"
    BY <1>6 DEF Describe
  <2>2. Describing(i) /\ ~Silent(i) /\ i \in asked
    BY <1>2, <2>1, PhaseSteps DEF Phase
  <2> DEFINE p == clients[i]
  <2>3. /\ handler[i].pc = p /\ p \in Pcs /\ p # NoPc /\ pcId[p] = i
        /\ pcState[p] = "new" /\ gathering[p] = "complete"
    BY <1>1, <1>2, <2>2 DEF Describing, Awaiting, EntryOwnsId
  <2>4. /\ handler' = [handler EXCEPT ![i] = Resting]
        /\ pcState' = [pcState EXCEPT ![p] = "connecting"]
        /\ UNCHANGED <<inbox, outbox, asked, clients, pcId, gathering>>
    BY <1>6, <2>3 DEF Describe, envVars
  <2>5. /\ handler'[i] = Resting /\ \A j \in Ids : j # i => handler'[j] = handler[j]
        /\ pcState'[p] = "connecting" /\ \A q \in Pcs : q # p => pcState'[q] = pcState[q]
    BY <1>1, <2>3, <2>4
  <2>6. Phase(i)'
    <3>1. Silent(i)'
      BY <2>2, <2>4, <2>5 DEF Describing, Silent, Quiet, Resting
    <3> QED BY <2>2, <2>4, <3>1 DEF Phase
  <2>7. ASSUME NEW j \in Ids, j # i PROVE Phase(j)' /\ (Silent(j) => Silent(j)')
    <3>1. clients[j] # NoPc => clients[j] \in Pcs /\ clients[j] # p
      BY <1>1, <2>7, OthersApart, <2>3
    <3>2. Unused(j) => Unused(j)'
      BY <2>3, <2>4, <2>5 DEF Unused
    <3>3. Phase(j)'
      BY <1>2, <2>4, <2>5, <2>7, <3>1, <3>2, PhaseKept
    <3> QED BY <2>4, <2>5, <2>7, <3>3 DEF Silent, Quiet, Resting
  <2>8. \A q \in Pcs : (pcState'[q] # "none" <=> pcState[q] # "none")
                       /\ (pcState'[q] \in {"new", "connecting", "connected"}
                             <=> pcState[q] \in {"new", "connecting", "connected"})
    BY <2>3, <2>5
  <2>9. OneEach'
    BY <1>2, <2>2, <2>4, <2>7, <2>8 DEF OneEach, Known
  <2> QED BY <2>6, <2>7, <2>9 DEF Talk
<1> QED BY <1>3, <1>4, <1>5, <1>6 DEF Handler

\* What the library does: an offer is sent when nothing else is under way, and
\* a connection in the map is not closed before it was answered.
LEMMA TalkLibrary ==
    ASSUME TalkInv, NEW p \in Pcs, Library(p)
    PROVE  Talk'
<1>1. /\ clients \in [Ids -> Pcs \union {NoPc}] /\ pcState \in [Pcs -> PcStates]
      /\ gathering \in [Pcs -> {"new", "inprogress", "complete"}]
      /\ outbox \in [Ids -> Seq({"offer"})]
      /\ OneEach /\ EntryOwnsId /\ Known /\ \A j \in Ids : Phase(j)
  BY DEF TalkInv, Talk, IInv, MapInv, TypeOK
<1>2. CASE DispatchErase(p) \/ StopMotor(p) \/ OpenTrack(p) \/ Drive(p)
  BY <1>2, TalkUnmoved
  DEF DispatchErase, StopMotor, OpenTrack, Drive, Crash, envVars, pcVars, TalkInv
<1>3. CASE GatheringComplete(p)
  <2>1. /\ gathering[p] = "inprogress" /\ gathering' = [gathering EXCEPT ![p] = "complete"]
        /\ \/ UNCHANGED outbox
           \/ /\ pcState[p] = "new"
              /\ outbox' = [outbox EXCEPT ![pcId[p]] = Append(@, "offer")]
        /\ UNCHANGED <<inbox, asked, handler, clients, pcState, pcId>>
    BY <1>3 DEF GatheringComplete
  <2>2. PICK i \in Ids : i = pcId[p]
    BY <1>1, <2>1 DEF OneEach, Known
  <2>3. Silent(i) /\ pcState[p] # "none" /\ i \in asked
    BY <1>1, <2>1, <2>2 DEF OneEach, Phase, Unused
  <2>4. /\ gathering'[p] = "complete"
        /\ \A q \in Pcs : q # p => gathering'[q] = gathering[q]
        /\ \A j \in Ids : j # i => outbox'[j] = outbox[j]
    BY <1>1, <2>1, <2>2
  <2>5. Phase(i)'
    <3>1. CASE UNCHANGED outbox
      <4>1. Silent(i)'
        BY <2>1, <2>3, <3>1 DEF Silent, Quiet, Resting
      <4> QED BY <2>1, <2>3, <4>1 DEF Phase
    <3>2. CASE pcState[p] = "new" /\ outbox' = [outbox EXCEPT ![i] = Append(@, "offer")]
      <4>1. clients[i] = p
        BY <1>1, <2>2, <3>2 DEF OneEach
      <4>2. outbox'[i] = <<"offer">>
        BY <1>1, <2>3, <3>2 DEF Silent, Quiet
      <4>3. p # NoPc
        BY SessionsAssumption
      <4>4. Offering(i)'
        BY <2>1, <2>3, <2>4, <3>2, <4>1, <4>2, <4>3
        DEF Offering, Awaiting, Silent, Quiet, Resting
      <4> QED BY <2>1, <2>3, <4>4 DEF Phase
    <3> QED BY <2>1, <2>2, <3>1, <3>2
  <2>6. ASSUME NEW j \in Ids, j # i PROVE Phase(j)' /\ (Silent(j) => Silent(j)')
    <3>1. clients[j] # NoPc => clients[j] \in Pcs /\ clients[j] # p
      BY <1>1, <2>2, <2>6 DEF EntryOwnsId
    <3>2. Phase(j)'
      BY <1>1, <2>1, <2>4, <2>6, <3>1, PhaseKept DEF Unused
    <3> QED BY <2>1, <2>4, <2>6, <3>2 DEF Silent, Quiet, Resting
  <2>7. ASSUME NEW q \in Pcs, gathering'[q] = "inprogress"
        PROVE  pcState'[q] # "none" /\ Silent(pcId[q])'
    <3>1. q # p /\ gathering[q] = "inprogress"
      BY <2>4, <2>7
    <3>2. PICK j \in Ids : j = pcId[q]
      BY <1>1, <3>1 DEF OneEach, Known
    <3>3. j # i /\ Silent(j) /\ pcState[q] # "none"
      BY <1>1, <2>2, <2>3, <3>1, <3>2 DEF OneEach
    <3> QED BY <2>1, <2>6, <3>2, <3>3
  <2>8. OneEach'
    BY <1>1, <2>1, <2>7 DEF OneEach
  <2> QED BY <2>5, <2>6, <2>8 DEF Talk
<1>4. ASSUME NEW s \in PcStates, ReportState(p, s) PROVE Talk'
  <2>1. /\ \/ s = "connected"    /\ pcState[p] = "connecting"
           \/ s = "disconnected" /\ pcState[p] = "connected"
           \/ s = "failed"       /\ pcState[p] \in {"connecting", "disconnected"}
           \/ s = "closed"       /\ \/ pcState[p] \in {"connected", "disconnected"}
                                    \/ pcState[p] \notin {"none", "closed"} /\ ~PcHeld(p)
        /\ pcState' = [pcState EXCEPT ![p] = s]
        /\ UNCHANGED <<inbox, outbox, asked, handler, clients, pcId, gathering>>
    BY <1>4 DEF ReportState, Report, envVars
  <2>2. pcState[p] # "none" /\ pcId[p] \in Ids
    BY <1>1, <2>1 DEF Known
  <2>3. pcState[p] # "new"
    <3> SUFFICES ASSUME pcState[p] = "new" PROVE FALSE
      OBVIOUS
    <3>1. ~PcHeld(p)
      BY <2>1
    <3>2. clients[pcId[p]] = p
      BY <1>1 DEF OneEach
    <3> QED BY <2>2, <3>1, <3>2 DEF PcHeld, ClientHeld
  <2>4. /\ pcState'[p] = s /\ s \notin {"none", "new", "connecting"}
        /\ s = "connected" => pcState[p] = "connecting"
        /\ \A q \in Pcs : q # p => pcState'[q] = pcState[q]
    BY <1>1, <2>1
  <2>5. \A q \in Pcs : /\ pcState'[q] # "none" <=> pcState[q] # "none"
                       /\ pcState'[q] \in {"new", "connecting", "connected"}
                             => pcState[q] \in {"new", "connecting", "connected"}
                       /\ pcState[q] = "new" => pcState'[q] = "new"
    BY <2>2, <2>3, <2>4
  <2>6. ASSUME NEW j \in Ids PROVE Phase(j)'
    <3>1. Unused(j) => Unused(j)'
      BY <2>1, <2>5 DEF Unused
    <3>2. clients[j] # NoPc => clients[j] \in Pcs
      BY <1>1
    <3> QED BY <1>1, <2>1, <2>5, <3>1, <3>2, PhaseKept
  <2>7. OneEach'
    BY <1>1, <2>1, <2>5 DEF OneEach, Silent, Quiet, Resting
  <2> QED BY <2>6, <2>7 DEF Talk
<1> QED BY <1>2, <1>3, <1>4 DEF Library

\* What MainThread does: the connection that it removes is lost.
LEMMA TalkErase ==
    ASSUME TalkInv, RunErase
    PROVE  Talk'
<1>1. /\ clients \in [Ids -> Pcs \union {NoPc}] /\ pcState \in [Pcs -> PcStates]
      /\ OneEach /\ EntryOwnsId /\ Known /\ \A j \in Ids : Phase(j)
  BY DEF TalkInv, Talk, IInv, MapInv, TypeOK
<1>2. UNCHANGED <<inbox, outbox, asked, handler, pcState, pcId, gathering>>
  BY DEF RunErase, envVars, pcVars
<1>3. ASSUME NEW j \in Ids, clients[j] # NoPc, pcState[clients[j]] \notin Down
      PROVE  clients'[j] = clients[j]
  <2>1. ~crashed => Next
    BY DEF Next, MainOp
  <2>2. ~crashed
    BY DEF RunErase, MainThread!Start
  <2> QED BY <1>3, <2>1, <2>2, RemovedIsLost
<1>4. ASSUME NEW j \in Ids PROVE Phase(j)'
  <2>1. Unused(j) => Unused(j)'
    BY <1>2 DEF Unused
  <2>2. clients[j] # NoPc /\ pcState[clients[j]] = "new" => clients'[j] = clients[j]
    BY <1>3 DEF Down
  <2> QED BY <1>1, <1>2, <2>1, <2>2, PhaseKept
<1>5. OneEach'
  <2>1. ASSUME NEW p \in Pcs, pcState[p] \in {"new", "connecting", "connected"}
        PROVE  clients'[pcId[p]] = p
    <3>1. clients[pcId[p]] = p /\ pcId[p] \in Ids /\ p # NoPc
      BY <1>1, <2>1, SessionsAssumption DEF OneEach, Known
    <3> QED BY <1>3, <2>1, <3>1 DEF Down
  <2> QED BY <1>1, <1>2, <2>1 DEF OneEach, Silent, Quiet, Resting
<1> QED BY <1>4, <1>5 DEF Talk

\* Every step keeps the conversations in their phases.
LEMMA TalkKept == TalkInv /\ [Next]_vars => Talk'
<1> SUFFICES ASSUME TalkInv, [Next]_vars PROVE Talk'
  OBVIOUS
<1>1. CASE RunAddToStream \/ FinishOp \/ Camera \/ InitGpio \/ Rest \/ UNCHANGED vars
  BY <1>1, TalkUnmoved
  DEF RunAddToStream, FinishOp, Camera, VisitClient, EndFrame, DanglingRead, Crash, InitGpio,
      Rest, vars, envVars, pcVars, TalkInv
<1> QED
  BY <1>1, TalkPage, TalkHandler, TalkLibrary, TalkErase DEF Next, MainOp

\* Every page has one connection, and its conversation goes through its phases.
THEOREM Conversation == SafeSpec => []Talk
<1>1. Init => Talk
  <2> SUFFICES ASSUME Init PROVE Talk
    OBVIOUS
  <2>1. \A i \in Ids : Silent(i) /\ Unused(i)
    BY DEF Init, Silent, Quiet, Unused
  <2>2. OneEach
    BY DEF Init, OneEach
  <2> QED BY <2>1, <2>2 DEF Talk, Phase
<1>2. IInv /\ ErasesHaveCause /\ Talk /\ [Next]_vars => Talk'
  BY TalkKept DEF TalkInv
<1> QED BY <1>1, <1>2, Invariant, RemovalsHaveCause, PTL DEF SafeSpec

\* What the comment "remove disconnected client" claims: what leaves the map is
\* a connection that is lost.
THEOREM RemovesDisconnected == SafeSpec => OnlyDisconnectedRemoved
<1>1. IInv /\ ErasesHaveCause /\ Talk /\ [Next]_vars
      => [\A i \in Ids : clients[i] # NoPc /\ clients'[i] # clients[i]
             => pcState[clients[i]] \in Down]_vars
  BY RemovedIsLost DEF TalkInv
<1> QED
  BY <1>1, Invariant, RemovalsHaveCause, Conversation, PTL DEF SafeSpec, OnlyDisconnectedRemoved

\* The answer of a page finds the connection whose offer it answers.
THEOREM AnswersFindTheirs == SafeSpec => []AnswerFindsConnection
<1>1. Talk => AnswerFindsConnection
  <2> SUFFICES ASSUME Talk, NEW i \in Ids, handler[i].step = "describe"
               PROVE  handler[i].pc # NoPc /\ pcState[handler[i].pc] = "new"
    BY DEF AnswerFindsConnection
  <2>1. Describing(i)
    BY PhaseSteps DEF Talk, Phase
  <2> QED BY <2>1 DEF Describing, Awaiting
<1> QED BY <1>1, Conversation, PTL

\* A handler about to create a peer connection finds one that was never used.
FreshForAll == (\E i \in Ids : handler[i].step = "create") => \E p \in Pcs : pcState[p] = "none"

\* The bound on peer connections takes nothing away from the model: with one for
\* each page, no handler waits for one that does not exist.
THEOREM CreateFindsOne == SafeSpec => []FreshForAll
<1>1. IInv /\ Talk => FreshForAll
  <2> SUFFICES ASSUME IInv, Talk, NEW i \in Ids, handler[i].step = "create",
                      \A p \in Pcs : pcState[p] # "none"
               PROVE  FALSE
    BY DEF FreshForAll
  <2>1. Creating(i)
    BY PhaseSteps DEF Talk, Phase
  <2> DEFINE own == [p \in Pcs |-> pcId[p]]
             rest == Ids \ {i}
  <2>2. \A p \in Pcs : pcId[p] \in rest
    BY <2>1 DEF Creating, Unused, IInv, MapInv, Known
  <2>3. \A p, q \in Pcs : own[p] = own[q] => p = q
    BY DEF Talk, OneEach
  <2>4. own \in [Pcs -> rest]
    BY <2>2
  <2>5. IsFiniteSet(rest) /\ Cardinality(rest) = Cardinality(Ids) - 1
    BY SessionsAssumption, FS_RemoveElement
  <2> HIDE DEF own, rest
  <2>6. own \in Injection(Pcs, rest)
    BY <2>3, <2>4, Fun_IsInj
  <2>7. Cardinality(Pcs) <= Cardinality(rest)
    BY <2>5, <2>6, FS_Injection
  <2>8. Cardinality(Pcs) \in Nat /\ Cardinality(Ids) \in Nat
    BY SessionsAssumption, FS_CardinalityType
  <2> QED BY <2>5, <2>7, <2>8, SessionsAssumption
<1> QED BY <1>1, Invariant, Conversation, PTL

-----------------------------------------------------------------------------
(* The bound on the number of dispatch() calls.                            *)

\* What a connection hands to MainThread: its track, and each way of being lost.
Causes == Down \union {"open"}

\* A connection has handed over what it had cause to.
HandedOver(p, s) ==
    \/ s = "open" /\ p \in trackOpen
    \/ s \in Down /\ s = pcState[p] /\ callback[p] # "erase"
    \/ s = "disconnected" /\ pcState[p] \in {"failed", "closed"}
    \/ s = "failed" /\ pcState[p] = "closed"

Spent == {x \in Pcs \X Causes : HandedOver(x[1], x[2])}

\* Each call of dispatch() has a cause of its own.
Budget == dispatched <= Cardinality(Spent)

\* Who is about to call dispatch() finds the bound not reached.
RoomToDispatch ==
    \A p \in Pcs : callback[p] = "erase" \/ p \notin trackOpen => dispatched < MaxOps

\* There are four causes for each peer connection.
LEMMA FourEach ==
    /\ IsFiniteSet(Pcs \X Causes) /\ Cardinality(Pcs \X Causes) = 4 * Cardinality(Pcs)
    /\ IsFiniteSet(Pcs) /\ Cardinality(Pcs) \in Nat
<1>1. IsFiniteSet(Pcs) /\ Cardinality(Pcs) \in Nat
  BY SessionsAssumption, FS_CardinalityType
<1>2. IsFiniteSet({"disconnected"}) /\ Cardinality({"disconnected"}) = 1
  BY FS_Singleton
<1>3. IsFiniteSet({"disconnected"} \union {"failed"})
      /\ Cardinality({"disconnected"} \union {"failed"}) = 2
  BY <1>2, FS_AddElement
<1> DEFINE two == {"disconnected"} \union {"failed"}
<1>4. "closed" \notin two
  OBVIOUS
<1>5. IsFiniteSet(two) /\ Cardinality(two) = 2
  BY <1>3
<1> HIDE DEF two
<1>6. IsFiniteSet(two \union {"closed"}) /\ Cardinality(two \union {"closed"}) = 3
  BY <1>4, <1>5, FS_AddElement
<1>7. two \union {"closed"} = Down
  BY DEF two, Down
<1>8. IsFiniteSet(Down) /\ Cardinality(Down) = 3 /\ "open" \notin Down
  BY <1>6, <1>7 DEF Down
<1>9. IsFiniteSet(Causes) /\ Cardinality(Causes) = 4
  BY <1>8, FS_AddElement DEF Causes
<1>10. IsFiniteSet(Pcs \X Causes)
       /\ Cardinality(Pcs \X Causes) = Cardinality(Pcs) * Cardinality(Causes)
  BY <1>1, <1>9, FS_Product
<1> QED BY <1>1, <1>9, <1>10

\* What was handed over stays so: a connection goes from one loss to a later one
\* only when its callback is done with the first.
LEMMA SpentGrows ==
    ASSUME IInv, [Next]_vars, NEW p \in Pcs, NEW s \in Causes, HandedOver(p, s)
    PROVE  HandedOver(p, s)'
<1>1. /\ callback \in [Pcs -> {"idle", "erase", "neutral"}] /\ pcState \in [Pcs -> PcStates]
  BY DEF IInv, TypeOK
<1> USE DEF Down, HandedOver
<1>2. CASE UNCHANGED <<pcState, trackOpen, callback>>
  BY <1>2
<1>3. ASSUME NEW j \in Ids, Create(j) PROVE HandedOver(p, s)'
  BY <1>1, <1>3 DEF Create
<1>4. ASSUME NEW j \in Ids, Describe(j) PROVE HandedOver(p, s)'
  BY <1>1, <1>4 DEF Describe, Crash, pcVars
<1>5. ASSUME NEW q \in Pcs, NEW r \in PcStates, ReportState(q, r) PROVE HandedOver(p, s)'
  BY <1>1, <1>5 DEF ReportState, Report
<1>6. ASSUME NEW q \in Pcs, DispatchErase(q) \/ StopMotor(q) PROVE HandedOver(p, s)'
  BY <1>1, <1>6 DEF DispatchErase, StopMotor, Crash, pcVars
<1>7. ASSUME NEW q \in Pcs, OpenTrack(q) PROVE HandedOver(p, s)'
  BY <1>1, <1>7 DEF OpenTrack
<1>8. ASSUME NEW q \in Pcs, Library(q)
      PROVE  \/ UNCHANGED <<pcState, trackOpen, callback>>
             \/ DispatchErase(q) \/ StopMotor(q) \/ OpenTrack(q)
             \/ \E r \in PcStates : ReportState(q, r)
  BY <1>8 DEF Library, GatheringComplete, Drive, Crash, pcVars
<1>9. ASSUME NEW j \in Ids, Page(j) \/ Handler(j)
      PROVE  UNCHANGED <<pcState, trackOpen, callback>> \/ Create(j) \/ Describe(j)
  BY <1>9 DEF Page, OpenPage, SendRequest, AnswerOffer, Handler, Receive, Negotiate, pcVars
<1>10. ASSUME MainOp \/ Camera \/ InitGpio \/ Rest \/ UNCHANGED vars
       PROVE  UNCHANGED <<pcState, trackOpen, callback>>
  BY <1>10
  DEF MainOp, RunErase, RunAddToStream, FinishOp, Camera, VisitClient, EndFrame, DanglingRead,
      Crash, InitGpio, Rest, vars, pcVars
<1> QED
  BY <1>2, <1>3, <1>4, <1>5, <1>6, <1>7, <1>8, <1>9, <1>10 DEF Next

\* A call of dispatch() spends a cause that was not spent.
LEMMA DispatchSpends ==
    ASSUME IInv, ErasesHaveCause, [Next]_vars
    PROVE  \/ UNCHANGED dispatched
           \/ /\ dispatched' = dispatched + 1
              /\ \E x \in Pcs \X Causes : x \notin Spent /\ HandedOver(x[1], x[2])'
<1>1. /\ callback \in [Pcs -> {"idle", "erase", "neutral"}] /\ pcState \in [Pcs -> PcStates]
  BY DEF IInv, TypeOK
<1> DEFINE Spends == /\ dispatched' = dispatched + 1
                     /\ \E x \in Pcs \X Causes : x \notin Spent /\ HandedOver(x[1], x[2])'
<1>2. ASSUME NEW p \in Pcs, DispatchErase(p) PROVE Spends
  <2>1. /\ callback[p] = "erase" /\ pcState[p] \in Down /\ dispatched' = dispatched + 1
        /\ callback'[p] = "neutral" /\ pcState' = pcState
    BY <1>1, <1>2 DEF DispatchErase, Dispatch, MainThread!Submit, ErasesHaveCause, pcVars
  <2>2. ~HandedOver(p, pcState[p]) /\ HandedOver(p, pcState[p])'
    BY <2>1 DEF HandedOver, Down
  <2>3. <<p, pcState[p]>> \in (Pcs \X Causes) \ Spent
    BY <2>1, <2>2 DEF Spent, Causes
  <2>4. HandedOver(<<p, pcState[p]>>[1], <<p, pcState[p]>>[2])'
    BY <2>1, <2>2
  <2> QED BY <2>1, <2>2, <2>3
<1>3. ASSUME NEW p \in Pcs, OpenTrack(p) PROVE Spends
  <2>1. p \notin trackOpen /\ p \in trackOpen' /\ dispatched' = dispatched + 1
    BY <1>3 DEF OpenTrack, Dispatch, MainThread!Submit
  <2>2. ~HandedOver(p, "open") /\ HandedOver(p, "open")'
    BY <2>1 DEF HandedOver, Down
  <2>3. <<p, "open">> \in (Pcs \X Causes) \ Spent
    BY <2>2 DEF Spent, Causes
  <2> QED BY <2>1, <2>2, <2>3
<1>4. ASSUME NEW p \in Pcs, Library(p)
      PROVE  UNCHANGED dispatched \/ DispatchErase(p) \/ OpenTrack(p)
  BY <1>4
  DEF Library, GatheringComplete, StopMotor, Drive, ReportState, Report, Crash, queueVars
<1>5. ASSUME NEW j \in Ids, Page(j) \/ Handler(j) PROVE UNCHANGED dispatched
  BY <1>5
  DEF Page, OpenPage, SendRequest, AnswerOffer, Handler, Receive, Create, Negotiate, Describe,
      Crash, queueVars
<1>6. CASE MainOp \/ Camera \/ InitGpio \/ Rest \/ UNCHANGED vars
  BY <1>6
  DEF MainOp, RunErase, RunAddToStream, FinishOp, Camera, VisitClient, EndFrame, DanglingRead,
      Crash, InitGpio, Rest, vars, queueVars, MainThread!Start, MainThread!Finish
<1> QED
  BY <1>2, <1>3, <1>4, <1>5, <1>6 DEF Next

\* Every step keeps the account.
LEMMA BudgetKept == IInv /\ ErasesHaveCause /\ Budget /\ [Next]_vars => Budget'
<1> SUFFICES ASSUME IInv, ErasesHaveCause, Budget, [Next]_vars PROVE Budget'
  OBVIOUS
<1>1. Spent \subseteq Spent' /\ Spent' \subseteq Pcs \X Causes
  BY SpentGrows DEF Spent
<1>2. IsFiniteSet(Spent') /\ IsFiniteSet(Spent)
  BY <1>1, FourEach, FS_Subset
<1>3. /\ Cardinality(Spent) \in Nat /\ Cardinality(Spent') \in Nat
      /\ Cardinality(Spent) <= Cardinality(Spent') /\ dispatched \in Nat
  BY <1>1, <1>2, FS_Subset, FS_CardinalityType, SessionsAssumption DEF IInv, TypeOK
<1>4. CASE UNCHANGED dispatched
  BY <1>3, <1>4 DEF Budget
<1>5. CASE /\ dispatched' = dispatched + 1
           /\ \E x \in Pcs \X Causes : x \notin Spent /\ HandedOver(x[1], x[2])'
  <2>1. PICK x \in Spent' : x \notin Spent
    BY <1>5 DEF Spent
  <2>2. Cardinality(Spent \union {x}) = Cardinality(Spent) + 1
    BY <1>2, <2>1, FS_AddElement
  <2>3. Cardinality(Spent \union {x}) <= Cardinality(Spent')
    BY <1>1, <1>2, <2>1, FS_Subset
  <2> QED BY <1>3, <1>5, <2>2, <2>3 DEF Budget
<1> QED BY <1>4, <1>5, DispatchSpends

\* The bound MaxOps takes nothing away from the model: with four calls for each
\* peer connection, no callback ever finds it reached.
THEOREM BoundNeverBlocks ==
    ASSUME 4 * Cardinality(Pcs) <= MaxOps
    PROVE  SafeSpec => []RoomToDispatch
<1>1. Init => Budget
  <2> SUFFICES ASSUME Init PROVE dispatched <= Cardinality(Spent)
    BY DEF Budget
  <2>1. IsFiniteSet(Spent)
    BY FourEach, FS_Subset DEF Spent
  <2> QED BY <2>1, FS_CardinalityType DEF Init, MainThread!Init
<1>2. ASSUME IInv, ErasesHaveCause, Budget, NEW p \in Pcs,
             callback[p] = "erase" \/ p \notin trackOpen
      PROVE  dispatched < MaxOps
  <2>1. PICK x \in Pcs \X Causes : x \notin Spent
    <3>1. CASE callback[p] = "erase"
      <4>1. pcState[p] \in Down
        BY <1>2, <3>1 DEF ErasesHaveCause
      <4>2. ~HandedOver(p, pcState[p])
        BY <3>1, <4>1 DEF HandedOver, Down
      <4>3. <<p, pcState[p]>> \in (Pcs \X Causes) \ Spent
        BY <4>1, <4>2 DEF Spent, Causes
      <4> QED BY <4>3
    <3>2. CASE p \notin trackOpen
      <4>1. ~HandedOver(p, "open")
        BY <3>2 DEF HandedOver, Down
      <4>2. <<p, "open">> \in (Pcs \X Causes) \ Spent
        BY <4>1 DEF Spent, Causes
      <4> QED BY <4>2
    <3> QED BY <1>2, <3>1, <3>2
  <2>2. Spent \in SUBSET (Pcs \X Causes) /\ Spent # Pcs \X Causes
    BY <2>1 DEF Spent
  <2>3. IsFiniteSet(Spent) /\ Cardinality(Spent) <= 4 * Cardinality(Pcs)
        /\ Cardinality(Spent) # 4 * Cardinality(Pcs)
    BY <2>2, FourEach, FS_Subset
  <2>4. /\ Cardinality(Spent) \in Nat /\ dispatched \in Nat /\ MaxOps \in Nat
        /\ 4 * Cardinality(Pcs) \in Nat /\ dispatched <= Cardinality(Spent)
    BY <1>2, <2>3, FourEach, FS_CardinalityType, SessionsAssumption DEF IInv, TypeOK, Budget
  <2> QED BY <2>3, <2>4
<1>3. IInv /\ ErasesHaveCause /\ Budget => RoomToDispatch
  BY <1>2 DEF RoomToDispatch
<1> QED BY <1>1, <1>3, BudgetKept, Invariant, RemovalsHaveCause, PTL DEF SafeSpec

=============================================================================
