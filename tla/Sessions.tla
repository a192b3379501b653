------------------------------- MODULE Sessions -------------------------------
(***************************************************************************)
(* src/src/main.cpp: the life of a client, from the page's signalling      *)
(* request to the removal of its entry in the map `clients`.               *)
(*                                                                         *)
(* Four kinds of thread touch that map and nothing guards it: a websocket  *)
(* callback per signalling socket (finds and inserts), the MainThread      *)
(* queue (erases), and the camera (iterates once per frame); libdatachannel*)
(* calls back on threads of its own when a peer connection changes state.  *)
(* MainThread is an instance of the abstract queue TaskQueue, which        *)
(* DispatchQueue is shown to implement.                                    *)
(*                                                                         *)
(* A peer connection and its Client object are one model value p: they are *)
(* created together.  They live as long as some thread holds a shared_ptr  *)
(* to them (ClientHeld, PcHeld); a peer connection nobody holds is closed  *)
(* by its destructor and reports Closed.  The pages (webroot/js) and the   *)
(* library are the environment: a page asks once, when its socket is open, *)
(* under an id made for this load of it, and answers the offer it gets.    *)
(***************************************************************************)
EXTENDS Naturals, Sequences, FiniteSets

CONSTANTS Ids,          \* client ids: one per loaded page, and so one per socket
          Pcs,          \* peer connections that can be created: one per page suffices
          NoId, NoPc,   \* none of them
          Main,         \* the one thread of MainThread
          MaxOps        \* bound on dispatch() calls: 4 per peer connection suffice

ASSUME SessionsAssumption ==
    /\ NoId \notin Ids /\ NoPc \notin Pcs
    /\ IsFiniteSet(Ids) /\ IsFiniteSet(Pcs)
    /\ Cardinality(Ids) <= Cardinality(Pcs)
    /\ MaxOps \in Nat

VARIABLES
    \* the environment
    inbox,      \* per page: signalling messages on their way to the server
    outbox,     \* per page: offers on their way to the page
    loaded,     \* ids of the pages that have been opened
    asked,      \* ids of the pages that have sent their request
    pcState,    \* PeerConnection::State, or "none" before its creation
    trackOpen,  \* peer connections whose video track has opened
    \* the program
    clients,    \* the map: id -> client, NoPc where the id has no entry
    pcId,       \* the id a peer connection's callbacks captured
    gathering,  \* PeerConnection::GatheringState
    clientState,\* Client::State
    signaling,  \* the page whose socket run_websocket_server's `client` holds
    handler,    \* per socket: where its onMessage callback is
    callback,   \* per peer connection: where its onStateChange callback is
    camera,     \* the entry the camera thread is at, and those it has passed
    gpio,       \* whether bldc and steer point to anything
    throttle,   \* the peer connection whose message last drove the motor, or NoPc: 1500
    crashed,    \* the process has died
    \* the MainThread queue
    dispatched, waiting, executing, lastStarted, \* as in TaskQueue
    ops,        \* the operation of each ticket in the queue or executing
    locked      \* the client the executing operation holds

envVars   == <<inbox, outbox, loaded, asked>>
pcVars    == <<pcState, trackOpen, gathering, pcId>>
queueVars == <<dispatched, waiting, executing, lastStarted, ops>>
motorVars == <<gpio, throttle>>
vars == <<envVars, pcVars, clients, clientState, signaling, handler, callback,
          camera, motorVars, crashed, queueVars, locked>>

MainThread == INSTANCE TaskQueue WITH
    Workers <- {Main}, Idle <- 0, submitted <- dispatched,
    pending <- waiting, running <- executing, closed <- crashed

PcStates == {"none", "new", "connecting", "connected", "disconnected", "failed", "closed"}
Down     == {"disconnected", "failed", "closed"}
Erase(i) == [op |-> "erase", id |-> i, pc |-> NoPc]
Add(p)   == [op |-> "addToStream", id |-> NoId, pc |-> p]
NoOp     == [op |-> "none", id |-> NoId, pc |-> NoPc]
Ops      == {NoOp} \union {Erase(i) : i \in Ids} \union {Add(p) : p \in Pcs}
Resting  == [step |-> "idle", pc |-> NoPc]
NoFrame  == [id |-> NoId, pc |-> NoPc, passed |-> {}]

Init ==
    /\ inbox = [i \in Ids |-> <<>>]
    /\ outbox = [i \in Ids |-> <<>>]
    /\ loaded = {}
    /\ asked = {}
    /\ pcState = [p \in Pcs |-> "none"]
    /\ trackOpen = {}
    /\ clients = [i \in Ids |-> NoPc]
    /\ pcId = [p \in Pcs |-> NoId]
    /\ gathering = [p \in Pcs |-> "new"]
    /\ clientState = [p \in Pcs |-> "Waiting"]
    /\ signaling = NoId
    /\ handler = [i \in Ids |-> Resting]
    /\ callback = [p \in Pcs |-> "idle"]
    /\ camera = NoFrame
    /\ gpio = "starting"
    /\ throttle = NoPc
    /\ crashed = FALSE
    /\ ops = [t \in 1..MaxOps |-> NoOp]
    /\ locked = NoPc
    /\ MainThread!Init

\* Who holds a shared_ptr<Client>: the map, createPeerConnection, the operation
\* that locked it, the camera's copy of the entry.
ClientHeld(p) ==
    \/ \E i \in Ids : \/ clients[i] = p
                     \/ (handler[i].step = "emplaced" /\ handler[i].pc = p)
    \/ locked = p
    \/ camera.pc = p

\* A Client holds its peer connection; so does a handler that looked it up.
PcHeld(p) == ClientHeld(p) \/ \E i \in Ids : handler[i].pc = p

\* A dereference of a null pointer ends the process.
Crash ==
    /\ crashed' = TRUE
    /\ UNCHANGED <<envVars, pcVars, clients, clientState, signaling, handler,
                   callback, camera, motorVars, queueVars, locked>>

Dispatch(operation) ==
    /\ MainThread!Submit
    /\ ops' = [ops EXCEPT ![dispatched + 1] = operation]

-----------------------------------------------------------------------------
(* The page: connection.js.  Its socket delivers in order, and is closed   *)
(* when the server lets go of it.                                          *)

\* A page is opened; run_websocket_server's `client = incoming` drops the
\* socket of the page before it.
OpenPage(i) ==
    /\ i \notin loaded
    /\ loaded' = loaded \union {i}
    /\ signaling' = i
    /\ inbox' = [j \in Ids |-> <<>>]
    /\ outbox' = [j \in Ids |-> <<>>]
    /\ UNCHANGED <<asked, pcVars, clients, clientState, handler, callback,
                   camera, motorVars, crashed, queueVars, locked>>

\* Mutant of SendRequest: the page asks again, once its last message is taken.
SendRequestAgain(i) ==
    /\ signaling = i /\ inbox[i] = <<>>
    /\ asked' = asked \union {i}
    /\ inbox' = [inbox EXCEPT ![i] = Append(@, "request")]
    /\ UNCHANGED <<outbox, loaded, pcVars, clients, clientState, signaling, handler,
                   callback, camera, motorVars, crashed, queueVars, locked>>

\* websocket.onopen calls start(), half a second later and once.
SendRequest(i) ==
    /\ signaling = i /\ i \notin asked
    /\ asked' = asked \union {i}
    /\ inbox' = [inbox EXCEPT ![i] = Append(@, "request")]
    /\ UNCHANGED <<outbox, loaded, pcVars, clients, clientState, signaling, handler,
                   callback, camera, motorVars, crashed, queueVars, locked>>

\* handleOffer() and sendAnswer().
AnswerOffer(i) ==
    /\ signaling = i
    /\ outbox[i] # <<>>
    /\ inbox' = [inbox EXCEPT ![i] = Append(@, "answer")]
    /\ outbox' = [outbox EXCEPT ![i] = Tail(@)]
    /\ UNCHANGED <<loaded, asked, pcVars, clients, clientState, signaling, handler,
                   callback, camera, motorVars, crashed, queueVars, locked>>

-----------------------------------------------------------------------------
(* client->onMessage in run_websocket_server, per socket.                  *)

\* The look-up.  A request for a known id needs nothing further.
Receive(i) ==
    /\ signaling = i /\ handler[i] = Resting
    /\ inbox[i] # <<>>
    /\ inbox' = [inbox EXCEPT ![i] = Tail(@)]
    /\ handler' = [handler EXCEPT ![i] =
           IF Head(inbox[i]) = "answer" THEN [step |-> "describe", pc |-> clients[i]]
           ELSE IF clients[i] = NoPc THEN [step |-> "create", pc |-> NoPc] ELSE Resting]
    /\ UNCHANGED <<outbox, loaded, asked, pcVars, clients, clientState, signaling,
                   callback, camera, motorVars, crashed, queueVars, locked>>

\* Mutant of Create: the callbacks capture no id.
CreateAnonymous(i) ==
    /\ handler[i].step = "create"
    /\ \E p \in Pcs :
          /\ pcState[p] = "none"
          /\ pcState' = [pcState EXCEPT ![p] = "new"]
          /\ clients' = [clients EXCEPT ![i] = p]
          /\ handler' = [handler EXCEPT ![i] = [step |-> "emplaced", pc |-> p]]
    /\ UNCHANGED <<envVars, trackOpen, gathering, pcId, clientState, signaling,
                   callback, camera, motorVars, crashed, queueVars, locked>>

\* createPeerConnection up to clients.emplace(), which keeps an entry it finds.
Create(i) ==
    /\ handler[i].step = "create"
    /\ \E p \in Pcs :
          /\ pcState[p] = "none"
          /\ pcState' = [pcState EXCEPT ![p] = "new"]
          /\ pcId' = [pcId EXCEPT ![p] = i]
          /\ clients' = IF clients[i] = NoPc THEN [clients EXCEPT ![i] = p] ELSE clients
          /\ handler' = [handler EXCEPT ![i] = [step |-> "emplaced", pc |-> p]]
    /\ UNCHANGED <<envVars, trackOpen, gathering, clientState, signaling,
                   callback, camera, motorVars, crashed, queueVars, locked>>

\* Mutant of Negotiate: nobody calls setLocalDescription().
NegotiateNothing(i) ==
    /\ handler[i].step = "emplaced"
    /\ handler' = [handler EXCEPT ![i] = Resting]
    /\ UNCHANGED <<envVars, pcVars, clients, clientState,
                   signaling, callback, camera, motorVars, crashed, queueVars, locked>>

\* pc->setLocalDescription(), and the return to the handler, which is done.
Negotiate(i) ==
    /\ handler[i].step = "emplaced"
    /\ gathering' = [gathering EXCEPT ![handler[i].pc] = "inprogress"]
    /\ handler' = [handler EXCEPT ![i] = Resting]
    /\ UNCHANGED <<envVars, pcState, trackOpen, pcId, clients, clientState,
                   signaling, callback, camera, motorVars, crashed, queueVars, locked>>

\* pc->setRemoteDescription(answer): a null pc if the look-up found none; an
\* exception, caught by the library, if this peer connection awaits no answer.
Describe(i) ==
    /\ handler[i].step = "describe"
    /\ LET p == handler[i].pc
       IN  IF p = NoPc THEN Crash
           ELSE /\ handler' = [handler EXCEPT ![i] = Resting]
                /\ pcState' = IF pcState[p] = "new" /\ gathering[p] # "new"
                              THEN [pcState EXCEPT ![p] = "connecting"] ELSE pcState
                /\ UNCHANGED <<envVars, trackOpen, gathering, pcId, clients, clientState,
                               signaling, callback, camera, motorVars, crashed, queueVars, locked>>

-----------------------------------------------------------------------------
(* The peer connections and the callbacks installed by                     *)
(* createPeerConnection.                                                   *)

SocketHeld(i) == signaling = i \/ handler[i] # Resting

\* onGatheringStateChange(Complete): the description goes to the socket that
\* asked, if the peer connection and the socket still exist.
GatheringComplete(p) ==
    /\ gathering[p] = "inprogress"
    /\ gathering' = [gathering EXCEPT ![p] = "complete"]
    /\ outbox' = IF PcHeld(p) /\ pcState[p] = "new" /\ SocketHeld(pcId[p])
                 THEN [outbox EXCEPT ![pcId[p]] = Append(@, "offer")] ELSE outbox
    /\ UNCHANGED <<inbox, loaded, asked, pcState, trackOpen, pcId, clients, clientState,
                    signaling, handler, callback, camera, motorVars,
                   crashed, queueVars, locked>>

\* The library moves to state s and calls onStateChange with it.  The destructor,
\* or the remote peer, closes.
Report(p, s, removing) ==
    /\ callback[p] = "idle"
    /\ \/ s = "connected"    /\ pcState[p] = "connecting"
       \/ s = "disconnected" /\ pcState[p] = "connected"
       \/ s = "failed"       /\ pcState[p] \in {"connecting", "disconnected"}
       \/ s = "closed"       /\ \/ pcState[p] \in {"connected", "disconnected"}
                                \/ pcState[p] \notin {"none", "closed"} /\ ~PcHeld(p)
    /\ pcState' = [pcState EXCEPT ![p] = s]
    /\ callback' = [callback EXCEPT ![p] = IF s \in removing THEN "erase" ELSE "idle"]
    /\ UNCHANGED <<envVars, trackOpen, gathering, pcId, clients, clientState,
                   signaling, handler, camera, motorVars, crashed, queueVars, locked>>

\* Mutant: the callback overlooks Closed.
ReportStateNotClosed(p, s) == Report(p, s, {"disconnected", "failed"})

ReportState(p, s) == Report(p, s, Down)

\* onStateChange: MainThread.dispatch(clients.erase(id)) ...
DispatchErase(p) ==
    /\ callback[p] = "erase"
    /\ Dispatch(Erase(pcId[p]))
    /\ callback' = [callback EXCEPT ![p] = "neutral"]
    /\ UNCHANGED <<envVars, pcVars, clients, clientState, signaling, handler, camera,
                   motorVars, crashed, locked>>

\* Mutant of StopMotor: the motor is stopped only when no client is left.
StopMotorIfLast(p) ==
    /\ callback[p] = "neutral"
    /\ \/ gpio # "ready" /\ Crash
       \/ /\ gpio = "ready"
          /\ throttle' = IF \A i \in Ids : clients[i] = NoPc THEN NoPc ELSE throttle
          /\ callback' = [callback EXCEPT ![p] = "idle"]
          /\ UNCHANGED <<envVars, pcVars, clients, clientState, signaling, handler, camera,
                         gpio, crashed, queueVars, locked>>

\* ... then bldc->servo(1500), through a null pointer while there is no GPIO.
StopMotor(p) ==
    /\ callback[p] = "neutral"
    /\ \/ gpio # "ready" /\ Crash
       \/ /\ gpio = "ready"
          /\ throttle' = NoPc
          /\ callback' = [callback EXCEPT ![p] = "idle"]
          /\ UNCHANGED <<envVars, pcVars, clients, clientState, signaling, handler, camera,
                         gpio, crashed, queueVars, locked>>

\* The track's onOpen.
OpenTrack(p) ==
    /\ pcState[p] = "connected" /\ p \notin trackOpen
    /\ trackOpen' = trackOpen \union {p}
    /\ Dispatch(Add(p))
    /\ UNCHANGED <<envVars, pcState, gathering, pcId, clients, clientState,
                   signaling, handler, callback, camera, motorVars, crashed, locked>>

\* The data channel's onMessage: steer->servo(x), bldc->servo(y).  A link that
\* reported Disconnected may still deliver what was under way.
Drive(p) ==
    /\ pcState[p] \in {"connected", "disconnected"}
    /\ \/ gpio # "ready" /\ Crash
       \/ /\ gpio = "ready"
          /\ throttle' \in {p, NoPc}
          /\ UNCHANGED <<envVars, pcVars, clients, clientState, signaling, handler, callback,
                         camera, gpio, crashed, queueVars, locked>>

-----------------------------------------------------------------------------
(* The operations MainThread executes.                                     *)

\* Mutant of RunErase: the entry loses its key, not only its client.
RunEraseKey ==
    /\ MainThread!Start(Main)
    /\ ops[Head(waiting)].op = "erase"
    /\ clients' = [i \in Ids \ {ops[Head(waiting)].id} |-> clients[i]]
    /\ UNCHANGED <<envVars, pcVars, clientState, signaling, handler, callback, camera,
                   motorVars, crashed, ops, locked>>

RunErase ==
    /\ MainThread!Start(Main)
    /\ LET operation == ops[Head(waiting)]
       IN  /\ operation.op = "erase"
           /\ clients' = [clients EXCEPT ![operation.id] = NoPc]
    /\ UNCHANGED <<envVars, pcVars, clientState, signaling, handler, callback, camera,
                   motorVars, crashed, ops, locked>>

\* wc.lock(), then addToStream sets the client Ready; the initial NAL units are
\* sent before the operation finishes and lets go of the client.
RunAddToStream ==
    /\ MainThread!Start(Main)
    /\ LET operation == ops[Head(waiting)]
           p == operation.pc
       IN  /\ operation.op = "addToStream"
           /\ IF ClientHeld(p)
              THEN /\ locked' = p
                   /\ clientState' = [clientState EXCEPT ![p] = "Ready"]
              ELSE UNCHANGED <<locked, clientState>>
    /\ UNCHANGED <<envVars, pcVars, clients, signaling, handler, callback, camera,
                   motorVars, crashed, ops>>

FinishOp ==
    /\ MainThread!Finish(Main)
    /\ ops' = [ops EXCEPT ![executing[Main]] = NoOp]
    /\ locked' = NoPc
    /\ UNCHANGED <<envVars, pcVars, clients, clientState, signaling, handler, callback,
                   camera, motorVars, crashed>>

-----------------------------------------------------------------------------
(* The loop over clients in on_mmalcam_buffer.                             *)

\* The entry the camera stands on has been erased under it.
Dangling == camera.id # NoId /\ clients[camera.id] # camera.pc

\* The loop copies the next entry.
VisitClient(i) ==
    /\ clients[i] # NoPc /\ i \notin camera.passed
    /\ camera' = [id |-> i, pc |-> clients[i], passed |-> camera.passed \union {i}]
    /\ UNCHANGED <<envVars, pcVars, clients, clientState, signaling, handler, callback,
                   motorVars, crashed, queueVars, locked>>

\* The loop ends; ++ on an erased entry may end it early ...
EndFrame ==
    /\ camera # NoFrame
    /\ Dangling \/ \A i \in Ids : clients[i] = NoPc \/ i \in camera.passed
    /\ camera' = NoFrame
    /\ UNCHANGED <<envVars, pcVars, clients, clientState, signaling, handler, callback,
                   motorVars, crashed, queueVars, locked>>

\* ... or read freed memory and die.
DanglingRead == Dangling /\ Crash

-----------------------------------------------------------------------------
\* main(): the websocket thread is already serving when this happens.
InitGpio ==
    /\ gpio = "starting"
    /\ gpio' \in {"ready", "failed"}
    /\ throttle' = NoPc
    /\ UNCHANGED <<envVars, pcVars, clients, clientState, signaling, handler, callback,
                   camera, crashed, queueVars, locked>>

Page(i)    == OpenPage(i) \/ SendRequest(i) \/ AnswerOffer(i)
Handler(i) == Receive(i) \/ Create(i) \/ Negotiate(i) \/ Describe(i)
Library(p) ==
    \/ GatheringComplete(p) \/ DispatchErase(p) \/ StopMotor(p) \/ OpenTrack(p) \/ Drive(p)
    \/ \E s \in PcStates : ReportState(p, s)
MainOp     == RunErase \/ RunAddToStream \/ FinishOp
Camera     == (\E i \in Ids : VisitClient(i)) \/ EndFrame \/ DanglingRead

\* The process has died, or rests.
Rest ==
    /\ \/ crashed
       \/ /\ \A i \in Ids : inbox[i] = <<>> /\ handler[i] = Resting
          /\ \A p \in Pcs : callback[p] = "idle"
          /\ waiting = <<>> /\ executing[Main] = 0
    /\ UNCHANGED vars

Next ==
    \/ /\ ~crashed
       /\ \/ \E i \in Ids : Page(i) \/ Handler(i)
          \/ \E p \in Pcs : Library(p)
          \/ MainOp \/ Camera \/ InitGpio
    \/ Rest

SafeSpec == Init /\ [][Next]_vars

(***************************************************************************)
(* The pages answer what they receive, the library reports what becomes of *)
(* a peer connection, and every thread that can take a step takes it.      *)
(* Nobody has to open a page, ask, lose a connection or drive.             *)
(***************************************************************************)
Fairness ==
    /\ \A i \in Ids :
          /\ WF_vars(~crashed /\ AnswerOffer(i))
          /\ WF_vars(~crashed /\ Handler(i))
    /\ \A p \in Pcs :
          /\ WF_vars(~crashed /\ GatheringComplete(p))
          /\ WF_vars(~crashed /\ pcState[p] = "connecting"
                      /\ (ReportState(p, "connected") \/ ReportState(p, "failed")))
          /\ WF_vars(~crashed /\ ~PcHeld(p) /\ ReportState(p, "closed"))
          /\ WF_vars(~crashed /\ (DispatchErase(p) \/ StopMotor(p)))
          /\ WF_vars(~crashed /\ OpenTrack(p))
    /\ WF_vars(~crashed /\ MainOp)
    /\ WF_vars(~crashed /\ (camera # NoFrame) /\ Camera)

Spec == SafeSpec /\ Fairness

-----------------------------------------------------------------------------
(* Properties.                                                             *)

\* The types of the variables.
TypeOK ==
    /\ inbox \in [Ids -> Seq({"request", "answer"})]
    /\ outbox \in [Ids -> Seq({"offer"})]
    /\ loaded \in SUBSET Ids
    /\ asked \in SUBSET Ids
    /\ pcState \in [Pcs -> PcStates]
    /\ trackOpen \in SUBSET Pcs
    /\ clients \in [Ids -> Pcs \union {NoPc}]
    /\ pcId \in [Pcs -> Ids \union {NoId}]
    /\ gathering \in [Pcs -> {"new", "inprogress", "complete"}]
    /\ clientState \in [Pcs -> {"Waiting", "Ready"}]
    /\ signaling \in Ids \union {NoId}
    /\ handler \in [Ids -> [step : {"idle", "create", "emplaced", "describe"},
                            pc : Pcs \union {NoPc}]]
    /\ callback \in [Pcs -> {"idle", "erase", "neutral"}]
    /\ camera \in [id : Ids \union {NoId}, pc : Pcs \union {NoPc}, passed : SUBSET Ids]
    /\ gpio \in {"starting", "ready", "failed"}
    /\ throttle \in Pcs \union {NoPc}
    /\ crashed \in BOOLEAN
    /\ dispatched \in 0..MaxOps
    /\ waiting \in Seq(1..MaxOps)
    /\ executing \in [{Main} -> 0..MaxOps]
    /\ lastStarted \in 0..MaxOps
    /\ ops \in [1..MaxOps -> Ops]
    /\ locked \in Pcs \union {NoPc}

\* Every entry of the map leads to a peer connection whose callbacks will look
\* for it under that id.
EntryOwnsId ==
    \A i \in Ids : clients[i] # NoPc => pcId[clients[i]] = i /\ pcState[clients[i]] # "none"

EraseComing(i) ==
    \/ \E p \in Pcs : callback[p] = "erase" /\ pcId[p] = i
    \/ \E k \in 1..Len(waiting) : ops[waiting[k]] = Erase(i)

\* A client whose connection is lost is never left in the map with nothing on
\* the way to remove it, whatever it was lost by and whichever of the three
\* removals that Disconnected, Failed and Closed ask for have been executed.
LostClientHasErase ==
    \A i \in Ids : clients[i] # NoPc /\ pcState[clients[i]] \in Down => EraseComing(i)

\* The answer of a page finds the peer connection whose offer it answers, and
\* that one still awaits it: setRemoteDescription() (main.cpp:459) is not called
\* through the null pc of an id whose entry was removed meanwhile.
AnswerFindsConnection ==
    \A i \in Ids : handler[i].step = "describe"
        => handler[i].pc # NoPc /\ pcState[handler[i].pc] = "new"

\* onStateChange: "// remove disconnected client" (main.cpp:199).  What leaves the
\* map is a connection that is lost, although a removal names an id only, is
\* executed later on another thread, and is asked for up to three times.
OnlyDisconnectedRemoved ==
    [][\A i \in Ids : clients[i] # NoPc /\ clients'[i] # clients[i]
          => pcState[clients[i]] \in Down]_vars

\* The motor is not left under the command of a closed connection: the callback
\* that reports the close is still to set it to 1500.
ClosedDoesNotDrive ==
    ~crashed => \A p \in Pcs : (throttle = p /\ pcState[p] = "closed") => callback[p] # "idle"

\* A client whose connection is lost leaves the map.
LostClientLeaves ==
    \A p \in Pcs : pcState[p] \in Down ~> (crashed \/ \A i \in Ids : clients[i] # p)

\* After a connection is lost, its last command is cancelled for good.
LostDriverLetsGo ==
    \A p \in Pcs : pcState[p] \in Down ~> (crashed \/ [](throttle # p))

\* A peer connection that was offered comes to a state of its own accord,
\* unless it was erased or a page opened later took over the socket.
OfferSettles ==
    \A i \in Ids, p \in Pcs :
        pcState[p] = "new" /\ pcId[p] = i
            ~> (crashed \/ pcState[p] # "new" \/ signaling # i)
=============================================================================
