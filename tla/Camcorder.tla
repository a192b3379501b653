------------------------------ MODULE Camcorder ------------------------------
(***************************************************************************)
(* The camera side of the program, from start_mmalcam (src/src/mmalcam.c)  *)
(* through mmal_start_camcorder (src/src/viewfinder.c) to the end of main. *)
(*                                                                         *)
(* Threads: main, which joins the starter (mmalcam_thread) and returns;    *)
(* the starter, which creates the camcorder thread, waits for init_sem and *)
(* joins it; the camcorder thread, which builds the pipeline, moves        *)
(* buffers round it until told to stop, and takes it down; the firmware,   *)
(* which hands buffers back through the port callbacks; a signal handler;  *)
(* and the websocket library, whose track callback asks for an I-frame.    *)
(*                                                                         *)
(* Two rounds of buffers: pool "in" -> video port -> queue -> encoder      *)
(* input -> pool, and pool "out" -> encoder output -> queue -> cb -> pool. *)
(* Only the number of buffers in each place matters.                       *)
(***************************************************************************)
EXTENDS Naturals, FiniteSets

CONSTANT Buffers     \* buffer headers of a pool: buffer_num

ASSUME CamcorderAssumption == Buffers \in Nat \ {0}

VARIABLES
    main,     \* where main() is
    starter,  \* where start_mmalcam is
    cam,      \* where mmal_start_camcorder is
    initSem,  \* the count of init_sem
    failed,   \* init_result is an error
    stop, stoppedAlready,
    live,     \* resources created and not destroyed
    ptr,      \* resources the locals of mmal_start_camcorder point to
    enabled,  \* enabled ports
    free,     \* per pool: buffers in its own queue
    atPort,   \* per port: buffers the firmware holds
    queued,   \* per round: buffers in queue_encoder_in, queue_encoder_out
    crashed   \* the process has died of undefined behaviour

Rounds    == {"in", "out"}
Pool      == [in |-> "poolIn", out |-> "poolOut"]
Queue     == [in |-> "queueIn", out |-> "queueOut"]
Ports     == {"video", "encIn", "encOut"}
RoundOf   == [video |-> "in", encIn |-> "in", encOut |-> "out"]
Resources == {"events", "camera", "encoder", "poolIn", "queueIn", "poolOut", "queueOut"}

threadVars == <<main, starter, initSem, failed, stop, stoppedAlready>>
bufferVars == <<free, atPort, queued>>
vars == <<threadVars, cam, live, ptr, enabled, bufferVars, crashed>>

Init ==
    /\ main = "join"
    /\ starter = "create"
    /\ cam = "unborn"
    /\ initSem = 0
    /\ failed = FALSE
    /\ stop = FALSE /\ stoppedAlready = FALSE
    /\ live = {} /\ ptr = {}
    /\ enabled = {}
    /\ free = [r \in Rounds |-> 0]
    /\ atPort = [p \in Ports |-> 0]
    /\ queued = [r \in Rounds |-> 0]
    /\ crashed = FALSE

Alive == ~crashed /\ main = "join"

Crash == crashed' = TRUE /\ UNCHANGED <<threadVars, cam, live, ptr, enabled, bufferVars>>

-----------------------------------------------------------------------------
(* start_mmalcam, main and the signal handler.                             *)

CreateThread ==
    /\ starter = "create"
    /\ \/ starter' = "wait" /\ cam' = "events"
       \/ starter' = "joinNothing" /\ UNCHANGED cam  \* thread creation failed
    /\ UNCHANGED <<main, initSem, failed, stop, stoppedAlready, live, ptr, enabled, bufferVars, crashed>>

\* show_error() joins a thread that was never created.
JoinNothing ==
    /\ starter = "joinNothing"
    /\ \/ Crash
       \/ /\ starter' = "returned"
          /\ UNCHANGED <<main, cam, initSem, failed, stop, stoppedAlready, live, ptr,
                         enabled, bufferVars, crashed>>

\* vcos_semaphore_wait; then show_error() whatever init_result says, as
\* sleepy_time is 0.
WaitInit ==
    /\ starter = "wait" /\ initSem > 0
    /\ initSem' = initSem - 1
    /\ starter' = "join"
    /\ UNCHANGED <<main, cam, failed, stop, stoppedAlready, live, ptr, enabled, bufferVars, crashed>>

JoinCamcorder ==
    /\ starter = "join" /\ cam = "ended"
    /\ starter' = "returned"
    /\ UNCHANGED <<main, cam, initSem, failed, stop, stoppedAlready, live, ptr,
                   enabled, bufferVars, crashed>>

\* return 0 destroys websocket_thread, which is still joinable: std::terminate.
MainReturns ==
    /\ main = "join" /\ starter = "returned"
    /\ main' = "aborted"
    /\ UNCHANGED <<starter, cam, initSem, failed, stop, stoppedAlready, live, ptr,
                   enabled, bufferVars, crashed>>

\* signal_handler: the first Ctrl+C asks the camcorder to stop, the next exits.
Interrupt ==
    /\ stoppedAlready' = TRUE
    /\ IF stoppedAlready THEN main' = "killed" /\ UNCHANGED stop
                         ELSE stop' = TRUE /\ UNCHANGED main
    /\ UNCHANGED <<starter, cam, initSem, failed, live, ptr, enabled, bufferVars, crashed>>

\* request_i_frame, from the track's onOpen: a null port is refused, and
\* encoder_output still points at the encoder after it has been destroyed.
RequestIFrame ==
    /\ "encoder" \in ptr \ live
    /\ Crash

-----------------------------------------------------------------------------
(* mmal_start_camcorder: building the pipeline.                            *)

Acquire(from, to, resources, ports) ==
    /\ cam = from
    /\ cam' = to
    /\ live' = live \union resources
    /\ ptr' = ptr \union resources
    /\ enabled' = enabled \union ports
    /\ UNCHANGED failed

\* A step of the construction fails: init_result is set, goto error.
Fail(from) ==
    /\ cam = from
    /\ cam' = "freePoolIn"
    /\ failed' = TRUE
    /\ UNCHANGED <<live, ptr, enabled>>

CreateEvents ==
    /\ Acquire("events", "camera", {"events"}, {}) \/ Fail("events")
    /\ UNCHANGED <<main, starter, initSem, stop, stoppedAlready, bufferVars, crashed>>

\* test_camera_create and test_video_encoder_create destroy what they fail on.
CreateCamera ==
    /\ Acquire("camera", "encoder", {"camera"}, {}) \/ Fail("camera")
    /\ UNCHANGED <<main, starter, initSem, stop, stoppedAlready, bufferVars, crashed>>

CreateEncoder ==
    /\ Acquire("encoder", "connect", {"encoder"}, {}) \/ Fail("encoder")
    /\ UNCHANGED <<main, starter, initSem, stop, stoppedAlready, bufferVars, crashed>>

\* connect_ports, after setup_output_port: mmal_port_enable(input_port) fails,
\* and pool and queue are destroyed, but *p_pool and *p_queue keep pointing there.
InputPortFails ==
    /\ cam = "connect"
    /\ cam' = "freePoolIn"
    /\ failed' = TRUE
    /\ ptr' = ptr \union {"poolIn", "queueIn"}
    /\ UNCHANGED <<live, enabled>>

\* Every other failure of connect_ports, setup_output_port included, leaves
\* nothing behind.
ConnectPorts ==
    /\ \/ /\ Acquire("connect", "output", {"poolIn", "queueIn"}, {"video", "encIn"})
          /\ free' = [free EXCEPT !["in"] = Buffers]
       \/ (Fail("connect") \/ InputPortFails) /\ UNCHANGED free
    /\ UNCHANGED <<main, starter, initSem, stop, stoppedAlready, atPort, queued, crashed>>

SetupOutputPort ==
    /\ \/ /\ Acquire("output", "capture", {"poolOut", "queueOut"}, {"encOut"})
          /\ free' = [free EXCEPT !["out"] = Buffers]
       \/ Fail("output") /\ UNCHANGED free
    /\ UNCHANGED <<main, starter, initSem, stop, stoppedAlready, atPort, queued, crashed>>

\* Setting the capture parameter succeeds, and initialisation is complete.
StartCapture ==
    /\ \/ Acquire("capture", "wait", {}, {}) /\ initSem' = initSem + 1
       \/ Fail("capture") /\ UNCHANGED initSem
    /\ UNCHANGED <<main, starter, stop, stoppedAlready, bufferVars, crashed>>

-----------------------------------------------------------------------------
(* The loop.  A refused send puts the buffer back and ends the loop.       *)

Go(from, to) == cam = from /\ cam' = to

NoThreadMoves == UNCHANGED <<threadVars, live, ptr, crashed>>

\* vcos_event_flags_get returns when an event comes or its timeout passes.
CheckStop ==
    /\ Go("wait", IF stop THEN "disableVideo" ELSE "fillVideo")
    /\ NoThreadMoves /\ UNCHANGED <<enabled, bufferVars>>

Send(p) == atPort' = [atPort EXCEPT ![p] = @ + 1]

\* Mutant: a refused buffer is not put back.
FillPortDropping(p, at, next) ==
    LET r == RoundOf[p] IN
    /\ \/ free[r] = 0 /\ Go(at, next) /\ UNCHANGED <<free, atPort>>
       \/ free[r] > 0 /\ Go(at, at) /\ Send(p) /\ free' = [free EXCEPT ![r] = @ - 1]
       \/ free[r] > 0 /\ Go(at, "disableVideo") /\ UNCHANGED atPort /\ free' = [free EXCEPT ![r] = @ - 1]
    /\ NoThreadMoves /\ UNCHANGED <<enabled, queued>>

\* fill_port_from_pool: sends until the pool's queue is empty.
FillPort(p, at, next) ==
    LET r == RoundOf[p] IN
    /\ \/ free[r] = 0 /\ Go(at, next) /\ UNCHANGED <<free, atPort>>
       \/ free[r] > 0 /\ Go(at, at) /\ Send(p) /\ free' = [free EXCEPT ![r] = @ - 1]
       \/ free[r] > 0 /\ Go(at, "disableVideo") /\ UNCHANGED <<free, atPort>>
    /\ NoThreadMoves /\ UNCHANGED <<enabled, queued>>

FillVideo   == FillPort("video", "fillVideo", "fillEncoder")
FillEncoder == FillPort("encOut", "fillEncoder", "feed")

\* send_buffer_from_queue: one camera frame goes to the encoder.
FeedEncoder ==
    /\ \/ queued["in"] = 0 /\ Go("feed", "take") /\ UNCHANGED <<queued, atPort>>
       \/ queued["in"] > 0 /\ Go("feed", "take") /\ Send("encIn")
          /\ queued' = [queued EXCEPT !["in"] = @ - 1]
       \/ queued["in"] > 0 /\ Go("feed", "disableVideo") /\ UNCHANGED <<queued, atPort>>
    /\ NoThreadMoves /\ UNCHANGED <<enabled, free>>

\* One encoded buffer is taken for cb() ...
TakeOutput ==
    /\ IF queued["out"] = 0
       THEN Go("take", "wait") /\ UNCHANGED queued
       ELSE Go("take", "callback") /\ queued' = [queued EXCEPT !["out"] = @ - 1]
    /\ NoThreadMoves /\ UNCHANGED <<enabled, free, atPort>>

\* ... and goes back to its pool when cb() has returned.
ReleaseOutput ==
    /\ Go("callback", "wait")
    /\ free' = [free EXCEPT !["out"] = @ + 1]
    /\ NoThreadMoves /\ UNCHANGED <<enabled, queued, atPort>>

-----------------------------------------------------------------------------
(* The firmware hands a buffer back: generic_output_port_cb queues it,     *)
(* generic_input_port_cb releases it to its pool.                          *)

\* Mutant: the encoder's output port gets the input port's callback.
HandBackReleased(p) ==
    /\ atPort[p] > 0
    /\ atPort' = [atPort EXCEPT ![p] = @ - 1]
    /\ IF p # "video"
       THEN free' = [free EXCEPT ![RoundOf[p]] = @ + 1] /\ UNCHANGED queued
       ELSE queued' = [queued EXCEPT ![RoundOf[p]] = @ + 1] /\ UNCHANGED free
    /\ NoThreadMoves /\ UNCHANGED <<cam, enabled>>

HandBack(p) ==
    /\ atPort[p] > 0
    /\ atPort' = [atPort EXCEPT ![p] = @ - 1]
    /\ IF p = "encIn"
       THEN free' = [free EXCEPT !["in"] = @ + 1] /\ UNCHANGED queued
       ELSE queued' = [queued EXCEPT ![RoundOf[p]] = @ + 1] /\ UNCHANGED free
    /\ NoThreadMoves /\ UNCHANGED <<cam, enabled>>

-----------------------------------------------------------------------------
(* Taking the pipeline down.                                               *)

\* Mutant: mmal_port_disable returns at once.
DisablePortsAtOnce(ports) == enabled' = enabled \ ports

\* Mutant: mmal_port_disable waits for the whole pool to be full again.
DisablePortsWhenFull(ports) ==
    /\ \A p \in ports \intersect enabled : free[RoundOf[p]] = Buffers
    /\ enabled' = enabled \ ports

\* mmal_port_disable waits until the firmware has handed every buffer back; that
\* the firmware refuses to disable a port is assumed not to happen.
DisablePorts(ports) ==
    /\ \A p \in ports \intersect enabled : atPort[p] = 0
    /\ enabled' = enabled \ ports

DisablePort(p, at, next) ==
    /\ Go(at, next)
    /\ DisablePorts({p})
    /\ NoThreadMoves /\ UNCHANGED bufferVars

DisableVideo  == DisablePort("video", "disableVideo", "disableEncIn")
DisableEncIn  == DisablePort("encIn", "disableEncIn", "disableEncOut")
DisableEncOut == DisablePort("encOut", "disableEncOut", "freePoolIn")

\* Destroys resource r if its local points to one; its ports are disabled
\* first if they still are enabled.  Destroying it twice is undefined.
Destroy(r, ports, at, next) ==
    IF r \in ptr \ live /\ cam = at
    THEN \/ Crash
         \/ Go(at, next) /\ UNCHANGED <<threadVars, live, ptr, enabled, bufferVars, crashed>>
    ELSE /\ Go(at, next)
         /\ IF r \in ptr THEN DisablePorts(ports) ELSE UNCHANGED enabled
         /\ live' = live \ (ptr \intersect {r})
         /\ UNCHANGED <<threadVars, ptr, bufferVars, crashed>>

\* Mutant: a queue is left when it holds buffers.
FreeQueueInIfEmpty ==
    IF queued["in"] > 0 THEN Go("freeQueueIn", "freeQueueOut")
                             /\ UNCHANGED <<threadVars, live, ptr, enabled, bufferVars, crashed>>
                        ELSE Destroy("queueIn", {}, "freeQueueIn", "freeQueueOut")

FreePoolIn   == Destroy("poolIn", {"video"}, "freePoolIn", "freePoolOut")
FreePoolOut  == Destroy("poolOut", {"encOut"}, "freePoolOut", "freeEncoder")
FreeEncoder  == Destroy("encoder", {"encIn", "encOut"}, "freeEncoder", "freeCamera")
FreeCamera   == Destroy("camera", {"video"}, "freeCamera", "freeQueueIn")
FreeQueueIn  == Destroy("queueIn", {}, "freeQueueIn", "freeQueueOut")
FreeQueueOut == Destroy("queueOut", {}, "freeQueueOut", "freeEvents")

\* The events are deleted even when they could not be created.
FreeEvents ==
    \/ /\ Go("freeEvents", "lastPost")
       /\ live' = live \ {"events"}
       /\ UNCHANGED <<threadVars, ptr, enabled, bufferVars, crashed>>
    \/ cam = "freeEvents" /\ "events" \notin live /\ Crash

\* Mutants: a failure is always, or never, reported by the last step.
LastPostAlways ==
    /\ Go("lastPost", "ended")
    /\ initSem' = initSem + 1
    /\ UNCHANGED <<main, starter, failed, stop, stoppedAlready, live, ptr,
                   enabled, bufferVars, crashed>>
LastPostNever ==
    /\ Go("lastPost", "ended")
    /\ UNCHANGED <<threadVars, live, ptr, enabled, bufferVars, crashed>>

\* A failed initialisation is reported only now, when all is taken down.
LastPost ==
    /\ Go("lastPost", "ended")
    /\ initSem' = initSem + (IF failed THEN 1 ELSE 0)
    /\ UNCHANGED <<main, starter, failed, stop, stoppedAlready, live, ptr,
                   enabled, bufferVars, crashed>>

-----------------------------------------------------------------------------
StarterStep == CreateThread \/ JoinNothing \/ WaitInit \/ JoinCamcorder
BuildStep   == CreateEvents \/ CreateCamera \/ CreateEncoder
               \/ ConnectPorts \/ SetupOutputPort \/ StartCapture
LoopStep    == CheckStop \/ FillVideo \/ FillEncoder \/ FeedEncoder
               \/ TakeOutput \/ ReleaseOutput
TeardownStep ==
    \/ DisableVideo \/ DisableEncIn \/ DisableEncOut
    \/ FreePoolIn \/ FreePoolOut \/ FreeEncoder \/ FreeCamera
    \/ FreeQueueIn \/ FreeQueueOut \/ FreeEvents \/ LastPost
CamcorderStep == BuildStep \/ LoopStep \/ TeardownStep

\* The process has ended.
Gone == ~Alive /\ UNCHANGED vars

Next ==
    \/ /\ Alive
       /\ \/ StarterStep \/ MainReturns \/ Interrupt \/ RequestIFrame
          \/ CamcorderStep
          \/ \E p \in Ports : HandBack(p)
    \/ Gone

SafeSpec == Init /\ [][Next]_vars

(***************************************************************************)
(* Each thread that can take a step takes it, and the firmware hands back  *)
(* what it holds: camera frames and encoded data keep coming, and a port   *)
(* that is disabled is flushed.  Nobody has to press Ctrl+C.               *)
(***************************************************************************)
Fairness ==
    /\ WF_vars(Alive /\ StarterStep)
    /\ WF_vars(Alive /\ CamcorderStep)
    /\ \A p \in Ports : WF_vars(Alive /\ HandBack(p))

Spec == SafeSpec /\ Fairness

-----------------------------------------------------------------------------
(* Properties.                                                             *)

Building == {"events", "camera", "encoder", "connect", "output", "capture"}
Looping  == {"wait", "fillVideo", "fillEncoder", "feed", "take", "callback"}
Teardown == {"disableVideo", "disableEncIn", "disableEncOut", "freePoolIn", "freePoolOut",
             "freeEncoder", "freeCamera", "freeQueueIn", "freeQueueOut", "freeEvents", "lastPost"}

\* The types of the variables.
TypeOK ==
    /\ main \in {"join", "aborted", "killed"}
    /\ starter \in {"create", "joinNothing", "wait", "join", "returned"}
    /\ cam \in {"unborn", "ended"} \union Building \union Looping \union Teardown
    /\ initSem \in 0..1
    /\ failed \in BOOLEAN /\ stop \in BOOLEAN /\ stoppedAlready \in BOOLEAN
    /\ live \in SUBSET Resources /\ ptr \in SUBSET Resources
    /\ enabled \in SUBSET Ports
    /\ free \in [Rounds -> 0..Buffers]
    /\ atPort \in [Ports -> 0..Buffers]
    /\ queued \in [Rounds -> 0..Buffers]
    /\ crashed \in BOOLEAN

\* The camcorder has posted init_sem: on success before its loop, on failure
\* as its very last step.
Posted == cam = "ended" \/ (cam \in Looping \union Teardown /\ ~failed)

\* init_sem is posted exactly once, on success or on failure, whatever step
\* fails, and never after the starter may have deleted it.
PostedOnce ==
    /\ initSem = IF Posted /\ starter = "wait" THEN 1 ELSE 0
    /\ starter \in {"join", "returned"} /\ cam # "unborn" => Posted

Held == [in |-> 0, out |-> IF cam = "callback" THEN 1 ELSE 0]

\* No buffer of either round is lost or doubled while its pool exists, through
\* refused sends, stops and flushes: what is not in the pool is in the queue, at a
\* port of the round or in cb()'s hands.
BuffersConserved ==
    \A r \in Rounds : Pool[r] \in live =>
        free[r] + queued[r] + Held[r] + (IF r = "in" THEN atPort["video"] + atPort["encIn"]
                                                     ELSE atPort["encOut"]) = Buffers

\* A port callback never runs on freed memory: while the firmware holds a buffer,
\* its port is enabled and the component, the queue, the pool and the event
\* flags that the callback uses exist.
CallbacksFindAll ==
    \A p \in Ports : atPort[p] > 0 =>
        /\ p \in enabled
        /\ {IF p = "video" THEN "camera" ELSE "encoder",
            Pool[RoundOf[p]], Queue[RoundOf[p]], "events"} \subseteq live

\* "The pools need to be destroyed first since they are owned by the
\* components" (viewfinder.c:1194), on every path to the error label.
OwnersOutlivePools ==
    /\ "poolIn" \in live => "camera" \in live
    /\ "poolOut" \in live => "encoder" \in live

\* Whatever step of the construction fails, the camcorder leaves nothing behind.
NothingLeaks == cam = "ended" => live = {} /\ enabled = {}

Over == starter = "returned" \/ ~Alive

\* "When this is set to 1 externally, the camcorder will be stopped" (mmalcam.h):
\* from any point of the construction or of the loop, with buffers anywhere.
StopIsHonoured == stop ~> Over

\* A failure of any step reaches start_mmalcam, which does not wait for ever.
FailureIsReported == failed ~> Over

\* What the encoder fills reaches cb(): the refill loops before it end, since
\* nothing they send comes back by itself to the pool they send from.
OutputIsDelivered ==
    atPort["encOut"] > 0 ~> (cam \notin Looping \/ cam = "callback" \/ ~Alive)

=============================================================================
