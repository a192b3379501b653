--------------------------- MODULE CamcorderProofs ---------------------------
(***************************************************************************)
(* The safety properties of Camcorder, for any number of buffers.          *)
(*                                                                         *)
(* The invariant follows the construction: what exists and what is enabled *)
(* at each of its steps, that everything exists and nothing has failed in  *)
(* the loop, and what is already gone at each step of the teardown.  The   *)
(* firmware holds buffers only in the loop and while the ports are being   *)
(* disabled, so nothing a callback uses goes while it may still run.       *)
(***************************************************************************)
EXTENDS Camcorder, TLAPS

Disabling == {"disableVideo", "disableEncIn", "disableEncOut"}

\* The steps of the teardown once a resource is destroyed.
AfterEvents   == {"lastPost", "ended"}
AfterQueueOut == AfterEvents \union {"freeEvents"}
AfterQueueIn  == AfterQueueOut \union {"freeQueueOut"}
AfterCamera   == AfterQueueIn \union {"freeQueueIn"}
AfterEncoder  == AfterCamera \union {"freeCamera"}
AfterPoolOut  == AfterEncoder \union {"freeEncoder"}
AfterPoolIn   == AfterPoolOut \union {"freePoolOut"}

\* The starter waits for a thread it has created, and a failure ends the building.
Threads ==
    /\ starter \in {"create", "joinNothing"} => cam = "unborn"
    /\ starter \in {"wait", "join"} => cam # "unborn"
    /\ cam \in {"unborn"} \union Building \union Looping \union Disabling => ~failed

\* What exists and is enabled while the pipeline is built and runs.
Built ==
    /\ cam \in {"unborn", "events"} => live = {}
    /\ cam = "camera" => live = {"events"}
    /\ cam = "encoder" => live = {"events", "camera"}
    /\ cam = "connect" => live = {"events", "camera", "encoder"}
    /\ cam = "output" => live = {"events", "camera", "encoder", "poolIn", "queueIn"}
    /\ cam \in {"capture"} \union Looping \union Disabling => live = Resources
    /\ cam \in {"unborn", "events", "camera", "encoder", "connect"} => enabled = {}
    /\ cam = "output" => enabled = {"video", "encIn"}
    /\ cam \in {"capture"} \union Looping => enabled = Ports

\* What is gone while it is taken down, and in which order.
TakenDown ==
    /\ live \subseteq ptr
    /\ cam \in AfterPoolIn   => "poolIn" \notin live
    /\ cam \in AfterPoolOut  => "poolOut" \notin live
    /\ cam \in AfterEncoder  => "encoder" \notin live
    /\ cam \in AfterCamera   => "camera" \notin live
    /\ cam \in AfterQueueIn  => "queueIn" \notin live
    /\ cam \in AfterQueueOut => "queueOut" \notin live
    /\ cam \in AfterEvents   => "events" \notin live
    /\ "poolIn" \in live => {"camera", "encoder", "queueIn", "events"} \subseteq live
    /\ "poolOut" \in live => {"encoder", "queueOut", "events"} \subseteq live
    /\ "video" \in enabled => "poolIn" \in live
    /\ ("encIn" \in enabled \/ "encOut" \in enabled) => "encoder" \in live
    /\ cam = "disableEncIn" => "video" \notin enabled
    /\ cam = "disableEncOut" => "video" \notin enabled /\ "encIn" \notin enabled

\* Where buffers can be.
Flow ==
    /\ \A p \in Ports : atPort[p] > 0 => p \in enabled /\ cam \in Looping \union Disabling
    /\ cam \in {"unborn"} \union Building => \A r \in Rounds : queued[r] = 0

IInv == TypeOK /\ Threads /\ Built /\ TakenDown /\ Flow /\ BuffersConserved /\ PostedOnce

USE DEF Rounds, Pool, Queue, Ports, RoundOf, Resources, threadVars, bufferVars, vars,
        Building, Looping, Teardown, Disabling, Posted, Held,
        AfterEvents, AfterQueueOut, AfterQueueIn, AfterCamera, AfterEncoder, AfterPoolOut, AfterPoolIn

\* The invariant holds at the start.
LEMMA InitInv == Init => IInv
  <1>. SUFFICES ASSUME Init PROVE IInv OBVIOUS
  <1>1. TypeOK
    <2>1. failed \in BOOLEAN /\ stop \in BOOLEAN /\ stoppedAlready \in BOOLEAN /\ crashed \in BOOLEAN
      BY Zenon DEF Init
    <2>2. live \in SUBSET Resources /\ ptr \in SUBSET Resources /\ enabled \in SUBSET Ports
      BY DEF Init
    <2>. QED BY <2>1, <2>2, CamcorderAssumption DEF Init, TypeOK
  <1>2. Threads BY CamcorderAssumption DEF Init, Threads
  <1>3. Built BY CamcorderAssumption DEF Init, Built
  <1>4. TakenDown BY CamcorderAssumption DEF Init, TakenDown
  <1>5. Flow BY CamcorderAssumption DEF Init, Flow
  <1>6. BuffersConserved BY CamcorderAssumption DEF Init, BuffersConserved
  <1>7. PostedOnce BY CamcorderAssumption DEF Init, PostedOnce
  <1>. QED BY <1>1, <1>2, <1>3, <1>4, <1>5, <1>6, <1>7 DEF IInv

\* What is undefined changes nothing that the invariant speaks of.
LEMMA CrashStep == ASSUME IInv, Crash PROVE IInv'
  <1>1. crashed' \in BOOLEAN BY Zenon DEF Crash
  <1>. QED BY <1>1 DEF Crash, IInv, TypeOK, Threads, Built, TakenDown, Flow, BuffersConserved, PostedOnce

\* What Destroy does, since whatever exists has a local pointing to it.
LEMMA DestroyStep ==
  ASSUME IInv, NEW r, NEW ports, NEW at, NEW next, Destroy(r, ports, at, next), ~Crash
  PROVE  /\ cam = at /\ cam' = next
         /\ live' = live \ {r}
         /\ enabled' = enabled \/ enabled' = enabled \ ports
         /\ r \in live => enabled' = enabled \ ports /\ \A p \in ports \intersect enabled : atPort[p] = 0
         /\ UNCHANGED <<threadVars, ptr, bufferVars, crashed>>
  BY DEF Destroy, Go, DisablePorts, IInv, TakenDown

\* Steps of the starter, of main, of the signal handler and of a track.
LEMMA ThreadSteps ==
  ASSUME IInv,
         JoinNothing \/ WaitInit \/ JoinCamcorder \/
         MainReturns \/ Interrupt \/ RequestIFrame \/
         CreateThread
  PROVE  IInv'
  <1>. USE CamcorderAssumption DEF IInv, TypeOK, Threads, Built, TakenDown, Flow,
                                   BuffersConserved, PostedOnce
  <1>1. CASE JoinNothing
    <2>1. CASE Crash BY <2>1, CrashStep
    <2>2. CASE ~Crash
      <3>1. starter = "joinNothing" /\ starter' = "returned"
            /\ UNCHANGED <<main, cam, initSem, failed, stop, stoppedAlready, live, ptr,
                           enabled, bufferVars, crashed>>
        BY <1>1, <2>2 DEF JoinNothing
      <3>2. TypeOK' BY <3>1
      <3>3. Threads' /\ Built' /\ TakenDown' /\ Flow' BY <3>1
      <3>4. BuffersConserved' /\ PostedOnce' BY <3>1
      <3>. QED BY <3>2, <3>3, <3>4
    <2>. QED BY <2>1, <2>2
  <1>2. CASE WaitInit
    BY <1>2 DEF WaitInit
  <1>3. CASE JoinCamcorder
    BY <1>3 DEF JoinCamcorder
  <1>4. CASE MainReturns
    BY <1>4 DEF MainReturns
  <1>5. CASE Interrupt
    <2>1. TypeOK'
      <3>1. stop' \in BOOLEAN /\ stoppedAlready' \in BOOLEAN BY <1>5, Zenon DEF Interrupt
      <3>2. main' \in {"join", "aborted", "killed"} BY <1>5 DEF Interrupt
      <3>. QED BY <1>5, <3>1, <3>2 DEF Interrupt
    <2>2. Threads' /\ Built' /\ TakenDown'
      BY <1>5 DEF Interrupt
    <2>3. Flow' /\ BuffersConserved' /\ PostedOnce'
      BY <1>5 DEF Interrupt
    <2>. QED BY <2>1, <2>2, <2>3
  <1>6. CASE RequestIFrame
    BY <1>6 DEF RequestIFrame, Crash
  <1>7. CASE CreateThread
    BY <1>7 DEF CreateThread
  <1>. QED BY <1>1, <1>2, <1>3, <1>4, <1>5, <1>6, <1>7

\* A failure during the construction keeps what exists.
LEMMA FailStep ==
  ASSUME IInv, cam \in Building, Fail(cam),
         UNCHANGED <<main, starter, initSem, stop, stoppedAlready, bufferVars, crashed>>
  PROVE  IInv'
  <1>1. TypeOK'
    <2>1. failed' \in BOOLEAN BY Zenon DEF Fail
    <2>. QED BY <2>1 DEF Fail, IInv, TypeOK
  <1>2. Threads' /\ Built' BY DEF Fail, IInv, Threads, Built
  <1>3. TakenDown' BY DEF Fail, IInv, TakenDown
  <1>4. Flow' BY DEF Fail, IInv, TypeOK, Flow
  <1>5. BuffersConserved' BY DEF Fail, IInv, BuffersConserved
  <1>6. PostedOnce' BY DEF Fail, IInv, Threads, PostedOnce
  <1>. QED BY <1>1, <1>2, <1>3, <1>4, <1>5, <1>6 DEF IInv

\* Steps of the construction.
LEMMA BuildSteps ==
  ASSUME IInv,
         CreateEvents \/ CreateCamera \/ CreateEncoder \/
         ConnectPorts \/ SetupOutputPort \/ StartCapture
  PROVE  IInv'
  <1>1. CASE CreateEvents
    <2>1. CASE Fail("events")
      BY <1>1, <2>1, FailStep DEF CreateEvents, Fail, Acquire
    <2>2. CASE Acquire("events", "camera", {"events"}, {})
      <3>. USE <1>1, <2>2, CamcorderAssumption DEF IInv, CreateEvents, Acquire
      <3>1. TypeOK'
        BY DEF TypeOK, Threads, PostedOnce
      <3>2. Threads'
        BY DEF Threads
      <3>3. Built'
        BY DEF Built
      <3>4. TakenDown'
        BY DEF TakenDown, Built
      <3>5. Flow' /\ BuffersConserved'
        BY DEF TypeOK, Flow, Built, BuffersConserved
      <3>6. PostedOnce'
        BY DEF Threads, PostedOnce
      <3>. QED BY <3>1, <3>2, <3>3, <3>4, <3>5, <3>6
    <2>. QED BY <1>1, <2>1, <2>2 DEF CreateEvents
  <1>2. CASE CreateCamera
    <2>1. CASE Fail("camera")
      BY <1>2, <2>1, FailStep DEF CreateCamera, Fail, Acquire
    <2>2. CASE Acquire("camera", "encoder", {"camera"}, {})
      <3>. USE <1>2, <2>2, CamcorderAssumption DEF IInv, CreateCamera, Acquire
      <3>1. TypeOK'
        BY DEF TypeOK, Threads, PostedOnce
      <3>2. Threads'
        BY DEF Threads
      <3>3. Built'
        BY DEF Built
      <3>4. TakenDown'
        BY DEF TakenDown, Built
      <3>5. Flow' /\ BuffersConserved'
        BY DEF TypeOK, Flow, Built, BuffersConserved
      <3>6. PostedOnce'
        BY DEF Threads, PostedOnce
      <3>. QED BY <3>1, <3>2, <3>3, <3>4, <3>5, <3>6
    <2>. QED BY <1>2, <2>1, <2>2 DEF CreateCamera
  <1>3. CASE CreateEncoder
    <2>1. CASE Fail("encoder")
      BY <1>3, <2>1, FailStep DEF CreateEncoder, Fail, Acquire
    <2>2. CASE Acquire("encoder", "connect", {"encoder"}, {})
      <3>. USE <1>3, <2>2, CamcorderAssumption DEF IInv, CreateEncoder, Acquire
      <3>1. TypeOK'
        BY DEF TypeOK, Threads, PostedOnce
      <3>2. Threads'
        BY DEF Threads
      <3>3. Built'
        BY DEF Built
      <3>4. TakenDown'
        BY DEF TakenDown, Built
      <3>5. Flow' /\ BuffersConserved'
        BY DEF TypeOK, Flow, Built, BuffersConserved
      <3>6. PostedOnce'
        BY DEF Threads, PostedOnce
      <3>. QED BY <3>1, <3>2, <3>3, <3>4, <3>5, <3>6
    <2>. QED BY <1>3, <2>1, <2>2 DEF CreateEncoder
  <1>4. CASE ConnectPorts
    <2>1. CASE Fail("connect")
      BY <1>4, <2>1, FailStep DEF ConnectPorts, Fail, Acquire, InputPortFails
    <2>2. CASE Acquire("connect", "output", {"poolIn", "queueIn"}, {"video", "encIn"})
      <3>. USE <1>4, <2>2, CamcorderAssumption DEF IInv, ConnectPorts, Acquire, Fail, InputPortFails
      <3>1. TypeOK'
        BY DEF TypeOK, Threads, PostedOnce
      <3>2. Threads'
        BY DEF Threads
      <3>3. Built'
        BY DEF Built
      <3>4. TakenDown'
        BY DEF TakenDown, Built
      <3>5. Flow' /\ BuffersConserved'
        BY DEF TypeOK, Flow, Built, BuffersConserved
      <3>6. PostedOnce'
        BY DEF Threads, PostedOnce
      <3>. QED BY <3>1, <3>2, <3>3, <3>4, <3>5, <3>6
    <2>3. CASE InputPortFails
      <3>. USE <1>4, <2>3, CamcorderAssumption DEF IInv, ConnectPorts, InputPortFails, Acquire, Fail
      <3>1. TypeOK'
        <4>1. failed' \in BOOLEAN BY Zenon
        <4>. QED BY <4>1 DEF TypeOK
      <3>2. Threads' /\ Built' /\ TakenDown'
        BY DEF Threads, Built, TakenDown
      <3>3. Flow' /\ BuffersConserved' /\ PostedOnce'
        BY DEF TypeOK, Threads, Flow, BuffersConserved, PostedOnce
      <3>. QED BY <3>1, <3>2, <3>3
    <2>. QED BY <1>4, <2>1, <2>2, <2>3 DEF ConnectPorts
  <1>5. CASE SetupOutputPort
    <2>1. CASE Fail("output")
      BY <1>5, <2>1, FailStep DEF SetupOutputPort, Fail, Acquire
    <2>2. CASE Acquire("output", "capture", {"poolOut", "queueOut"}, {"encOut"})
      <3>. USE <1>5, <2>2, CamcorderAssumption DEF IInv, SetupOutputPort, Acquire, Fail
      <3>1. TypeOK'
        BY DEF TypeOK, Threads, PostedOnce
      <3>2. Threads'
        BY DEF Threads
      <3>3. Built'
        BY DEF Built
      <3>4. TakenDown'
        BY DEF TakenDown, Built
      <3>5. Flow' /\ BuffersConserved'
        BY DEF TypeOK, Flow, Built, BuffersConserved
      <3>6. PostedOnce'
        BY DEF Threads, PostedOnce
      <3>. QED BY <3>1, <3>2, <3>3, <3>4, <3>5, <3>6
    <2>. QED BY <1>5, <2>1, <2>2 DEF SetupOutputPort
  <1>6. CASE StartCapture
    <2>1. CASE Fail("capture")
      BY <1>6, <2>1, FailStep DEF StartCapture, Fail, Acquire
    <2>2. CASE Acquire("capture", "wait", {}, {})
      <3>. USE <1>6, <2>2, CamcorderAssumption DEF IInv, StartCapture, Acquire, Fail
      <3>1. TypeOK'
        BY DEF TypeOK, Threads, PostedOnce
      <3>2. Threads'
        BY DEF Threads
      <3>3. Built'
        BY DEF Built
      <3>4. TakenDown'
        BY DEF TakenDown, Built
      <3>5. Flow' /\ BuffersConserved'
        BY DEF TypeOK, Flow, Built, BuffersConserved
      <3>6. PostedOnce'
        BY DEF Threads, PostedOnce, TypeOK
      <3>. QED BY <3>1, <3>2, <3>3, <3>4, <3>5, <3>6
    <2>. QED BY <1>6, <2>1, <2>2 DEF StartCapture
  <1>. QED BY <1>1, <1>2, <1>3, <1>4, <1>5, <1>6

\* Steps of the loop.
LEMMA LoopSteps ==
  ASSUME IInv,
         CheckStop \/ FillVideo \/ FillEncoder \/
         FeedEncoder \/ TakeOutput \/ ReleaseOutput
  PROVE  IInv'
  <1>. USE CamcorderAssumption DEF IInv, TypeOK, Threads, Built, TakenDown, Flow,
                                   BuffersConserved, PostedOnce
  <1>1. CASE CheckStop
    BY <1>1 DEF CheckStop, Go, NoThreadMoves
  <1>2. CASE FillVideo
    BY <1>2 DEF FillVideo, FillPort, Go, Send, NoThreadMoves
  <1>3. CASE FillEncoder
    BY <1>3 DEF FillEncoder, FillPort, Go, Send, NoThreadMoves
  <1>4. CASE FeedEncoder
    BY <1>4 DEF FeedEncoder, Go, Send, NoThreadMoves
  <1>5. CASE TakeOutput
    BY <1>5 DEF TakeOutput, Go, NoThreadMoves
  <1>6. CASE ReleaseOutput
    BY <1>6 DEF ReleaseOutput, Go, NoThreadMoves
  <1>. QED BY <1>1, <1>2, <1>3, <1>4, <1>5, <1>6

\* Steps of the teardown.
LEMMA DownSteps ==
  ASSUME IInv,
         DisableVideo \/ DisableEncIn \/ DisableEncOut \/
         FreePoolIn \/ FreePoolOut \/ FreeEncoder \/
         FreeCamera \/ FreeQueueIn \/ FreeQueueOut \/
         FreeEvents \/ LastPost
  PROVE  IInv'
  <1>1. CASE DisableVideo
    BY <1>1, CamcorderAssumption DEF IInv, TypeOK, Threads, Built, TakenDown, Flow,
                  BuffersConserved, PostedOnce, DisableVideo, DisablePort, DisablePorts, Go, NoThreadMoves
  <1>2. CASE DisableEncIn
    BY <1>2, CamcorderAssumption DEF IInv, TypeOK, Threads, Built, TakenDown, Flow,
                  BuffersConserved, PostedOnce, DisableEncIn, DisablePort, DisablePorts, Go, NoThreadMoves
  <1>3. CASE DisableEncOut
    BY <1>3, CamcorderAssumption DEF IInv, TypeOK, Threads, Built, TakenDown, Flow,
                  BuffersConserved, PostedOnce, DisableEncOut, DisablePort, DisablePorts, Go, NoThreadMoves
  <1>4. CASE FreePoolIn /\ ~Crash
    <2>1. /\ cam = "freePoolIn" /\ cam' = "freePoolOut"
          /\ live' = live \ {"poolIn"}
          /\ enabled' = enabled \/ enabled' = enabled \ {"video"}
          /\ "poolIn" \in live => enabled' = enabled \ {"video"}
          /\ UNCHANGED <<threadVars, ptr, bufferVars, crashed>>
      BY <1>4, DestroyStep DEF FreePoolIn
    <2>2. TypeOK' BY <2>1 DEF IInv, TypeOK
    <2>3. Threads' /\ Built' BY <2>1 DEF IInv, Threads, Built
    <2>4. TakenDown' BY <2>1 DEF IInv, TakenDown
    <2>5. Flow' BY <2>1 DEF IInv, TypeOK, Flow
    <2>6. BuffersConserved' BY <2>1 DEF IInv, BuffersConserved
    <2>7. PostedOnce' BY <2>1 DEF IInv, PostedOnce, TypeOK
    <2>. QED BY <2>2, <2>3, <2>4, <2>5, <2>6, <2>7 DEF IInv
  <1>5. CASE FreePoolOut /\ ~Crash
    <2>1. /\ cam = "freePoolOut" /\ cam' = "freeEncoder"
          /\ live' = live \ {"poolOut"}
          /\ enabled' = enabled \/ enabled' = enabled \ {"encOut"}
          /\ "poolOut" \in live => enabled' = enabled \ {"encOut"}
          /\ UNCHANGED <<threadVars, ptr, bufferVars, crashed>>
      BY <1>5, DestroyStep DEF FreePoolOut
    <2>2. TypeOK' BY <2>1 DEF IInv, TypeOK
    <2>3. Threads' /\ Built' BY <2>1 DEF IInv, Threads, Built
    <2>4. TakenDown' BY <2>1 DEF IInv, TakenDown
    <2>5. Flow' BY <2>1 DEF IInv, TypeOK, Flow
    <2>6. BuffersConserved' BY <2>1 DEF IInv, BuffersConserved
    <2>7. PostedOnce' BY <2>1 DEF IInv, PostedOnce, TypeOK
    <2>. QED BY <2>2, <2>3, <2>4, <2>5, <2>6, <2>7 DEF IInv
  <1>6. CASE FreeEncoder /\ ~Crash
    <2>1. /\ cam = "freeEncoder" /\ cam' = "freeCamera"
          /\ live' = live \ {"encoder"}
          /\ enabled' = enabled \/ enabled' = enabled \ {"encIn", "encOut"}
          /\ "encoder" \in live => enabled' = enabled \ {"encIn", "encOut"}
          /\ UNCHANGED <<threadVars, ptr, bufferVars, crashed>>
      BY <1>6, DestroyStep DEF FreeEncoder
    <2>2. TypeOK' BY <2>1 DEF IInv, TypeOK
    <2>3. Threads' /\ Built' BY <2>1 DEF IInv, Threads, Built
    <2>4. TakenDown' BY <2>1 DEF IInv, TakenDown
    <2>5. Flow' BY <2>1 DEF IInv, TypeOK, Flow
    <2>6. BuffersConserved' BY <2>1 DEF IInv, BuffersConserved
    <2>7. PostedOnce' BY <2>1 DEF IInv, PostedOnce, TypeOK
    <2>. QED BY <2>2, <2>3, <2>4, <2>5, <2>6, <2>7 DEF IInv
  <1>7. CASE FreeCamera /\ ~Crash
    <2>1. /\ cam = "freeCamera" /\ cam' = "freeQueueIn"
          /\ live' = live \ {"camera"}
          /\ enabled' = enabled \/ enabled' = enabled \ {"video"}
          /\ "camera" \in live => enabled' = enabled \ {"video"}
          /\ UNCHANGED <<threadVars, ptr, bufferVars, crashed>>
      BY <1>7, DestroyStep DEF FreeCamera
    <2>2. TypeOK' BY <2>1 DEF IInv, TypeOK
    <2>3. Threads' /\ Built' BY <2>1 DEF IInv, Threads, Built
    <2>4. TakenDown' BY <2>1 DEF IInv, TakenDown
    <2>5. Flow' BY <2>1 DEF IInv, TypeOK, Flow
    <2>6. BuffersConserved' BY <2>1 DEF IInv, BuffersConserved
    <2>7. PostedOnce' BY <2>1 DEF IInv, PostedOnce, TypeOK
    <2>. QED BY <2>2, <2>3, <2>4, <2>5, <2>6, <2>7 DEF IInv
  <1>8. CASE FreeQueueIn /\ ~Crash
    <2>1. /\ cam = "freeQueueIn" /\ cam' = "freeQueueOut"
          /\ live' = live \ {"queueIn"}
          /\ enabled' = enabled \/ enabled' = enabled \ {}
          /\ "queueIn" \in live => enabled' = enabled \ {}
          /\ UNCHANGED <<threadVars, ptr, bufferVars, crashed>>
      BY <1>8, DestroyStep DEF FreeQueueIn
    <2>2. TypeOK' BY <2>1 DEF IInv, TypeOK
    <2>3. Threads' /\ Built' BY <2>1 DEF IInv, Threads, Built
    <2>4. TakenDown' BY <2>1 DEF IInv, TakenDown
    <2>5. Flow' BY <2>1 DEF IInv, TypeOK, Flow
    <2>6. BuffersConserved' BY <2>1 DEF IInv, BuffersConserved
    <2>7. PostedOnce' BY <2>1 DEF IInv, PostedOnce, TypeOK
    <2>. QED BY <2>2, <2>3, <2>4, <2>5, <2>6, <2>7 DEF IInv
  <1>9. CASE FreeQueueOut /\ ~Crash
    <2>1. /\ cam = "freeQueueOut" /\ cam' = "freeEvents"
          /\ live' = live \ {"queueOut"}
          /\ enabled' = enabled \/ enabled' = enabled \ {}
          /\ "queueOut" \in live => enabled' = enabled \ {}
          /\ UNCHANGED <<threadVars, ptr, bufferVars, crashed>>
      BY <1>9, DestroyStep DEF FreeQueueOut
    <2>2. TypeOK' BY <2>1 DEF IInv, TypeOK
    <2>3. Threads' /\ Built' BY <2>1 DEF IInv, Threads, Built
    <2>4. TakenDown' BY <2>1 DEF IInv, TakenDown
    <2>5. Flow' BY <2>1 DEF IInv, TypeOK, Flow
    <2>6. BuffersConserved' BY <2>1 DEF IInv, BuffersConserved
    <2>7. PostedOnce' BY <2>1 DEF IInv, PostedOnce, TypeOK
    <2>. QED BY <2>2, <2>3, <2>4, <2>5, <2>6, <2>7 DEF IInv
  <1>10. CASE FreeEvents /\ ~Crash
    <2>1. /\ cam = "freeEvents" /\ cam' = "lastPost"
          /\ live' = live \ {"events"}
          /\ UNCHANGED <<threadVars, ptr, enabled, bufferVars, crashed>>
      BY <1>10 DEF FreeEvents, Go
    <2>2. TypeOK' BY <2>1 DEF IInv, TypeOK
    <2>3. Threads' /\ Built' BY <2>1 DEF IInv, Threads, Built
    <2>4. TakenDown' BY <2>1 DEF IInv, TakenDown
    <2>5. Flow' BY <2>1 DEF IInv, TypeOK, Flow
    <2>6. BuffersConserved' BY <2>1 DEF IInv, BuffersConserved
    <2>7. PostedOnce' BY <2>1 DEF IInv, PostedOnce, TypeOK
    <2>. QED BY <2>2, <2>3, <2>4, <2>5, <2>6, <2>7 DEF IInv
  <1>11. CASE LastPost
    BY <1>11, CamcorderAssumption DEF IInv, TypeOK, Threads, Built, TakenDown, Flow,
                  BuffersConserved, PostedOnce, LastPost, Go
  <1>12. CASE Crash BY <1>12, CrashStep
  <1>. QED BY <1>1, <1>2, <1>3, <1>4, <1>5, <1>6, <1>7, <1>8, <1>9, <1>10, <1>11, <1>12

\* The firmware hands a buffer back.
LEMMA HandBackStep == ASSUME IInv, NEW p \in Ports, HandBack(p) PROVE IInv'
  <1>1. live = Resources /\ cam \in Looping \union Disabling
    BY DEF IInv, TypeOK, Flow, Built, HandBack
  <1>2. TypeOK'
    BY <1>1, CamcorderAssumption DEF IInv, TypeOK, BuffersConserved, HandBack, NoThreadMoves
  <1>3. Threads' /\ Built' /\ TakenDown' /\ PostedOnce'
    BY DEF IInv, Threads, Built, TakenDown, PostedOnce, HandBack, NoThreadMoves
  <1>4. Flow' /\ BuffersConserved'
    BY <1>1, CamcorderAssumption DEF IInv, TypeOK, Flow, BuffersConserved, HandBack, NoThreadMoves
  <1>. QED BY <1>2, <1>3, <1>4 DEF IInv

\* Every reachable state satisfies the invariant.
THEOREM Invariant == SafeSpec => []IInv
  <1>1. IInv /\ [Next]_vars => IInv'
    <2>. SUFFICES ASSUME IInv, [Next]_vars PROVE IInv' OBVIOUS
    <2>1. CASE UNCHANGED vars
      BY <2>1 DEF IInv, TypeOK, Threads, Built, TakenDown, Flow, BuffersConserved, PostedOnce
    <2>2. CASE StarterStep \/ MainReturns \/ Interrupt \/ RequestIFrame
      BY <2>2, ThreadSteps DEF StarterStep
    <2>3. CASE CamcorderStep
      BY <2>3, BuildSteps, LoopSteps, DownSteps DEF CamcorderStep, BuildStep, LoopStep, TeardownStep
    <2>4. CASE \E p \in Ports : HandBack(p)
      BY <2>4, HandBackStep
    <2>. QED BY <2>1, <2>2, <2>3, <2>4 DEF Next, Gone
  <1>. QED BY InitInv, <1>1, PTL DEF SafeSpec

\* The variables keep their types: no pool, queue or port ever holds more buffers
\* than the round has.
THEOREM TypeCorrect == SafeSpec => []TypeOK
  <1>1. IInv => TypeOK BY DEF IInv
  <1>. QED BY <1>1, Invariant, PTL

\* init_sem is posted exactly once, whatever step of the construction fails.
THEOREM SemaphorePostedOnce == SafeSpec => []PostedOnce
  <1>1. IInv => PostedOnce BY DEF IInv
  <1>. QED BY <1>1, Invariant, PTL

\* No buffer is lost or doubled while its pool exists.
THEOREM NoBufferLost == SafeSpec => []BuffersConserved
  <1>1. IInv => BuffersConserved BY DEF IInv
  <1>. QED BY <1>1, Invariant, PTL

\* No port callback runs on freed memory.
THEOREM CallbacksSafe == SafeSpec => []CallbacksFindAll
  <1>1. IInv => CallbacksFindAll BY DEF IInv, Built, Flow, CallbacksFindAll
  <1>. QED BY <1>1, Invariant, PTL

\* The pools go before the components that own them.
THEOREM PoolsGoFirst == SafeSpec => []OwnersOutlivePools
  <1>1. IInv => OwnersOutlivePools BY DEF IInv, TakenDown, OwnersOutlivePools
  <1>. QED BY <1>1, Invariant, PTL

\* The camcorder leaves nothing behind.
THEOREM AllReleased == SafeSpec => []NothingLeaks
  <1>1. IInv => NothingLeaks BY DEF IInv, TypeOK, TakenDown, NothingLeaks
  <1>. QED BY <1>1, Invariant, PTL
=============================================================================
