# webrtc_rc_control in TLA+

`webrtc_rc_control` drives a radio-controlled car from a browser. A Raspberry
Pi encodes the camera's picture with MMAL, sends it to every connected page over
WebRTC (libdatachannel), and turns the values the pages send back over a data
channel into servo pulses. This directory holds TLA+ models of the program, the
TLC configurations that check them and TLAPS proofs about them.

Paths below are relative to the repository: `src/src/main.cpp` is the file
`main.cpp` of its `src` directory. `PROJECT.json` maps each definition that
stands for code to the lines it stands for.

## 1. The system

| Component | State it keeps | Operations | Talks to |
|---|---|---|---|
| dispatch queue (`dispatchqueue.cpp`) | queue of closures, mutex, condition variable, `quit`, threads | `dispatch`, `removePending`, the thread handler, the destructor | everyone who wants something done on `MainThread` |
| client sessions (`main.cpp`, `helpers.*`) | the map `clients`, a `Client` per peer connection, the signalling socket, `bldc`, `steer` | the socket's `onMessage`, `createPeerConnection` and its callbacks, the closures on `MainThread` | libdatachannel (callbacks on its threads), the page (`connection.js`), the camera thread (iterates over `clients`) |
| camcorder (`mmalcam.c`, `viewfinder.c`) | ports, pools, queues, components, `init_sem`, `stop` | `start_mmalcam`, `mmal_start_camcorder`, port callbacks, the signal handler, `request_i_frame` | firmware (callbacks), `on_mmalcam_buffer` |
| NAL unit search (`h264_common.cc`) | the global `nalu_indices` | `FindNaluIndices` | `on_mmalcam_buffer` |
| frame assembly (`main.cpp`) | `s_buf`, `pending_frame`, the stored units of type 7, 8 and 5 | `on_mmalcam_buffer`, `sendInitialNalus` | camcorder thread, `MainThread`, the clients' tracks |
| RTP timestamps (`main.cpp`) | `last_frame_timestamp`, `last_frame_duration`, each client's `rtpConfig` | parts of the two operations above | libdatachannel's packetizer and reporter |
| process (`main.cpp`) | three threads, GPIO | `main` | all |
| argument parser (`ArgParser.cpp`) | option being read | `parse` | `main` |
| control page (`main.js`) | targets, smoothed values, timer | keys, buttons, animation loop | data channel |
| MMAL port (vendored: `mmal_port.c`, `mmal_component.c`, `mmal_vc_api.c`, `mmal_vc_client.c`) | locks, `is_enabled`, callback, transit count, pool of contexts, queue of callbacks, waiters | enable, disable, flush, parameters, send, events, the action thread, the vchiq callback | the camcorder (buffers, callbacks), VideoCore (messages) |
| other vendored code: MMAL components, vcos, vchiq, khronos; libdatachannel and JSON headers | | | |

**Threads.** The websocket thread and libdatachannel's threads run the
signalling and peer-connection callbacks; `MainThread` has one worker; the
camcorder thread runs the capture loop and `on_mmalcam_buffer`; the firmware
calls back on a thread of its own; `start_mmalcam` runs on another; `main` joins
that one; a signal handler may interrupt any.

**What is hard.** Apart from the dispatch queue and `Client::state`, nothing
that threads share has a lock: `clients`, the stored units, the RTP
configuration, the servo pointers and `encoder_output`. Clients are removed by
*id*, asynchronously, up to three times per connection, while others come and
answers are looked up under their ids. The camcorder can fail at every step of
its construction, and its error path takes down what a normal stop takes down, in
another order. Buffers travel between four owners, one of them the firmware.
Ctrl+C can come at any time. Below, an MMAL port is disabled while other threads send, flush and call
back, with four locks, a counter, two queues of messages and a queue of
callbacks to empty, most of them tested without the lock that protects them. The
page and the motor agree only through messages that a hidden page does not send.
`PROJECT.json` lists these hazards at their lines.

**What makes each component correct**

* dispatch queue: the lock is balanced, no wake-up is lost, operations start in
  order and at most once, the destructor returns, and so the threads implement
  a plain FIFO of operations.
* sessions: a lost client leaves the map, a live one does not; an entry and its
  callbacks agree on the id; an answer finds the connection it is for; a lost driver
  lets go of the motor; an offer comes to an end.
* camcorder: the starter is told of success or failure exactly once; no buffer is
  lost; callbacks never run on freed memory; everything is released; a stop is
  honoured; encoded data get out.
* NAL unit search: it finds all units, and they tile the buffer.
* frame assembly: each unit received is sent once, whole, in order, behind its
  length; what is stored for newcomers is what was received.
* MMAL port: a buffer given to it comes back once, through the callback; when
  disable returns none is out and no callback runs or begins; every call returns.
* timestamps: a sender report every second.
* control page and motor: letting go of the controls stops the motor, and no
  pulse is out of range.

## 2. Modules

| Module | Models | Runs | Proofs |
|---|---|---|---|
| `TaskQueue` | what the dispatch queue promises: a FIFO of tickets and workers | through `DispatchQueue` | |
| `DispatchQueue` | `dispatchqueue.cpp`, lock by lock | `queue` | `DispatchQueueProofs` |
| `Sessions` | clients from request to erase; instantiates `TaskQueue` for `MainThread` | `sessions_safety`, `sessions_live` | `SessionsProofs` |
| `Camcorder` | `start_mmalcam` to the end of `main` | `camcorder` | `CamcorderProofs` |
| `BufferPort` | what an MMAL port promises the program | through `MmalPort` | |
| `MmalPort` | `mmal_port.c`, `mmal_component.c`, `mmal_vc_api.c`, `mmal_vc_client.c`: one port, lock by lock and message by message | `mmal_port`, `mmal_disable` | `MmalPortProofs`, `TransitProofs` |
| `NaluIndices` | `FindNaluIndices`, one step per turn of the loop | `nalu_search` | `NaluIndicesProofs` |
| `FrameAssembly` | `on_mmalcam_buffer` and `sendInitialNalus` | `frames`, `frames_newcomer` | `FrameAssemblyProofs` |
| `RtpClock` | the timestamps and reports of those two operations | `rtp_report` | |
| `Drive` | the throttle: `main.js`, the data channel, `bldc->servo` | `drive` | `DriveProofs` |

`MC*` modules give TLC its small instances. Definitions introduced by a comment
`Mutant` are deliberate bugs: put in place of the definition they vary, each
makes one property fail, which shows that the property can see that bug.

### DispatchQueue

An operation is its ticket, the number of the push that queued it. A critical
section is entered by one step (`LockToPush`) and left by another
(`PushAndUnlock`); `NotifyOne` comes after the unlock, as in the code. A worker
inside an operation is also a caller, because an operation may dispatch.
`Sleep` is the atomic release-and-block of `condition.wait`, `SpuriousWake` its
licence to return unasked. `Owner` runs the destructor, and nobody calls a
queue that is already destroyed; while it is being destroyed, calls are allowed.

`Abstract` instantiates `TaskQueue` with `pushed`, `queue`, `op` and `quit`.

### Sessions

A peer connection and its `Client` are one model value. Who holds a
`shared_ptr` is computed (`ClientHeld`, `PcHeld`) from the map, the handlers,
the executing operation and the camera; a peer connection nobody holds reports
`Closed`, as its destructor does. The websocket handler is split where another
thread can come between: look-up, insertion, `setLocalDescription`,
`setRemoteDescription`. `onStateChange` is split between the dispatch of the
erase and the stop of the motor. `MainThread` is `TaskQueue` with one worker, so
its fairness and order are those `DispatchQueue` is shown to provide.
A null dereference is `Crash`. The camera's loop may stand on an entry that is
erased under it: it then ends early or dies.

Assumed of libdatachannel, whose implementation is not in the repository:
callbacks of one peer connection are serialised; states follow the order in
`Report`, and a disconnected connection does not recover; no data-channel
message is delivered after `Closed`; an exception in a callback is caught. Map
operations are otherwise atomic: tearing inside `std::unordered_map` is not
modelled. Pages send `request` and `answer` only, as `connection.js` does.

A page asks once: `connection.js` calls `start()` from `websocket.onopen` alone
(7-12) and makes a new id at every load (3). Much rests on that. The server itself
would take a second request under an id: dropped while the entry of the lost
connection is still in the map, it would otherwise create a client that an erase
left over from the old connection removes, and an answer could find no entry and
crash through a null pointer. The mutant `SendRequestAgain` is a page that
reconnects without a new id; `OnlyDisconnectedRemoved` and `AnswerFindsConnection` fail
with it. The branches of the handler that only a second request would reach
are kept (`Receive`, `Create`, `Describe`).

### Camcorder

`cam` is the line `mmal_start_camcorder` is at. `live` holds the resources that
exist and `ptr` those its locals point to; one in `ptr` but not in `live` is a
dangling pointer, as `connect_ports` leaves two when it fails late
(`InputPortFails`). Of the buffers only their
number in each place matters. The firmware's share is `HandBack`: it returns
what a port holds, through the port's callback. Disabling a port waits until
the port holds nothing. `Destroy` covers the pool, queue and component
destructors: with the ports still enabled it first disables them, on a dangling
pointer it may crash. `RequestIFrame` appears only where it goes wrong, after
the encoder has been destroyed; elsewhere it changes nothing of this model.

Assumed: the firmware disables ports when asked, so that the failure path of
`mmal_port_disable` (mmal_port.c:676-683 enables the port again, and
viewfinder.c:311-315 ignores the status) is left out here (`MmalPort` has it);
`exit(255)` ends the process (`killed`); event buffers (`cmd != 0`) come from
another pool and are left out; the semaphore can be created (the code asserts it). That a port waits for its
buffers when it is disabled is what `BufferPort` promises and `MmalPort` is
shown to keep.

### BufferPort and MmalPort

`BufferPort` has three variables: the port is on, the buffers it has, the threads
inside the callback. `MmalPort` is the code under it, for one unconnected port
of a VideoCore component. A call begins when it gets its first lock; `pc` is
where a thread is between two locks, messages or waits, `op` the call, `hand` the
buffer it carries. `lock` has the connection, port, sending and action locks
(`mmal_component_action_lock` for the last). A request takes one of `MaxWaiters`
waiters until its answer is written through it. A buffer goes client,
`toVideoCore`, `filling`, `toHost`, `queue`, the hand of the thread that calls
back, client; contexts are freed with the `pool`. Disabling goes through
`LockToDisable`, `ClearEnabled` (with the sending lock free: what is being sent
is sent before), `LockActionToDisable`, the request and its answer, `DeletePool`,
the draining of the queue on the disabling thread (`TakeCallback` to
`CallReturns`), `Drained`, and `WaitForTransit`, which also clears the callback. The
action thread drains the same queue when its event says so (`trigger`, which does
not count).

Assumed of VideoCore: it handles messages in order; it refuses any request but
DISABLE; it answers DISABLE when it has returned every buffer; it sends no event
while disabled (what mmal_vc_api.c:221 and :310 demand of it). A bulk receive is
its completion; the failure of a bulk transmit after its message was sent is
left out (mmal_vc_client.c:666 says that things will go wrong). `queue` is
atomic with its length. `Failing` says which messages vchiq may refuse to queue.
The error path of enable deletes the pool and leaves `has_pool` set (`stale`):
no send gets that far, since the port is not enabled. The action lock is the
component's, and only this port uses it here.

Left out of the calls that are modelled: in enable, the checks of buffer number and
size (mmal_port.c:478-489), which refuse before anything is changed, and a failing
allocation of the pool (mmal_vc_api.c:236-242), which ends as a refused request does
but without a pool; in send, the version request of the process's first send
(mmal_vc_api.c:656-669), which waits with the sending lock held as flush does, buffers
with a command, which are called back at once without a message (575-594), and the
refusals of a bad handle (641-651), which no caller of the program produces.
Connected ports (whose locks two threads could take in opposite orders), paused
ports and reference counts of headers are left out.

### NaluIndices

The loop's state is `i` and the vector; offsets count from 0 as in the code. A
`size_t` that would wrap is a negative number here, which `TypeOK` and `Tiled`
exclude. A short buffer (less than three bytes) returns with the units of the
call before (h264_common.cc:27): the encoder delivers none that short.

### FrameAssembly

`s_buf` is a function from offsets to bytes; `CopyUnit` and `StoreUnit` are the
two halves of the loop's body and `EndBuffer` the send. `StoreUnit` reads
through `Bytes`, which yields `Junk` for bytes never written and those behind
the allocation. On `MainThread`, `Collect` reads one stored unit at a time;
`Race` is the read that coincides with the assignment, and `Overflow` the copy
past the end of `s_buf`: both end the process in the model, though a real run may
carry on with corrupted memory. One client stands for all.
Inputs are lists of payloads, as `FindNaluIndices` returns them for buffers of at
least three bytes; no unit is empty, since an encoder writes at least the type
byte. A buffer may be of any length: nothing in the code bounds the encoder's
buffers (viewfinder.c:861 takes the size the firmware recommends) by the 65554
bytes of `s_buf`. Units are what the search finds: of a NAL unit that the encoder
cuts over two buffers, the second buffer's part has no start code, is a buffer
without units here, and is dropped by the code (main.cpp:285), so the "whole" of
`FrameIsWhole` is about the units found, and a cut unit reaches the page
truncated. `unsent` and `latest` are history variables.

### RtpClock

Time is in ticks and timestamps have `Width` bits. `BeginFrame` computes the
duration of the last frame, `StampFrame` the timestamp, `AskForReport` compares
it with the last one reported; `SetReady` to `SendInitial` are MainThread's
writes to the same fields, between any two of them. The reporter of
libdatachannel records the timestamp of the message that carried the report.

### Drive

One axis, the throttle. Pulses are integers (hundreds of microseconds); the
smoothing, of doubles in the page, ends anywhere between value and target,
unless the frame is so long (over 1000 / (60 * factor) ms) that the step
overshoots, which is computed. A release may go unseen (`missed`: focus lost, or
the pointer off the button). A hidden page has no frames and sends nothing: the
motor keeps its last pulse. `Lose` is the neutral pulse of `onStateChange`;
how it interleaves with commands is in `Sessions`.

## 3. Runs

| Run | Instance | Shows |
|---|---|---|
| `queue` | 2 workers (`MainThread` has 1), 2 producers, 4 pushes | wake-ups, order, refinement of `TaskQueue` with its fairness; the destructor returns |
| `sessions_safety` | 2 pages, 2 peer connections, 8 dispatches, symmetric | map, removals and motor stay in step with the connections; only lost ones are removed; answers find their connection |
| `sessions_live` | same, without symmetry; at most one connection is lost | lost clients leave, lost drivers let go, offers settle |
| `camcorder` | 3 buffers a round | buffers, callbacks, leaks; stop, failure report, output |
| `mmal_port` | 2 threads and the action thread, 2 buffers, 1 context, 1 waiter, 1 event; anything but DISABLE may fail to be sent | contexts, count, answers; refinement of `BufferPort`; enable and disable return, buffers come back |
| `mmal_disable` | 1 thread, 1 buffer; DISABLE may fail to be sent | **violated**: the pool goes while VideoCore has buffers |
| `nalu_search` | all buffers of up to 8 bytes over {0, 1, 2}, then one of up to 4 | complete, tiling |
| `frames` | headers, two pictures, in-line headers, a long picture, one too long on its own, a continuation; `s_buf` of 17 bytes | frames whole; overflow only by units of one frame that are too long together |
| `frames_newcomer` | same | **violated**: a newcomer is not sent the last key frame |
| `rtp_report` | 6 bits, 8 ticks a second, frames of 2 or 3 ticks | **violated**: reports do not come every second |
| `drive` | 4 controls, frames of 16 and 400 ms, 2 messages under way | neutral when released, letting go stops the motor |

**Why the bounds are enough.** A lost wake-up needs one sleeper, one pusher and
one more of each to steal it: two workers and two producers, with enough pushes
for a backlog. Every session hazard involves one page and its connection, or two
that share the map, the queue, the motor or the socket; a connection for each page
is enough (proved: `CreateFindsOne`), and four dispatches per connection are all it
can cause (three states and `onOpen`), so `MaxOps` never blocks (proved:
`BoundNeverBlocks`). `sessions_live` follows the loss of one connection, by whichever
states, while the other comes, drives and streams; that the lost one and the first
page to be opened have a name of their own (`Bounded`) is a renaming. Two buffers let a refill send again what has
come back, three put one in each place of a round. Eight bytes hold two start codes, one of them long, and a
byte after them; only the classes 0, 1 and "above" matter to the search.
`s_buf` has room for the frames of the instance, but not for a long picture
joined to headers nor for the one that is too long on its own. A port needs one thread that disables and one that sends or
flushes, beside the action and vchiq threads; one context for two buffers and one
waiter for two requests make each pool run out, and one event buffer the events.
A frame of 16 ms must be added to another to pass 20 ms; one of 400 ms
overshoots with the fast factors and not with the slow one. Six bits wrap within a
few seconds of eight ticks. The bounds in guards are `MaxOps` (dispatch calls),
`MaxInFlight` (messages of the page under way), `Horizon` (the clock's last tick), and one event of VideoCore under way at a
time; `BufferNum`, `MaxWaiters` and `MaxEvents` are limits of the code.

**Fairness.** `DispatchQueue`: a thread inside or past a critical section goes
on (weak); the mutex is acquired if it is free again and again (strong, which
the short critical sections justify); an operation returns; nobody has to call.
`Sessions`: threads that can step do; pages answer what they get; the library
reports a connection attempt's outcome and a destroyed connection's `Closed`;
nobody has to open a page, ask, drive or lose a connection. `Camcorder`: the
threads run, the firmware hands back what it holds; no Ctrl+C, no refused send
and no failure is assumed. `MmalPort`: a thread past its lock goes on (weak, per
thread), a client gets a lock or a waiter that is free again and again (strong,
per client), so does the action thread; the vchiq thread delivers, VideoCore
handles messages and gives each buffer back (weak); nobody has to begin a call,
and nothing is promised while VideoCore sends events without end. `Drive`: a
visible page has frames of positive length, the channel delivers; nobody has to
press, release or show the page.

## 4. What the violated runs mean

1. *Newcomers* (main.cpp:303-311, 350-358). The comment promises the last key
   frame. The stored range ends at `start_ptr + s_buf_length` where `s_buf +
   s_buf_length` is meant, so a unit that is not the first of its frame is stored
   with junk behind it; and the units are sent without the lengths that
   `Separator::Length` (main.cpp:171) requires.
2. *Reports* (main.cpp:330-337). The timestamp is the start plus the duration of
   the last frame. With frames of one length it never changes, and after the first
   report there is no other; with a frame shorter than the reported one the
   difference wraps, and there is one at once.
3. *Failing DISABLE* (mmal_vc_api.c:313). The pool is deleted although the server
   has disabled nothing and has buffers; the same comment and assertion hold in
   the run `mmal_port`, where DISABLE can be sent.

Seen while modelling, and no run of their own: the camcorder's error path destroys
the pools of enabled ports, against the check at mmal_util.c:314; a normal stop
ends in `std::terminate`, since `websocket_thread` is joinable when it is
destroyed (main.cpp:156).

## 5. Proofs

TLAPS proves the following for every value of the constants, assuming only the
`ASSUME`s of the modules (which TLC evaluates in the runs).

**DispatchQueueProofs.** `IInv` joins `TypeOK`, `LockBalanced`, `Roles` (a worker
that calls is running; a done worker has seen `quit`; a worker runs an
operation exactly when it is in state `running`), the two wake-up
properties and `NothingSkipped`. `LockBalanced` is what makes `Sleep` atomic
with its predicate, hence `NoLostWakeup`; `Roles` makes `StartsInOrder` and the
refinement step by step. Theorems: `TypeCorrect`, `MutexBalanced`,
`WakeupsKept`, `QuitWakesAll`, `QueueUnbroken`, `OrderedStarts`, and
`Implements`: every behaviour is one of `TaskQueue` under the refinement mapping.
`EveryOperationAwaited` counts what `NoLostWakeup` only says of one operation:
while a worker sleeps and `quit` is not set, the workers on their way to the queue
and the `notify_one()`s to come are at least as many as the queued operations. A
push adds one to both sides, a notify turns into a worker, a worker takes one
operation with it.
Cardinalities need finitely many threads: it assumes that of `Workers` and
`Producers`.

**CamcorderProofs.** The properties speak of counts and of `live`; to be
inductive they need to know, for each line `cam` can be at, what has been built
(`Built`), what has been taken down (`TakenDown`), where the other threads are
(`Threads`), and that a port with buffers is enabled and none holds any outside
the loop and the flush after it (`Flow`). Theorems: `TypeCorrect`,
`SemaphorePostedOnce`, `NoBufferLost`, `CallbacksSafe`, `PoolsGoFirst`,
`AllReleased`, for any number of buffers.

**NaluIndicesProofs.** The loop invariant `Before(s, n)`: the units are the start
codes before `n`, each begins with its whole start code, each but the last ends
where the next begins, and none reaches past `n`. `PassOver` justifies the
skips, `FindOne` the step at a start code; the one subtle point is that the unit
before cannot reach into a four-byte start code, because the byte before its
payload is a 1. Theorems: `TypeCorrect`, `SearchComplete`, `UnitsTile`,
`StartCodesWhole`, for buffers of any length and content.

**SessionsProofs.** `IInv` joins the types and three of the state properties with
`Known` (a callback knows its id) and `Tickets` (no ticket is queued twice, or
queued while it is executed). The last is what `LostClientHasErase` rests on: an
operation that is dispatched or finished changes no other, so a removal leaves
the queue only when it is executed, and then its id has no entry. Theorems:
`TypeCorrect`, `OwnsId`, `EraseOnItsWay`, `MotorLetGo`.

That nothing but a lost connection is removed needs two more arguments.
`RemovalsHaveCause`: a lost connection stays lost and keeps its page (`LostStays`),
only `onStateChange` asks for a removal, and an operation that is queued does not
change; so each removal has a lost connection of the same page behind it. And
`Conversation`: what is under way between a page and the server is in one of seven
phases (`Phase`), from the request to the handler of the answer; a page has one
connection, which is in the map until it is lost and cannot be closed before it is
answered, since the map holds it (`OneEach`). So the lost connection behind a removal
is the one that is removed (`RemovesDisconnected`), and the answer finds the one that
awaits it (`AnswersFindTheirs`).

Three more say what the model of the sessions rests on. `UsesTaskQueue`: each step
is one of `TaskQueue` or leaves it alone, so that with `Implements` above the
sessions run on the queue the code has. `BoundNeverBlocks`: a connection
calls `dispatch()` once for its track and once for each of the states it can be
lost in, because its callback is done with one state before the next is reported;
with `MaxOps` at least four times the number of connections, whoever is about to
call finds room. `CreateFindsOne` says the same of the connections: those created
belong to different pages, none to the page whose handler creates one, so with a
connection for each page there is one left.

**FrameAssemblyProofs.** For buffers of any number and length. `IInv` joins the types,
`OverflowOnlyIfTooLong`, and: up to the line the camera is at, `s_buf` holds the
framing of the units received since the last frame (`Assembled`), of which those
of the buffer at hand are the last (`EndsWithBuffer`); only headers leave units behind (`NothingLeft`);
the unit about to be stored ends where `s_buf` ends (`UnitInPlace`), hence what is
stored begins with it (`StoredBeginsWithLatest`). What a frame *is* is a
concatenation of any number of units (`FlattenSeq`), so the proof needs that
appending a unit appends its framing and that the framing of fewer units is a
prefix. `FlattenSeq` is defined by a function of its own prefixes: the proofs show
that it exists and is unique (`FlatteningExists`, `FlatteningUnique`) by an
induction on numbers (`InductionOnNat`, from the well-foundedness of `<`, stated of
a set, since the library's theorem takes an operator). Theorems: `TypeCorrect`,
`OverflowsTooLong`, `FramesWhole`, and `StoredBegins`, the half of
`NewcomerGetsKeyFrame` that does hold.

**MmalPortProofs.** Under the assumption `"disable" \notin Failing`, which the run
`mmal_disable` shows to be needed. The argument: a disable is alone in its phases,
for it holds the connection and port locks, and once it has cleared
`is_enabled` nobody begins to send. VideoCore answers it when it has no buffer
left; the messages are in order, so no buffer and no event is behind the answer,
and when it arrives nothing refers to a context. The queue can only shrink then, and is empty
once drained; with the action lock held nobody is in the callback. `IInv` says
this place by place: which lock is held where (`Locked`), who may be where
(`Roles`, `Hands`, `Phases`), what answers are on the way (`Answers`, `Messages`), what
is over after the answer (`Quiet`, `Off`), and where contexts and callbacks may be
(`Contexts`, `Cover`). Theorems: `Safe`, `PoolUnused`, `AnswersArrive`, and
`PromiseKeeps`: every behaviour is one of `BufferPort`. `DisabledMeansQuiet` is
the sentence of mmal_port.h: while the port has no callback, the client has every
buffer, nothing is queued and nobody is in the callback.

**TransitProofs.** Builds on it: a buffer is in one place (`Alone`), so that a step
that moves it changes the cardinality by one. Theorems: `CountRight`, and
`TypeCorrect`, which needs it to know that the count stays a natural number.

**DriveProofs.** `IInv` joins the types, `AtRest` (controls released: value and
target are neutral) and `AllInRange` (value, messages and motor). `MovedPulse`
bounds a smoothing step. Theorems: `TypeCorrect`, `MotorInRange`,
`SendsNeutral`, for frames of any lengths.

Every invariant, every action property and both refinements that the passing runs
check are theorems. Only model-checked: the liveness properties and
`ServesTaskQueue` (fairness is beyond the prover), and the three violations;
`RtpClock`, checked by one of these, has no theorem.
`LockBalanced`, `NothingSkipped`, `PostedOnce`, `OwnersOutlivePools`,
`WholeStartCodes` and `PulseInRange` are proved, and no run checks them on their own.

## 6. Not modelled

Of the vendored trees: MMAL components, client and OpenMAX bridge, vcos, vchiq,
khronos and vmcs_host, and of MMAL core what `MmalPort` leaves out (above); the
third-party headers. Video settings, focus, zoom and timed parameter changes of the
camcorder, which `start_mmalcam` switches off. SDP and candidate contents. The
steering axis, which is the throttle's loop with other numbers. The argument
parser: sequential, read once before anything runs. `exit(255)` inside a signal
handler: undefined behaviour. The page's layout; build and start scripts.
`PROJECT.json` gives the reason for each.

## 7. Plan

Done, in this order: the dispatch queue with its abstract specification and
proofs; the sessions on top of the abstract queue; the camcorder with its proofs;
the NAL unit search with its proofs; frame assembly; the MMAL port with its
abstract specification and proofs; the throttle with its proofs; the RTP clock;
the proofs about sessions; those about frame assembly, about what removes a
client, about the bounds of the sessions, and about wake-ups by number.

Next:

1. `Camcorder` on top of `BufferPort`, one instance per port, in place of its own
   rule for disabling.
2. `Shutdown`: `exit(255)` inside the signal handler, on any thread, against
   `DispatchQueue`'s destructor.
3. Connected ports in `MmalPort`: two ports, the connection locks and the order in
   which they are taken.
4. Proof: that frames of one length all carry one timestamp (`RtpClock`, the
   general form of the run `rtp_report`).
5. `ArgParser` (against a reference definition over bounded command lines).
