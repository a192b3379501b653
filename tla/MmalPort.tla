------------------------------ MODULE MmalPort ------------------------------
(***************************************************************************)
(* One unconnected port of a VideoCore component, as the program uses the  *)
(* viewfinder port of the camera and both ports of the encoder.  Its       *)
(* buffers go round: a client thread sends one (mmal_port_send_buffer),    *)
(* VideoCore fills it and sends it back, the vchiq callback thread queues  *)
(* it, and the component's action thread hands it to the program's         *)
(* callback.  Other calls are requests that wait for VideoCore's answer.   *)
(* Disabling is the hard part: it must wait for buffers in each of these   *)
(* places, and drains the queue of callbacks on its own thread.            *)
(*                                                                         *)
(* VideoCore is external: it handles its messages in order, refuses any    *)
(* request except DISABLE, answers DISABLE when it has sent back every     *)
(* buffer and the transfers are over, and sends no event while disabled    *)
(* (mmal_vc_api.c 221-222 and 310-311 say that it must).                   *)
(***************************************************************************)
EXTENDS Naturals, Sequences, FiniteSets

CONSTANTS
    Clients,        \* the program's threads
    Action,         \* the component's action thread
    Buffers,        \* the buffer headers of the port's pool
    BufferNum,      \* port->buffer_num: the contexts of the block pool
    MaxWaiters,     \* MAX_WAITERS
    MaxEvents,      \* the event pool
    Failing,        \* what vchiq_queue_message may fail for: "send", requests
    Event,          \* an event buffer
    None

Threads == Clients \cup {Action}
Requests == {"enable", "disable", "flush", "set"}

ASSUME PortAssumption ==
    /\ IsFiniteSet(Clients) /\ IsFiniteSet(Buffers)
    /\ Action \notin Clients
    /\ Event \notin Buffers
    /\ Threads \cap Buffers = {}
    /\ None \notin Buffers \cup Threads \cup {Event}
                      \cup Requests \cup {"send", "action", "ok", "error"}
    /\ BufferNum \in Nat
    /\ MaxWaiters \in Nat \ {0}
    /\ MaxEvents \in Nat
    /\ Failing \subseteq Requests \cup {"send"}

VARIABLES
    lock,           \* [lock -> the thread that holds it]
    pc, op, hand,   \* per thread: where it is, its call, the buffer it carries
    answer,         \* per thread: the outcome of its request
    enabled,        \* port->is_enabled
    callback,       \* core->buffer_header_callback is set
    pool,           \* module->pool: "none", "live", or "stale": has_pool alone
    transit,        \* core->transit_buffer_headers
    client,         \* the buffers the program has
    queue,          \* module->callback_queue
    trigger,        \* private->action_event
    toVideoCore, toHost,    \* the messages under way
    running, filling,       \* VideoCore: the port is enabled, its buffers
    crashed

threadVars == <<pc, op, hand, answer>>
portVars == <<enabled, callback, pool, transit, client>>
queueVars == <<queue, trigger>>
linkVars == <<toVideoCore, toHost, running, filling>>
vars == <<lock, threadVars, portVars, queueVars, linkVars, crashed>>

Locks == {"connection", "port", "send", "action"}
Message(kind, what) == [kind |-> kind, what |-> what]

Places == {"idle", "send", "lockPort", "lockSend", "lockAction", "request",
           "wait", "commit", "drain", "check", "call", "called", "undo", "join"}

\* The types of the variables.
TypeOK ==
    /\ lock \in [Locks -> Threads \cup {None}]
    /\ pc \in [Threads -> Places]
    /\ op \in [Threads -> Requests \cup {"send", "action", None}]
    /\ hand \in [Threads -> Buffers \cup {Event, None}]
    /\ answer \in [Threads -> {"ok", "error", None}]
    /\ enabled \in BOOLEAN
    /\ callback \in BOOLEAN
    /\ pool \in {"none", "live", "stale"}
    /\ transit \in Nat
    /\ client \subseteq Buffers
    /\ queue \in Seq(Buffers \cup {Event})
    /\ trigger \in BOOLEAN
    /\ toVideoCore \in Seq([kind : {"buffer"}, what : Buffers]
                           \cup [kind : {"request"}, what : Threads])
    /\ toHost \in Seq([kind : {"buffer"}, what : Buffers]
                      \cup [kind : {"ok", "error"}, what : Threads]
                      \cup [kind : {"event"}, what : {Event}])
    /\ running \in BOOLEAN
    /\ filling \subseteq Buffers
    /\ crashed \in BOOLEAN

Init ==
    /\ lock = [l \in Locks |-> None]
    /\ pc = [t \in Threads |-> "idle"]
    /\ op = [t \in Threads |-> None]
    /\ hand = [t \in Threads |-> None]
    /\ answer = [t \in Threads |-> None]
    /\ enabled = FALSE
    /\ callback = FALSE
    /\ pool = "none"
    /\ transit = 0
    /\ client = Buffers
    /\ queue = <<>>
    /\ trigger = FALSE
    /\ toVideoCore = <<>>
    /\ toHost = <<>>
    /\ running = FALSE
    /\ filling = {}
    /\ crashed = FALSE

Lock(t, l) == lock[l] = None /\ lock' = [lock EXCEPT ![l] = t]
Free(l) == lock[l] = None
Unlock(t, ls) ==
    lock' = [l \in Locks |-> IF l \in ls /\ lock[l] = t THEN None ELSE lock[l]]
Goto(t, place) == pc' = [pc EXCEPT ![t] = place]
Begin(t, call, place) == Goto(t, place) /\ op' = [op EXCEPT ![t] = call]
Return(t) == Begin(t, None, "idle")

\* A buffer that was given a context of the port's pool (mmal_vc_port_send)
\* and whose context was not freed yet (mmal_vc_port_send_callback).
InMessages(messages) ==
    {m.what : m \in {messages[i] : i \in DOMAIN messages}}
WithContext == Buffers \cap
    (filling \cup InMessages(toVideoCore) \cup InMessages(toHost))

-----------------------------------------------------------------------------
(* Sending a buffer: mmal_port_send_buffer.  On a disabled port the call   *)
(* returns MMAL_EINVAL and changes nothing.                                *)

LockToSend(t, b) ==
    /\ pc[t] = "idle"
    /\ b \in client
    /\ enabled
    /\ Lock(t, "send")
    /\ Begin(t, "send", "send")
    /\ hand' = [hand EXCEPT ![t] = b]
    /\ client' = client \ {b}
    /\ transit' = transit + 1
    /\ UNCHANGED <<answer, enabled, callback, pool, queueVars, linkVars,
                   crashed>>

\* mmal_vc_port_send on a port whose pool is alive and has a context left: a buffer
\* without a command, and not the first send of the process.
SendBuffer(t) ==
    /\ pc[t] = "send"
    /\ pool = "live"
    /\ Cardinality(WithContext) < BufferNum
    /\ toVideoCore' = Append(toVideoCore, Message("buffer", hand[t]))
    /\ hand' = [hand EXCEPT ![t] = None]
    /\ Unlock(t, {"send"})
    /\ Return(t)
    /\ UNCHANGED <<answer, portVars, queueVars, toHost, running, filling,
                   crashed>>

\* Mutant: the buffer stays counted.
SendFailsCounted(t) ==
    /\ pc[t] = "send"
    /\ \/ pool = "none"
       \/ pool = "live" /\ Cardinality(WithContext) >= BufferNum
       \/ pool = "live" /\ "send" \in Failing
    /\ transit' = transit
    /\ client' = client \cup {hand[t]}
    /\ hand' = [hand EXCEPT ![t] = None]
    /\ Unlock(t, {"send"})
    /\ Return(t)
    /\ UNCHANGED <<answer, enabled, callback, pool, queueVars, linkVars,
                   crashed>>

\* Mutant: nobody keeps the buffer.
SendFailsLosing(t) ==
    /\ pc[t] = "send"
    /\ \/ pool = "none"
       \/ pool = "live" /\ Cardinality(WithContext) >= BufferNum
       \/ pool = "live" /\ "send" \in Failing
    /\ transit' = transit - 1
    /\ client' = client
    /\ hand' = [hand EXCEPT ![t] = None]
    /\ Unlock(t, {"send"})
    /\ Return(t)
    /\ UNCHANGED <<answer, enabled, callback, pool, queueVars, linkVars,
                   crashed>>

\* No pool, no context left, or vchiq_queue_message fails: the caller keeps
\* the buffer.
SendFails(t) ==
    /\ pc[t] = "send"
    /\ \/ pool = "none"
       \/ pool = "live" /\ Cardinality(WithContext) >= BufferNum
       \/ pool = "live" /\ "send" \in Failing
    /\ transit' = transit - 1
    /\ client' = client \cup {hand[t]}
    /\ hand' = [hand EXCEPT ![t] = None]
    /\ Unlock(t, {"send"})
    /\ Return(t)
    /\ UNCHANGED <<answer, enabled, callback, pool, queueVars, linkVars,
                   crashed>>

\* vcos_blockpool_alloc on a pool that was deleted.
SendFromStalePool(t) ==
    /\ pc[t] = "send"
    /\ pool = "stale"
    /\ crashed' = TRUE
    /\ UNCHANGED <<lock, threadVars, portVars, queueVars, linkVars>>

-----------------------------------------------------------------------------
(* Requests: mmal_vc_sendwait_message.  get_waiter blocks while every      *)
(* waiter is in use; a thread keeps its waiter until it has the answer.    *)

WaiterFree == Cardinality({t \in Threads : pc[t] = "wait"}) < MaxWaiters

QueueRequest(t) ==
    /\ pc[t] = "request"
    /\ WaiterFree
    /\ Goto(t, "wait")
    /\ toVideoCore' = Append(toVideoCore, Message("request", t))
    /\ UNCHANGED <<lock, op, hand, answer, portVars, queueVars, toHost,
                   running, filling, crashed>>

\* vchiq_queue_message fails: MMAL_EIO without an answer.
RequestFails(t) ==
    /\ pc[t] = "request"
    /\ WaiterFree
    /\ op[t] \in Failing
    /\ Goto(t, "wait")
    /\ answer' = [answer EXCEPT ![t] = "error"]
    /\ UNCHANGED <<lock, op, hand, portVars, queueVars, linkVars, crashed>>

\* Mutant: the wait for the answer times out.
AnsweredOrLate(t, call, outcomes) ==
    /\ pc[t] = "wait"
    /\ op[t] = call
    /\ answer' = [answer EXCEPT ![t] = None]

\* The thread of call "call" has the outcome of its request.
Answered(t, call, outcomes) ==
    /\ pc[t] = "wait"
    /\ op[t] = call
    /\ answer[t] \in outcomes
    /\ answer' = [answer EXCEPT ![t] = None]

-----------------------------------------------------------------------------
(* Enabling the port: mmal_port_enable, mmal_port_enable_internal and      *)
(* mmal_vc_port_enable.  An enabled port refuses, changing nothing.        *)

Enable(t) ==
    /\ pc[t] = "idle"
    /\ ~enabled
    /\ Lock(t, "connection")
    /\ Begin(t, "enable", "lockPort")
    /\ UNCHANGED <<hand, answer, portVars, queueVars, linkVars, crashed>>

\* The port's buffer_num and buffer_size suffice, and the pool can be allocated.
CreatePool(t) ==
    /\ pc[t] = "lockPort"
    /\ op[t] = "enable"
    /\ Lock(t, "port")
    /\ callback' = TRUE
    /\ pool' = "live"
    /\ Goto(t, "request")
    /\ UNCHANGED <<op, hand, answer, enabled, transit, client, queueVars,
                   linkVars, crashed>>

EnableAnswered(t) ==
    /\ Answered(t, "enable", {"ok"})
    /\ Goto(t, "commit")
    /\ UNCHANGED <<lock, op, hand, portVars, queueVars, linkVars, crashed>>

\* The error path deletes the pool and leaves has_pool and the callback set.
EnableRefused(t) ==
    /\ Answered(t, "enable", {"error"})
    /\ pool' = "stale"
    /\ Unlock(t, {"port", "connection"})
    /\ Return(t)
    /\ UNCHANGED <<hand, enabled, callback, transit, client, queueVars,
                   linkVars, crashed>>

SetEnabled(t) ==
    /\ pc[t] = "commit"
    /\ Free("send")
    /\ enabled' = TRUE
    /\ Unlock(t, {"port", "connection"})
    /\ Return(t)
    /\ UNCHANGED <<hand, answer, callback, pool, transit, client, queueVars,
                   linkVars, crashed>>

-----------------------------------------------------------------------------
(* Disabling it: mmal_port_disable, mmal_port_disable_internal and         *)
(* mmal_vc_port_disable.                                                   *)

Disable(t) ==
    /\ pc[t] = "idle"
    /\ enabled
    /\ Lock(t, "connection")
    /\ Begin(t, "disable", "lockPort")
    /\ UNCHANGED <<hand, answer, portVars, queueVars, linkVars, crashed>>

LockToDisable(t) ==
    /\ pc[t] = "lockPort"
    /\ op[t] = "disable"
    /\ Lock(t, "port")
    /\ Goto(t, "lockSend")
    /\ UNCHANGED <<op, hand, answer, portVars, queueVars, linkVars, crashed>>

\* Mutant: without the sending lock.
ClearEnabledUnlocked(t) ==
    /\ pc[t] = "lockSend"
    /\ op[t] = "disable"
    /\ enabled' = FALSE
    /\ Goto(t, "lockAction")
    /\ UNCHANGED <<lock, op, hand, answer, callback, pool, transit, client,
                   queueVars, linkVars, crashed>>

ClearEnabled(t) ==
    /\ pc[t] = "lockSend"
    /\ op[t] = "disable"
    /\ Free("send")
    /\ enabled' = FALSE
    /\ Goto(t, "lockAction")
    /\ UNCHANGED <<lock, op, hand, answer, callback, pool, transit, client,
                   queueVars, linkVars, crashed>>

LockActionToDisable(t) ==
    /\ pc[t] = "lockAction"
    /\ op[t] = "disable"
    /\ Lock(t, "action")
    /\ Goto(t, "request")
    /\ UNCHANGED <<op, hand, answer, portVars, queueVars, linkVars, crashed>>

\* The pool is deleted whether the request succeeded or not; answer keeps
\* the status for the end of the call.
DeletePool(t) ==
    /\ pc[t] = "wait"
    /\ op[t] = "disable"
    /\ answer[t] # None
    /\ pool' = "none"
    /\ Goto(t, "drain")
    /\ UNCHANGED <<lock, op, hand, answer, enabled, callback, transit, client,
                   queueVars, linkVars, crashed>>

\* Mutant: whatever is queued is left to the action thread.
DrainedEarly(t) ==
    /\ pc[t] = "drain"
    /\ op[t] = "disable"
    /\ Unlock(t, {"action"})
    /\ Goto(t, IF answer[t] = "ok" THEN "join" ELSE "undo")
    /\ UNCHANGED <<op, hand, answer, portVars, queueVars, linkVars, crashed>>

\* The queue of callbacks is empty: the action thread may run again.
Drained(t) ==
    /\ pc[t] = "drain"
    /\ op[t] = "disable"
    /\ queue = <<>>
    /\ Unlock(t, {"action"})
    /\ Goto(t, IF answer[t] = "ok" THEN "join" ELSE "undo")
    /\ UNCHANGED <<op, hand, answer, portVars, queueVars, linkVars, crashed>>

EnableAgain(t) ==
    /\ pc[t] = "undo"
    /\ Free("send")
    /\ enabled' = TRUE
    /\ answer' = [answer EXCEPT ![t] = None]
    /\ Unlock(t, {"port", "connection"})
    /\ Return(t)
    /\ UNCHANGED <<hand, callback, pool, transit, client, queueVars, linkVars,
                   crashed>>

\* IN_TRANSIT_WAIT: the semaphore is up when no buffer is in transit.
WaitForTransit(t) ==
    /\ pc[t] = "join"
    /\ transit = 0
    /\ callback' = FALSE
    /\ answer' = [answer EXCEPT ![t] = None]
    /\ Unlock(t, {"port", "connection"})
    /\ Return(t)
    /\ UNCHANGED <<hand, enabled, pool, transit, client, queueVars, linkVars,
                   crashed>>

-----------------------------------------------------------------------------
(* Flushing (mmal_port_flush) and setting a parameter                      *)
(* (mmal_port_parameter_set).                                              *)

\* "must take action lock *before* sending lock"
Flush(t) ==
    /\ pc[t] = "idle"
    /\ Lock(t, "action")
    /\ Begin(t, "flush", "lockSend")
    /\ UNCHANGED <<hand, answer, portVars, queueVars, linkVars, crashed>>

LockToFlush(t) ==
    /\ pc[t] = "lockSend"
    /\ op[t] = "flush"
    /\ enabled
    /\ Lock(t, "send")
    /\ Goto(t, "request")
    /\ UNCHANGED <<op, hand, answer, portVars, queueVars, linkVars, crashed>>

\* Mutant: the early return forgets the action lock.
FlushDisabledLocked(t) ==
    /\ pc[t] = "lockSend"
    /\ op[t] = "flush"
    /\ Free("send")
    /\ ~enabled
    /\ Return(t)
    /\ UNCHANGED <<lock, hand, answer, portVars, queueVars, linkVars, crashed>>

FlushDisabled(t) ==
    /\ pc[t] = "lockSend"
    /\ op[t] = "flush"
    /\ Free("send")
    /\ ~enabled
    /\ Unlock(t, {"action"})
    /\ Return(t)
    /\ UNCHANGED <<hand, answer, portVars, queueVars, linkVars, crashed>>

SetParameter(t) ==
    /\ pc[t] = "idle"
    /\ Lock(t, "port")
    /\ Begin(t, "set", "request")
    /\ UNCHANGED <<hand, answer, portVars, queueVars, linkVars, crashed>>

FlushOrSetAnswered(t) ==
    /\ \E call \in {"flush", "set"} : Answered(t, call, {"ok", "error"})
    /\ Unlock(t, {"action", "send", "port"})
    /\ Return(t)
    /\ UNCHANGED <<hand, portVars, queueVars, linkVars, crashed>>

-----------------------------------------------------------------------------
(* Callbacks: mmal_component_action_thread_func on the action thread, and  *)
(* mmal_vc_do_callback, which a disabling thread also runs.                *)

WakeAction ==
    /\ pc[Action] = "idle"
    /\ trigger
    /\ trigger' = FALSE
    /\ Begin(Action, "action", "lockAction")
    /\ UNCHANGED <<lock, hand, answer, portVars, queue, linkVars, crashed>>

StartAction ==
    /\ pc[Action] = "lockAction"
    /\ Lock(Action, "action")
    /\ Goto(Action, "drain")
    /\ UNCHANGED <<op, hand, answer, portVars, queueVars, linkVars, crashed>>

EndAction ==
    /\ pc[Action] = "drain"
    /\ queue = <<>>
    /\ Unlock(Action, {"action"})
    /\ Return(Action)
    /\ UNCHANGED <<hand, answer, portVars, queueVars, linkVars, crashed>>

TakeCallback(t) ==
    /\ pc[t] = "drain"
    /\ queue # <<>>
    /\ hand' = [hand EXCEPT ![t] = Head(queue)]
    /\ queue' = Tail(queue)
    /\ Goto(t, IF Head(queue) = Event THEN "check" ELSE "call")
    /\ UNCHANGED <<lock, op, answer, portVars, trigger, linkVars, crashed>>

\* mmal_port_event_send tests the callback, and reads it again to call it.
CheckCallback(t) ==
    /\ pc[t] = "check"
    /\ Goto(t, IF callback THEN "call" ELSE "drain")
    /\ hand' = [hand EXCEPT ![t] = IF callback THEN Event ELSE None]
    /\ UNCHANGED <<lock, op, answer, portVars, queueVars, linkVars, crashed>>

\* The program's callback keeps a buffer and releases an event.
CallBack(t) ==
    /\ pc[t] = "call"
    /\ callback
    /\ client' = client \cup ({hand[t]} \ {Event})
    /\ hand' = [hand EXCEPT ![t] = IF hand[t] = Event THEN None ELSE hand[t]]
    /\ Goto(t, "called")
    /\ UNCHANGED <<lock, op, answer, enabled, callback, pool, transit, queueVars,
                   linkVars, crashed>>

\* Mutant: an event counts as a buffer.
CallReturnsCounting(t) ==
    /\ pc[t] = "called"
    /\ transit' = transit - 1
    /\ hand' = [hand EXCEPT ![t] = None]
    /\ Goto(t, "drain")
    /\ UNCHANGED <<lock, op, answer, enabled, callback, pool, client, queueVars,
                   linkVars, crashed>>

\* A buffer is no longer in transit when the callback has returned.
CallReturns(t) ==
    /\ pc[t] = "called"
    /\ transit' = IF hand[t] = None THEN transit ELSE transit - 1
    /\ hand' = [hand EXCEPT ![t] = None]
    /\ Goto(t, "drain")
    /\ UNCHANGED <<lock, op, answer, enabled, callback, pool, client, queueVars,
                   linkVars, crashed>>

CallNull(t) ==
    /\ pc[t] = "call"
    /\ ~callback
    /\ crashed' = TRUE
    /\ UNCHANGED <<lock, threadVars, portVars, queueVars, linkVars>>

-----------------------------------------------------------------------------
(* The vchiq callback thread: mmal_vc_vchiq_callback.  A buffer message    *)
(* stands for the end of its transfer: it came in the message, or its bulk *)
(* receive is done, aborted or could not start; all of them queue the      *)
(* buffer (mmal_vc_port_send_callback).                                    *)

\* Mutant: the action thread is not woken.
QueueCallbackQuietly(b) == queue' = Append(queue, b) /\ UNCHANGED trigger

QueueCallback(b) == queue' = Append(queue, b) /\ trigger' = TRUE

DeliverBuffer ==
    /\ toHost # <<>>
    /\ Head(toHost).kind = "buffer"
    /\ IF pool = "live"
       THEN /\ QueueCallback(Head(toHost).what)
            /\ toHost' = Tail(toHost)
            /\ UNCHANGED crashed
       ELSE /\ crashed' = TRUE      \* its context was freed with the pool
            /\ UNCHANGED <<queueVars, toHost>>
    /\ UNCHANGED <<lock, threadVars, portVars, toVideoCore, running, filling>>

\* The event pool is empty when every event buffer is queued or in a hand.
EventBufferFree ==
    Cardinality({i \in DOMAIN queue : queue[i] = Event})
      + Cardinality({t \in Threads : hand[t] = Event}) < MaxEvents

DeliverEvent ==
    /\ toHost # <<>>
    /\ Head(toHost).kind = "event"
    /\ IF EventBufferFree THEN QueueCallback(Event) ELSE UNCHANGED queueVars
    /\ toHost' = Tail(toHost)
    /\ UNCHANGED <<lock, threadVars, portVars, toVideoCore, running, filling,
                   crashed>>

DeliverReply ==
    /\ toHost # <<>>
    /\ Head(toHost).kind \in {"ok", "error"}
    /\ answer' = [answer EXCEPT ![Head(toHost).what] = Head(toHost).kind]
    /\ toHost' = Tail(toHost)
    /\ UNCHANGED <<lock, pc, op, hand, portVars, queueVars, toVideoCore,
                   running, filling, crashed>>

-----------------------------------------------------------------------------
(* VideoCore.                                                              *)

Accept ==
    /\ toVideoCore # <<>>
    /\ Head(toVideoCore).kind = "buffer"
    /\ filling' = filling \cup {Head(toVideoCore).what}
    /\ toVideoCore' = Tail(toVideoCore)
    /\ UNCHANGED <<lock, threadVars, portVars, queueVars, toHost, running,
                   crashed>>

GiveBack(b) ==
    /\ b \in filling
    /\ filling' = filling \ {b}
    /\ toHost' = Append(toHost, Message("buffer", b))
    /\ UNCHANGED <<lock, threadVars, portVars, queueVars, toVideoCore,
                   running, crashed>>

EventUnderWay == \E i \in DOMAIN toHost : toHost[i].kind = "event"

\* At most one event is under way: the bound of the model.
SendEvent ==
    /\ running
    /\ ~EventUnderWay
    /\ toHost' = Append(toHost, Message("event", Event))
    /\ UNCHANGED <<lock, threadVars, portVars, queueVars, toVideoCore,
                   running, filling, crashed>>

Reply(status) ==
    /\ toVideoCore # <<>>
    /\ Head(toVideoCore).kind = "request"
    /\ LET t == Head(toVideoCore).what IN
       /\ op[t] = "disable" => filling = {} /\ status = "ok"
       /\ toHost' = Append(toHost, Message(status, t))
       /\ running' = IF op[t] = "enable" /\ status = "ok" THEN TRUE
                     ELSE running /\ op[t] # "disable"
    /\ toVideoCore' = Tail(toVideoCore)
    /\ UNCHANGED <<lock, threadVars, portVars, queueVars, filling, crashed>>

-----------------------------------------------------------------------------
Call(t) ==
    \/ \E b \in Buffers : LockToSend(t, b)
    \/ Enable(t) \/ Disable(t) \/ Flush(t) \/ SetParameter(t)

\* The steps of a call or of the action thread that wait for a lock or a
\* waiter, and those that do not.
Acquire(t) ==
    \/ QueueRequest(t) \/ RequestFails(t)
    \/ CreatePool(t) \/ SetEnabled(t)
    \/ LockToDisable(t) \/ ClearEnabled(t) \/ LockActionToDisable(t)
    \/ EnableAgain(t)
    \/ LockToFlush(t) \/ FlushDisabled(t)

Proceed(t) ==
    \/ SendBuffer(t) \/ SendFails(t) \/ SendFromStalePool(t)
    \/ EnableAnswered(t) \/ EnableRefused(t)
    \/ DeletePool(t) \/ Drained(t) \/ WaitForTransit(t)
    \/ FlushOrSetAnswered(t)
    \/ TakeCallback(t) \/ CheckCallback(t)
    \/ CallBack(t) \/ CallReturns(t) \/ CallNull(t)

RunAction == WakeAction \/ StartAction \/ EndAction
Deliver == DeliverBuffer \/ DeliverEvent \/ DeliverReply
Replies == \E status \in {"ok", "error"} : Reply(status)

Next ==
    /\ ~crashed
    /\ \/ \E t \in Clients : Call(t)
       \/ \E t \in Threads : Acquire(t) \/ Proceed(t)
       \/ RunAction
       \/ Deliver
       \/ Accept \/ Replies \/ SendEvent
       \/ \E b \in Buffers : GiveBack(b)

\* A thread that runs goes on, and gets a lock or a waiter that is freed again
\* and again; so do the vchiq thread and VideoCore, which gives a buffer back
\* some day.  Nobody has to begin a call.
Fairness ==
    /\ \A t \in Clients : SF_vars(~crashed /\ Acquire(t))
    /\ \A t \in Threads : WF_vars(~crashed /\ Proceed(t))
    /\ SF_vars(~crashed /\ RunAction)
    /\ WF_vars(~crashed /\ Deliver)
    /\ WF_vars(~crashed /\ (Accept \/ Replies))
    /\ \A b \in Buffers : WF_vars(~crashed /\ GiveBack(b))

Spec == Init /\ [][Next]_vars /\ Fairness

-----------------------------------------------------------------------------
(* Properties.                                                             *)

\* The program never calls through a NULL callback, never takes a context
\* from a deleted pool and never frees one into it: what is read without the
\* lock that protects it (has_pool, the callback, the context of a buffer that
\* comes back) is still what it was.
NeverCrashes == ~crashed

\* "MMAL server should make sure that all buffers are sent back before it
\* disables the port": the assertion of mmal_vc_port_disable before it deletes
\* the pool.
ContextsBack ==
    \A t \in Threads :
        pc[t] = "wait" /\ op[t] = "disable" /\ answer[t] # None
            => WithContext = {}

\* The count that mmal_port_disable waits for counts every buffer the program
\* does not have, wherever it is (being sent, in a message, with VideoCore,
\* queued), and every call of the callback with a buffer, which the program may
\* have sent again meanwhile.
TransitCounts ==
    transit = Cardinality(Buffers \ client)
                + Cardinality({t \in Threads : pc[t] = "called" /\ hand[t] # None})

\* The vchiq thread writes an answer through the waiter of its message (the
\* assertion that it is in use): a message that stands for a request finds its
\* thread still waiting, and no other message is for the same thread.
AnswersFindWaiter ==
    LET messages == toVideoCore \o toHost
        ForThread(i) == messages[i].kind \in {"request", "ok", "error"}
    IN \A i \in DOMAIN messages : ForThread(i) =>
        /\ pc[messages[i].what] = "wait"
        /\ answer[messages[i].what] = None
        /\ \A j \in DOMAIN messages \ {i} :
            ForThread(j) => messages[j].what # messages[i].what

\* The port keeps the promise of BufferPort: a buffer is given back once, by
\* the callback, disable returns when none is out and no callback runs, and
\* nothing is called back after that.
Sending == {hand[t] : t \in {u \in Threads : pc[u] = "send"}}
Promise == INSTANCE BufferPort WITH
    Callers <- Threads,
    on <- callback,
    out <- Buffers \ (client \cup Sending),
    calling <- {t \in Threads : pc[t] = "called"}
KeepsPromise == Promise!Spec

\* mmal_port_enable and mmal_port_disable come back, unless events are sent
\* without end: their request gets a waiter and an answer, no thread keeps a
\* lock they need, and some thread calls back every buffer disable waits for.
EnableAndDisableReturn ==
    <>[]~EventUnderWay
        => (lock["connection"] # None ~> (lock["connection"] = None \/ crashed))

\* A buffer VideoCore has reaches the program's callback, although the action
\* thread is woken by an event that does not count how often it was signalled.
BuffersComeBack ==
    \A b \in Buffers : (b \in filling) ~> (b \in client \/ crashed)
=============================================================================
