---------------------------- MODULE MmalPortProofs ----------------------------
(***************************************************************************)
(* The safety of a port, for any number of threads, buffers, contexts and  *)
(* events, whatever requests VideoCore refuses and whichever messages      *)
(* cannot be sent, except DISABLE: the run mmal_disable shows why.         *)
(*                                                                         *)
(* Disabling goes through its phases alone, since it holds the locks of    *)
(* the connection and of the port.  VideoCore answers it when it has       *)
(* nothing left, messages keep their order, and so nothing comes behind    *)
(* the answer: once it is there the port is quiet, and once the queue is   *)
(* drained nobody is in the callback or will be.                           *)
(***************************************************************************)
EXTENDS MmalPort, SequenceTheorems, TLAPS

\* Messages about a thread, and what may stand in a sequence of messages.
Talk == {"request", "ok", "error"}
HasBuffer(s, b) == \E i \in DOMAIN s : s[i].kind = "buffer" /\ s[i].what = b
HasEvent(s) == \E i \in DOMAIN s : s[i].kind = "event"
HasError(s, t) == \E i \in DOMAIN s : s[i].kind = "error" /\ s[i].what = t
About(s, t) == \E i \in DOMAIN s : s[i].kind \in Talk /\ s[i].what = t
Once(s) ==
    \A i, j \in DOMAIN s :
        s[i].kind \in Talk /\ s[j].kind \in Talk /\ s[i].what = s[j].what => i = j
QuietAfter(s, t) ==
    \A i, j \in DOMAIN s :
        s[i].kind \in Talk /\ s[i].what = t /\ i < j
            => s[j].kind \notin {"buffer", "event"}

ToVideoCore == [kind : {"buffer"}, what : Buffers]
                 \cup [kind : {"request"}, what : Threads]
ToHost == [kind : {"buffer"}, what : Buffers]
            \cup [kind : {"ok", "error"}, what : Threads]
            \cup [kind : {"event"}, what : {Event}]

\* A buffer between mmal_vc_port_send and mmal_vc_port_send_callback.
Out(b) == b \in filling \/ HasBuffer(toVideoCore, b) \/ HasBuffer(toHost, b)

-----------------------------------------------------------------------------
(* The parts of the invariant.                                             *)

\* TypeOK, save the count of buffers in transit.
Types ==
    /\ lock \in [Locks -> Threads \cup {None}]
    /\ pc \in [Threads -> Places]
    /\ op \in [Threads -> Requests \cup {"send", "action", None}]
    /\ hand \in [Threads -> Buffers \cup {Event, None}]
    /\ answer \in [Threads -> {"ok", "error", None}]
    /\ enabled \in BOOLEAN /\ callback \in BOOLEAN
    /\ pool \in {"none", "live", "stale"}
    /\ client \subseteq Buffers
    /\ queue \in Seq(Buffers \cup {Event})
    /\ trigger \in BOOLEAN
    /\ toVideoCore \in Seq(ToVideoCore)
    /\ toHost \in Seq(ToHost)
    /\ running \in BOOLEAN
    /\ filling \subseteq Buffers

\* Where a thread may be in each call.
Draining == {"drain", "check", "call", "called"}
Roles ==
    \A t \in Threads :
        /\ op[t] = None <=> pc[t] = "idle"
        /\ op[t] = "send" <=> pc[t] = "send"
        /\ op[t] = "enable" => pc[t] \in {"lockPort", "request", "wait", "commit"}
        /\ op[t] = "disable" =>
             pc[t] \in {"lockPort", "lockSend", "lockAction", "request", "wait",
                        "join"} \cup Draining
        /\ op[t] = "flush" => pc[t] \in {"lockSend", "request", "wait"}
        /\ op[t] = "set" => pc[t] \in {"request", "wait"}
        /\ op[t] = "action" => pc[t] \in {"lockAction"} \cup Draining
        /\ op[t] # None => (op[t] = "action" <=> t = Action)

\* What a thread carries.
Hands ==
    \A t \in Threads :
        /\ pc[t] = "send" => hand[t] \in Buffers
        /\ pc[t] = "call" => hand[t] # None

\* The locks a thread holds on its way.
Locked ==
    \A t \in Threads :
        /\ op[t] \in {"enable", "disable"} => lock["connection"] = t
        /\ op[t] \in {"enable", "disable"} /\ pc[t] # "lockPort" => lock["port"] = t
        /\ op[t] = "set" => lock["port"] = t
        /\ op[t] = "send" => lock["send"] = t
        /\ op[t] = "flush" /\ pc[t] # "lockSend" => lock["send"] = t
        /\ op[t] = "flush" => lock["action"] = t
        /\ op[t] = "disable" /\ pc[t] \in {"request", "wait"} => lock["action"] = t
        /\ pc[t] \in Draining => lock["action"] = t

\* The port through enabling, sending and disabling.
Phases ==
    /\ enabled => pool = "live" /\ callback
    /\ \A t \in Threads :
        /\ op[t] = "send" => enabled
        /\ op[t] = "enable" => ~enabled
        /\ op[t] = "enable" /\ pc[t] # "lockPort" => pool = "live" /\ callback
        /\ op[t] = "disable" => callback
        /\ op[t] = "disable" => (enabled <=> pc[t] \in {"lockPort", "lockSend"})
        /\ op[t] = "disable" /\ pc[t] \in {"lockAction", "request", "wait"}
             => pool = "live"

\* Who has an answer, and which one.
Answers ==
    \A t \in Threads :
        /\ answer[t] # None =>
             \/ pc[t] = "wait"
             \/ op[t] = "disable" /\ pc[t] \in Draining \cup {"join"}
        /\ op[t] = "disable" /\ pc[t] \in Draining \cup {"join"} => answer[t] = "ok"
        /\ op[t] = "disable" => answer[t] # "error" /\ ~HasError(toHost, t)

\* A thread has at most one message under way, and waits for it.
Messages ==
    /\ Once(toVideoCore) /\ Once(toHost)
    /\ \A t \in Threads :
        /\ About(toVideoCore, t) \/ About(toHost, t)
             => pc[t] = "wait" /\ answer[t] = None
        /\ ~(About(toVideoCore, t) /\ About(toHost, t))

\* VideoCore has nothing left to send; nothing is left at all.
Silent == ~running /\ filling = {} /\ \A b \in Buffers : ~HasBuffer(toVideoCore, b)
NothingComes ==
    Silent /\ ~HasEvent(toHost) /\ \A b \in Buffers : ~HasBuffer(toHost, b)

\* Nothing comes behind a request to disable the port or its answer.
Quiet ==
    \A t \in Threads : op[t] = "disable" =>
        /\ QuietAfter(toVideoCore, t)
        /\ QuietAfter(toHost, t)
        /\ About(toHost, t) => Silent
        /\ answer[t] # None => NothingComes

\* Nobody is in the callback, or will be.
Off ==
    (~callback \/ \E t \in Threads : pc[t] = "join")
        => /\ NothingComes
           /\ queue = <<>>
           /\ \A t \in Threads : pc[t] \notin {"check", "call", "called"}

\* The pool outlives the contexts.
Contexts ==
    (\E b \in Buffers : Out(b)) =>
        /\ pool = "live"
        /\ \/ enabled
           \/ \E t \in Threads : op[t] = "disable"
                                   /\ pc[t] \in {"lockAction", "request", "wait"}

\* No buffer is forgotten.
Cover ==
    \A b \in Buffers :
        \/ b \in client
        \/ Out(b)
        \/ \E i \in DOMAIN queue : queue[i] = b
        \/ \E t \in Threads : pc[t] \in {"send", "call"} /\ hand[t] = b

IInv == /\ Types /\ Roles /\ Hands /\ Locked /\ Phases /\ Answers /\ Messages
        /\ Quiet /\ Off /\ Contexts /\ Cover /\ ~crashed

-----------------------------------------------------------------------------
(* Messages: what a sequence has after a message came or went.             *)

Kinds == {"buffer", "event"} \cup Talk
AnyMessage == [kind : Kinds, what : Buffers \cup {Event} \cup Threads]

\* The messages there are, by what they carry.
LEMMA MessageTypes ==
    /\ \A s \in Seq(ToVideoCore) : s \in Seq(AnyMessage)
    /\ \A s \in Seq(ToHost) : s \in Seq(AnyMessage)
<1>1. ToVideoCore \subseteq AnyMessage /\ ToHost \subseteq AnyMessage
  BY DEF ToVideoCore, ToHost, AnyMessage, Kinds, Talk
<1> QED BY <1>1

\* A message at the end.
LEMMA Appended ==
    ASSUME NEW s \in Seq(AnyMessage), NEW m \in AnyMessage
    PROVE  /\ \A b : HasBuffer(Append(s, m), b)
                    <=> HasBuffer(s, b) \/ (m.kind = "buffer" /\ m.what = b)
           /\ HasEvent(Append(s, m)) <=> HasEvent(s) \/ m.kind = "event"
           /\ \A t : HasError(Append(s, m), t)
                    <=> HasError(s, t) \/ (m.kind = "error" /\ m.what = t)
           /\ \A t : About(Append(s, m), t)
                    <=> About(s, t) \/ (m.kind \in Talk /\ m.what = t)
           /\ Once(s) /\ (m.kind \in Talk => ~About(s, m.what)) => Once(Append(s, m))
           /\ \A t : QuietAfter(s, t)
                      /\ (m.kind \in {"buffer", "event"} => ~About(s, t))
                        => QuietAfter(Append(s, m), t)
<1> DEFINE a == Append(s, m)
<1>1. /\ Len(s) \in Nat /\ DOMAIN s = 1..Len(s) /\ DOMAIN a = 1..(Len(s) + 1)
      /\ \A i \in DOMAIN s : a[i] = s[i]
      /\ a[Len(s) + 1] = m
  OBVIOUS
<1>2. DOMAIN a = DOMAIN s \cup {Len(s) + 1} /\ Len(s) + 1 \notin DOMAIN s
  BY <1>1
<1>3. \A i \in DOMAIN a : i < Len(s) + 1 => i \in DOMAIN s
  BY <1>1
<1>4. \A i \in DOMAIN s : ~(Len(s) + 1 < i)
  BY <1>1
<1> HIDE DEF a
<1> USE DEF Talk
<1>5. /\ \A b : HasBuffer(a, b) <=> HasBuffer(s, b) \/ (m.kind = "buffer" /\ m.what = b)
      /\ HasEvent(a) <=> HasEvent(s) \/ m.kind = "event"
  BY <1>1, <1>2 DEF HasBuffer, HasEvent
<1>6. /\ \A t : HasError(a, t) <=> HasError(s, t) \/ (m.kind = "error" /\ m.what = t)
      /\ \A t : About(a, t) <=> About(s, t) \/ (m.kind \in Talk /\ m.what = t)
  BY <1>1, <1>2 DEF HasError, About
<1>7. Once(s) /\ (m.kind \in Talk => ~About(s, m.what)) => Once(a)
  BY <1>1, <1>2 DEF Once, About
<1>8. ASSUME NEW t, QuietAfter(s, t), m.kind \in {"buffer", "event"} => ~About(s, t)
      PROVE  QuietAfter(a, t)
  <2> SUFFICES ASSUME NEW i \in DOMAIN a, NEW j \in DOMAIN a,
                      a[i].kind \in Talk, a[i].what = t, i < j
               PROVE  a[j].kind \notin {"buffer", "event"}
    BY DEF QuietAfter
  <2>1. CASE j \in DOMAIN s
    <3>1. i \in DOMAIN s
      BY <2>1, <1>2, <1>4
    <3> QED BY <2>1, <3>1, <1>8, <1>1 DEF QuietAfter
  <2>2. CASE j = Len(s) + 1
    <3>1. i \in DOMAIN s
      BY <2>2, <1>3
    <3>2. About(s, t)
      BY <3>1, <1>1 DEF About
    <3> QED BY <2>2, <3>2, <1>8, <1>1
  <2> QED BY <2>1, <2>2, <1>2
<1> QED BY <1>5, <1>6, <1>7, <1>8 DEF a

\* A message taken from the head.
LEMMA Taken ==
    ASSUME NEW s \in Seq(AnyMessage), s # <<>>
    PROVE  /\ Head(s) \in AnyMessage /\ Tail(s) \in Seq(AnyMessage)
           /\ \A b : HasBuffer(s, b)
                    <=> HasBuffer(Tail(s), b) \/ (Head(s).kind = "buffer" /\ Head(s).what = b)
           /\ HasEvent(s) <=> HasEvent(Tail(s)) \/ Head(s).kind = "event"
           /\ \A t : HasError(s, t)
                    <=> HasError(Tail(s), t) \/ (Head(s).kind = "error" /\ Head(s).what = t)
           /\ \A t : About(s, t)
                    <=> About(Tail(s), t) \/ (Head(s).kind \in Talk /\ Head(s).what = t)
           /\ Once(s) => /\ Once(Tail(s))
                         /\ Head(s).kind \in Talk => ~About(Tail(s), Head(s).what)
           /\ \A t : QuietAfter(s, t) =>
                /\ QuietAfter(Tail(s), t)
                /\ Head(s).kind \in Talk /\ Head(s).what = t =>
                     ~HasEvent(Tail(s)) /\ \A b : ~HasBuffer(Tail(s), b)
<1> DEFINE z == Tail(s)
<1>1. /\ Head(s) \in AnyMessage /\ z \in Seq(AnyMessage) /\ Head(s) = s[1]
      /\ Len(s) \in Nat /\ Len(s) # 0 /\ DOMAIN s = 1..Len(s)
      /\ DOMAIN z = 1..(Len(s) - 1)
      /\ \A i \in DOMAIN z : z[i] = s[i + 1]
  OBVIOUS
<1>2. 1 \in DOMAIN s /\ \A i \in DOMAIN z : i + 1 \in DOMAIN s /\ 1 < i + 1
  BY <1>1
<1>3. \A i \in DOMAIN s : i = 1 \/ \E j \in DOMAIN z : i = j + 1
  <2> SUFFICES ASSUME NEW i \in DOMAIN s, i # 1 PROVE i - 1 \in DOMAIN z /\ i = (i - 1) + 1
    OBVIOUS
  <2> QED BY <1>1
<1>4. \A i, j \in DOMAIN z : (i < j <=> i + 1 < j + 1) /\ (i + 1 = j + 1 <=> i = j)
  BY <1>1
<1> HIDE DEF z
<1>5. /\ \A b : HasBuffer(s, b)
               <=> HasBuffer(z, b) \/ (Head(s).kind = "buffer" /\ Head(s).what = b)
      /\ HasEvent(s) <=> HasEvent(z) \/ Head(s).kind = "event"
  BY <1>1, <1>2, <1>3 DEF HasBuffer, HasEvent
<1>6. /\ \A t : HasError(s, t)
               <=> HasError(z, t) \/ (Head(s).kind = "error" /\ Head(s).what = t)
      /\ \A t : About(s, t)
               <=> About(z, t) \/ (Head(s).kind \in Talk /\ Head(s).what = t)
  BY <1>1, <1>2, <1>3 DEF HasError, About
<1>7. ASSUME Once(s)
      PROVE  Once(z) /\ (Head(s).kind \in Talk => ~About(z, Head(s).what))
  <2>1. Once(z)
    BY <1>7, <1>1, <1>2, <1>4 DEF Once
  <2>2. ASSUME NEW i \in DOMAIN z, Head(s).kind \in Talk, z[i].kind \in Talk,
               z[i].what = Head(s).what
        PROVE  FALSE
    <3>1. i + 1 = 1
      BY <2>2, <1>7, <1>1, <1>2 DEF Once
    <3>2. i + 1 # 1
      BY <1>1
    <3> QED BY <3>1, <3>2
  <2> QED BY <2>1, <2>2 DEF About
<1>8. ASSUME NEW t, QuietAfter(s, t)
      PROVE  /\ QuietAfter(z, t)
             /\ Head(s).kind \in Talk /\ Head(s).what = t =>
                  ~HasEvent(z) /\ \A b : ~HasBuffer(z, b)
  <2>1. QuietAfter(z, t)
    BY <1>8, <1>1, <1>2, <1>4 DEF QuietAfter
  <2>2. ASSUME Head(s).kind \in Talk, Head(s).what = t, NEW i \in DOMAIN z
        PROVE  z[i].kind \notin {"buffer", "event"}
    BY <2>2, <1>8, <1>1, <1>2 DEF QuietAfter
  <2> QED BY <2>1, <2>2 DEF HasEvent, HasBuffer
<1> QED BY <1>1, <1>5, <1>6, <1>7, <1>8 DEF z

\* Nothing comes after a message that is not there.
LEMMA NotThere ==
    ASSUME NEW s, NEW t, ~About(s, t) PROVE QuietAfter(s, t)
BY DEF About, QuietAfter

\* A refusal is about the call that asked.
LEMMA ErrorIsAbout ==
    ASSUME NEW s, NEW t, HasError(s, t) PROVE About(s, t)
BY DEF About, HasError, Talk

\* An empty sequence.
LEMMA NoMessages ==
    /\ \A b : ~HasBuffer(<<>>, b) /\ ~About(<<>>, b) /\ ~HasError(<<>>, b)
             /\ QuietAfter(<<>>, b)
    /\ ~HasEvent(<<>>) /\ Once(<<>>)
BY DEF HasBuffer, About, HasError, QuietAfter, HasEvent, Once

\* The port starts disabled, with nothing on the way.
LEMMA InitInv == Init => IInv
<1> SUFFICES ASSUME Init PROVE IInv
  OBVIOUS
<1> USE PortAssumption DEF Init
<1>1. Types
  <2>1. queue \in Seq(Buffers \cup {Event}) /\ toVideoCore \in Seq(ToVideoCore)
        /\ toHost \in Seq(ToHost)
    OBVIOUS
  <2> QED BY <2>1 DEF Types, Places, Locks
<1>2. Roles /\ Hands /\ Locked /\ Phases /\ Answers
  BY NoMessages DEF Roles, Hands, Locked, Phases, Answers, Draining, Requests
<1>3. Messages /\ Quiet /\ Contexts
  BY NoMessages DEF Messages, Quiet, Contexts, Out
<1>4. Off
  BY NoMessages DEF Off, NothingComes, Silent
<1>5. Cover
  BY DEF Cover
<1> QED BY <1>1, <1>2, <1>3, <1>4, <1>5 DEF IInv

-----------------------------------------------------------------------------
(* The steps of a thread that leave the messages alone.                    *)

Local(t) ==
    \/ t # Action /\ \E b \in Buffers : LockToSend(t, b)
    \/ t # Action /\ (Enable(t) \/ Disable(t) \/ Flush(t) \/ SetParameter(t))
    \/ SendFails(t) \/ RequestFails(t)
    \/ CreatePool(t) \/ EnableAnswered(t) \/ EnableRefused(t)
    \/ SetEnabled(t)
    \/ LockToDisable(t) \/ ClearEnabled(t) \/ LockActionToDisable(t)
    \/ DeletePool(t) \/ Drained(t) \/ EnableAgain(t) \/ WaitForTransit(t)
    \/ LockToFlush(t) \/ FlushDisabled(t) \/ FlushOrSetAnswered(t)
    \/ TakeCallback(t) \/ CheckCallback(t) \/ CallBack(t) \/ CallReturns(t)
    \/ t = Action /\ (WakeAction \/ StartAction \/ EndAction)

\* What unlocking leaves alone.
LEMMA Unlocked ==
    ASSUME NEW t, NEW ls, Unlock(t, ls)
    PROVE  \A l \in Locks : l \notin ls \/ lock[l] # t => lock'[l] = lock[l]
BY DEF Unlock

\* The variables keep their types.
LEMMA LocalTypes ==
    ASSUME IInv, NEW t \in Threads, Local(t)
    PROVE  Types'
<1> USE PortAssumption DEF IInv, Types,
           Goto, Begin, Return, Lock, Free, Answered, portVars, queueVars,
           threadVars, Places, Requests, Locks, Unlock, Hands, linkVars
<1>1. CASE t # Action /\ \E b \in Buffers : LockToSend(t, b)
  BY <1>1 DEF LockToSend
<1>2. CASE t # Action /\ Enable(t)
  BY <1>2 DEF Enable
<1>3. CASE t # Action /\ Disable(t)
  BY <1>3 DEF Disable
<1>4. CASE t # Action /\ Flush(t)
  BY <1>4 DEF Flush
<1>5. CASE t # Action /\ SetParameter(t)
  BY <1>5 DEF SetParameter
<1>6. CASE SendFails(t)
  BY <1>6 DEF SendFails
<1>7. CASE RequestFails(t)
  BY <1>7 DEF RequestFails
<1>8. CASE EnableAnswered(t)
  BY <1>8 DEF EnableAnswered
<1>9. CASE CreatePool(t)
  BY <1>9 DEF CreatePool
<1>10. CASE EnableRefused(t)
  BY <1>10 DEF EnableRefused
<1>11. CASE SetEnabled(t)
  BY <1>11 DEF SetEnabled
<1>12. CASE LockToDisable(t)
  BY <1>12 DEF LockToDisable
<1>13. CASE ClearEnabled(t)
  BY <1>13 DEF ClearEnabled
<1>14. CASE LockActionToDisable(t)
  BY <1>14 DEF LockActionToDisable
<1>15. CASE DeletePool(t)
  BY <1>15 DEF DeletePool
<1>16. CASE Drained(t)
  BY <1>16 DEF Drained
<1>17. CASE EnableAgain(t)
  BY <1>17 DEF EnableAgain
<1>18. CASE WaitForTransit(t)
  BY <1>18 DEF WaitForTransit
<1>19. CASE LockToFlush(t)
  BY <1>19 DEF LockToFlush
<1>20. CASE FlushDisabled(t)
  BY <1>20 DEF FlushDisabled
<1>21. CASE FlushOrSetAnswered(t)
  BY <1>21 DEF FlushOrSetAnswered
<1>22. CASE TakeCallback(t)
  BY <1>22 DEF TakeCallback
<1>23. CASE CheckCallback(t)
  BY <1>23 DEF CheckCallback
<1>24. CASE CallBack(t)
  BY <1>24 DEF CallBack
<1>25. CASE CallReturns(t)
  BY <1>25 DEF CallReturns
<1>26. CASE t = Action /\ WakeAction
  BY <1>26 DEF WakeAction
<1>27. CASE t = Action /\ StartAction
  BY <1>27 DEF StartAction
<1>28. CASE t = Action /\ EndAction
  BY <1>28 DEF EndAction
<1> QED
  BY <1>1, <1>2, <1>3, <1>4, <1>5, <1>6, <1>7, <1>8, <1>9, <1>10, <1>11,
     <1>12, <1>13, <1>14, <1>15, <1>16, <1>17, <1>18, <1>19, <1>20, <1>21,
     <1>22, <1>23, <1>24, <1>25, <1>26, <1>27, <1>28 DEF Local

\* Each thread goes on where its call has to.
LEMMA LocalRoles ==
    ASSUME IInv, NEW t \in Threads, Local(t)
    PROVE  Roles' /\ Hands'
<1> USE PortAssumption DEF IInv, Types, Roles, Hands, Answers, Draining, Requests,
           Goto, Begin, Return, Lock, Free, Answered, portVars, queueVars,
           threadVars
<1>1. CASE t # Action /\ \E b \in Buffers : LockToSend(t, b)
  BY <1>1 DEF LockToSend
<1>2. CASE t # Action /\ Enable(t)
  BY <1>2 DEF Enable
<1>3. CASE t # Action /\ Disable(t)
  BY <1>3 DEF Disable
<1>4. CASE t # Action /\ Flush(t)
  BY <1>4 DEF Flush
<1>5. CASE t # Action /\ SetParameter(t)
  BY <1>5 DEF SetParameter
<1>6. CASE SendFails(t)
  BY <1>6 DEF SendFails
<1>7. CASE RequestFails(t) \/ EnableAnswered(t)
  BY <1>7 DEF RequestFails, EnableAnswered
<1>8. CASE CreatePool(t)
  BY <1>8 DEF CreatePool
<1>9. CASE EnableRefused(t)
  BY <1>9 DEF EnableRefused
<1>10. CASE SetEnabled(t)
  BY <1>10 DEF SetEnabled
<1>11. CASE LockToDisable(t) \/ ClearEnabled(t) \/ LockActionToDisable(t)
  BY <1>11 DEF LockToDisable, ClearEnabled, LockActionToDisable
<1>12. CASE DeletePool(t)
  BY <1>12 DEF DeletePool
<1>13. CASE Drained(t)
  BY <1>13 DEF Drained
<1>14. CASE EnableAgain(t) \/ WaitForTransit(t)
  BY <1>14 DEF EnableAgain, WaitForTransit
<1>15. CASE LockToFlush(t)
  BY <1>15 DEF LockToFlush
<1>16. CASE FlushDisabled(t)
  BY <1>16 DEF FlushDisabled
<1>17. CASE FlushOrSetAnswered(t)
  BY <1>17 DEF FlushOrSetAnswered
<1>18. CASE TakeCallback(t) \/ CheckCallback(t)
  BY <1>18 DEF TakeCallback, CheckCallback
<1>19. CASE CallBack(t)
  BY <1>19 DEF CallBack
<1>20. CASE CallReturns(t)
  BY <1>20 DEF CallReturns
<1>21. CASE t = Action /\ (WakeAction \/ StartAction)
  BY <1>21 DEF WakeAction, StartAction
<1>22. CASE t = Action /\ EndAction
  BY <1>22 DEF EndAction
<1> QED
  BY <1>1, <1>2, <1>3, <1>4, <1>5, <1>6, <1>7, <1>8, <1>9, <1>10, <1>11,
     <1>12, <1>13, <1>14, <1>15, <1>16, <1>17, <1>18, <1>19, <1>20, <1>21,
     <1>22 DEF Local

\* It keeps the locks of its call.
LEMMA LocalLocked ==
    ASSUME IInv, NEW t \in Threads, Local(t)
    PROVE  Locked'
<1> USE PortAssumption DEF IInv, Types, Locked, Roles, Draining, Requests, Locks,
           Goto, Begin, Return, Lock, Free, Answered, portVars, queueVars,
           threadVars
<1>1. CASE t # Action /\ \E b \in Buffers : LockToSend(t, b)
  BY <1>1 DEF LockToSend
<1>2. CASE t # Action /\ (Enable(t) \/ Disable(t) \/ Flush(t) \/ SetParameter(t))
  BY <1>2 DEF Enable, Disable, Flush, SetParameter
<1>3. CASE SendFails(t)
  <2>1. PICK ls : Unlock(t, ls) /\ ls \subseteq {"send"}
    BY <1>3 DEF SendFails
  <2>2. \A l \in Locks : l \notin ls \/ lock[l] # t => lock'[l] = lock[l]
    BY <2>1, Unlocked
  <2> QED BY <1>3, <2>1, <2>2 DEF SendFails
<1>4. CASE RequestFails(t) \/ EnableAnswered(t)
  BY <1>4 DEF RequestFails, EnableAnswered
<1>5. CASE CreatePool(t)
  BY <1>5 DEF CreatePool
<1>6. CASE EnableRefused(t) \/ SetEnabled(t)
  <2>1. PICK ls : Unlock(t, ls) /\ ls \subseteq {"port", "connection"}
    BY <1>6 DEF EnableRefused, SetEnabled
  <2>2. \A l \in Locks : l \notin ls \/ lock[l] # t => lock'[l] = lock[l]
    BY <2>1, Unlocked
  <2> QED BY <1>6, <2>1, <2>2 DEF EnableRefused, SetEnabled
<1>7. CASE LockToDisable(t) \/ ClearEnabled(t) \/ LockActionToDisable(t)
  BY <1>7 DEF LockToDisable, ClearEnabled, LockActionToDisable
<1>8. CASE DeletePool(t)
  BY <1>8 DEF DeletePool
<1>9. CASE Drained(t)
  <2>1. PICK ls : Unlock(t, ls) /\ ls \subseteq {"action"}
    BY <1>9 DEF Drained
  <2>2. \A l \in Locks : l \notin ls \/ lock[l] # t => lock'[l] = lock[l]
    BY <2>1, Unlocked
  <2> QED BY <1>9, <2>1, <2>2 DEF Drained
<1>10. CASE EnableAgain(t) \/ WaitForTransit(t)
  <2>1. PICK ls : Unlock(t, ls) /\ ls \subseteq {"port", "connection"}
    BY <1>10 DEF EnableAgain, WaitForTransit
  <2>2. \A l \in Locks : l \notin ls \/ lock[l] # t => lock'[l] = lock[l]
    BY <2>1, Unlocked
  <2> QED BY <1>10, <2>1, <2>2 DEF EnableAgain, WaitForTransit
<1>11. CASE LockToFlush(t)
  BY <1>11 DEF LockToFlush
<1>12. CASE FlushDisabled(t)
  <2>1. PICK ls : Unlock(t, ls) /\ ls \subseteq {"action"}
    BY <1>12 DEF FlushDisabled
  <2>2. \A l \in Locks : l \notin ls \/ lock[l] # t => lock'[l] = lock[l]
    BY <2>1, Unlocked
  <2> QED BY <1>12, <2>1, <2>2 DEF FlushDisabled
<1>13. CASE FlushOrSetAnswered(t)
  <2>1. PICK ls : Unlock(t, ls) /\ ls \subseteq {"action", "send", "port"}
    BY <1>13 DEF FlushOrSetAnswered
  <2>2. \A l \in Locks : l \notin ls \/ lock[l] # t => lock'[l] = lock[l]
    BY <2>1, Unlocked
  <2> QED BY <1>13, <2>1, <2>2 DEF FlushOrSetAnswered
<1>14. CASE TakeCallback(t) \/ CheckCallback(t)
  BY <1>14 DEF TakeCallback, CheckCallback
<1>15. CASE CallBack(t) \/ CallReturns(t)
  BY <1>15 DEF CallBack, CallReturns
<1>16. CASE t = Action /\ (WakeAction \/ StartAction)
  BY <1>16 DEF WakeAction, StartAction
<1>17. CASE t = Action /\ EndAction
  <2>1. PICK ls : Unlock(t, ls) /\ ls \subseteq {"action"}
    BY <1>17 DEF EndAction
  <2>2. \A l \in Locks : l \notin ls \/ lock[l] # t => lock'[l] = lock[l]
    BY <2>1, Unlocked
  <2> QED BY <1>17, <2>1, <2>2 DEF EndAction
<1> QED
  BY <1>1, <1>2, <1>3, <1>4, <1>5, <1>6, <1>7, <1>8, <1>9, <1>10, <1>11,
     <1>12, <1>13, <1>14, <1>15, <1>16, <1>17 DEF Local

\* The port goes through its phases.
LEMMA LocalPhases ==
    ASSUME IInv, NEW t \in Threads, Local(t)
    PROVE  Phases'
<1> USE PortAssumption DEF IInv, Types, Phases, Locked, Roles, Answers, Draining, Requests,
           Goto, Begin, Return, Lock, Free, Answered, portVars, queueVars,
           threadVars
<1>1. CASE t # Action /\ \E b \in Buffers : LockToSend(t, b)
  BY <1>1 DEF LockToSend
<1>2. CASE t # Action /\ (Enable(t) \/ Disable(t) \/ Flush(t) \/ SetParameter(t))
  BY <1>2 DEF Enable, Disable, Flush, SetParameter
<1>3. CASE SendFails(t)
  BY <1>3 DEF SendFails
<1>4. CASE RequestFails(t) \/ EnableAnswered(t)
  BY <1>4 DEF RequestFails, EnableAnswered
<1>5. CASE CreatePool(t)
  BY <1>5 DEF CreatePool
<1>6. CASE EnableRefused(t)
  BY <1>6 DEF EnableRefused
<1>7. CASE SetEnabled(t)
  BY <1>7 DEF SetEnabled
<1>8. CASE LockToDisable(t) \/ ClearEnabled(t) \/ LockActionToDisable(t)
  BY <1>8 DEF LockToDisable, ClearEnabled, LockActionToDisable
<1>9. CASE DeletePool(t)
  BY <1>9 DEF DeletePool
<1>10. CASE Drained(t)
  BY <1>10 DEF Drained
<1>11. CASE EnableAgain(t)
  BY <1>11 DEF EnableAgain
<1>12. CASE WaitForTransit(t)
  <2>1. op[t] = "disable" /\ ~enabled
    BY <1>12 DEF WaitForTransit
  <2>2. \A u \in Threads : op[u] \in {"enable", "disable"} => u = t
    BY <2>1
  <2> QED BY <1>12, <2>1, <2>2 DEF WaitForTransit
<1>13. CASE LockToFlush(t)
  BY <1>13 DEF LockToFlush
<1>14. CASE FlushDisabled(t) \/ FlushOrSetAnswered(t)
  BY <1>14 DEF FlushDisabled, FlushOrSetAnswered
<1>15. CASE TakeCallback(t) \/ CheckCallback(t)
  BY <1>15 DEF TakeCallback, CheckCallback
<1>16. CASE CallBack(t) \/ CallReturns(t)
  BY <1>16 DEF CallBack, CallReturns
<1>17. CASE t = Action /\ (WakeAction \/ StartAction)
  BY <1>17 DEF WakeAction, StartAction
<1>18. CASE t = Action /\ EndAction
  BY <1>18 DEF EndAction
<1> QED
  BY <1>1, <1>2, <1>3, <1>4, <1>5, <1>6, <1>7, <1>8, <1>9, <1>10, <1>11,
     <1>12, <1>13, <1>14, <1>15, <1>16, <1>17, <1>18 DEF Local

\* An answer stays until it is used.
LEMMA LocalAnswers ==
    ASSUME IInv, NEW t \in Threads, Local(t),
           "disable" \notin Failing
    PROVE  Answers'
<1> USE PortAssumption DEF IInv, Types, Answers, Roles, Locked, Draining, Requests,
           Goto, Begin, Return, Lock, Free, Answered, portVars, queueVars,
           threadVars, linkVars
<1>1. CASE t # Action /\ \E b \in Buffers : LockToSend(t, b)
  BY <1>1 DEF LockToSend
<1>2. CASE t # Action /\ (Enable(t) \/ Flush(t) \/ SetParameter(t))
  BY <1>2 DEF Enable, Flush, SetParameter
<1>3. CASE t # Action /\ Disable(t)
  <2>1. ~HasError(toHost, t) /\ answer[t] = None
    BY <1>3, ErrorIsAbout DEF Disable, Messages
  <2> QED BY <1>3, <2>1 DEF Disable
<1>4. CASE SendFails(t)
  BY <1>4 DEF SendFails
<1>5. CASE RequestFails(t) \/ EnableAnswered(t)
  BY <1>5 DEF RequestFails, EnableAnswered
<1>6. CASE CreatePool(t)
  BY <1>6 DEF CreatePool
<1>7. CASE EnableRefused(t)
  BY <1>7 DEF EnableRefused
<1>8. CASE SetEnabled(t)
  BY <1>8 DEF SetEnabled
<1>9. CASE LockToDisable(t) \/ ClearEnabled(t) \/ LockActionToDisable(t)
  BY <1>9 DEF LockToDisable, ClearEnabled, LockActionToDisable
<1>10. CASE DeletePool(t)
  BY <1>10 DEF DeletePool
<1>11. CASE Drained(t)
  BY <1>11 DEF Drained
<1>12. CASE EnableAgain(t) \/ WaitForTransit(t)
  BY <1>12 DEF EnableAgain, WaitForTransit
<1>13. CASE LockToFlush(t)
  BY <1>13 DEF LockToFlush
<1>14. CASE FlushDisabled(t) \/ FlushOrSetAnswered(t)
  BY <1>14 DEF FlushDisabled, FlushOrSetAnswered
<1>15. CASE TakeCallback(t) \/ CheckCallback(t)
  BY <1>15 DEF TakeCallback, CheckCallback
<1>16. CASE CallBack(t) \/ CallReturns(t)
  BY <1>16 DEF CallBack, CallReturns
<1>17. CASE t = Action /\ (WakeAction \/ StartAction)
  BY <1>17 DEF WakeAction, StartAction
<1>18. CASE t = Action /\ EndAction
  BY <1>18 DEF EndAction
<1> QED
  BY <1>1, <1>2, <1>3, <1>4, <1>5, <1>6, <1>7, <1>8, <1>9, <1>10, <1>11,
     <1>12, <1>13, <1>14, <1>15, <1>16, <1>17, <1>18 DEF Local

\* Nobody with a message under way stops waiting for it.
LEMMA LocalMessages ==
    ASSUME IInv, NEW t \in Threads, Local(t)
    PROVE  Messages'
<1> USE PortAssumption DEF IInv, Types, Messages, Answers, Roles, Requests,
           Goto, Begin, Return, Lock, Free, Answered, portVars, queueVars,
           threadVars, linkVars
<1>1. CASE t # Action /\ \E b \in Buffers : LockToSend(t, b)
  BY <1>1 DEF LockToSend
<1>2. CASE t # Action /\ (Enable(t) \/ Disable(t) \/ Flush(t) \/ SetParameter(t))
  BY <1>2 DEF Enable, Disable, Flush, SetParameter
<1>3. CASE SendFails(t)
  BY <1>3 DEF SendFails
<1>4. CASE RequestFails(t) \/ EnableAnswered(t)
  BY <1>4 DEF RequestFails, EnableAnswered
<1>5. CASE CreatePool(t)
  BY <1>5 DEF CreatePool
<1>6. CASE EnableRefused(t) \/ SetEnabled(t)
  BY <1>6 DEF EnableRefused, SetEnabled
<1>7. CASE LockToDisable(t) \/ ClearEnabled(t) \/ LockActionToDisable(t)
  BY <1>7 DEF LockToDisable, ClearEnabled, LockActionToDisable
<1>8. CASE DeletePool(t)
  BY <1>8 DEF DeletePool
<1>9. CASE Drained(t)
  BY <1>9 DEF Drained
<1>10. CASE EnableAgain(t) \/ WaitForTransit(t)
  BY <1>10 DEF EnableAgain, WaitForTransit
<1>11. CASE LockToFlush(t)
  BY <1>11 DEF LockToFlush
<1>12. CASE FlushDisabled(t) \/ FlushOrSetAnswered(t)
  BY <1>12 DEF FlushDisabled, FlushOrSetAnswered
<1>13. CASE TakeCallback(t) \/ CheckCallback(t)
  BY <1>13 DEF TakeCallback, CheckCallback
<1>14. CASE CallBack(t) \/ CallReturns(t)
  BY <1>14 DEF CallBack, CallReturns
<1>15. CASE t = Action /\ (WakeAction \/ StartAction)
  BY <1>15 DEF WakeAction, StartAction
<1>16. CASE t = Action /\ EndAction
  BY <1>16 DEF EndAction
<1> QED
  BY <1>1, <1>2, <1>3, <1>4, <1>5, <1>6, <1>7, <1>8, <1>9, <1>10, <1>11,
     <1>12, <1>13, <1>14, <1>15, <1>16 DEF Local

\* A port that is quiet stays so.
LEMMA LocalQuiet ==
    ASSUME IInv, NEW t \in Threads, Local(t),
           "disable" \notin Failing
    PROVE  Quiet'
<1> USE PortAssumption DEF IInv, Types, Quiet, Messages, Silent, NothingComes, Answers, Roles, Draining, Requests,
           Goto, Begin, Return, Lock, Free, Answered, portVars, queueVars,
           threadVars, linkVars
<1>1. CASE t # Action /\ \E b \in Buffers : LockToSend(t, b)
  BY <1>1 DEF LockToSend
<1>2. CASE t # Action /\ (Enable(t) \/ Flush(t) \/ SetParameter(t))
  BY <1>2 DEF Enable, Flush, SetParameter
<1>3. CASE t # Action /\ Disable(t)
  <2>1. ~About(toVideoCore, t) /\ ~About(toHost, t) /\ answer[t] = None
    BY <1>3 DEF Disable, Messages, Answers
  <2>2. QuietAfter(toVideoCore, t) /\ QuietAfter(toHost, t)
    BY <2>1, NotThere
  <2> QED BY <1>3, <2>1, <2>2 DEF Disable
<1>4. CASE SendFails(t)
  BY <1>4 DEF SendFails
<1>5. CASE RequestFails(t) \/ EnableAnswered(t)
  BY <1>5 DEF RequestFails, EnableAnswered
<1>6. CASE CreatePool(t)
  BY <1>6 DEF CreatePool
<1>7. CASE EnableRefused(t) \/ SetEnabled(t)
  BY <1>7 DEF EnableRefused, SetEnabled
<1>8. CASE LockToDisable(t) \/ ClearEnabled(t) \/ LockActionToDisable(t)
  BY <1>8 DEF LockToDisable, ClearEnabled, LockActionToDisable
<1>9. CASE DeletePool(t)
  BY <1>9 DEF DeletePool
<1>10. CASE Drained(t)
  BY <1>10 DEF Drained
<1>11. CASE EnableAgain(t) \/ WaitForTransit(t)
  BY <1>11 DEF EnableAgain, WaitForTransit
<1>12. CASE LockToFlush(t)
  BY <1>12 DEF LockToFlush
<1>13. CASE FlushDisabled(t) \/ FlushOrSetAnswered(t)
  BY <1>13 DEF FlushDisabled, FlushOrSetAnswered
<1>14. CASE TakeCallback(t) \/ CheckCallback(t)
  BY <1>14 DEF TakeCallback, CheckCallback
<1>15. CASE CallBack(t) \/ CallReturns(t)
  BY <1>15 DEF CallBack, CallReturns
<1>16. CASE t = Action /\ (WakeAction \/ StartAction)
  BY <1>16 DEF WakeAction, StartAction
<1>17. CASE t = Action /\ EndAction
  BY <1>17 DEF EndAction
<1> QED
  BY <1>1, <1>2, <1>3, <1>4, <1>5, <1>6, <1>7, <1>8, <1>9, <1>10, <1>11,
     <1>12, <1>13, <1>14, <1>15, <1>16, <1>17 DEF Local

\* Nobody gets into the callback of a port that is off.
LEMMA LocalOff ==
    ASSUME IInv, NEW t \in Threads, Local(t)
    PROVE  Off'
<1> USE PortAssumption DEF IInv, Types, Off, Quiet, Silent, NothingComes, Answers, Roles, Locked, Phases, Draining, Requests,
           Goto, Begin, Return, Lock, Free, Answered, portVars, queueVars,
           threadVars, linkVars
<1>1. CASE t # Action /\ \E b \in Buffers : LockToSend(t, b)
  BY <1>1 DEF LockToSend
<1>2. CASE t # Action /\ (Enable(t) \/ Disable(t) \/ Flush(t) \/ SetParameter(t))
  BY <1>2 DEF Enable, Disable, Flush, SetParameter
<1>3. CASE SendFails(t)
  BY <1>3 DEF SendFails
<1>4. CASE RequestFails(t) \/ EnableAnswered(t)
  BY <1>4 DEF RequestFails, EnableAnswered
<1>5. CASE CreatePool(t)
  BY <1>5 DEF CreatePool
<1>6. CASE EnableRefused(t) \/ SetEnabled(t)
  BY <1>6 DEF EnableRefused, SetEnabled
<1>7. CASE LockToDisable(t) \/ ClearEnabled(t) \/ LockActionToDisable(t)
  BY <1>7 DEF LockToDisable, ClearEnabled, LockActionToDisable
<1>8. CASE DeletePool(t)
  BY <1>8 DEF DeletePool
<1>9. CASE Drained(t)
  BY <1>9 DEF Drained
<1>10. CASE EnableAgain(t) \/ WaitForTransit(t)
  BY <1>10 DEF EnableAgain, WaitForTransit
<1>11. CASE LockToFlush(t)
  BY <1>11 DEF LockToFlush
<1>12. CASE FlushDisabled(t) \/ FlushOrSetAnswered(t)
  BY <1>12 DEF FlushDisabled, FlushOrSetAnswered
<1>13. CASE TakeCallback(t) \/ CheckCallback(t)
  BY <1>13 DEF TakeCallback, CheckCallback
<1>14. CASE CallBack(t) \/ CallReturns(t)
  BY <1>14 DEF CallBack, CallReturns
<1>15. CASE t = Action /\ (WakeAction \/ StartAction)
  BY <1>15 DEF WakeAction, StartAction
<1>16. CASE t = Action /\ EndAction
  BY <1>16 DEF EndAction
<1> QED
  BY <1>1, <1>2, <1>3, <1>4, <1>5, <1>6, <1>7, <1>8, <1>9, <1>10, <1>11,
     <1>12, <1>13, <1>14, <1>15, <1>16 DEF Local

\* The pool goes when no context is used.
LEMMA LocalContexts ==
    ASSUME IInv, NEW t \in Threads, Local(t)
    PROVE  Contexts'
<1> USE PortAssumption DEF IInv, Types, Contexts, Out, Quiet, Silent, NothingComes, Phases, Locked, Roles, Draining, Requests,
           Goto, Begin, Return, Lock, Free, Answered, portVars, queueVars,
           threadVars, linkVars
<1>1. CASE t # Action /\ \E b \in Buffers : LockToSend(t, b)
  BY <1>1 DEF LockToSend
<1>2. CASE t # Action /\ Enable(t)
  BY <1>2 DEF Enable
<1>3. CASE t # Action /\ Disable(t)
  BY <1>3 DEF Disable
<1>4. CASE t # Action /\ Flush(t)
  BY <1>4 DEF Flush
<1>5. CASE t # Action /\ SetParameter(t)
  BY <1>5 DEF SetParameter
<1>6. CASE SendFails(t)
  BY <1>6 DEF SendFails
<1>7. CASE RequestFails(t) \/ EnableAnswered(t)
  BY <1>7 DEF RequestFails, EnableAnswered
<1>8. CASE CreatePool(t)
  BY <1>8 DEF CreatePool
<1>9. CASE EnableRefused(t) \/ SetEnabled(t)
  BY <1>9 DEF EnableRefused, SetEnabled
<1>10. CASE LockToDisable(t) \/ ClearEnabled(t) \/ LockActionToDisable(t)
  BY <1>10 DEF LockToDisable, ClearEnabled, LockActionToDisable
<1>11. CASE DeletePool(t)
  BY <1>11 DEF DeletePool
<1>12. CASE Drained(t)
  BY <1>12 DEF Drained
<1>13. CASE EnableAgain(t)
  BY <1>13 DEF EnableAgain
<1>14. CASE WaitForTransit(t)
  BY <1>14 DEF WaitForTransit
<1>15. CASE LockToFlush(t)
  BY <1>15 DEF LockToFlush
<1>16. CASE FlushDisabled(t)
  BY <1>16 DEF FlushDisabled
<1>17. CASE FlushOrSetAnswered(t)
  BY <1>17 DEF FlushOrSetAnswered
<1>18. CASE TakeCallback(t) \/ CheckCallback(t)
  BY <1>18 DEF TakeCallback, CheckCallback
<1>19. CASE CallBack(t) \/ CallReturns(t)
  BY <1>19 DEF CallBack, CallReturns
<1>20. CASE t = Action /\ (WakeAction \/ StartAction)
  BY <1>20 DEF WakeAction, StartAction
<1>21. CASE t = Action /\ EndAction
  BY <1>21 DEF EndAction
<1> QED
  BY <1>1, <1>2, <1>3, <1>4, <1>5, <1>6, <1>7, <1>8, <1>9, <1>10, <1>11,
     <1>12, <1>13, <1>14, <1>15, <1>16, <1>17, <1>18, <1>19, <1>20, <1>21
     DEF Local


\* A queue without its head.
LEMMA TakenFromQueue ==
    ASSUME NEW S, NEW q \in Seq(S), q # <<>>
    PROVE  \A i \in DOMAIN q :
              q[i] = Head(q) \/ \E j \in DOMAIN Tail(q) : Tail(q)[j] = q[i]
<1>1. Head(q) = q[1]
  OBVIOUS
<1>2. ASSUME NEW i \in DOMAIN q, i # 1
      PROVE  i - 1 \in DOMAIN Tail(q) /\ Tail(q)[i - 1] = q[i]
  BY <1>2
<1> QED BY <1>1, <1>2

\* A queue with one more.
LEMMA QueuedAtEnd ==
    ASSUME NEW q \in Seq(Buffers \cup {Event}), NEW x \in Buffers \cup {Event}
    PROVE  /\ Append(q, x) \in Seq(Buffers \cup {Event})
           /\ \A i \in DOMAIN q : i \in DOMAIN Append(q, x) /\ Append(q, x)[i] = q[i]
           /\ \E i \in DOMAIN Append(q, x) : Append(q, x)[i] = x
<1>1. Append(q, x)[Len(q) + 1] = x /\ Len(q) + 1 \in DOMAIN Append(q, x)
  OBVIOUS
<1> QED BY <1>1

\* A buffer that stays where it is, or goes to the client.
LEMMA CoverKept ==
    ASSUME Cover, UNCHANGED <<linkVars, queue>>, client \subseteq client',
           \A u \in Threads : pc[u] \in {"send", "call"} =>
              \/ hand[u] \in client'
              \/ hand[u] \notin Buffers
              \/ pc'[u] \in {"send", "call"} /\ hand'[u] = hand[u]
    PROVE  Cover'
BY DEF Cover, Out, linkVars

\* Every buffer is passed on.
LEMMA LocalCover ==
    ASSUME IInv, NEW t \in Threads, Local(t)
    PROVE  Cover'
<1> USE PortAssumption DEF IInv, Types, Roles, Requests,
           Goto, Begin, Return, Lock, Free, Answered, portVars, queueVars,
           threadVars
<1>1. CASE t # Action /\ \E b \in Buffers : LockToSend(t, b)
  <2>1. PICK b \in Buffers : LockToSend(t, b)
    BY <1>1
  <2>2. /\ client' = client \ {b} /\ pc'[t] = "send" /\ hand'[t] = b
        /\ pc[t] = "idle" /\ UNCHANGED <<queue, linkVars>>
        /\ \A u \in Threads \ {t} : pc'[u] = pc[u] /\ hand'[u] = hand[u]
    BY <2>1 DEF LockToSend
  <2>3. \A c \in Buffers : Out(c)' = Out(c)
    BY <2>2 DEF Out, linkVars
  <2> QED BY <2>2, <2>3 DEF Cover
<1>2. CASE SendFails(t)
  BY <1>2, CoverKept DEF SendFails
<1>3. CASE RequestFails(t)
  BY <1>3, CoverKept DEF RequestFails
<1>4. CASE EnableAnswered(t)
  BY <1>4, CoverKept DEF EnableAnswered
<1>5. CASE EnableRefused(t)
  BY <1>5, CoverKept DEF EnableRefused
<1>6. CASE SetEnabled(t)
  BY <1>6, CoverKept DEF SetEnabled
<1>7. CASE t # Action /\ Enable(t)
  BY <1>7, CoverKept DEF Enable
<1>8. CASE CreatePool(t)
  BY <1>8, CoverKept DEF CreatePool
<1>9. CASE t # Action /\ Disable(t)
  BY <1>9, CoverKept DEF Disable
<1>10. CASE LockToDisable(t)
  BY <1>10, CoverKept DEF LockToDisable
<1>11. CASE ClearEnabled(t)
  BY <1>11, CoverKept DEF ClearEnabled
<1>12. CASE LockActionToDisable(t)
  BY <1>12, CoverKept DEF LockActionToDisable
<1>13. CASE DeletePool(t)
  BY <1>13, CoverKept DEF DeletePool
<1>14. CASE Drained(t)
  BY <1>14, CoverKept DEF Drained
<1>15. CASE EnableAgain(t)
  BY <1>15, CoverKept DEF EnableAgain
<1>16. CASE WaitForTransit(t)
  BY <1>16, CoverKept DEF WaitForTransit
<1>17. CASE t # Action /\ Flush(t)
  BY <1>17, CoverKept DEF Flush
<1>18. CASE LockToFlush(t)
  BY <1>18, CoverKept DEF LockToFlush
<1>19. CASE FlushDisabled(t)
  BY <1>19, CoverKept DEF FlushDisabled
<1>20. CASE t # Action /\ SetParameter(t)
  BY <1>20, CoverKept DEF SetParameter
<1>21. CASE FlushOrSetAnswered(t)
  BY <1>21, CoverKept DEF FlushOrSetAnswered
<1>22. CASE TakeCallback(t)
  <2>1. queue # <<>> /\ queue' = Tail(queue)
    BY <1>22 DEF TakeCallback
  <2>2. \A i \in DOMAIN queue :
            \/ queue[i] = Head(queue)
            \/ \E j \in DOMAIN Tail(queue) : Tail(queue)[j] = queue[i]
    BY <2>1, TakenFromQueue
  <2>3. hand'[t] = Head(queue) /\ (Head(queue) # Event => pc'[t] = "call")
    BY <1>22 DEF TakeCallback
  <2>4. \A u \in Threads : pc[u] \in {"send", "call"} => pc'[u] = pc[u] /\ hand'[u] = hand[u]
    BY <1>22 DEF TakeCallback
  <2>5. UNCHANGED <<client, linkVars>>
    BY <1>22 DEF TakeCallback
  <2>6. \A b \in Buffers : (b \in client)' = (b \in client) /\ Out(b)' = Out(b)
    BY <2>5 DEF Out, linkVars
  <2> QED
    <3> SUFFICES ASSUME NEW b \in Buffers,
                        ~(b \in client \/ Out(b)
                            \/ \E u \in Threads : pc[u] \in {"send", "call"} /\ hand[u] = b)
                 PROVE  \/ \E i \in DOMAIN queue' : queue'[i] = b
                        \/ \E u \in Threads : pc'[u] \in {"send", "call"} /\ hand'[u] = b
      BY <2>4, <2>6 DEF Cover
    <3>1. PICK i \in DOMAIN queue : queue[i] = b
      BY DEF Cover
    <3>2. CASE b = Head(queue)
      BY <3>2, <2>3
    <3>3. CASE b # Head(queue)
      BY <3>1, <3>3, <2>1, <2>2
    <3> QED BY <3>2, <3>3
<1>23. CASE CheckCallback(t)
  BY <1>23, CoverKept DEF CheckCallback
<1>24. CASE CallBack(t)
  BY <1>24, CoverKept DEF CallBack
<1>25. CASE CallReturns(t)
  BY <1>25, CoverKept DEF CallReturns
<1>26. CASE t = Action /\ WakeAction
  BY <1>26, CoverKept DEF WakeAction
<1>27. CASE t = Action /\ StartAction
  BY <1>27, CoverKept DEF StartAction
<1>28. CASE t = Action /\ EndAction
  BY <1>28, CoverKept DEF EndAction
<1> QED
  BY <1>1, <1>2, <1>3, <1>4, <1>5, <1>6, <1>7, <1>8, <1>9, <1>10, <1>11,
     <1>12, <1>13, <1>14, <1>15, <1>16, <1>17, <1>18, <1>19, <1>20, <1>21,
     <1>22, <1>23, <1>24, <1>25, <1>26, <1>27, <1>28 DEF Local

\* A step of a thread that sends nothing keeps the invariant.
LEMMA LocalStep ==
    ASSUME IInv, NEW t \in Threads, Local(t), "disable" \notin Failing
    PROVE  IInv'
<1>1. ~crashed'
  BY DEF Local, LockToSend, SendFails, RequestFails, Enable, CreatePool, EnableAnswered,
         EnableRefused, SetEnabled, Disable, LockToDisable, ClearEnabled,
         LockActionToDisable, DeletePool, Drained, EnableAgain, WaitForTransit, Flush,
         LockToFlush, FlushDisabled, SetParameter, FlushOrSetAnswered, TakeCallback,
         CheckCallback, CallBack, CallReturns, WakeAction, StartAction, EndAction, IInv
<1> QED
  BY <1>1, LocalTypes, LocalRoles, LocalLocked, LocalPhases, LocalAnswers, LocalMessages,
     LocalQuiet, LocalOff, LocalContexts, LocalCover DEF IInv

\* The steps that would be undefined never happen.
LEMMA NoCrash ==
    ASSUME IInv, NEW t \in Threads
    PROVE  ~SendFromStalePool(t) /\ ~CallNull(t)
BY DEF IInv, Roles, Phases, Off, SendFromStalePool, CallNull

-----------------------------------------------------------------------------
(* The steps that move a message.                                          *)

\* The messages under way, for the lemmas on sequences.
LEMMA Links ==
    ASSUME Types
    PROVE  toVideoCore \in Seq(AnyMessage) /\ toHost \in Seq(AnyMessage)
BY MessageTypes DEF Types

\* A buffer is sent to VideoCore with the port's transfers locked.
LEMMA SendBufferStep ==
    ASSUME IInv, NEW t \in Threads, SendBuffer(t)
    PROVE  IInv'
<1> DEFINE m == Message("buffer", hand[t])
<1>1. /\ m \in ToVideoCore /\ m \in AnyMessage /\ m.kind = "buffer" /\ m.what = hand[t]
      /\ hand[t] \in Buffers /\ op[t] = "send" /\ enabled
  BY PortAssumption
  DEF IInv, Types, Roles, Hands, Phases, SendBuffer, Message, ToVideoCore, AnyMessage, Kinds
<1>2. /\ toVideoCore' = Append(toVideoCore, m) /\ UNCHANGED <<toHost, running, filling>>
      /\ UNCHANGED <<answer, enabled, callback, pool, transit, client, queue, trigger, crashed>>
      /\ pc' = [pc EXCEPT ![t] = "idle"] /\ op' = [op EXCEPT ![t] = None]
      /\ hand' = [hand EXCEPT ![t] = None] /\ Unlock(t, {"send"})
  BY DEF SendBuffer, portVars, queueVars, Return, Begin, Goto
<1>3. /\ \A b : HasBuffer(toVideoCore', b) <=> HasBuffer(toVideoCore, b) \/ b = hand[t]
      /\ \A u : About(toVideoCore', u) <=> About(toVideoCore, u)
      /\ Once(toVideoCore) => Once(toVideoCore')
      /\ \A u : QuietAfter(toVideoCore, u) /\ ~About(toVideoCore, u)
                  => QuietAfter(toVideoCore', u)
  <2> HIDE DEF m
  <2>1. toVideoCore \in Seq(AnyMessage)
    BY Links DEF IInv
  <2> QED BY <1>1, <1>2, <2>1, Appended DEF Talk
<1>4. \A l \in Locks : l # "send" => lock'[l] = lock[l]
  BY <1>2, Unlocked
<1>5. \A l \in Locks : lock[l] # t => lock'[l] = lock[l]
  BY <1>2, Unlocked
<1> HIDE DEF m
<1> USE PortAssumption DEF IInv
<1>6. Types'
  <2>1. toVideoCore' \in Seq(ToVideoCore)
    BY <1>1, <1>2 DEF Types
  <2> QED BY <1>2, <2>1 DEF Types, Unlock, Places
<1>7. Roles' /\ Hands'
  BY <1>1, <1>2 DEF Types, Roles, Hands, Requests
<1>8. Locked'
  BY <1>1, <1>2, <1>5 DEF Types, Locked, Roles, Locks, Draining, Requests
<1>9. Phases' /\ Answers'
  BY <1>1, <1>2 DEF Types, Phases, Answers, Roles, Draining, Requests
<1>10. Messages'
  BY <1>1, <1>2, <1>3 DEF Types, Messages, Roles
<1>11. Quiet'
  <2> SUFFICES ASSUME NEW u \in Threads, op[u] = "disable", u # t
               PROVE  /\ QuietAfter(toVideoCore', u) /\ ~About(toHost, u)
                      /\ QuietAfter(toHost, u) /\ answer[u] = None
    BY <1>1, <1>2 DEF Types, Quiet, Requests
  <2>1. pc[u] \in {"lockPort", "lockSend"}
    BY <1>1 DEF Phases
  <2>2. ~About(toVideoCore, u) /\ ~About(toHost, u) /\ answer[u] = None
    BY <2>1 DEF Messages, Answers, Draining
  <2> QED BY <2>2, <1>3 DEF Quiet
<1>12. Off'
  <2>1. callback' /\ \A u \in Threads : pc[u] # "join"
    BY <1>1, <1>2 DEF Types, Phases, Roles, Draining, Requests
  <2>2. \A u \in Threads : pc'[u] # "join"
    BY <1>2, <2>1 DEF Types
  <2> QED BY <2>1, <2>2 DEF Off
<1>13. Contexts'
  BY <1>1, <1>2 DEF Phases, Contexts
<1>14. Cover'
  BY <1>1, <1>2, <1>3 DEF Types, Cover, Out
<1> QED BY <1>2, <1>6, <1>7, <1>8, <1>9, <1>10, <1>11, <1>12, <1>13, <1>14

\* A request joins the messages to VideoCore.
LEMMA QueueRequestStep ==
    ASSUME IInv, NEW t \in Threads, QueueRequest(t)
    PROVE  IInv'
<1> DEFINE m == Message("request", t)
<1>1. /\ m \in ToVideoCore /\ m \in AnyMessage /\ m.kind = "request" /\ m.what = t
      /\ pc[t] = "request" /\ op[t] \in Requests
  BY PortAssumption
  DEF IInv, Types, Roles, Draining, QueueRequest, Message, ToVideoCore, AnyMessage, Kinds, Talk
<1>2. /\ toVideoCore' = Append(toVideoCore, m) /\ pc' = [pc EXCEPT ![t] = "wait"]
      /\ UNCHANGED <<toHost, running, filling, lock, op, hand, answer, enabled, callback,
                     pool, transit, client, queue, trigger, crashed>>
  BY DEF QueueRequest, portVars, queueVars, Goto
<1>3. ~About(toVideoCore, t) /\ ~About(toHost, t) /\ answer[t] = None
  BY <1>1 DEF IInv, Messages, Answers, Draining
<1>4. /\ \A b : HasBuffer(toVideoCore', b) <=> HasBuffer(toVideoCore, b)
      /\ \A u : About(toVideoCore', u) <=> About(toVideoCore, u) \/ u = t
      /\ Once(toVideoCore) => Once(toVideoCore')
      /\ \A u : QuietAfter(toVideoCore, u) => QuietAfter(toVideoCore', u)
  <2> HIDE DEF m
  <2>1. toVideoCore \in Seq(AnyMessage)
    BY Links DEF IInv
  <2> QED BY <1>1, <1>2, <1>3, <2>1, Appended DEF Talk
<1> HIDE DEF m
<1> USE PortAssumption DEF IInv
<1>5. Types'
  <2>1. toVideoCore' \in Seq(ToVideoCore)
    BY <1>1, <1>2 DEF Types
  <2> QED BY <1>2, <2>1 DEF Types, Places
<1>6. Roles' /\ Hands'
  BY <1>1, <1>2 DEF Types, Roles, Hands, Draining, Requests
<1>7. Locked' /\ Phases' /\ Answers'
  BY <1>1, <1>2 DEF Types, Locked, Phases, Answers, Draining, Requests
<1>8. Messages'
  BY <1>1, <1>2, <1>3, <1>4 DEF Types, Messages
<1>9. Quiet'
  BY <1>2, <1>4 DEF Quiet, Silent, NothingComes
<1>10. Off'
  BY <1>1, <1>2, <1>4 DEF Types, Off, Silent, NothingComes
<1>11. Contexts'
  BY <1>1, <1>2, <1>4 DEF Types, Contexts, Out
<1>12. Cover'
  BY <1>1, <1>2, <1>4 DEF Types, Cover, Out
<1> QED BY <1>2, <1>5, <1>6, <1>7, <1>8, <1>9, <1>10, <1>11, <1>12

\* VideoCore takes a buffer.
LEMMA AcceptStep ==
    ASSUME IInv, Accept
    PROVE  IInv'
<1> DEFINE h == Head(toVideoCore)
<1>1. /\ toVideoCore # <<>> /\ toVideoCore \in Seq(AnyMessage) /\ h.kind = "buffer"
      /\ toVideoCore' = Tail(toVideoCore) /\ filling' = filling \cup {h.what}
      /\ UNCHANGED <<lock, pc, op, hand, answer, enabled, callback, pool, transit, client,
                     queue, trigger, toHost, running, crashed>>
  BY Links DEF IInv, Accept, threadVars, portVars, queueVars
<1>2. h \in ToVideoCore /\ toVideoCore' \in Seq(ToVideoCore)
  BY <1>1 DEF IInv, Types
<1>3. h.what \in Buffers
  BY <1>1, <1>2, PortAssumption DEF ToVideoCore
<1>4. /\ \A b : HasBuffer(toVideoCore, b) <=> HasBuffer(toVideoCore', b) \/ b = h.what
      /\ \A u : About(toVideoCore', u) <=> About(toVideoCore, u)
      /\ Once(toVideoCore) => Once(toVideoCore')
      /\ \A u : QuietAfter(toVideoCore, u) => QuietAfter(toVideoCore', u)
  BY <1>1, Taken DEF Talk
<1> HIDE DEF h
<1> USE DEF IInv
<1>5. Types'
  BY <1>1, <1>2, <1>3 DEF Types
<1>6. Roles' /\ Hands' /\ Locked' /\ Phases' /\ Answers'
  BY <1>1 DEF Roles, Hands, Locked, Phases, Answers
<1>7. Messages'
  BY <1>1, <1>4 DEF Messages
<1>8. Quiet'
  BY <1>1, <1>3, <1>4 DEF Quiet, Silent, NothingComes
<1>9. Off'
  BY <1>1, <1>3, <1>4 DEF Off, Silent, NothingComes
<1>10. Contexts'
  BY <1>1, <1>3, <1>4 DEF Contexts, Out
<1>11. Cover'
  BY <1>1, <1>4 DEF Cover, Out
<1> QED BY <1>1, <1>5, <1>6, <1>7, <1>8, <1>9, <1>10, <1>11

\* VideoCore has something to send: a filled buffer, an event, or an answer.
LEMMA GiveBackStep ==
    ASSUME IInv, NEW b \in Buffers, GiveBack(b)
    PROVE  IInv'
<1> DEFINE m == Message("buffer", b)
<1>1. /\ m \in ToHost /\ m \in AnyMessage /\ m.kind = "buffer" /\ m.what = b
      /\ b \in filling /\ filling' = filling \ {b} /\ toHost' = Append(toHost, m)
      /\ UNCHANGED <<lock, pc, op, hand, answer, enabled, callback, pool, transit, client,
                     queue, trigger, toVideoCore, running, crashed>>
  BY DEF GiveBack, Message, ToHost, AnyMessage, Kinds, threadVars, portVars, queueVars
<1>2. /\ \A c : HasBuffer(toHost', c) <=> HasBuffer(toHost, c) \/ c = b
      /\ HasEvent(toHost') <=> HasEvent(toHost)
      /\ \A u : HasError(toHost', u) <=> HasError(toHost, u)
      /\ \A u : About(toHost', u) <=> About(toHost, u)
      /\ Once(toHost) => Once(toHost')
      /\ \A u : QuietAfter(toHost, u) /\ ~About(toHost, u) => QuietAfter(toHost', u)
  <2> HIDE DEF m
  <2>1. toHost \in Seq(AnyMessage)
    BY Links DEF IInv
  <2> QED BY <1>1, <2>1, Appended DEF Talk
<1> HIDE DEF m
<1> USE DEF IInv
<1>3. Types'
  <2>1. toHost' \in Seq(ToHost)
    BY <1>1 DEF Types
  <2> QED BY <1>1, <2>1 DEF Types
<1>4. Roles' /\ Hands' /\ Locked' /\ Phases' /\ Answers'
  BY <1>1, <1>2 DEF Roles, Hands, Locked, Phases, Answers
<1>5. Messages'
  BY <1>1, <1>2 DEF Messages
<1>6. Quiet'
  BY <1>1, <1>2 DEF Quiet, Silent, NothingComes
<1>7. Off'
  BY <1>1 DEF Off, Silent, NothingComes
<1>8. Contexts'
  BY <1>1, <1>2 DEF Contexts, Out
<1>9. Cover'
  BY <1>1, <1>2 DEF Cover, Out
<1> QED BY <1>1, <1>3, <1>4, <1>5, <1>6, <1>7, <1>8, <1>9

\* VideoCore reports an event, while the port is enabled.
LEMMA SendEventStep ==
    ASSUME IInv, SendEvent
    PROVE  IInv'
<1> DEFINE m == Message("event", Event)
<1>1. /\ m \in ToHost /\ m \in AnyMessage /\ m.kind = "event" /\ running
      /\ toHost' = Append(toHost, m)
      /\ UNCHANGED <<lock, pc, op, hand, answer, enabled, callback, pool, transit, client,
                     queue, trigger, toVideoCore, running, filling, crashed>>
  BY DEF SendEvent, Message, ToHost, AnyMessage, Kinds, threadVars, portVars, queueVars
<1>2. /\ \A c : HasBuffer(toHost', c) <=> HasBuffer(toHost, c)
      /\ \A u : HasError(toHost', u) <=> HasError(toHost, u)
      /\ \A u : About(toHost', u) <=> About(toHost, u)
      /\ Once(toHost) => Once(toHost')
      /\ \A u : QuietAfter(toHost, u) /\ ~About(toHost, u) => QuietAfter(toHost', u)
  <2> HIDE DEF m
  <2>1. toHost \in Seq(AnyMessage)
    BY Links DEF IInv
  <2> QED BY <1>1, <2>1, Appended DEF Talk
<1> HIDE DEF m
<1> USE DEF IInv
<1>3. Types'
  <2>1. toHost' \in Seq(ToHost)
    BY <1>1 DEF Types
  <2> QED BY <1>1, <2>1 DEF Types
<1>4. Roles' /\ Hands' /\ Locked' /\ Phases' /\ Answers'
  BY <1>1, <1>2 DEF Roles, Hands, Locked, Phases, Answers
<1>5. Messages'
  BY <1>1, <1>2 DEF Messages
<1>6. Quiet'
  BY <1>1, <1>2 DEF Quiet, Silent, NothingComes
<1>7. Off'
  BY <1>1 DEF Off, Silent, NothingComes
<1>8. Contexts'
  BY <1>1, <1>2 DEF Contexts, Out
<1>9. Cover'
  BY <1>1, <1>2 DEF Cover, Out
<1> QED BY <1>1, <1>3, <1>4, <1>5, <1>6, <1>7, <1>8, <1>9

\* VideoCore answers, and changes the port as it was asked to.
LEMMA ReplyStep ==
    ASSUME IInv, NEW status \in {"ok", "error"}, Reply(status)
    PROVE  IInv'
<1> DEFINE h == Head(toVideoCore)
           t == h.what
           m == Message(status, t)
<1>1. /\ toVideoCore # <<>> /\ h.kind = "request" /\ toVideoCore' = Tail(toVideoCore)
      /\ toHost' = Append(toHost, m)
      /\ op[t] = "disable" => filling = {} /\ status = "ok" /\ ~running'
      /\ op[t] # "enable" /\ running' => running
      /\ running' \in BOOLEAN
      /\ UNCHANGED <<lock, pc, op, hand, answer, enabled, callback, pool, transit, client,
                     queue, trigger, filling, crashed>>
  BY DEF IInv, Types, Reply, threadVars, portVars, queueVars
<1>2. h \in ToVideoCore /\ toVideoCore' \in Seq(ToVideoCore) /\ toVideoCore \in Seq(AnyMessage)
      /\ toHost \in Seq(AnyMessage)
  BY <1>1, Links DEF IInv, Types
<1>3. t \in Threads
  BY <1>1, <1>2 DEF ToVideoCore
<1>4. m \in ToHost /\ m \in AnyMessage /\ m.kind = status /\ m.what = t
  BY <1>3 DEF Message, ToHost, AnyMessage, Kinds, Talk
<1>5. /\ \A b : HasBuffer(toVideoCore, b) <=> HasBuffer(toVideoCore', b)
      /\ \A u : About(toVideoCore, u) <=> About(toVideoCore', u) \/ u = t
      /\ Once(toVideoCore) => Once(toVideoCore') /\ ~About(toVideoCore', t)
      /\ \A u : QuietAfter(toVideoCore, u) => QuietAfter(toVideoCore', u)
      /\ QuietAfter(toVideoCore, t) => \A b : ~HasBuffer(toVideoCore', b)
  <2> HIDE DEF h
  <2>1. h = Head(toVideoCore)
    BY DEF h
  <2> QED BY <1>1, <1>2, <2>1, Taken DEF Talk
<1> HIDE DEF h, m
<1>6. pc[t] = "wait" /\ answer[t] = None /\ ~About(toHost, t)
  BY <1>3, <1>5 DEF IInv, Messages
<1>7. /\ \A c : HasBuffer(toHost', c) <=> HasBuffer(toHost, c)
      /\ HasEvent(toHost') <=> HasEvent(toHost)
      /\ \A u : HasError(toHost', u) => HasError(toHost, u) \/ (u = t /\ status = "error")
      /\ \A u : About(toHost', u) <=> About(toHost, u) \/ u = t
      /\ Once(toHost) => Once(toHost')
      /\ \A u : QuietAfter(toHost, u) => QuietAfter(toHost', u)
  BY <1>1, <1>2, <1>4, <1>6, Appended DEF Talk
<1> HIDE DEF t
<1> USE DEF IInv
<1>8. op[t] = "enable" =>
        /\ callback
        /\ \A u \in Threads : op[u] # "disable" /\ pc[u] # "join"
  BY <1>3, <1>6 DEF Types, Phases, Roles, Locked, Draining, Requests
<1>9. Types'
  <2>1. toHost' \in Seq(ToHost)
    BY <1>1, <1>4 DEF Types
  <2> QED BY <1>1, <1>2, <2>1 DEF Types
<1>10. Roles' /\ Hands' /\ Locked' /\ Phases'
  BY <1>1 DEF Roles, Hands, Locked, Phases
<1>11. Answers'
  BY <1>1, <1>7 DEF Answers
<1>12. Messages'
  BY <1>1, <1>5, <1>6, <1>7 DEF Messages
<1>13. Quiet'
  <2> SUFFICES ASSUME NEW u \in Threads, op[u] = "disable"
               PROVE  /\ QuietAfter(toVideoCore', u) /\ QuietAfter(toHost', u)
                      /\ About(toHost', u) => Silent'
                      /\ answer[u] # None => NothingComes'
    BY <1>1 DEF Quiet
  <2>1. QuietAfter(toVideoCore', u) /\ QuietAfter(toHost', u)
    BY <1>5, <1>7 DEF Quiet
  <2>2. running' => running
    BY <1>1, <1>8
  <2>3. CASE u = t
    <3>1. filling' = {} /\ ~running' /\ answer[u] = None
      BY <2>3, <1>1, <1>6
    <3>2. \A b : ~HasBuffer(toVideoCore', b)
      <4>1. QuietAfter(toVideoCore, t)
        BY <2>3 DEF Quiet
      <4> QED BY <4>1, <1>5
    <3> QED BY <2>1, <3>1, <3>2 DEF Silent
  <2>4. CASE u # t
    BY <2>4, <2>2, <1>1, <1>5, <1>7 DEF Quiet, Silent, NothingComes
  <2> QED BY <2>1, <2>3, <2>4
<1>14. Off'
  BY <1>1, <1>5, <1>7, <1>8 DEF Off, Silent, NothingComes
<1>15. Contexts'
  BY <1>1, <1>5, <1>7 DEF Contexts, Out
<1>16. Cover'
  BY <1>1, <1>5, <1>7 DEF Cover, Out
<1> QED BY <1>1, <1>9, <1>10, <1>11, <1>12, <1>13, <1>14, <1>15, <1>16

\* The vchiq thread takes a message: a buffer,
LEMMA DeliverBufferStep ==
    ASSUME IInv, DeliverBuffer
    PROVE  IInv'
<1> DEFINE h == Head(toHost)
<1>1. /\ toHost # <<>> /\ toHost \in Seq(AnyMessage) /\ h.kind = "buffer"
  BY Links DEF IInv, DeliverBuffer
<1>2. h \in ToHost /\ Tail(toHost) \in Seq(ToHost)
  BY <1>1 DEF IInv, Types
<1>3. h.what \in Buffers
  BY <1>1, <1>2, PortAssumption DEF ToHost
<1>4. /\ \A b : HasBuffer(toHost, b) <=> HasBuffer(Tail(toHost), b) \/ b = h.what
      /\ HasEvent(toHost) <=> HasEvent(Tail(toHost))
      /\ \A u : HasError(toHost, u) <=> HasError(Tail(toHost), u)
      /\ \A u : About(toHost, u) <=> About(Tail(toHost), u)
      /\ Once(toHost) => Once(Tail(toHost))
      /\ \A u : QuietAfter(toHost, u) => QuietAfter(Tail(toHost), u)
  BY <1>1, Taken DEF Talk
<1>5. pool = "live"
  BY <1>3, <1>4 DEF IInv, Contexts, Out
<1>6. /\ toHost' = Tail(toHost) /\ queue' = Append(queue, h.what) /\ trigger' = TRUE
      /\ UNCHANGED <<lock, pc, op, hand, answer, enabled, callback, pool, transit, client,
                     toVideoCore, running, filling, crashed>>
  BY <1>1, <1>5 DEF DeliverBuffer, QueueCallback, threadVars, portVars
<1>7. ~NothingComes
  BY <1>3, <1>4 DEF NothingComes
<1> HIDE DEF h
<1> USE DEF IInv
<1>8. /\ queue' \in Seq(Buffers \cup {Event}) /\ toHost' \in Seq(ToHost)
      /\ \A i \in DOMAIN queue : i \in DOMAIN queue' /\ queue'[i] = queue[i]
      /\ \E i \in DOMAIN queue' : queue'[i] = h.what
  <2>1. queue \in Seq(Buffers \cup {Event})
    BY DEF Types
  <2>2. h.what \in Buffers \cup {Event}
    BY <1>3
  <2> HIDE DEF IInv
  <2>3. /\ Append(queue, h.what) \in Seq(Buffers \cup {Event})
        /\ \A i \in DOMAIN queue : i \in DOMAIN Append(queue, h.what)
                                  /\ Append(queue, h.what)[i] = queue[i]
        /\ \E i \in DOMAIN Append(queue, h.what) : Append(queue, h.what)[i] = h.what
    BY <2>1, <2>2, QueuedAtEnd
  <2> QED BY <1>2, <1>6, <2>3
<1>9. Types'
  BY <1>6, <1>8 DEF Types
<1>10. Roles' /\ Hands' /\ Locked' /\ Phases' /\ Answers'
  BY <1>4, <1>6 DEF Roles, Hands, Locked, Phases, Answers
<1>11. Messages'
  BY <1>4, <1>6 DEF Messages
<1>12. Quiet'
  BY <1>4, <1>6 DEF Quiet, Silent, NothingComes
<1>13. Off'
  BY <1>6, <1>7 DEF Off
<1>14. Contexts'
  BY <1>4, <1>6 DEF Contexts, Out
<1>15. Cover'
  BY <1>4, <1>6, <1>8 DEF Cover, Out
<1> QED BY <1>6, <1>9, <1>10, <1>11, <1>12, <1>13, <1>14, <1>15

\* an event, for which there may be no buffer,
LEMMA DeliverEventStep ==
    ASSUME IInv, DeliverEvent
    PROVE  IInv'
<1> DEFINE h == Head(toHost)
<1>1. /\ toHost # <<>> /\ toHost \in Seq(AnyMessage) /\ h.kind = "event"
      /\ toHost' = Tail(toHost)
      /\ \/ queue' = queue /\ trigger' = trigger
         \/ queue' = Append(queue, Event) /\ trigger' = TRUE
      /\ UNCHANGED <<lock, pc, op, hand, answer, enabled, callback, pool, transit, client,
                     toVideoCore, running, filling, crashed>>
  BY Links DEF IInv, DeliverEvent, QueueCallback, threadVars, portVars, queueVars
<1>2. /\ \A b : HasBuffer(toHost, b) <=> HasBuffer(toHost', b)
      /\ HasEvent(toHost)
      /\ \A u : HasError(toHost, u) <=> HasError(toHost', u)
      /\ \A u : About(toHost, u) <=> About(toHost', u)
      /\ Once(toHost) => Once(toHost')
      /\ \A u : QuietAfter(toHost, u) => QuietAfter(toHost', u)
  BY <1>1, Taken DEF Talk
<1>3. ~NothingComes
  BY <1>2 DEF NothingComes
<1> HIDE DEF h
<1> USE DEF IInv
<1>4. /\ queue' \in Seq(Buffers \cup {Event})
      /\ \A i \in DOMAIN queue : i \in DOMAIN queue' /\ queue'[i] = queue[i]
  <2>1. queue \in Seq(Buffers \cup {Event})
    BY DEF Types
  <2> HIDE DEF IInv
  <2>2. /\ Append(queue, Event) \in Seq(Buffers \cup {Event})
        /\ \A i \in DOMAIN queue : i \in DOMAIN Append(queue, Event)
                                  /\ Append(queue, Event)[i] = queue[i]
    BY <2>1, QueuedAtEnd
  <2> QED BY <1>1, <2>1, <2>2
<1>5. Types'
  <2>1. toHost' \in Seq(ToHost)
    BY <1>1 DEF Types
  <2>2. trigger' \in BOOLEAN
    BY <1>1, Zenon DEF Types
  <2> QED BY <1>1, <1>4, <2>1, <2>2 DEF Types
<1>6. Roles' /\ Hands' /\ Locked' /\ Phases' /\ Answers'
  BY <1>1, <1>2 DEF Roles, Hands, Locked, Phases, Answers
<1>7. Messages'
  BY <1>1, <1>2 DEF Messages
<1>8. Quiet'
  BY <1>1, <1>2, <1>3 DEF Quiet, Silent
<1>9. Off'
  BY <1>1, <1>3 DEF Off
<1>10. Contexts'
  BY <1>1, <1>2 DEF Contexts, Out
<1>11. Cover'
  BY <1>1, <1>2, <1>4 DEF Cover, Out
<1> QED BY <1>1, <1>5, <1>6, <1>7, <1>8, <1>9, <1>10, <1>11

\* or an answer.
LEMMA DeliverReplyStep ==
    ASSUME IInv, DeliverReply
    PROVE  IInv'
<1> DEFINE h == Head(toHost)
           t == h.what
<1>1. /\ toHost # <<>> /\ toHost \in Seq(AnyMessage) /\ h.kind \in {"ok", "error"}
      /\ toHost' = Tail(toHost) /\ answer' = [answer EXCEPT ![t] = h.kind]
      /\ UNCHANGED <<lock, pc, op, hand, enabled, callback, pool, transit, client, queue,
                     trigger, toVideoCore, running, filling, crashed>>
  BY Links DEF IInv, DeliverReply, portVars, queueVars
<1>2. h \in ToHost /\ toHost' \in Seq(ToHost)
  BY <1>1 DEF IInv, Types
<1>3. t \in Threads
  BY <1>1, <1>2 DEF ToHost
<1>4. /\ \A b : HasBuffer(toHost, b) <=> HasBuffer(toHost', b)
      /\ HasEvent(toHost) <=> HasEvent(toHost')
      /\ \A u : HasError(toHost', u) => HasError(toHost, u)
      /\ h.kind = "error" => HasError(toHost, t)
      /\ \A u : About(toHost, u) <=> About(toHost', u) \/ u = t
      /\ Once(toHost) => Once(toHost') /\ ~About(toHost', t)
      /\ \A u : QuietAfter(toHost, u) => QuietAfter(toHost', u)
      /\ QuietAfter(toHost, t) => ~HasEvent(toHost') /\ \A b : ~HasBuffer(toHost', b)
  <2> HIDE DEF h
  <2>1. h = Head(toHost)
    BY DEF h
  <2> QED BY <1>1, <2>1, Taken DEF Talk
<1> HIDE DEF h
<1>5. pc[t] = "wait" /\ answer[t] = None /\ ~About(toVideoCore, t) /\ ~About(toHost', t)
  BY <1>3, <1>4 DEF IInv, Messages
<1>6. answer'[t] = h.kind /\ \A u \in Threads : u # t => answer'[u] = answer[u]
  BY <1>1, <1>3 DEF IInv, Types
<1> HIDE DEF t
<1> USE DEF IInv
<1>7. Types'
  BY <1>1, <1>2 DEF Types
<1>8. Roles' /\ Hands' /\ Locked' /\ Phases'
  BY <1>1 DEF Roles, Hands, Locked, Phases
<1>9. Answers'
  BY <1>1, <1>3, <1>4, <1>5, <1>6, PortAssumption DEF Answers, Draining
<1>10. Messages'
  BY <1>1, <1>4, <1>5, <1>6 DEF Messages
<1>11. Quiet'
  <2> SUFFICES ASSUME NEW u \in Threads, op[u] = "disable"
               PROVE  /\ QuietAfter(toVideoCore', u) /\ QuietAfter(toHost', u)
                      /\ About(toHost', u) => Silent'
                      /\ answer'[u] # None => NothingComes'
    BY <1>1 DEF Quiet
  <2>1. /\ QuietAfter(toVideoCore', u) /\ QuietAfter(toHost', u)
        /\ About(toHost', u) => Silent'
    BY <1>1, <1>4 DEF Quiet, Silent
  <2>2. CASE u = t
    <3>1. Silent
      BY <2>2, <1>4 DEF Quiet
    <3>2. QuietAfter(toHost, t)
      BY <2>2 DEF Quiet
    <3> QED BY <2>1, <3>1, <3>2, <1>1, <1>4 DEF NothingComes, Silent
  <2>3. CASE u # t
    BY <2>1, <2>3, <1>1, <1>4, <1>6 DEF Quiet, NothingComes, Silent
  <2> QED BY <2>2, <2>3
<1>12. Off'
  BY <1>1, <1>4 DEF Off, Silent, NothingComes
<1>13. Contexts'
  BY <1>1, <1>4 DEF Contexts, Out
<1>14. Cover'
  BY <1>1, <1>4 DEF Cover, Out
<1> QED BY <1>1, <1>7, <1>8, <1>9, <1>10, <1>11, <1>12, <1>13, <1>14

-----------------------------------------------------------------------------
(* The theorems.                                                           *)

\* Every step keeps the invariant.
LEMMA NextInv ==
    ASSUME IInv, [Next]_vars, "disable" \notin Failing
    PROVE  IInv'
<1>1. CASE UNCHANGED vars
  BY <1>1 DEF vars, threadVars, portVars, queueVars, linkVars, IInv, Types, Roles, Hands,
     Locked, Phases, Answers, Messages, Quiet, Off, Contexts, Cover, Silent, NothingComes, Out
<1>2. ASSUME NEW t \in Clients, Call(t) PROVE IInv'
  <2>1. t \in Threads /\ t # Action
    BY PortAssumption DEF Threads
  <2> QED BY <1>2, <2>1, LocalStep DEF Call, Local
<1>3. ASSUME NEW t \in Threads, Acquire(t) PROVE IInv'
  BY <1>3, LocalStep, QueueRequestStep DEF Acquire, Local
<1>4. ASSUME NEW t \in Threads, Proceed(t) PROVE IInv'
  BY <1>4, LocalStep, SendBufferStep, NoCrash DEF Proceed, Local
<1>5. CASE RunAction
  <2>1. Action \in Threads
    BY DEF Threads
  <2> QED BY <1>5, <2>1, LocalStep DEF RunAction, Local
<1>6. CASE Deliver
  BY <1>6, DeliverBufferStep, DeliverEventStep, DeliverReplyStep DEF Deliver
<1>7. CASE Accept \/ Replies \/ SendEvent
  BY <1>7, AcceptStep, ReplyStep, SendEventStep DEF Replies
<1>8. ASSUME NEW b \in Buffers, GiveBack(b) PROVE IInv'
  BY <1>8, GiveBackStep
<1> QED
  BY <1>1, <1>2, <1>3, <1>4, <1>5, <1>6, <1>7, <1>8 DEF Next

\* The inductive invariant: the phases of a disable, the locks and answers of
\* each call, the order of the messages, and where the buffers are.
THEOREM Invariant ==
    ASSUME "disable" \notin Failing
    PROVE  Spec => []IInv
<1>1. IInv /\ [Next]_vars => IInv'
  BY NextInv
<1> QED BY InitInv, <1>1, PTL DEF Spec

\* No call through a NULL callback, no use of a deleted pool.
THEOREM Safe ==
    ASSUME "disable" \notin Failing
    PROVE  Spec => []NeverCrashes
<1>1. IInv => NeverCrashes
  BY DEF IInv, NeverCrashes
<1> QED BY <1>1, Invariant, PTL

\* Every context is back when mmal_vc_port_disable deletes the pool.
THEOREM PoolUnused ==
    ASSUME "disable" \notin Failing
    PROVE  Spec => []ContextsBack
<1>1. IInv => ContextsBack
  <2> SUFFICES ASSUME IInv, NEW t \in Threads, op[t] = "disable", answer[t] # None
               PROVE  WithContext = {}
    BY DEF ContextsBack
  <2>1. NothingComes
    BY DEF IInv, Quiet
  <2>2. /\ \A b \in Buffers : b \notin InMessages(toVideoCore)
        /\ \A b \in Buffers : b \notin InMessages(toHost)
    <3>1. \A i \in DOMAIN toVideoCore : toVideoCore[i] \in ToVideoCore
      BY DEF IInv, Types
    <3>2. \A i \in DOMAIN toHost : toHost[i] \in ToHost
      BY DEF IInv, Types
    <3> QED
      BY <2>1, <3>1, <3>2, PortAssumption
      DEF InMessages, NothingComes, Silent, HasBuffer, ToVideoCore, ToHost
  <2> QED BY <2>1, <2>2 DEF WithContext, NothingComes, Silent
<1> QED BY <1>1, Invariant, PTL

\* "Disabling a port will stop all processing on this port and return all buffer
\* headers to the client": while the port has no callback, the client has every
\* buffer, nothing is queued for the callback, and no thread is in it or on its way.
OffIsQuiet ==
    ~callback => /\ Buffers = client
                 /\ queue = <<>>
                 /\ \A t \in Threads : pc[t] \notin {"check", "call", "called"}

\* Disabling gives every buffer back, and stops the callbacks for good.
THEOREM DisabledMeansQuiet ==
    ASSUME "disable" \notin Failing
    PROVE  Spec => []OffIsQuiet
<1>1. IInv => OffIsQuiet
  <2> SUFFICES ASSUME IInv, ~callback PROVE
        /\ Buffers = client /\ queue = <<>>
        /\ \A t \in Threads : pc[t] \notin {"check", "call", "called"}
    BY DEF OffIsQuiet
  <2>1. /\ NothingComes /\ queue = <<>>
        /\ \A t \in Threads : pc[t] \notin {"check", "call", "called"}
    BY DEF IInv, Off
  <2>2. ASSUME NEW b \in Buffers PROVE b \in client
    <3>1. ~Out(b)
      BY <2>1 DEF Out, NothingComes, Silent
    <3>2. ~\E i \in DOMAIN queue : queue[i] = b
      BY <2>1
    <3>3. ASSUME NEW t \in Threads PROVE pc[t] \notin {"send", "call"}
      BY <2>1 DEF IInv, Phases, Roles
    <3> QED BY <3>1, <3>2, <3>3 DEF IInv, Cover
  <2> QED BY <2>1, <2>2 DEF IInv, Types
<1> QED BY <1>1, Invariant, PTL

\* Every answer finds the thread that waits for it, and no two are for one.
THEOREM AnswersArrive ==
    ASSUME "disable" \notin Failing
    PROVE  Spec => []AnswersFindWaiter
<1>1. IInv => AnswersFindWaiter
  <2> SUFFICES ASSUME IInv PROVE AnswersFindWaiter
    OBVIOUS
  <2> DEFINE s == toVideoCore \o toHost
             n == Len(toVideoCore)
  <2>1. /\ toVideoCore \in Seq(ToVideoCore) /\ toHost \in Seq(ToHost)
        /\ \A i \in DOMAIN toVideoCore : toVideoCore[i] \in ToVideoCore
        /\ \A i \in DOMAIN toHost : toHost[i] \in ToHost
    BY DEF IInv, Types
  <2>2. \A i \in DOMAIN s :
            \/ i \in DOMAIN toVideoCore /\ s[i] = toVideoCore[i]
            \/ i - n \in DOMAIN toHost /\ s[i] = toHost[i - n]
    <3>1. /\ Len(s) = n + Len(toHost)
          /\ \A i \in 1..Len(s) : s[i] = IF i <= n THEN toVideoCore[i] ELSE toHost[i - n]
      BY <2>1, ConcatProperties
    <3>2. n \in Nat /\ Len(toHost) \in Nat /\ DOMAIN toVideoCore = 1..n
          /\ DOMAIN toHost = 1..Len(toHost) /\ DOMAIN s = 1..Len(s)
      BY <2>1
    <3> HIDE DEF n, s
    <3> QED BY <3>1, <3>2
  <2>3. \A i, j \in DOMAIN s : i - n = j - n => i = j
    <3>1. n \in Nat /\ DOMAIN s \subseteq Int
      BY <2>1
    <3> HIDE DEF n, s
    <3> QED BY <3>1
  <2> HIDE DEF s, n
  <2> SUFFICES ASSUME NEW i \in DOMAIN s, s[i].kind \in Talk
               PROVE  /\ pc[s[i].what] = "wait" /\ answer[s[i].what] = None
                      /\ \A j \in DOMAIN s \ {i} :
                            s[j].kind \in Talk => s[j].what # s[i].what
    BY DEF AnswersFindWaiter, Talk, s
  <2>4. s[i].what \in Threads
    BY <2>1, <2>2 DEF Talk, ToVideoCore, ToHost
  <2>5. About(toVideoCore, s[i].what) \/ About(toHost, s[i].what)
    BY <2>2 DEF About
  <2>6. ASSUME NEW j \in DOMAIN s, j # i, s[j].kind \in Talk, s[j].what = s[i].what
        PROVE  FALSE
    <3>1. ~(About(toVideoCore, s[i].what) /\ About(toHost, s[i].what))
      BY <2>4 DEF IInv, Messages
    <3>2. CASE i \in DOMAIN toVideoCore /\ s[i] = toVideoCore[i]
      BY <3>1, <3>2, <2>2, <2>6 DEF About, IInv, Messages, Once
    <3>3. CASE i - n \in DOMAIN toHost /\ s[i] = toHost[i - n]
      BY <3>1, <3>3, <2>2, <2>3, <2>6 DEF About, IInv, Messages, Once
    <3> QED BY <3>2, <3>3, <2>2
  <2> QED BY <2>4, <2>5, <2>6 DEF IInv, Messages
<1> QED BY <1>1, Invariant, PTL

-----------------------------------------------------------------------------
(* The port keeps the promise of BufferPort.                               *)

\* The buffers that are being sent stay the same.
LEMMA SendingKept ==
    ASSUME \A u \in Threads :
              /\ pc'[u] = "send" <=> pc[u] = "send"
              /\ pc[u] = "send" => hand'[u] = hand[u]
    PROVE  Sending' = Sending
BY DEF Sending

\* A step that the promise does not speak of.
LEMMA PromiseKept ==
    ASSUME UNCHANGED <<callback, client>>,
           \A u \in Threads :
              /\ pc'[u] = "send" <=> pc[u] = "send"
              /\ pc[u] = "send" => hand'[u] = hand[u]
              /\ pc'[u] = "called" <=> pc[u] = "called"
    PROVE  UNCHANGED Promise!vars
<1>1. Sending' = Sending
  BY SendingKept
<1>2. {u \in Threads : pc[u] = "called"}' = {u \in Threads : pc[u] = "called"}
  OBVIOUS
<1> QED BY <1>1, <1>2 DEF Promise!vars

\* One thread sends at a time.
LEMMA OneSends ==
    ASSUME IInv, NEW t \in Threads, pc[t] = "send"
    PROVE  Sending = {hand[t]} /\ \A u \in Threads : pc[u] = "send" => u = t
<1>1. \A u \in Threads : pc[u] = "send" => u = t
  BY DEF IInv, Roles, Locked
<1> QED BY <1>1 DEF Sending

\* A buffer begins to be sent, is sent, or could not be.
LEMMA PromiseSends ==
    ASSUME IInv, NEW t \in Threads,
           \/ \E b \in Buffers : LockToSend(t, b)
           \/ SendBuffer(t) \/ SendFails(t)
    PROVE  [Promise!Next]_Promise!vars
<1>1. ASSUME NEW b \in Buffers, LockToSend(t, b) PROVE UNCHANGED Promise!vars
  <2>1. /\ b \in client /\ client' = client \ {b} /\ hand'[t] = b /\ pc'[t] = "send"
        /\ pc[t] = "idle" /\ callback' = callback
        /\ \A u \in Threads \ {t} : pc'[u] = pc[u] /\ hand'[u] = hand[u]
    BY <1>1 DEF LockToSend, IInv, Types, Goto, Begin
  <2>2. Sending' = Sending \cup {b}
    BY <2>1 DEF Sending
  <2>3. (Buffers \ (client \cup Sending))' = Buffers \ (client \cup Sending)
    BY <2>1, <2>2
  <2>4. {u \in Threads : pc[u] = "called"}' = {u \in Threads : pc[u] = "called"}
    BY <2>1
  <2> QED BY <2>1, <2>3, <2>4 DEF Promise!vars
<1>2. ASSUME SendBuffer(t) \/ SendFails(t)
      PROVE  /\ pc[t] = "send" /\ pc'[t] = "idle" /\ callback' = callback /\ Sending' = {}
             /\ {u \in Threads : pc[u] = "called"}' = {u \in Threads : pc[u] = "called"}
             /\ Sending = {hand[t]}
  <2>1. /\ pc[t] = "send" /\ pc'[t] = "idle" /\ callback' = callback
        /\ \A u \in Threads \ {t} : pc'[u] = pc[u]
    BY <1>2, PortAssumption DEF SendBuffer, SendFails, portVars, IInv, Types, Goto, Begin, Return
  <2>2. Sending = {hand[t]} /\ \A u \in Threads : pc[u] = "send" => u = t
    BY <2>1, OneSends
  <2>3. Sending' = {}
    BY <2>1, <2>2 DEF Sending
  <2>4. {u \in Threads : pc[u] = "called"}' = {u \in Threads : pc[u] = "called"}
    BY <2>1
  <2> QED BY <2>1, <2>2, <2>3, <2>4
<1>3. CASE SendFails(t)
  <2>1. client' = client \cup {hand[t]}
    BY <1>3 DEF SendFails
  <2>2. (Buffers \ (client \cup Sending))' = Buffers \ (client \cup Sending)
    BY <1>2, <1>3, <2>1
  <2> QED BY <1>2, <1>3, <2>2 DEF Promise!vars
<1>4. CASE SendBuffer(t)
  <2>1. client' = client /\ hand[t] \in Buffers /\ callback
    BY <1>2, <1>4 DEF SendBuffer, portVars, IInv, Hands, Phases, Roles
  <2>2. CASE hand[t] \in client
    <3>1. (Buffers \ (client \cup Sending))' = Buffers \ (client \cup Sending)
      BY <1>2, <1>4, <2>1, <2>2
    <3> QED BY <1>2, <1>4, <3>1 DEF Promise!vars
  <2>3. CASE hand[t] \notin client
    <3>1. (Buffers \ (client \cup Sending))'
             = (Buffers \ (client \cup Sending)) \cup {hand[t]}
      BY <1>2, <1>4, <2>1, <2>3
    <3>2. Promise!Send(hand[t])
      BY <1>2, <1>4, <2>1, <3>1 DEF Promise!Send
    <3> QED BY <2>1, <3>2 DEF Promise!Next
  <2> QED BY <2>2, <2>3
<1> QED BY <1>1, <1>3, <1>4

\* A callback begins or ends.
LEMMA PromiseCalls ==
    ASSUME IInv, NEW t \in Threads, CallBack(t) \/ CallReturns(t)
    PROVE  [Promise!Next]_Promise!vars
<1> DEFINE calling == {u \in Threads : pc[u] = "called"}
           out == Buffers \ (client \cup Sending)
<1>1. CASE CallBack(t)
  <2>1. /\ pc[t] = "call" /\ pc'[t] = "called" /\ callback /\ callback' = callback
        /\ client' = client \cup ({hand[t]} \ {Event})
        /\ \A u \in Threads \ {t} : pc'[u] = pc[u] /\ hand'[u] = hand[u]
    BY <1>1 DEF CallBack, IInv, Types, Goto
  <2>2. calling' = calling \cup {t} /\ t \notin calling
    BY <2>1
  <2>3. Sending' = Sending
    <3>1. \A u \in Threads :
             /\ pc'[u] = "send" <=> pc[u] = "send"
             /\ pc[u] = "send" => hand'[u] = hand[u]
      BY <2>1
    <3> QED BY <3>1, SendingKept
  <2>4. out' = out \/ \E b \in out : out' = out \ {b}
    <3>1. CASE hand[t] \in out
      <4>1. out' = out \ {hand[t]}
        BY <2>1, <2>3, <3>1, PortAssumption
      <4> QED BY <3>1, <4>1
    <3>2. CASE hand[t] \notin out
      <4>1. out' = out
        BY <2>1, <2>3, <3>2
      <4> QED BY <4>1
    <3> QED BY <3>1, <3>2
  <2>5. Promise!CallBack(t)
    BY <2>1, <2>2, <2>4 DEF Promise!CallBack
  <2> QED BY <2>5 DEF Promise!Next
<1>2. CASE CallReturns(t)
  <2>1. /\ pc[t] = "called" /\ pc'[t] = "drain" /\ UNCHANGED <<callback, client>>
        /\ \A u \in Threads \ {t} : pc'[u] = pc[u] /\ hand'[u] = hand[u]
    BY <1>2 DEF CallReturns, IInv, Types, Goto
  <2>2. calling' = calling \ {t} /\ t \in calling
    BY <2>1
  <2>3. Sending' = Sending
    <3>1. \A u \in Threads :
             /\ pc'[u] = "send" <=> pc[u] = "send"
             /\ pc[u] = "send" => hand'[u] = hand[u]
      BY <2>1
    <3> QED BY <3>1, SendingKept
  <2>4. Promise!Return(t)
    BY <2>1, <2>2, <2>3 DEF Promise!Return
  <2> QED BY <2>4 DEF Promise!Next
<1> QED BY <1>1, <1>2

\* The callback is set, or reset when every buffer is back.
LEMMA PromiseSwitches ==
    ASSUME IInv, NEW t \in Threads, CreatePool(t) \/ WaitForTransit(t)
    PROVE  [Promise!Next]_Promise!vars
<1> DEFINE calling == {u \in Threads : pc[u] = "called"}
           out == Buffers \ (client \cup Sending)
<1>1. /\ client' = client /\ pc[t] \in {"lockPort", "join"}
      /\ pc'[t] \in {"request", "idle"} /\ hand' = hand
      /\ \A u \in Threads \ {t} : pc'[u] = pc[u]
  BY DEF CreatePool, WaitForTransit, IInv, Types, Goto, Begin, Return
<1>2. Sending' = Sending /\ calling' = calling
  BY <1>1 DEF Sending
<1>3. CASE CreatePool(t)
  <2>1. callback' = TRUE
    BY <1>3 DEF CreatePool
  <2>2. Promise!Enable
    BY <2>1, <1>1, <1>2 DEF Promise!Enable
  <2> QED BY <2>2 DEF Promise!Next
<1>4. CASE WaitForTransit(t)
  <2>1. callback' = FALSE /\ pc[t] = "join" /\ op[t] = "disable" /\ callback
    BY <1>4 DEF WaitForTransit, IInv, Types, Roles, Phases, Draining, Requests
  <2>2. calling = {}
    BY <2>1 DEF IInv, Off
  <2>3. out = {}
    <3>1. \A b \in Buffers : ~Out(b)
      BY <2>1 DEF IInv, Off, NothingComes, Silent, Out
    <3>2. ASSUME NEW b \in Buffers, b \notin client PROVE b \in Sending
      <4>1. PICK u \in Threads : pc[u] \in {"send", "call"} /\ hand[u] = b
        BY <2>1, <3>1, <3>2 DEF IInv, Cover, Off
      <4>2. pc[u] = "send"
        BY <2>1, <4>1 DEF IInv, Off
      <4> QED BY <4>1, <4>2 DEF Sending
    <3> QED BY <3>2
  <2>4. Promise!Disable
    BY <2>1, <2>2, <2>3, <1>1, <1>2 DEF Promise!Disable
  <2> QED BY <2>4 DEF Promise!Next
<1> QED BY <1>3, <1>4

\* Every other step of a thread.
LEMMA PromiseLocal ==
    ASSUME IInv, NEW t \in Threads, Local(t)
    PROVE  [Promise!Next]_Promise!vars
<1> USE PortAssumption DEF IInv, Types, Goto, Begin, Return, Lock, Answered, portVars,
                           threadVars
<1>1. CASE (\E b \in Buffers : LockToSend(t, b)) \/ SendFails(t)
  BY <1>1, PromiseSends
<1>2. CASE CallBack(t) \/ CallReturns(t)
  BY <1>2, PromiseCalls
<1>3. CASE CreatePool(t) \/ WaitForTransit(t)
  BY <1>3, PromiseSwitches
<1>4. CASE Enable(t) \/ Disable(t) \/ Flush(t) \/ SetParameter(t) \/ RequestFails(t)
  BY <1>4, PromiseKept DEF Enable, Disable, Flush, SetParameter, RequestFails
<1>5. CASE EnableAnswered(t) \/ EnableRefused(t) \/ SetEnabled(t)
  BY <1>5, PromiseKept DEF EnableAnswered, EnableRefused, SetEnabled
<1>6. CASE LockToDisable(t) \/ ClearEnabled(t) \/ LockActionToDisable(t) \/ DeletePool(t)
  BY <1>6, PromiseKept DEF LockToDisable, ClearEnabled, LockActionToDisable, DeletePool
<1>7. CASE Drained(t) \/ EnableAgain(t)
  BY <1>7, PromiseKept DEF Drained, EnableAgain
<1>8. CASE LockToFlush(t) \/ FlushDisabled(t) \/ FlushOrSetAnswered(t)
  BY <1>8, PromiseKept DEF LockToFlush, FlushDisabled, FlushOrSetAnswered
<1>9. CASE TakeCallback(t) \/ CheckCallback(t)
  BY <1>9, PromiseKept DEF TakeCallback, CheckCallback
<1>10. CASE t = Action /\ (WakeAction \/ StartAction \/ EndAction)
  BY <1>10, PromiseKept DEF WakeAction, StartAction, EndAction
<1> QED
  BY <1>1, <1>2, <1>3, <1>4, <1>5, <1>6, <1>7, <1>8, <1>9, <1>10 DEF Local

\* Every step of the port is a step of the promise, or none.
LEMMA PromiseStep ==
    ASSUME IInv, [Next]_vars
    PROVE  [Promise!Next]_Promise!vars
<1> USE DEF threadVars, portVars
<1>1. CASE UNCHANGED vars
  BY <1>1, PromiseKept DEF vars
<1>2. ASSUME NEW t \in Clients, Call(t) PROVE [Promise!Next]_Promise!vars
  <2>1. t \in Threads /\ t # Action
    BY PortAssumption DEF Threads
  <2> QED BY <1>2, <2>1, PromiseLocal DEF Call, Local
<1>3. ASSUME NEW t \in Threads, Acquire(t) PROVE [Promise!Next]_Promise!vars
  <2>1. CASE QueueRequest(t)
    BY <2>1, PromiseKept DEF QueueRequest, Goto, IInv, Types
  <2>2. CASE Local(t)
    BY <2>2, PromiseLocal
  <2> QED BY <1>3, <2>1, <2>2 DEF Acquire, Local
<1>4. ASSUME NEW t \in Threads, Proceed(t) PROVE [Promise!Next]_Promise!vars
  <2>1. CASE SendBuffer(t)
    BY <2>1, PromiseSends
  <2>2. CASE Local(t)
    BY <2>2, PromiseLocal
  <2> QED BY <1>4, <2>1, <2>2, NoCrash DEF Proceed, Local
<1>5. CASE RunAction
  <2>1. Action \in Threads
    BY DEF Threads
  <2> QED BY <1>5, <2>1, PromiseLocal DEF RunAction, Local
<1>6. CASE Deliver \/ Accept \/ Replies \/ SendEvent
  BY <1>6, PromiseKept
  DEF Deliver, DeliverBuffer, DeliverEvent, DeliverReply, Accept, Replies, Reply, SendEvent
<1>7. ASSUME NEW b \in Buffers, GiveBack(b) PROVE [Promise!Next]_Promise!vars
  BY <1>7, PromiseKept DEF GiveBack
<1> QED
  BY <1>1, <1>2, <1>3, <1>4, <1>5, <1>6, <1>7 DEF Next

\* The port implements BufferPort: what it has is given back once, through the
\* callback, and disable returns when it has nothing and nobody is called.
THEOREM PromiseKeeps ==
    ASSUME "disable" \notin Failing
    PROVE  Spec => KeepsPromise
<1>1. Init => Promise!Init
  BY DEF Init, Promise!Init, Sending
<1>2. IInv /\ [Next]_vars => [Promise!Next]_Promise!vars
  BY PromiseStep
<1> QED BY <1>1, <1>2, Invariant, PTL DEF Spec, KeepsPromise, Promise!Spec
=============================================================================
