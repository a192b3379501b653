---------------------------- MODULE TransitProofs ----------------------------
(***************************************************************************)
(* What a port counts: the semaphore that mmal_port_disable waits for is   *)
(* up when no buffer is in transit.  The count is right because a buffer   *)
(* is never in two places.                                                 *)
(***************************************************************************)
EXTENDS MmalPortProofs, FiniteSetTheorems

InQueue(b) == \E i \in DOMAIN queue : queue[i] = b
Carries(t, b) == pc[t] \in {"send", "call"} /\ hand[t] = b

\* A sequence has a buffer at most once.
OneOf(s) ==
    \A i, j \in DOMAIN s :
        s[i].kind = "buffer" /\ s[j].kind = "buffer" /\ s[i].what = s[j].what => i = j
OneQueued(q) ==
    \A i, j \in DOMAIN q : q[i] # Event /\ q[i] = q[j] => i = j

\* A buffer is in one place.
Alone ==
    /\ OneOf(toVideoCore) /\ OneOf(toHost) /\ OneQueued(queue)
    /\ \A b \in Buffers :
        /\ b \in client => ~Out(b) /\ ~InQueue(b) /\ \A t \in Threads : ~Carries(t, b)
        /\ b \in filling => ~HasBuffer(toVideoCore, b) /\ ~HasBuffer(toHost, b)
        /\ ~(HasBuffer(toVideoCore, b) /\ HasBuffer(toHost, b))
        /\ Out(b) => ~InQueue(b) /\ \A t \in Threads : ~Carries(t, b)
        /\ InQueue(b) => \A t \in Threads : ~Carries(t, b)
        /\ \A t, u \in Threads : Carries(t, b) /\ Carries(u, b) => t = u

Called == {t \in Threads : pc[t] = "called" /\ hand[t] # None}

CInv == IInv /\ Alone /\ TransitCounts

-----------------------------------------------------------------------------
(* A buffer is in one place.                                               *)

\* A message at the end, or one taken from the head.
LEMMA OneOfMessages ==
    ASSUME NEW s \in Seq(AnyMessage)
    PROVE  /\ \A m \in AnyMessage :
                OneOf(s) /\ (m.kind = "buffer" => ~HasBuffer(s, m.what))
                  => OneOf(Append(s, m))
           /\ s # <<>> /\ OneOf(s) =>
                /\ OneOf(Tail(s))
                /\ Head(s).kind = "buffer" => ~HasBuffer(Tail(s), Head(s).what)
<1>1. ASSUME NEW m \in AnyMessage, OneOf(s), m.kind = "buffer" => ~HasBuffer(s, m.what)
      PROVE  OneOf(Append(s, m))
  <2> DEFINE a == Append(s, m)
  <2>1. /\ DOMAIN a = DOMAIN s \cup {Len(s) + 1} /\ a[Len(s) + 1] = m
        /\ \A i \in DOMAIN s : a[i] = s[i]
    OBVIOUS
  <2> HIDE DEF a
  <2>2. OneOf(a)
    BY <1>1, <2>1 DEF OneOf, HasBuffer
  <2> QED BY <2>2 DEF a
<1>2. ASSUME s # <<>>, OneOf(s)
      PROVE  /\ OneOf(Tail(s))
             /\ Head(s).kind = "buffer" => ~HasBuffer(Tail(s), Head(s).what)
  <2> DEFINE z == Tail(s)
  <2>1. /\ Head(s) = s[1] /\ 1 \in DOMAIN s
        /\ \A i \in DOMAIN z : z[i] = s[i + 1] /\ i + 1 \in DOMAIN s /\ i + 1 # 1
        /\ \A i, j \in DOMAIN z : i + 1 = j + 1 => i = j
    BY <1>2
  <2> HIDE DEF z
  <2>2. OneOf(z)
    BY <1>2, <2>1 DEF OneOf
  <2>3. Head(s).kind = "buffer" => ~HasBuffer(z, Head(s).what)
    BY <1>2, <2>1 DEF OneOf, HasBuffer
  <2> QED BY <2>2, <2>3 DEF z
<1> QED BY <1>1, <1>2

\* The same of the queue.
LEMMA OneInQueue ==
    ASSUME NEW q \in Seq(Buffers \cup {Event})
    PROVE  /\ \A x \in Buffers \cup {Event} :
                OneQueued(q) /\ (x # Event => \A i \in DOMAIN q : q[i] # x)
                  => OneQueued(Append(q, x))
           /\ \A x \in Buffers \cup {Event} : \A i \in DOMAIN Append(q, x) :
                Append(q, x)[i] = x \/ \E j \in DOMAIN q : q[j] = Append(q, x)[i]
           /\ q # <<>> /\ OneQueued(q) =>
                /\ OneQueued(Tail(q))
                /\ \A i \in DOMAIN Tail(q) : \E j \in DOMAIN q : q[j] = Tail(q)[i]
                /\ Head(q) # Event => \A i \in DOMAIN Tail(q) : Tail(q)[i] # Head(q)
<1>1. ASSUME NEW x \in Buffers \cup {Event}
      PROVE  /\ DOMAIN Append(q, x) = DOMAIN q \cup {Len(q) + 1}
             /\ Append(q, x)[Len(q) + 1] = x
             /\ \A i \in DOMAIN q : Append(q, x)[i] = q[i]
  OBVIOUS
<1>2. ASSUME NEW x \in Buffers \cup {Event},
             OneQueued(q), x # Event => \A i \in DOMAIN q : q[i] # x
      PROVE  OneQueued(Append(q, x))
  <2> DEFINE a == Append(q, x)
  <2>1. /\ DOMAIN a = DOMAIN q \cup {Len(q) + 1} /\ a[Len(q) + 1] = x
        /\ \A i \in DOMAIN q : a[i] = q[i]
    BY <1>1
  <2> HIDE DEF a
  <2>2. OneQueued(a)
    BY <1>2, <2>1 DEF OneQueued
  <2> QED BY <2>2 DEF a
<1>3. ASSUME q # <<>>, OneQueued(q)
      PROVE  /\ OneQueued(Tail(q))
             /\ \A i \in DOMAIN Tail(q) : \E j \in DOMAIN q : q[j] = Tail(q)[i]
             /\ Head(q) # Event => \A i \in DOMAIN Tail(q) : Tail(q)[i] # Head(q)
  <2> DEFINE z == Tail(q)
  <2>1. /\ Head(q) = q[1] /\ 1 \in DOMAIN q
        /\ \A i \in DOMAIN z : z[i] = q[i + 1] /\ i + 1 \in DOMAIN q /\ i + 1 # 1
        /\ \A i, j \in DOMAIN z : i + 1 = j + 1 => i = j
    BY <1>3
  <2> HIDE DEF z
  <2>2. OneQueued(z)
    BY <1>3, <2>1 DEF OneQueued
  <2>3. \A i \in DOMAIN z : \E j \in DOMAIN q : q[j] = z[i]
    BY <2>1
  <2>4. Head(q) # Event => \A i \in DOMAIN z : z[i] # Head(q)
    BY <1>3, <2>1 DEF OneQueued
  <2> QED BY <2>2, <2>3, <2>4 DEF z
<1> QED BY <1>1, <1>2, <1>3

\* A step that moves no buffer.
LEMMA AloneKept ==
    ASSUME Alone, UNCHANGED <<linkVars, queue, client>>,
           \A u \in Threads, b \in Buffers : Carries(u, b)' => Carries(u, b)
    PROVE  Alone'
BY DEF Alone, Out, InQueue, linkVars

\* The steps of a thread that moves a buffer.
LEMMA AloneSends ==
    ASSUME CInv, NEW t \in Threads,
           \/ \E b \in Buffers : LockToSend(t, b)
           \/ SendFails(t)
    PROVE  Alone'
<1> USE PortAssumption
<1>1. ASSUME NEW b \in Buffers, LockToSend(t, b) PROVE Alone'
  <2>1. /\ b \in client /\ client' = client \ {b} /\ hand'[t] = b /\ pc[t] = "idle"
        /\ \A u \in Threads \ {t} : pc'[u] = pc[u] /\ hand'[u] = hand[u]
        /\ UNCHANGED <<linkVars, queue>>
    BY <1>1 DEF LockToSend, CInv, IInv, Types, Goto, Begin, queueVars
  <2>2. \A u \in Threads, c \in Buffers : Carries(u, c)' => Carries(u, c) \/ (u = t /\ c = b)
    BY <2>1 DEF Carries
  <2> QED BY <2>1, <2>2 DEF CInv, Alone, Out, InQueue, linkVars
<1>2. CASE SendFails(t)
  <2>1. /\ pc[t] = "send" /\ pc'[t] = "idle" /\ client' = client \cup {hand[t]}
        /\ \A u \in Threads \ {t} : pc'[u] = pc[u] /\ hand'[u] = hand[u]
        /\ UNCHANGED <<linkVars, queue>>
    BY <1>2 DEF SendFails, CInv, IInv, Types, Goto, Begin, Return, queueVars
  <2>2. \A u \in Threads, c \in Buffers : Carries(u, c)' => Carries(u, c) /\ u # t
    BY <2>1 DEF Carries
  <2>3. Carries(t, hand[t]) /\ hand[t] \in Buffers
    BY <2>1 DEF Carries, CInv, IInv, Hands
  <2> QED BY <2>1, <2>2, <2>3 DEF CInv, Alone, Out, InQueue, linkVars
<1> QED BY <1>1, <1>2

\* A buffer goes to VideoCore.
LEMMA AloneSent ==
    ASSUME CInv, NEW t \in Threads, SendBuffer(t)
    PROVE  Alone'
<1> DEFINE m == Message("buffer", hand[t])
<1> USE PortAssumption
<1>1. /\ pc[t] = "send" /\ pc'[t] = "idle" /\ toVideoCore' = Append(toVideoCore, m)
      /\ \A u \in Threads \ {t} : pc'[u] = pc[u] /\ hand'[u] = hand[u]
      /\ UNCHANGED <<toHost, filling, queue, client>>
  BY DEF SendBuffer, CInv, IInv, Types, Goto, Begin, Return, queueVars, portVars
<1>2. hand[t] \in Buffers /\ Carries(t, hand[t])
  BY <1>1 DEF Carries, CInv, IInv, Hands
<1>3. m \in AnyMessage /\ m.kind = "buffer" /\ m.what = hand[t]
  BY <1>2 DEF Message, AnyMessage, Kinds
<1> HIDE DEF m
<1>4. \A u \in Threads, c \in Buffers : Carries(u, c)' => Carries(u, c) /\ u # t
  BY <1>1 DEF Carries
<1>5. toVideoCore \in Seq(AnyMessage)
  BY Links DEF CInv, IInv
<1>6. ~HasBuffer(toVideoCore, hand[t])
  BY <1>2 DEF CInv, Alone, Out
<1>7. \A b : HasBuffer(toVideoCore', b) <=> HasBuffer(toVideoCore, b) \/ b = hand[t]
  BY <1>1, <1>3, <1>5, Appended
<1>8. OneOf(toVideoCore')
  BY <1>1, <1>3, <1>5, <1>6, OneOfMessages DEF CInv, Alone
<1> QED BY <1>1, <1>2, <1>4, <1>7, <1>8 DEF CInv, Alone, Out, InQueue

\* A buffer is taken from the queue, and given to the client.
LEMMA AloneCalled ==
    ASSUME CInv, NEW t \in Threads, TakeCallback(t) \/ CallBack(t)
    PROVE  Alone'
<1> USE PortAssumption
<1>1. CASE TakeCallback(t)
  <2>1. /\ queue # <<>> /\ queue' = Tail(queue) /\ hand'[t] = Head(queue)
        /\ pc[t] = "drain" /\ UNCHANGED <<linkVars, client>>
        /\ \A u \in Threads \ {t} : pc'[u] = pc[u] /\ hand'[u] = hand[u]
    BY <1>1 DEF TakeCallback, CInv, IInv, Types, Goto, portVars
  <2>2. queue \in Seq(Buffers \cup {Event})
    BY DEF CInv, IInv, Types
  <2>3. /\ OneQueued(queue')
        /\ \A b \in Buffers : InQueue(b)' => InQueue(b)
        /\ \A b \in Buffers : b = Head(queue) => ~InQueue(b)'
    <3>1. OneQueued(queue)
      BY DEF CInv, Alone
    <3>2. /\ OneQueued(Tail(queue))
          /\ \A i \in DOMAIN Tail(queue) : \E j \in DOMAIN queue : queue[j] = Tail(queue)[i]
          /\ Head(queue) # Event =>
               \A i \in DOMAIN Tail(queue) : Tail(queue)[i] # Head(queue)
      BY <2>1, <2>2, <3>1, OneInQueue
    <3>3. \A b \in Buffers : InQueue(b)' => InQueue(b)
      BY <2>1, <3>2 DEF InQueue
    <3>4. \A b \in Buffers : b = Head(queue) => ~InQueue(b)'
      BY <2>1, <3>2 DEF InQueue
    <3> QED BY <2>1, <3>2, <3>3, <3>4
  <2>4. InQueue(Head(queue))
    BY <2>1, <2>2 DEF InQueue
  <2>5. \A u \in Threads, c \in Buffers :
            Carries(u, c)' => Carries(u, c) \/ (u = t /\ c = Head(queue))
    BY <2>1 DEF Carries
  <2>6. \A c \in Buffers : Out(c)' = Out(c) /\ (c \in client' <=> c \in client)
    BY <2>1 DEF Out, linkVars
  <2>7. \A c \in Buffers : c = Head(queue) =>
          /\ c \notin client /\ ~Out(c) /\ ~InQueue(c)'
          /\ \A u \in Threads : ~Carries(u, c)
    BY <2>3, <2>4 DEF CInv, Alone
  <2>8. /\ OneOf(toVideoCore') /\ OneOf(toHost')
        /\ \A c \in Buffers :
            /\ c \in filling' => ~HasBuffer(toVideoCore', c) /\ ~HasBuffer(toHost', c)
            /\ ~(HasBuffer(toVideoCore', c) /\ HasBuffer(toHost', c))
    BY <2>1 DEF CInv, Alone, linkVars
  <2> HIDE DEF InQueue, Carries
  <2> QED BY <2>3, <2>5, <2>6, <2>7, <2>8 DEF CInv, Alone
<1>2. CASE CallBack(t)
  <2>1. /\ pc[t] = "call" /\ pc'[t] = "called" /\ UNCHANGED <<linkVars, queue>>
        /\ client' = client \cup ({hand[t]} \ {Event})
        /\ \A u \in Threads \ {t} : pc'[u] = pc[u] /\ hand'[u] = hand[u]
    BY <1>2 DEF CallBack, CInv, IInv, Types, Goto, queueVars
  <2>2. Carries(t, hand[t])
    BY <2>1 DEF Carries
  <2>3. \A u \in Threads, c \in Buffers : Carries(u, c)' => Carries(u, c) /\ u # t
    BY <2>1 DEF Carries
  <2> QED BY <2>1, <2>2, <2>3 DEF CInv, Alone, Out, InQueue, linkVars
<1> QED BY <1>1, <1>2

\* A message that is no buffer comes or goes.
LEMMA TalkKept ==
    ASSUME NEW s \in Seq(AnyMessage), NEW z, OneOf(s),
           \/ z = s
           \/ \E m \in AnyMessage : m.kind # "buffer" /\ z = Append(s, m)
           \/ s # <<>> /\ Head(s).kind # "buffer" /\ z = Tail(s)
    PROVE  OneOf(z) /\ \A b : HasBuffer(z, b) <=> HasBuffer(s, b)
<1>1. ASSUME NEW m \in AnyMessage, m.kind # "buffer", z = Append(s, m)
      PROVE  OneOf(z) /\ \A b : HasBuffer(z, b) <=> HasBuffer(s, b)
  BY <1>1, Appended, OneOfMessages
<1>2. CASE s # <<>> /\ Head(s).kind # "buffer" /\ z = Tail(s)
  BY <1>2, Taken, OneOfMessages
<1> QED BY <1>1, <1>2

\* The same of the port.
LEMMA AloneTalk ==
    ASSUME CInv, UNCHANGED <<pc, hand, client, queue, filling>>,
           \/ UNCHANGED toVideoCore
           \/ \E m \in AnyMessage : m.kind # "buffer" /\ toVideoCore' = Append(toVideoCore, m)
           \/ /\ toVideoCore # <<>> /\ Head(toVideoCore).kind # "buffer"
              /\ toVideoCore' = Tail(toVideoCore),
           \/ UNCHANGED toHost
           \/ \E m \in AnyMessage : m.kind # "buffer" /\ toHost' = Append(toHost, m)
           \/ /\ toHost # <<>> /\ Head(toHost).kind # "buffer"
              /\ toHost' = Tail(toHost)
    PROVE  Alone'
<1>1. toVideoCore \in Seq(AnyMessage) /\ toHost \in Seq(AnyMessage)
  BY Links DEF CInv, IInv
<1>2. OneOf(toVideoCore) /\ OneOf(toHost)
  BY DEF CInv, Alone
<1>3. OneOf(toVideoCore')
      /\ \A b : HasBuffer(toVideoCore', b) <=> HasBuffer(toVideoCore, b)
  BY <1>1, <1>2, TalkKept
<1>4. OneOf(toHost') /\ \A b : HasBuffer(toHost', b) <=> HasBuffer(toHost, b)
  BY <1>1, <1>2, TalkKept
<1> QED BY <1>3, <1>4 DEF CInv, Alone, Out, InQueue, Carries

\* VideoCore takes a buffer and gives it back.
LEMMA AloneFilled ==
    ASSUME CInv, Accept \/ \E b \in Buffers : GiveBack(b)
    PROVE  Alone'
<1>1. toVideoCore \in Seq(AnyMessage) /\ toHost \in Seq(AnyMessage)
  BY Links DEF CInv, IInv
<1>2. OneOf(toVideoCore) /\ OneOf(toHost)
  BY DEF CInv, Alone
<1>3. CASE Accept
  <2> DEFINE b == Head(toVideoCore).what
  <2>1. /\ toVideoCore # <<>> /\ Head(toVideoCore).kind = "buffer"
        /\ toVideoCore' = Tail(toVideoCore) /\ filling' = filling \cup {b}
        /\ UNCHANGED <<pc, hand, client, queue, toHost>>
    BY <1>3 DEF Accept, threadVars, portVars, queueVars
  <2>2. \A c : HasBuffer(toVideoCore, c) <=> HasBuffer(toVideoCore', c) \/ c = b
    BY <1>1, <2>1, Taken
  <2>3. OneOf(toVideoCore') /\ ~HasBuffer(toVideoCore', b)
    BY <1>1, <1>2, <2>1, OneOfMessages
  <2> HIDE DEF b
  <2> QED BY <2>1, <2>2, <2>3 DEF CInv, Alone, Out, InQueue, Carries
<1>4. ASSUME NEW b \in Buffers, GiveBack(b) PROVE Alone'
  <2> DEFINE m == Message("buffer", b)
  <2>1. /\ b \in filling /\ filling' = filling \ {b} /\ toHost' = Append(toHost, m)
        /\ UNCHANGED <<pc, hand, client, queue, toVideoCore>>
    BY <1>4 DEF GiveBack, threadVars, portVars, queueVars
  <2>2. m \in AnyMessage /\ m.kind = "buffer" /\ m.what = b
    BY DEF Message, AnyMessage, Kinds
  <2> HIDE DEF m
  <2>3. ~HasBuffer(toHost, b)
    BY <2>1 DEF CInv, Alone
  <2>4. OneOf(toHost') /\ \A c : HasBuffer(toHost', c) <=> HasBuffer(toHost, c) \/ c = b
    BY <1>1, <1>2, <2>1, <2>2, <2>3, Appended, OneOfMessages
  <2> QED BY <2>1, <2>4 DEF CInv, Alone, Out, InQueue, Carries
<1> QED BY <1>3, <1>4

\* A buffer or an event is queued.
LEMMA AloneDelivered ==
    ASSUME CInv, DeliverBuffer \/ DeliverEvent
    PROVE  Alone'
<1> USE PortAssumption
<1>1. toHost \in Seq(AnyMessage) /\ queue \in Seq(Buffers \cup {Event})
      /\ OneOf(toHost) /\ OneQueued(queue)
  BY Links DEF CInv, IInv, Types, Alone
<1>2. CASE DeliverBuffer
  <2> DEFINE b == Head(toHost).what
  <2>1. toHost # <<>> /\ Head(toHost).kind = "buffer"
    BY <1>2 DEF DeliverBuffer
  <2>2. b \in Buffers
    <3>1. Head(toHost) \in ToHost
      BY <2>1 DEF CInv, IInv, Types
    <3> QED BY <2>1, <3>1 DEF ToHost
  <2>3. \A c : HasBuffer(toHost, c) <=> HasBuffer(Tail(toHost), c) \/ c = b
    BY <1>1, <2>1, Taken
  <2>4. OneOf(Tail(toHost)) /\ ~HasBuffer(Tail(toHost), b)
    BY <1>1, <2>1, OneOfMessages
  <2>5. pool = "live"
    BY <2>2, <2>3 DEF CInv, IInv, Contexts, Out
  <2>6. /\ toHost' = Tail(toHost) /\ queue' = Append(queue, b)
        /\ UNCHANGED <<pc, hand, client, toVideoCore, filling>>
    BY <1>2, <2>5 DEF DeliverBuffer, QueueCallback, threadVars, portVars
  <2> HIDE DEF b
  <2>7. b \notin client /\ b \notin filling /\ ~InQueue(b) /\ ~HasBuffer(toVideoCore, b)
        /\ \A u \in Threads : ~Carries(u, b)
    BY <2>2, <2>3 DEF CInv, Alone, Out
  <2>8. OneQueued(queue') /\ \A c \in Buffers : InQueue(c)' => InQueue(c) \/ c = b
    <3>1. b \in Buffers \cup {Event} /\ \A i \in DOMAIN queue : queue[i] # b
      BY <2>2, <2>7 DEF InQueue
    <3>2. OneQueued(Append(queue, b))
      BY <1>1, <3>1, OneInQueue
    <3>3. \A i \in DOMAIN Append(queue, b) :
             Append(queue, b)[i] = b \/ \E j \in DOMAIN queue : queue[j] = Append(queue, b)[i]
      BY <1>1, <3>1, OneInQueue
    <3> QED BY <2>6, <3>2, <3>3 DEF InQueue
  <2> QED
    <3>1. \A u \in Threads, c \in Buffers : Carries(u, c)' = Carries(u, c)
      BY <2>6 DEF Carries
    <3>2. OneOf(toVideoCore')
      BY <2>6 DEF CInv, Alone
    <3> HIDE DEF InQueue, Carries
    <3> QED BY <2>3, <2>4, <2>6, <2>7, <2>8, <3>1, <3>2 DEF CInv, Alone, Out
<1>3. CASE DeliverEvent
  <2>1. /\ toHost # <<>> /\ Head(toHost).kind = "event" /\ toHost' = Tail(toHost)
        /\ queue' = queue \/ queue' = Append(queue, Event)
        /\ UNCHANGED <<pc, hand, client, toVideoCore, filling>>
    BY <1>3 DEF DeliverEvent, QueueCallback, threadVars, portVars, queueVars
  <2>2. \A c : HasBuffer(toHost, c) <=> HasBuffer(toHost', c)
    BY <1>1, <2>1, Taken
  <2>3. OneOf(toHost')
    BY <1>1, <2>1, OneOfMessages
  <2>4. OneQueued(queue') /\ \A c \in Buffers : InQueue(c)' => InQueue(c)
    <3>1. OneQueued(Append(queue, Event))
      BY <1>1, OneInQueue
    <3>2. \A i \in DOMAIN Append(queue, Event) :
             \/ Append(queue, Event)[i] = Event
             \/ \E j \in DOMAIN queue : queue[j] = Append(queue, Event)[i]
      BY <1>1, OneInQueue
    <3> QED BY <1>1, <2>1, <3>1, <3>2 DEF InQueue
  <2> QED
    <3>1. \A u \in Threads, c \in Buffers : Carries(u, c)' = Carries(u, c)
      BY <2>1 DEF Carries
    <3>2. OneOf(toVideoCore')
      BY <2>1 DEF CInv, Alone
    <3> HIDE DEF InQueue, Carries
    <3> QED BY <2>1, <2>2, <2>3, <2>4, <3>1, <3>2 DEF CInv, Alone, Out
<1> QED BY <1>2, <1>3

\* A buffer stays in one place.
LEMMA AloneStep ==
    ASSUME CInv, [Next]_vars
    PROVE  Alone'
<1> USE DEF threadVars, portVars, queueVars
<1>1. CASE UNCHANGED vars
  BY <1>1, AloneKept DEF vars, CInv, Carries
<1>2. ASSUME NEW t \in Threads, Local(t) PROVE Alone'
  <2> USE PortAssumption DEF CInv, IInv, Types, Goto, Begin, Return, Lock, Answered, Carries
  <2>1. CASE (\E b \in Buffers : LockToSend(t, b)) \/ SendFails(t)
    BY <2>1, AloneSends
  <2>2. CASE TakeCallback(t) \/ CallBack(t)
    BY <2>2, AloneCalled
  <2>3. CASE Enable(t) \/ Disable(t) \/ Flush(t) \/ SetParameter(t) \/ RequestFails(t)
    BY <2>3, AloneKept DEF Enable, Disable, Flush, SetParameter, RequestFails
  <2>4. CASE CreatePool(t) \/ EnableAnswered(t) \/ EnableRefused(t) \/ SetEnabled(t)
    BY <2>4, AloneKept DEF CreatePool, EnableAnswered, EnableRefused, SetEnabled
  <2>5. CASE LockToDisable(t) \/ ClearEnabled(t) \/ LockActionToDisable(t) \/ DeletePool(t)
    BY <2>5, AloneKept DEF LockToDisable, ClearEnabled, LockActionToDisable, DeletePool
  <2>6. CASE Drained(t) \/ EnableAgain(t) \/ WaitForTransit(t)
    BY <2>6, AloneKept DEF Drained, EnableAgain, WaitForTransit
  <2>7. CASE LockToFlush(t) \/ FlushDisabled(t) \/ FlushOrSetAnswered(t)
    BY <2>7, AloneKept DEF LockToFlush, FlushDisabled, FlushOrSetAnswered
  <2>8. CASE CheckCallback(t)
    BY <2>8, AloneKept DEF CheckCallback
  <2>9. CASE CallReturns(t)
    BY <2>9, AloneKept DEF CallReturns
  <2>10. CASE t = Action /\ (WakeAction \/ StartAction \/ EndAction)
    BY <2>10, AloneKept DEF WakeAction, StartAction, EndAction
  <2> QED
    BY <1>2, <2>1, <2>2, <2>3, <2>4, <2>5, <2>6, <2>7, <2>8, <2>9, <2>10 DEF Local
<1>3. ASSUME NEW t \in Clients, Call(t) PROVE Alone'
  <2>1. t \in Threads /\ t # Action
    BY PortAssumption DEF Threads
  <2> QED BY <1>2, <1>3, <2>1 DEF Call, Local
<1>4. ASSUME NEW t \in Threads, Acquire(t) PROVE Alone'
  <2>1. CASE QueueRequest(t)
    <3>1. /\ \A u \in Threads, b \in Buffers : Carries(u, b)' => Carries(u, b)
          /\ UNCHANGED <<hand, client, queue, filling, toHost>>
          /\ toVideoCore' = Append(toVideoCore, Message("request", t))
      BY <2>1 DEF QueueRequest, Goto, Carries, CInv, IInv, Types
    <3>2. Message("request", t) \in AnyMessage /\ Message("request", t).kind = "request"
      BY DEF Message, AnyMessage, Kinds, Talk
    <3>3. toVideoCore \in Seq(AnyMessage)
      BY Links DEF CInv, IInv
    <3>4. OneOf(toVideoCore')
          /\ \A b : HasBuffer(toVideoCore', b) <=> HasBuffer(toVideoCore, b)
      BY <3>1, <3>2, <3>3, Appended, OneOfMessages DEF CInv, Alone
    <3> QED BY <3>1, <3>4 DEF CInv, Alone, Out, InQueue
  <2> QED BY <1>2, <1>4, <2>1 DEF Acquire, Local
<1>5. ASSUME NEW t \in Threads, Proceed(t) PROVE Alone'
  BY <1>2, <1>5, AloneSent, NoCrash DEF Proceed, Local, CInv
<1>6. CASE RunAction
  <2>1. Action \in Threads
    BY DEF Threads
  <2> QED BY <1>2, <1>6, <2>1 DEF RunAction, Local
<1>7. CASE DeliverReply
  BY <1>7, AloneTalk DEF DeliverReply
<1>8. CASE SendEvent
  <2>1. Message("event", Event) \in AnyMessage /\ Message("event", Event).kind = "event"
    BY DEF Message, AnyMessage, Kinds
  <2> QED BY <1>8, <2>1, AloneTalk DEF SendEvent
<1>9. ASSUME NEW status \in {"ok", "error"}, Reply(status) PROVE Alone'
  <2> DEFINE m == Message(status, Head(toVideoCore).what)
  <2>1. /\ toVideoCore # <<>> /\ Head(toVideoCore).kind = "request"
        /\ toVideoCore' = Tail(toVideoCore) /\ toHost' = Append(toHost, m)
        /\ UNCHANGED <<pc, hand, client, queue, filling>>
    BY <1>9 DEF Reply
  <2>2. Head(toVideoCore).what \in Threads
    <3>1. Head(toVideoCore) \in ToVideoCore
      BY <2>1 DEF CInv, IInv, Types
    <3> QED BY <2>1, <3>1 DEF ToVideoCore
  <2>3. m \in AnyMessage /\ m.kind # "buffer"
    BY <2>2 DEF Message, AnyMessage, Kinds, Talk
  <2> HIDE DEF m
  <2> QED BY <2>1, <2>3, AloneTalk
<1> QED
  BY <1>1, <1>3, <1>4, <1>5, <1>6, <1>7, <1>8, <1>9, AloneDelivered, AloneFilled
  DEF Next, Deliver, Replies

-----------------------------------------------------------------------------
(* The count.                                                              *)

\* The sets that are counted are finite.
LEMMA Finite ==
    /\ IsFiniteSet(Threads)
    /\ IsFiniteSet(Buffers \ client)
    /\ IsFiniteSet(Called)
    /\ Cardinality(Buffers \ client) \in Nat
    /\ Cardinality(Called) \in Nat
<1>1. IsFiniteSet(Threads)
  <2>1. IsFiniteSet(Clients \cup {Action})
    BY PortAssumption, FS_AddElement
  <2> QED BY <2>1 DEF Threads
<1>2. IsFiniteSet(Buffers \ client)
  BY PortAssumption, FS_Difference
<1>3. IsFiniteSet(Called)
  <2>1. Called \subseteq Threads
    BY DEF Called
  <2> QED BY <1>1, <2>1, FS_Subset
<1> QED BY <1>1, <1>2, <1>3, FS_CardinalityType

\* A step that neither moves the count nor what it counts.
LEMMA CountKept ==
    ASSUME TransitCounts, UNCHANGED <<transit, client>>,
           \A u \in Threads :
              pc'[u] = "called" /\ hand'[u] # None <=> pc[u] = "called" /\ hand[u] # None
    PROVE  TransitCounts'
<1>1. Called' = Called
  BY DEF Called
<1> QED BY <1>1 DEF TransitCounts, Called

\* A buffer begins to be sent, or could not be.
LEMMA CountSends ==
    ASSUME CInv, NEW t \in Threads,
           \/ \E b \in Buffers : LockToSend(t, b)
           \/ SendFails(t)
    PROVE  TransitCounts'
<1> DEFINE out == Buffers \ client
<1>0. transit = Cardinality(out) + Cardinality(Called) /\ client \subseteq Buffers
  BY DEF CInv, IInv, Types, TransitCounts, Called
<1>1. ASSUME NEW b \in Buffers, LockToSend(t, b) PROVE TransitCounts'
  <2>1. /\ b \in client /\ client' = client \ {b} /\ transit' = transit + 1
        /\ pc[t] = "idle" /\ pc'[t] = "send"
        /\ \A u \in Threads \ {t} : pc'[u] = pc[u] /\ hand'[u] = hand[u]
    BY <1>1 DEF LockToSend, CInv, IInv, Types, Goto, Begin
  <2>2. Called' = Called
    BY <2>1 DEF Called
  <2>3. out' = out \cup {b} /\ b \notin out
    BY <2>1
  <2>4. Cardinality(out \cup {b}) = Cardinality(out) + 1
    BY <2>3, Finite, FS_AddElement
  <2>5. transit' = Cardinality(out') + Cardinality(Called')
    <3>1. Cardinality(out') = Cardinality(out) + 1
      BY <2>3, <2>4
    <3>2. Cardinality(out) \in Nat /\ Cardinality(Called) \in Nat
      BY Finite
    <3> HIDE DEF out
    <3> QED BY <1>0, <2>1, <2>2, <3>1, <3>2
  <2> QED BY <2>5 DEF TransitCounts, Called
<1>2. CASE SendFails(t)
  <2> DEFINE b == hand[t]
  <2>1. /\ pc[t] = "send" /\ client' = client \cup {b} /\ transit' = transit - 1
        /\ pc'[t] = "idle"
        /\ \A u \in Threads \ {t} : pc'[u] = pc[u] /\ hand'[u] = hand[u]
    BY <1>2 DEF SendFails, CInv, IInv, Types, Goto, Begin, Return
  <2>2. Called' = Called
    BY <2>1 DEF Called
  <2>3. b \in Buffers /\ b \notin client
    BY <2>1 DEF CInv, IInv, Hands, Alone, Carries
  <2> HIDE DEF b
  <2>4. out' = out \ {b} /\ b \in out
    BY <2>1, <2>3
  <2>5. Cardinality(out \ {b}) = Cardinality(out) - 1
    BY <2>4, Finite, FS_RemoveElement
  <2>6. transit' = Cardinality(out') + Cardinality(Called')
    <3>1. Cardinality(out') = Cardinality(out) - 1
      BY <2>4, <2>5
    <3>2. Cardinality(out) \in Nat /\ Cardinality(Called) \in Nat
      BY Finite
    <3> HIDE DEF out
    <3> QED BY <1>0, <2>1, <2>2, <3>1, <3>2
  <2> QED BY <2>6 DEF TransitCounts, Called
<1> QED BY <1>1, <1>2

\* The callback begins with a buffer, and ends.
LEMMA CountCalls ==
    ASSUME CInv, NEW t \in Threads, CallBack(t) \/ CallReturns(t)
    PROVE  TransitCounts'
<1> DEFINE out == Buffers \ client
           b == hand[t]
<1>0. transit = Cardinality(out) + Cardinality(Called) /\ client \subseteq Buffers
  BY DEF CInv, IInv, Types, TransitCounts, Called
<1>1. CASE CallBack(t)
  <2>1. /\ pc[t] = "call" /\ pc'[t] = "called" /\ client' = client \cup ({b} \ {Event})
        /\ transit' = transit /\ hand'[t] = IF b = Event THEN None ELSE b
        /\ \A u \in Threads \ {t} : pc'[u] = pc[u] /\ hand'[u] = hand[u]
    BY <1>1 DEF CallBack, CInv, IInv, Types, Goto
  <2>2. b \in Buffers \cup {Event} /\ (b \in Buffers => b \notin client)
    BY <2>1 DEF CInv, IInv, Types, Hands, Alone, Carries
  <2> HIDE DEF b
  <2>3. CASE b = Event
    <3>1. Called' = Called /\ client' = client
      BY <2>1, <2>3 DEF Called
    <3> QED BY <2>1, <3>1 DEF CInv, TransitCounts, Called
  <2>4. CASE b \in Buffers
    <3>1. b # Event /\ b # None
      BY <2>4, PortAssumption
    <3>2. Called' = Called \cup {t} /\ t \notin Called
      BY <2>1, <3>1 DEF Called
    <3>3. out' = out \ {b} /\ b \in out
      BY <2>1, <2>2, <2>4, <3>1
    <3>4. /\ Cardinality(out \ {b}) = Cardinality(out) - 1
          /\ Cardinality(Called \cup {t}) = Cardinality(Called) + 1
      BY <3>2, <3>3, Finite, FS_RemoveElement, FS_AddElement
    <3>5. transit' = Cardinality(out') + Cardinality(Called')
      <4>1. /\ Cardinality(out') = Cardinality(out) - 1
            /\ Cardinality(Called') = Cardinality(Called) + 1
        BY <3>2, <3>3, <3>4
      <4>2. Cardinality(out) \in Nat /\ Cardinality(Called) \in Nat
        BY Finite
      <4> HIDE DEF out
      <4> QED BY <1>0, <2>1, <4>1, <4>2
    <3> QED BY <3>5 DEF TransitCounts, Called
  <2> QED BY <2>2, <2>3, <2>4
<1>2. CASE CallReturns(t)
  <2>1. /\ pc[t] = "called" /\ pc'[t] = "drain" /\ client' = client
        /\ transit' = IF b = None THEN transit ELSE transit - 1
        /\ \A u \in Threads \ {t} : pc'[u] = pc[u] /\ hand'[u] = hand[u]
    BY <1>2 DEF CallReturns, CInv, IInv, Types, Goto
  <2>2. CASE b = None
    <3>1. Called' = Called
      BY <2>1, <2>2 DEF Called
    <3> QED BY <2>1, <2>2, <3>1 DEF CInv, TransitCounts, Called
  <2>3. CASE b # None
    <3>1. Called' = Called \ {t} /\ t \in Called
      BY <2>1, <2>3 DEF Called
    <3>2. Cardinality(Called \ {t}) = Cardinality(Called) - 1
      BY <3>1, Finite, FS_RemoveElement
    <3>3. transit' = Cardinality(out') + Cardinality(Called')
      BY <1>0, <2>1, <2>3, <3>1, <3>2, Finite
    <3> QED BY <3>3 DEF TransitCounts, Called
  <2> QED BY <2>2, <2>3
<1> QED BY <1>1, <1>2

\* The count stays right.
LEMMA CountStep ==
    ASSUME CInv, [Next]_vars
    PROVE  TransitCounts'
<1> USE DEF threadVars, portVars
<1>0. TransitCounts
  BY DEF CInv
<1>1. CASE UNCHANGED vars
  BY <1>0, <1>1, CountKept DEF vars
<1>2. ASSUME NEW t \in Threads, Local(t) PROVE TransitCounts'
  <2> USE <1>0, PortAssumption
      DEF CInv, IInv, Types, Goto, Begin, Return, Lock, Answered
  <2>1. CASE (\E b \in Buffers : LockToSend(t, b)) \/ SendFails(t)
    BY <2>1, CountSends
  <2>2. CASE CallBack(t) \/ CallReturns(t)
    BY <2>2, CountCalls
  <2>3. CASE Enable(t) \/ Disable(t) \/ Flush(t) \/ SetParameter(t) \/ RequestFails(t)
    BY <2>3, CountKept DEF Enable, Disable, Flush, SetParameter, RequestFails
  <2>4. CASE CreatePool(t) \/ EnableAnswered(t) \/ EnableRefused(t) \/ SetEnabled(t)
    BY <2>4, CountKept DEF CreatePool, EnableAnswered, EnableRefused, SetEnabled
  <2>5. CASE LockToDisable(t) \/ ClearEnabled(t) \/ LockActionToDisable(t) \/ DeletePool(t)
    BY <2>5, CountKept DEF LockToDisable, ClearEnabled, LockActionToDisable, DeletePool
  <2>6. CASE Drained(t) \/ EnableAgain(t) \/ WaitForTransit(t)
    BY <2>6, CountKept DEF Drained, EnableAgain, WaitForTransit
  <2>7. CASE LockToFlush(t) \/ FlushDisabled(t) \/ FlushOrSetAnswered(t)
    BY <2>7, CountKept DEF LockToFlush, FlushDisabled, FlushOrSetAnswered
  <2>8. CASE TakeCallback(t) \/ CheckCallback(t)
    BY <2>8, CountKept DEF TakeCallback, CheckCallback
  <2>9. CASE t = Action /\ (WakeAction \/ StartAction \/ EndAction)
    BY <2>9, CountKept DEF WakeAction, StartAction, EndAction
  <2> QED
    BY <1>2, <2>1, <2>2, <2>3, <2>4, <2>5, <2>6, <2>7, <2>8, <2>9 DEF Local
<1>3. ASSUME NEW t \in Clients, Call(t) PROVE TransitCounts'
  <2>1. t \in Threads /\ t # Action
    BY PortAssumption DEF Threads
  <2> QED BY <1>2, <1>3, <2>1 DEF Call, Local
<1>4. ASSUME NEW t \in Threads, Acquire(t) PROVE TransitCounts'
  <2>1. CASE QueueRequest(t)
    BY <1>0, <2>1, CountKept DEF QueueRequest, Goto, CInv, IInv, Types
  <2> QED BY <1>2, <1>4, <2>1 DEF Acquire, Local
<1>5. ASSUME NEW t \in Threads, Proceed(t) PROVE TransitCounts'
  <2>1. CASE SendBuffer(t)
    BY <1>0, <2>1, CountKept DEF SendBuffer, Goto, Begin, Return, CInv, IInv, Types
  <2> QED BY <1>2, <1>5, <2>1, NoCrash DEF Proceed, Local, CInv
<1>6. CASE RunAction
  <2>1. Action \in Threads
    BY DEF Threads
  <2> QED BY <1>2, <1>6, <2>1 DEF RunAction, Local
<1>7. CASE Deliver \/ Accept \/ Replies \/ SendEvent \/ \E b \in Buffers : GiveBack(b)
  BY <1>0, <1>7, CountKept
  DEF Deliver, DeliverBuffer, DeliverEvent, DeliverReply, Accept, Replies, Reply, SendEvent,
      GiveBack
<1> QED
  BY <1>1, <1>3, <1>4, <1>5, <1>6, <1>7 DEF Next

-----------------------------------------------------------------------------
(* The theorems.                                                           *)

\* The whole invariant: no buffer is in two places, and the count is right.
THEOREM Counted ==
    ASSUME "disable" \notin Failing
    PROVE  Spec => []CInv
<1>1. Init => CInv
  <2> SUFFICES ASSUME Init PROVE CInv
    OBVIOUS
  <2>1. Alone
    BY NoMessages DEF Init, Alone, OneOf, OneQueued, Out, InQueue, Carries
  <2>2. Buffers \ client = {} /\ Called = {}
    BY DEF Init, Called
  <2>3. Cardinality(Buffers \ client) = 0 /\ Cardinality(Called) = 0
    BY <2>2, FS_EmptySet
  <2>4. TransitCounts
    BY <2>3 DEF Init, TransitCounts, Called
  <2> QED BY <2>1, <2>4, InitInv DEF CInv
<1>2. CInv /\ [Next]_vars => CInv'
  BY NextInv, AloneStep, CountStep DEF CInv
<1> QED BY <1>1, <1>2, PTL DEF Spec

\* A step leaves the flag of the crash alone, or sets it.
LEMMA Flagged ==
    [Next]_vars => crashed' = crashed \/ crashed' = TRUE
<1>1. CASE UNCHANGED vars
  BY <1>1 DEF vars
<1>2. ASSUME NEW t \in Clients, Call(t) PROVE UNCHANGED crashed
  BY <1>2 DEF Call, LockToSend, Enable, Disable, Flush, SetParameter
<1>3. ASSUME NEW t \in Threads, Acquire(t) PROVE UNCHANGED crashed
  BY <1>3
  DEF Acquire, QueueRequest, RequestFails, CreatePool, SetEnabled, LockToDisable, ClearEnabled,
      LockActionToDisable, EnableAgain, LockToFlush, FlushDisabled
<1>4. ASSUME NEW t \in Threads, Proceed(t) PROVE crashed' = crashed \/ crashed' = TRUE
  <2>1. CASE SendFromStalePool(t) \/ CallNull(t)
    BY <2>1 DEF SendFromStalePool, CallNull
  <2>2. CASE ~(SendFromStalePool(t) \/ CallNull(t))
    BY <1>4, <2>2
    DEF Proceed, SendBuffer, SendFails, EnableAnswered, EnableRefused, DeletePool, Drained,
        WaitForTransit, FlushOrSetAnswered, TakeCallback, CheckCallback, CallBack, CallReturns
  <2> QED BY <2>1, <2>2
<1>5. CASE RunAction \/ Accept \/ Replies \/ SendEvent \/ \E b \in Buffers : GiveBack(b)
  BY <1>5 DEF RunAction, WakeAction, StartAction, EndAction, Accept, Replies, Reply, SendEvent, GiveBack
<1>6. CASE Deliver
  BY <1>6 DEF Deliver, DeliverBuffer, DeliverEvent, DeliverReply
<1> QED
  BY <1>1, <1>2, <1>3, <1>4, <1>5, <1>6 DEF Next

\* The variables keep their types; the count never goes below zero.
THEOREM TypeCorrect ==
    ASSUME "disable" \notin Failing
    PROVE  Spec => []TypeOK
<1>1. Init => crashed \in BOOLEAN
  BY DEF Init
<1>2. crashed \in BOOLEAN /\ [Next]_vars => (crashed \in BOOLEAN)'
  BY Flagged
<1>3. CInv /\ crashed \in BOOLEAN => TypeOK
  <2> SUFFICES ASSUME CInv, crashed \in BOOLEAN PROVE TypeOK
    OBVIOUS
  <2>1. transit \in Nat
    BY Finite DEF CInv, TransitCounts, Called
  <2>2. /\ trigger \in BOOLEAN /\ running \in BOOLEAN
        /\ enabled \in BOOLEAN /\ callback \in BOOLEAN
    BY DEF CInv, IInv, Types
  <2>3. Types
    BY DEF CInv, IInv
  <2> QED BY <2>1, <2>2, <2>3 DEF Types, TypeOK, ToVideoCore, ToHost
<1> QED BY <1>1, <1>2, <1>3, Counted, PTL DEF Spec

\* mmal_port_disable waits for the buffers the program does not have, and for
\* the calls of its callback.
THEOREM CountRight ==
    ASSUME "disable" \notin Failing
    PROVE  Spec => []TransitCounts
<1>1. CInv => TransitCounts
  BY DEF CInv
<1> QED BY <1>1, Counted, PTL
=============================================================================
