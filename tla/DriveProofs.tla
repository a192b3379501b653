----------------------------- MODULE DriveProofs -----------------------------
(***************************************************************************)
(* Proofs about the throttle, for frames of any length and a data channel  *)
(* of any capacity: what it is when every control is released, and the     *)
(* range of the pulses that reach the motor.                               *)
(***************************************************************************)
EXTENDS Drive, TLAPS

\* With every control released the pulse and its target are neutral, already
\* before the next frame.
AtRest ==
    HandsOff => dataY = THROTTLE_MID /\ targetThrottleValue = THROTTLE_MID

\* What the page holds, what is under way and what the motor has.
Pulses == THROTTLE_MIN..THROTTLE_MAX
AllInRange ==
    ~slow => /\ dataY \in Pulses
             /\ motor \in Pulses
             /\ \A i \in DOMAIN channel : channel[i] \in Pulses

IInv == TypeOK /\ AtRest /\ AllInRange

\* A step of the smoothing gives a pulse, and one on the way when it does not
\* overshoot.
LEMMA MovedPulse ==
    ASSUME TypeOK, NEW dt \in Nat, NEW y \in Moved(dt)
    PROVE  /\ y \in Int
           /\ dataY = targetThrottleValue => y = dataY
           /\ Gain(dt) <= One /\ dataY \in Pulses => y \in Pulses
<1>1. dataY \in Int /\ targetThrottleValue \in {12, 15, 16} /\ moveFactor2 \in Int
  BY DEF TypeOK, THROTTLE_MIN, THROTTLE_MID, THROTTLE_MAX
<1>2. Gain(dt) \in Int /\ One = 1000000
  BY <1>1 DEF Gain, One
<1>3. CASE Gain(dt) <= One \/ dataY = targetThrottleValue
  <2>1. y \in Between(dataY, targetThrottleValue)
    BY <1>3 DEF Moved
  <2>2. QED
    BY <2>1, <1>1 DEF Between, Pulses, THROTTLE_MIN, THROTTLE_MAX
<1>4. CASE ~(Gain(dt) <= One \/ dataY = targetThrottleValue)
  <2> DEFINE over == (targetThrottleValue - dataY) * (Gain(dt) - One)
  <2>1. over \in Int
    BY <1>1, <1>2
  <2>2. over \div One \in Int
    <3> HIDE DEF over
    <3> QED BY <2>1, <1>2
  <2>3. y = targetThrottleValue + (over \div One)
    BY <1>4 DEF Moved
  <2> HIDE DEF over
  <2> QED BY <2>2, <2>3, <1>1, <1>4
<1> QED BY <1>3, <1>4

\* The page starts with the controls released and a neutral pulse.
LEMMA InitInv == Init => IInv
<1> SUFFICES ASSUME Init PROVE IInv
  OBVIOUS
<1> USE DEF Init, THROTTLE_MIN, THROTTLE_MID, THROTTLE_MAX
<1>1. channel \in Seq(Int) /\ Len(channel) = 0 /\ DOMAIN channel = {}
  OBVIOUS
<1>2. TypeOK
  <2>1. Len(channel) <= MaxInFlight
    BY <1>1, DriveAssumption
  <2>2. timerSendDC \in 0..sendDCInterval - 1
    BY DEF sendDCInterval
  <2>3. held \subseteq Controls /\ channel \in Seq(Int)
    BY <1>1
  <2>4. /\ missed \in BOOLEAN /\ slow \in BOOLEAN /\ visible \in BOOLEAN
        /\ link \in {"new", "open", "lost"}
    OBVIOUS
  <2>5. /\ targetThrottleValue \in {THROTTLE_MIN, THROTTLE_MID, THROTTLE_MAX}
        /\ moveFactor2 \in {5, 50, 80} /\ dataY \in Int /\ motor \in Int
    OBVIOUS
  <2> HIDE DEF Init, THROTTLE_MIN, THROTTLE_MID, THROTTLE_MAX
  <2> QED BY <2>1, <2>2, <2>3, <2>4, <2>5 DEF TypeOK
<1>3. AtRest /\ AllInRange
  BY <1>1 DEF AtRest, AllInRange, Pulses
<1> QED BY <1>2, <1>3 DEF IInv

\* Every step of the page, the data channel and the motor keeps the invariant.
LEMMA NextInv == IInv /\ [Next]_vars => IInv'
<1> SUFFICES ASSUME IInv, [Next]_vars PROVE IInv'
  OBVIOUS
<1> USE DriveAssumption DEF IInv, pageVars
<1>1. ASSUME NEW c \in Controls, Press(c) PROVE IInv'
  <2>1. TypeOK'
    BY <1>1 DEF TypeOK, Press, Target, Factor, THROTTLE_MIN, THROTTLE_MID, THROTTLE_MAX
  <2>2. AtRest'
    BY <1>1 DEF AtRest, HandsOff, Press
  <2>3. AllInRange'
    BY <1>1 DEF AllInRange, Press
  <2> QED BY <2>1, <2>2, <2>3
<1>2. ASSUME NEW c \in Controls, Release(c) PROVE IInv'
  <2>1. TypeOK'
    <3>1. held' \subseteq Controls /\ missed' \in BOOLEAN
      BY <1>2 DEF TypeOK, Release
    <3>2. dataY' \in Int /\ targetThrottleValue' \in {12, 15, 16}
      BY <1>2 DEF Release, THROTTLE_MID
    <3> QED
      BY <1>2, <3>1, <3>2
      DEF TypeOK, Release, THROTTLE_MIN, THROTTLE_MID, THROTTLE_MAX
  <2>2. AtRest'
    BY <1>2 DEF AtRest, Release
  <2>3. AllInRange'
    BY <1>2 DEF AllInRange, Release, Pulses, THROTTLE_MIN, THROTTLE_MID, THROTTLE_MAX
  <2> QED BY <2>1, <2>2, <2>3
<1>3. ASSUME NEW c \in Controls, ReleaseUnseen(c) PROVE IInv'
  BY <1>3 DEF TypeOK, AtRest, HandsOff, AllInRange, ReleaseUnseen
<1>4. ASSUME NEW dt \in Frames, Frame(dt) PROVE IInv'
  <2>0. dt \in Nat
    OBVIOUS
  <2>1. PICK y \in Moved(dt) : dataY' = y
    BY <1>4 DEF Frame
  <2>2. /\ y \in Int
        /\ dataY = targetThrottleValue => y = dataY
        /\ Gain(dt) <= One /\ dataY \in Pulses => y \in Pulses
    BY <2>0, <2>1, MovedPulse
  <2>3. channel' = channel \/ (channel' = Append(channel, y) /\ Len(channel) < MaxInFlight)
    BY <1>4, <2>1 DEF Frame
  <2>4. Gain(dt) \in Int /\ One \in Int
    BY <2>0 DEF Gain, One, TypeOK
  <2>5. TypeOK'
    BY <1>4, <2>0, <2>1, <2>2, <2>3 DEF TypeOK, Frame, sendDCInterval
  <2>6. AtRest'
    BY <1>4, <2>1, <2>2 DEF AtRest, HandsOff, Frame
  <2>7. AllInRange'
    <3> SUFFICES ASSUME ~slow' PROVE AllInRange'
      BY DEF AllInRange
    <3>1. ~slow /\ Gain(dt) <= One
      <4>1. (slow \/ Gain(dt) > One) = FALSE
        BY <1>4 DEF Frame
      <4> QED BY <4>1, <2>4
    <3>2. y \in Pulses /\ motor' \in Pulses
      BY <1>4, <2>2, <3>1 DEF AllInRange, Frame
    <3>3. \A i \in DOMAIN channel' : channel'[i] \in Pulses
      <4>1. \A i \in DOMAIN channel : channel[i] \in Pulses
        BY <3>1 DEF AllInRange
      <4>2. CASE channel' = channel
        BY <4>1, <4>2
      <4>3. CASE channel' = Append(channel, y)
        <5>1. channel \in Seq(Int) /\ y \in Int
          BY <2>2 DEF TypeOK
        <5> QED BY <4>1, <4>3, <5>1, <3>2
      <4> QED BY <2>3, <4>2, <4>3
    <3> QED BY <2>1, <3>2, <3>3 DEF AllInRange
  <2> QED BY <2>5, <2>6, <2>7
<1>5. CASE HideOrShow
  BY <1>5 DEF TypeOK, AtRest, HandsOff, AllInRange, HideOrShow
<1>6. CASE Open
  BY <1>6 DEF TypeOK, AtRest, HandsOff, AllInRange, Open
<1>7. CASE Deliver
  <2>1. Head(channel) \in Int /\ Tail(channel) \in Seq(Int)
        /\ Len(Tail(channel)) = Len(channel) - 1
        /\ \A i \in DOMAIN Tail(channel) : Tail(channel)[i] = channel[i + 1] /\ i + 1 \in DOMAIN channel
        /\ Head(channel) = channel[1] /\ 1 \in DOMAIN channel
    BY <1>7 DEF Deliver, TypeOK
  <2>2. TypeOK'
    BY <1>7, <2>1 DEF TypeOK, Deliver
  <2>3. AtRest'
    BY <1>7 DEF AtRest, HandsOff, Deliver
  <2>4. AllInRange'
    BY <1>7, <2>1 DEF AllInRange, Deliver
  <2> QED BY <2>2, <2>3, <2>4
<1>8. CASE Lose
  BY <1>8 DEF TypeOK, AtRest, HandsOff, AllInRange, Lose, Pulses, THROTTLE_MIN,
              THROTTLE_MID, THROTTLE_MAX
<1>9. CASE UNCHANGED vars
  BY <1>9 DEF TypeOK, AtRest, HandsOff, AllInRange, vars
<1> QED
  BY <1>1, <1>2, <1>3, <1>4, <1>5, <1>6, <1>7, <1>8, <1>9 DEF Next

\* The inductive invariant: types, the neutral pulse at rest, and the range of
\* every pulse between the page and the motor.
THEOREM Invariant == Spec => []IInv
  BY InitInv, NextInv, PTL DEF Spec

\* The variables keep their types; the timer of the messages stays below its
\* interval whatever a frame lasts.
THEOREM TypeCorrect == Spec => []TypeOK
  BY Invariant, PTL DEF IInv

\* The motor is given no pulse outside the range of the page, as long as no
\* frame was so long that the smoothing went past its target.
THEOREM MotorInRange == Spec => []PulseInRange
<1>1. IInv => PulseInRange
  BY DEF IInv, AllInRange, PulseInRange, Pulses
<1> QED BY <1>1, Invariant, PTL

\* With every control released, loop sends the neutral pulse and no other.
THEOREM SendsNeutral == Spec => NeutralWhenReleased
<1>1. IInv /\ [Next]_vars
      => (HandsOff /\ channel' # channel /\ channel' # <<>>
            /\ Len(channel') > Len(channel)
               => channel'[Len(channel')] = THROTTLE_MID)
  <2> SUFFICES ASSUME IInv, [Next]_vars, HandsOff, channel' # channel,
                      channel' # <<>>, Len(channel') > Len(channel)
               PROVE  channel'[Len(channel')] = THROTTLE_MID
    OBVIOUS
  <2> USE DriveAssumption DEF IInv, TypeOK
  <2>1. ~Deliver /\ ~Lose
    <3>1. ASSUME Deliver PROVE FALSE
      <4>1. ~(Len(Tail(channel)) > Len(channel))
        <5>1. \A s \in Seq(Int) : s # <<>> => ~(Len(Tail(s)) > Len(s))
          OBVIOUS
        <5> QED BY <5>1, <3>1 DEF Deliver
      <4> QED BY <3>1, <4>1 DEF Deliver
    <3>2. ASSUME Lose PROVE FALSE
      BY <3>2 DEF Lose
    <3> QED BY <3>1, <3>2
  <2>2. PICK dt \in Frames : Frame(dt)
    BY <2>1 DEF Next, Press, Release, ReleaseUnseen, HideOrShow, Open, vars
  <2>3. PICK y \in Moved(dt) : dataY' = y
    BY <2>2 DEF Frame
  <2>4. y = THROTTLE_MID
    BY <2>3, MovedPulse DEF AtRest
  <2>5. channel' = Append(channel, y)
    BY <2>2, <2>3 DEF Frame
  <2> QED BY <2>4, <2>5 DEF THROTTLE_MID
<1> QED BY <1>1, Invariant, PTL DEF Spec, NeutralWhenReleased
=============================================================================
