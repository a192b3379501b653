-------------------------------- MODULE Drive --------------------------------
(***************************************************************************)
(* The throttle, from the keys and buttons of the control page             *)
(* (webroot/js/main.js) through the data channel to the motor              *)
(* (src/main.cpp, dc->onMessage and pc->onStateChange).  Steering is the   *)
(* same loop with other numbers.                                           *)
(*                                                                         *)
(* The page moves dataY towards a target at each animation frame, and      *)
(* sends it when at least 20 ms have gone by since it last did.  A hidden  *)
(* page has no frames, and its first frame after that is a long one.       *)
(* Pulses are in units of 100 us, factors in thousandths, time in ms.       *)
(***************************************************************************)
EXTENDS Integers, Sequences

CONSTANTS
    Frames,         \* the times an animation frame may last
    MaxInFlight     \* bound: messages on the data channel

VARIABLES
    held,           \* the keys and buttons that are down
    missed,         \* history: a release of the throttle went unseen, and no
                    \* other was seen since
    slow,           \* history: a frame was so long that the step overshot
    targetThrottleValue, moveFactor2, dataY,
    timerSendDC,
    visible,        \* the page has animation frames
    channel,        \* messages on the way to the program
    link,           \* the peer connection: "new", "open", "lost"
    motor           \* the last pulse bldc->servo was given

pageVars == <<targetThrottleValue, moveFactor2, dataY, timerSendDC>>
vars == <<held, missed, slow, pageVars, visible, channel, link, motor>>

THROTTLE_MIN == 12
THROTTLE_MID == 15
THROTTLE_MAX == 16
sendDCInterval == 20

\* What a press sets; a release of any of them sets the target and dataY.
Controls == {"KeyW", "KeyS", "btnUp", "btnDown"}
Target == [c \in Controls |->
    IF c \in {"KeyW", "btnUp"} THEN THROTTLE_MIN ELSE THROTTLE_MAX]
Factor == [c \in Controls |-> IF c = "btnDown" THEN 80 ELSE 5]

\* A factor of 50, at first; the product in updateThrottleValue is
\* factor / 1000 * dt * 60 / 1000.
Gain(dt) == moveFactor2 * dt * 60
One == 1000000

ASSUME DriveAssumption ==
    /\ Frames \subseteq Nat
    /\ MaxInFlight \in Nat \ {0}

Between(a, b) == (a..b) \cup (b..a)

\* The pulses are doubles in the page: a step that does not overshoot ends
\* somewhere on the way, rounded.
Moved(dt) ==
    IF Gain(dt) <= One \/ dataY = targetThrottleValue
    THEN Between(dataY, targetThrottleValue)
    ELSE {targetThrottleValue
            + ((targetThrottleValue - dataY) * (Gain(dt) - One)) \div One}

Init ==
    /\ held = {}
    /\ missed = FALSE
    /\ slow = FALSE
    /\ targetThrottleValue = THROTTLE_MID
    /\ moveFactor2 = 50
    /\ dataY = THROTTLE_MID
    /\ timerSendDC = 0
    /\ visible = TRUE
    /\ channel = <<>>
    /\ link = "new"
    /\ motor = THROTTLE_MID

\* A key that is held also repeats its keydown.
Press(c) ==
    /\ held' = held \cup {c}
    /\ targetThrottleValue' = Target[c]
    /\ moveFactor2' = Factor[c]
    /\ UNCHANGED <<missed, slow, dataY, timerSendDC, visible, channel, link,
                   motor>>

\* Mutant: the pulse goes back with the target.
ReleaseSmoothly(c) ==
    /\ c \in held
    /\ held' = held \ {c}
    /\ targetThrottleValue' = THROTTLE_MID
    /\ missed' = FALSE
    /\ UNCHANGED <<slow, moveFactor2, dataY, timerSendDC, visible, channel, link,
                   motor>>

Release(c) ==
    /\ c \in held
    /\ held' = held \ {c}
    /\ targetThrottleValue' = THROTTLE_MID
    /\ dataY' = THROTTLE_MID
    /\ missed' = FALSE
    /\ UNCHANGED <<slow, moveFactor2, timerSendDC, visible, channel, link,
                   motor>>

\* The page has lost the focus, or the pointer has left the button.
ReleaseUnseen(c) ==
    /\ c \in held
    /\ held' = held \ {c}
    /\ missed' = TRUE
    /\ UNCHANGED <<slow, pageVars, visible, channel, link, motor>>

\* Mutant: the timer is not reset.
FrameKeepsTimer(dt) ==
    /\ visible
    /\ Len(channel) < MaxInFlight
    /\ dataY' \in Moved(dt)
    /\ slow' = (slow \/ Gain(dt) > One)
    /\ timerSendDC' = timerSendDC + dt
    /\ channel' = IF timerSendDC + dt >= sendDCInterval /\ link = "open"
                  THEN Append(channel, dataY') ELSE channel
    /\ UNCHANGED <<held, missed, targetThrottleValue, moveFactor2, visible,
                   link, motor>>

\* Mutant: a pulse that has not changed is not sent.
FrameIfChanged(dt) ==
    /\ visible
    /\ Len(channel) < MaxInFlight
    /\ dataY' \in Moved(dt)
    /\ slow' = (slow \/ Gain(dt) > One)
    /\ timerSendDC' = IF timerSendDC + dt >= sendDCInterval THEN 0
                      ELSE timerSendDC + dt
    /\ channel' = IF timerSendDC + dt >= sendDCInterval /\ link = "open" /\ dataY' # dataY
                  THEN Append(channel, dataY') ELSE channel
    /\ UNCHANGED <<held, missed, targetThrottleValue, moveFactor2, visible,
                   link, motor>>

\* One call of loop.
Frame(dt) ==
    /\ visible
    /\ Len(channel) < MaxInFlight
    /\ dataY' \in Moved(dt)
    /\ slow' = (slow \/ Gain(dt) > One)
    /\ timerSendDC' = IF timerSendDC + dt >= sendDCInterval THEN 0
                      ELSE timerSendDC + dt
    /\ channel' = IF timerSendDC + dt >= sendDCInterval /\ link = "open"
                  THEN Append(channel, dataY') ELSE channel
    /\ UNCHANGED <<held, missed, targetThrottleValue, moveFactor2, visible,
                   link, motor>>

HideOrShow ==
    /\ visible' = ~visible
    /\ UNCHANGED <<held, missed, slow, pageVars, channel, link, motor>>

Open ==
    /\ link = "new"
    /\ link' = "open"
    /\ UNCHANGED <<held, missed, slow, pageVars, visible, channel, motor>>

\* dc->onMessage: the channel is ordered and reliable.
Deliver ==
    /\ link = "open"
    /\ channel # <<>>
    /\ motor' = Head(channel)
    /\ channel' = Tail(channel)
    /\ UNCHANGED <<held, missed, slow, pageVars, visible, link>>

\* The connection is lost or closed: pc->onStateChange stops the motor.
Lose ==
    /\ link = "open"
    /\ link' = "lost"
    /\ channel' = <<>>
    /\ motor' = THROTTLE_MID
    /\ UNCHANGED <<held, missed, slow, pageVars, visible>>

Next ==
    \/ \E c \in Controls : Press(c) \/ Release(c) \/ ReleaseUnseen(c)
    \/ \E dt \in Frames : Frame(dt)
    \/ HideOrShow \/ Open \/ Deliver \/ Lose

\* A visible page has frames, and the channel delivers.
Fairness ==
    /\ WF_vars(\E dt \in Frames : dt > 0 /\ Frame(dt))
    /\ WF_vars(Deliver)

Spec == Init /\ [][Next]_vars /\ Fairness

-----------------------------------------------------------------------------
(* Properties.                                                             *)

\* The types of the variables.
TypeOK ==
    /\ held \subseteq Controls
    /\ missed \in BOOLEAN
    /\ slow \in BOOLEAN
    /\ targetThrottleValue \in {THROTTLE_MIN, THROTTLE_MID, THROTTLE_MAX}
    /\ moveFactor2 \in {5, 50, 80}
    /\ dataY \in Int
    /\ timerSendDC \in 0..sendDCInterval - 1
    /\ visible \in BOOLEAN
    /\ channel \in Seq(Int)
    /\ Len(channel) <= MaxInFlight
    /\ link \in {"new", "open", "lost"}
    /\ motor \in Int

HandsOff == held = {} /\ ~missed

\* The motor is given no pulse outside the range of the page, as long as no
\* frame took longer than 1000 / (60 * factor) ms: there the smoothing step
\* goes past its target.
PulseInRange == ~slow => motor \in THROTTLE_MIN..THROTTLE_MAX

\* With every control released, the page sends the neutral pulse and no other,
\* whatever was held together, in which order it was released and how long the
\* frames take.
NeutralWhenReleased ==
    [][HandsOff /\ channel' # channel /\ channel' # <<>>
       /\ Len(channel') > Len(channel)
            => channel'[Len(channel')] = THROTTLE_MID]_vars

\* And the motor comes to rest, if the page stays visible and connected:
\* messages that were under way do not leave it running.
ReleaseStopsMotor ==
    <>[](HandsOff /\ visible /\ link = "open") => <>[](motor = THROTTLE_MID)
=============================================================================
