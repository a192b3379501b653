---------------------------- MODULE FrameAssembly ----------------------------
(***************************************************************************)
(* on_mmalcam_buffer (src/src/main.cpp), which turns encoder buffers into  *)
(* frames for the clients, and sendInitialNalus, which MainThread executes *)
(* for a client whose track has opened.  They share, unguarded, the copies *)
(* of the last units of type 7 (SPS), 8 (PPS) and 5 (IDR picture).         *)
(*                                                                         *)
(* A buffer is the list of unit payloads FindNaluIndices found in it; a    *)
(* payload is its bytes, and the first byte holds its type.  Bytes before  *)
(* the first start code are in no payload: where the encoder cuts a unit   *)
(* over two buffers the code drops the rest of it, and so does the list.   *)
(* One client stands for all: Sessions has the map and the life of one.    *)
(***************************************************************************)
EXTENDS Integers, SequencesExt

CONSTANTS
    Buffers,   \* what the encoder may deliver: [config, units]
    Capacity,  \* bytes allocated for s_buf: 65554 in the code
    Junk       \* a byte never written

\* The four low bytes of a length, most significant first.
LengthBytes(n) == <<(n \div 16777216) % 256, (n \div 65536) % 256, (n \div 256) % 256, n % 256>>

\* What H264RtpPacketizer::Separator::Length prescribes for a list of units.
Framing(units) == FlattenSeq([k \in 1..Len(units) |-> LengthBytes(Len(units[k])) \o units[k]])

\* No unit is empty.  Nothing is assumed of the size of a buffer: nothing in
\* the code bounds it by that of s_buf.
ASSUME FrameAssumption ==
    /\ Capacity \in Nat /\ Junk \notin 0..255
    /\ \A b \in Buffers : b.config \in BOOLEAN /\ b.units \in Seq(Seq(0..255) \ {<<>>})

VARIABLES
    s_buf,         \* offset -> byte
    s_buf_length,
    pending_frame, \* the buffer before was a config buffer, and is withheld
    previousUnit,  \* per type: previousUnitType7, 8, 5, empty for nullopt
    buffer,        \* the buffer on_mmalcam_buffer was last called with
    jt,            \* the unit it is at
    start_ptr,     \* the offset of that unit's copy
    camera,        \* where on_mmalcam_buffer is
    client,        \* Client::State
    adding,        \* addToStream is being executed
    toCollect,     \* the types initialNALUS has still to collect
    units,         \* what initialNALUS has collected
    message,       \* what was last sent: by whom and its bytes
    crashed,       \* how the process has died, or "no"
    unsent,        \* history: the units received since the last frame ended
    latest         \* history: per type, the last unit received

cameraVars  == <<s_buf, s_buf_length, pending_frame, previousUnit, buffer, jt,
                 start_ptr, camera, unsent, latest>>
addingVars  == <<adding, toCollect, units>>
vars == <<cameraVars, client, addingVars, message, crashed>>

Kept      == {5, 7, 8}
NoMessage == [from |-> "nobody", data |-> <<>>]

Init ==
    /\ s_buf = [k \in 0..Capacity - 1 |-> Junk]
    /\ s_buf_length = 0
    /\ pending_frame = FALSE
    /\ previousUnit = [t \in Kept |-> <<>>]
    /\ buffer = [config |-> FALSE, units |-> <<>>]
    /\ jt = 1 /\ start_ptr = 0
    /\ camera = "idle"
    /\ client = "Waiting"
    /\ adding = FALSE /\ toCollect = <<>> /\ units = <<>>
    /\ message = NoMessage
    /\ crashed = "no"
    /\ unsent = <<>>
    /\ latest = [t \in Kept |-> <<>>]

Crash(how) ==
    /\ crashed' = how
    /\ UNCHANGED <<cameraVars, client, addingVars, message>>

-----------------------------------------------------------------------------
(* on_mmalcam_buffer, on the camcorder thread.                             *)

\* The buffer after a config buffer continues its frame; any other begins one.
Begin(b, length, first) ==
    /\ camera = "idle"
    /\ pending_frame' = (~pending_frame /\ b.config)
    /\ s_buf_length' = length
    /\ buffer' = b /\ jt' = first
    /\ camera' = "copy"
    /\ unsent' = unsent \o b.units
    /\ UNCHANGED <<s_buf, previousUnit, start_ptr, client, addingVars, message, crashed, latest>>

\* Mutants: each buffer begins a frame; only a config buffer does; jt is not reset.
BeginAlways(b)     == Begin(b, 0, 1)
BeginIfConfig(b)   == Begin(b, IF b.config THEN 0 ELSE s_buf_length, 1)
BeginWhereItWas(b) == Begin(b, IF pending_frame THEN s_buf_length ELSE 0, jt)

BeginBuffer(b) == Begin(b, IF pending_frame THEN s_buf_length ELSE 0, 1)

Unit == buffer.units[jt]
Copying == camera = "copy" /\ jt <= Len(buffer.units)
UnitType == Unit[1] % 32    \* ParseNaluType

\* The four length bytes and the payload go to the end of s_buf; a unit of a
\* kept type is then stored.
CopyUnit ==
    /\ Copying
    /\ LET copy == LengthBytes(Len(Unit)) \o Unit
       IN  /\ s_buf_length + Len(copy) <= Capacity
           /\ s_buf' = [k \in 0..Capacity - 1 |->
                  IF k - s_buf_length \in 0..Len(copy) - 1 THEN copy[k - s_buf_length + 1] ELSE s_buf[k]]
           /\ s_buf_length' = s_buf_length + Len(copy)
    /\ start_ptr' = s_buf_length
    /\ IF UnitType \in Kept THEN camera' = "store" /\ UNCHANGED jt
                            ELSE jt' = jt + 1 /\ UNCHANGED camera
    /\ UNCHANGED <<pending_frame, previousUnit, buffer, client, addingVars, message,
                   crashed, unsent, latest>>

\* Nothing checks that the copy stays within s_buf.
Overflow ==
    /\ Copying
    /\ s_buf_length + 4 + Len(Unit) > Capacity
    /\ Crash("overflow")

\* The bytes of s_buf from one offset up to, and without, another.
Bytes(from, to) ==
    [k \in 1..to - from |-> IF from + k - 1 < Capacity THEN s_buf[from + k - 1] ELSE Junk]

Store(copy) ==
    /\ camera = "store"
    /\ previousUnit' = [previousUnit EXCEPT ![UnitType] = copy]
    /\ latest' = [latest EXCEPT ![UnitType] = Unit]
    /\ jt' = jt + 1
    /\ camera' = "copy"
    /\ UNCHANGED <<s_buf, s_buf_length, pending_frame, buffer, start_ptr, client, addingVars,
                   message, crashed, unsent>>

\* {start_ptr + 4, start_ptr + s_buf_length}: s_buf_length already counts the
\* units before this one and the unit itself.
StoreUnit == Store(Bytes(start_ptr + 4, start_ptr + s_buf_length))

\* A complete frame is sent to a client that is Ready; a config buffer waits.
EndBuffer ==
    /\ camera = "copy" /\ jt > Len(buffer.units)
    /\ camera' = "idle"
    /\ message' = IF ~pending_frame /\ client = "Ready"
                  THEN [from |-> "camera", data |-> Bytes(0, s_buf_length)] ELSE NoMessage
    /\ unsent' = IF pending_frame THEN unsent ELSE <<>>
    /\ UNCHANGED <<s_buf, s_buf_length, pending_frame, previousUnit, buffer, jt, start_ptr,
                   client, addingVars, crashed, latest>>

-----------------------------------------------------------------------------
(* addToStream and sendInitialNalus, on MainThread.                        *)

SetReady ==
    /\ client = "Waiting" /\ ~adding
    /\ client' = "Ready"
    /\ adding' = TRUE /\ toCollect' = <<7, 8, 5>> /\ units' = <<>>
    /\ UNCHANGED <<cameraVars, message, crashed>>

\* initialNALUS appends the stored units, with nothing before them.
Collect ==
    /\ toCollect # <<>>
    /\ units' = units \o previousUnit[Head(toCollect)]
    /\ toCollect' = Tail(toCollect)
    /\ UNCHANGED <<cameraVars, client, adding, message, crashed>>

\* A stored unit is assigned while it is being copied.
Race ==
    /\ camera = "store" /\ toCollect # <<>>
    /\ UnitType = Head(toCollect)
    /\ Crash("race")

\* The units are sent, twice, if there are any.
SendInitial ==
    /\ adding /\ toCollect = <<>>
    /\ adding' = FALSE
    /\ message' = IF units = <<>> THEN message ELSE [from |-> "MainThread", data |-> units]
    /\ UNCHANGED <<cameraVars, client, toCollect, units, crashed>>

\* The client leaves, and another is there to be added.
Replace ==
    /\ client = "Ready" /\ ~adding
    /\ client' = "Waiting"
    /\ UNCHANGED <<cameraVars, addingVars, message, crashed>>

-----------------------------------------------------------------------------
CameraStep == (\E b \in Buffers : BeginBuffer(b)) \/ CopyUnit \/ Overflow \/ StoreUnit \/ EndBuffer
MainStep   == SetReady \/ Collect \/ Race \/ SendInitial

Next ==
    \/ crashed = "no" /\ (CameraStep \/ MainStep \/ Replace)
    \/ crashed # "no" /\ UNCHANGED vars

Spec == Init /\ [][Next]_vars

-----------------------------------------------------------------------------
(* Properties.                                                             *)

Byte == 0..255 \union {Junk}

\* The types of the variables.
TypeOK ==
    /\ s_buf \in [0..Capacity - 1 -> Byte]
    /\ s_buf_length \in 0..Capacity
    /\ pending_frame \in BOOLEAN
    /\ previousUnit \in [Kept -> Seq(Byte)]
    /\ buffer \in Buffers \union {[config |-> FALSE, units |-> <<>>]}
    /\ jt \in 1..Len(buffer.units) + 1
    /\ start_ptr \in 0..Capacity
    /\ camera \in {"idle", "copy", "store"}
    /\ client \in {"Waiting", "Ready"}
    /\ adding \in BOOLEAN
    /\ toCollect \in Seq(Kept)
    /\ units \in Seq(Byte)
    /\ message \in [from : {"nobody", "camera", "MainThread"}, data : Seq(Byte)]
    /\ crashed \in {"no", "overflow", "race"}
    /\ unsent \in Seq(Seq(0..255))
    /\ latest \in [Kept -> Seq(0..255)]

\* A frame that is sent is all the units found since the frame before, once
\* each, in order and each behind its length: a config buffer is neither sent
\* alone, nor lost, nor left in front of a later frame.
FrameIsWhole ==
    [][camera' = "idle" /\ camera # "idle" /\ message' # NoMessage
          => message'.data = Framing(unsent)]_vars

\* s_buf overflows only where the frame at hand, with the config buffer it is
\* joined to, is itself longer than s_buf: nothing of a frame that was sent takes
\* up room, and no sequence of buffers uses s_buf up.
OverflowOnlyIfTooLong == crashed = "overflow" => Len(Framing(unsent)) > Capacity

\* "send previous NALU key frame" (main.cpp:369): what a client that is added is
\* sent first is the last SPS, PPS and IDR picture, each behind its length as
\* the separator the program chose (main.cpp:171) prescribes, and no more.
NewcomerGetsKeyFrame ==
    [][message' # message /\ message'.from = "MainThread" =>
          message'.data = Framing(SelectSeq(<<latest[7], latest[8], latest[5]>>,
                                            LAMBDA unit : unit # <<>>))]_vars
=============================================================================
