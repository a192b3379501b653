----------------------------- MODULE NaluIndices -----------------------------
(***************************************************************************)
(* H264::FindNaluIndices (src/src/h264_common.cc), called on one encoder   *)
(* buffer after another.  The search looks at every third byte and skips   *)
(* ahead when that byte cannot end a start code; its result is a global    *)
(* vector that outlives the call.  Offsets count from 0, as in the code;   *)
(* a size_t that would wrap shows as a negative number.                    *)
(***************************************************************************)
EXTENDS Integers, Sequences

CONSTANTS
    Buffers,  \* the contents a buffer may have
    Later     \* those of the second and later calls (bound of the runs)

ASSUME NaluAssumption ==
    Buffers \subseteq Seq(0..255) /\ Later \subseteq Buffers

VARIABLES
    buffer,        \* the argument of the present, or last, call
    i,             \* the loop's position
    nalu_indices,  \* the global vector
    pc             \* "scan" in the loop, "returned"

vars == <<buffer, i, nalu_indices, pc>>

Short      == 3  \* kNaluShortStartSequenceSize
Size       == Len(buffer)
End        == Size - Short
ByteAt(k)  == buffer[k + 1]

NaluIndex == [start_offset : Nat, payload_start_offset : Nat, payload_size : Int]

Init ==
    /\ buffer \in Buffers
    /\ i = 0
    /\ nalu_indices = <<>>
    /\ pc = IF Size < Short THEN "returned" ELSE "scan"

\* A call: a short buffer returns at once, with the vector as it was.
Call(b) ==
    /\ pc = "returned"
    /\ buffer' = b
    /\ i' = 0
    /\ IF Len(b) < Short THEN UNCHANGED <<nalu_indices, pc>>
                         ELSE nalu_indices' = <<>> /\ pc' = "scan"

Scanning == pc = "scan" /\ i < End

\* A byte above 1 ends no start code, and is in none.
SkipThree ==
    /\ Scanning /\ ByteAt(i + 2) > 1
    /\ i' = i + 3
    /\ UNCHANGED <<buffer, nalu_indices, pc>>

\* Mutant: a 0 is skipped together with the byte after it.
SkipTwo ==
    /\ Scanning /\ ByteAt(i + 2) = 0
    /\ i' = i + 2
    /\ UNCHANGED <<buffer, nalu_indices, pc>>

\* A 0 may be inside a start code.
SkipOne ==
    /\ Scanning /\ ByteAt(i + 2) = 0
    /\ i' = i + 1
    /\ UNCHANGED <<buffer, nalu_indices, pc>>

StartCode == ByteAt(i) = 0 /\ ByteAt(i + 1) = 0

SkipLoneOne ==
    /\ Scanning /\ ByteAt(i + 2) = 1 /\ ~StartCode
    /\ i' = i + 3
    /\ UNCHANGED <<buffer, nalu_indices, pc>>

\* The last unit found so far ends at `to`.
CloseLast(s, to) ==
    IF s = <<>> THEN s
    ELSE [s EXCEPT ![Len(s)].payload_size = to - s[Len(s)].payload_start_offset]

NewUnit(start) ==
    [start_offset |-> start, payload_start_offset |-> i + 3, payload_size |-> 0]

\* Mutant: the start code is always taken to have four bytes.
LongStartAlways == i - 1

LongStart == IF i > 0 /\ ByteAt(i - 1) = 0 THEN i - 1 ELSE i

\* Mutant: the unit before is closed before the fourth byte is looked at.
FindClosingEarly ==
    /\ Scanning /\ ByteAt(i + 2) = 1 /\ StartCode
    /\ nalu_indices' = Append(CloseLast(nalu_indices, i), NewUnit(LongStart))
    /\ i' = i + 3
    /\ UNCHANGED <<buffer, pc>>

\* A start code, of four bytes if a 0 precedes it, ends the unit before.
Find ==
    /\ Scanning /\ ByteAt(i + 2) = 1 /\ StartCode
    /\ nalu_indices' = Append(CloseLast(nalu_indices, LongStart), NewUnit(LongStart))
    /\ i' = i + 3
    /\ UNCHANGED <<buffer, pc>>

\* The last unit ends with the buffer.
Return ==
    /\ pc = "scan" /\ i >= End
    /\ nalu_indices' = CloseLast(nalu_indices, Size)
    /\ pc' = "returned"
    /\ UNCHANGED <<buffer, i>>

Step == SkipThree \/ SkipOne \/ SkipLoneOne \/ Find \/ Return

Next == Step \/ \E b \in Later : Call(b)

SafeSpec == Init /\ [][Next]_vars

\* A call runs on; nobody has to make another.
Spec == SafeSpec /\ WF_vars(Step)

-----------------------------------------------------------------------------
(* Properties.                                                             *)

\* The types of the variables.
TypeOK ==
    /\ buffer \in Buffers
    /\ i \in Nat
    /\ nalu_indices \in Seq(NaluIndex)
    /\ pc \in {"scan", "returned"}

Searched == pc = "returned" /\ Size >= Short

CodeAt(j) == ByteAt(j) = 0 /\ ByteAt(j + 1) = 0 /\ ByteAt(j + 2) = 1

\* Skipping misses nothing and invents nothing: the units are exactly the
\* start codes that have a byte after them.
FindsAll ==
    Searched =>
        {nalu_indices[k].payload_start_offset - 3 : k \in 1..Len(nalu_indices)}
            = {j \in 0..End - 1 : CodeAt(j)}

\* The units tile the buffer from the first start code to its end, in order,
\* so on_mmalcam_buffer copies no byte twice and none from outside; no
\* payload_size wraps below zero.
Tiled ==
    Searched =>
        \A k \in 1..Len(nalu_indices) :
            LET u == nalu_indices[k] IN
            /\ u.payload_size >= 0
            /\ u.payload_start_offset + u.payload_size
                = IF k = Len(nalu_indices) THEN Size ELSE nalu_indices[k + 1].start_offset

\* A unit starts with its whole start code, the leading 0 of a four-byte one
\* included, so that 0 is never left at the end of the unit before.
WholeStartCodes ==
    Searched =>
        \A k \in 1..Len(nalu_indices) :
            LET u == nalu_indices[k] IN
            /\ CodeAt(u.payload_start_offset - 3)
            /\ u.start_offset \in {u.payload_start_offset - 4, u.payload_start_offset - 3}
            /\ u.start_offset = u.payload_start_offset - 4
                <=> u.payload_start_offset > 3 /\ ByteAt(u.payload_start_offset - 4) = 0

=============================================================================
