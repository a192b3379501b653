---------------------------- MODULE MCNaluIndices ----------------------------
(* A small instance of NaluIndices for TLC: bytes 0, 1 and, for the rest, 2. *)
EXTENDS NaluIndices

UpTo(n) == UNION {[1..m -> 0..2] : m \in 0..n}

\* Eight bytes hold two start codes, one of them long, and a byte after them.
MCBuffers == UpTo(8)

\* Later calls: every buffer that is too short, and some that are not.
MCLater == UpTo(4)
=============================================================================
