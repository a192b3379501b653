--------------------------- MODULE MCFrameAssembly ---------------------------
(* A small instance of FrameAssembly for TLC. *)
EXTENDS FrameAssembly

sps   == <<103, 1>>
pps   == <<104>>
idr   == <<101, 2>>
slice == <<65>>
long  == <<65, 3, 3, 3, 3, 3, 3, 3>>
huge  == long \o long

\* The encoder's headers; pictures, with and without headers in line; a picture
\* that fits s_buf only if it is alone in it; one that does not fit at all; and
\* the middle of a picture, where no unit begins.
MCBuffers ==
    {[config |-> TRUE, units |-> <<sps, pps>>]}
      \union {[config |-> FALSE, units |-> u] : u \in {<<>>, <<idr>>, <<slice>>, <<sps, pps, idr>>, <<long>>, <<huge>>}}

\* Room for the headers and the IDR picture.
MCCapacity == 17
=============================================================================
