------------------------------ MODULE MCFraming -----------------------------
(***************************************************************************)
(* Framing over every byte stream up to a length, cut up in every way.     *)
(***************************************************************************)
EXTENDS Framing

CONSTANT MaxStream     \* bound: bytes of a stream

AllStreams == UNION {[1 .. n -> Byte] : n \in 0 .. MaxStream}
=============================================================================
