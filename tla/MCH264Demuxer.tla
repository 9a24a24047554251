--------------------------- MODULE MCH264Demuxer ---------------------------
(* H264Demuxer on short streams of 00, 01 and the header byte of an IDR. *)
EXTENDS H264Demuxer

CONSTANT MaxChunk   \* bound: length of a chunk

SomeBytes  == {0, 1, 101}
SomeChunks == UNION {[1 .. n -> SomeBytes] : n \in 1 .. MaxChunk}
=============================================================================
