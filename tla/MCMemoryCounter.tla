--------------------------- MODULE MCMemoryCounter ---------------------------
(* Instances of MemoryCounter for TLC.                                       *)
EXTENDS MemoryCounter

\* MaxCount is the largest exact number.
MCWatermarks == {0, MaxCount}
=============================================================================
