---------------------------- MODULE MCRedisCounter ---------------------------
(* Instance of RedisCounter for TLC.                                         *)
EXTENDS RedisCounter, TLC

\* One watermark below, one at and one above what INCR can count to.
MCWatermarks == {0, 2, 3, 5}
Symmetry == Permutations(Callers)
=============================================================================
