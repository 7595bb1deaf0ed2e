------------------------------ MODULE MCGateway ------------------------------
(* Instances of Gateway for TLC.  Sockets and senders are interchangeable.   *)
EXTENDS Gateway, TLC

Symmetry == Permutations(Sockets) \cup Permutations(Senders)
=============================================================================
