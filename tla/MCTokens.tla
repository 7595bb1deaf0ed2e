------------------------------- MODULE MCTokens -------------------------------
(* Instance of Tokens for TLC.                                               *)
EXTENDS Tokens
=============================================================================
