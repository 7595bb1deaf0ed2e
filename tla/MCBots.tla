-------------------------------- MODULE MCBots --------------------------------
(* Instance of Bots for TLC.                                                  *)
EXTENDS Bots
===============================================================================
