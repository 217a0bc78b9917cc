------------------------------ MODULE MCAgent -------------------------------
(* Instances of Agent for TLC.                                             *)
EXTENDS Agent

MCDeadline == 0 .. 1
=============================================================================
