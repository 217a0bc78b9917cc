-------------------------- MODULE MCRetransmission --------------------------
(* An instance of Retransmission for TLC.                                  *)
EXTENDS Retransmission
=============================================================================
