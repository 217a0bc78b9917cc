--------------------------- MODULE MCCallbackWait ---------------------------
(* Instances of CallbackWait for TLC.                                      *)
EXTENDS CallbackWait
=============================================================================
