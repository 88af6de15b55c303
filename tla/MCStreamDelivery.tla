-------------------------- MODULE MCStreamDelivery --------------------------
(***************************************************************************)
(* Small instances of StreamDelivery.  The run that checks liveness has no *)
(* symmetry, which is unsound for it.                                      *)
(***************************************************************************)
EXTENDS StreamDelivery
=============================================================================
