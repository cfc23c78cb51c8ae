-------------------------- MODULE MCRequestPipeline --------------------------
(***************************************************************************)
(* Small instances of RequestPipeline.                                     *)
(***************************************************************************)
EXTENDS RequestPipeline, TLC

CONSTANTS p1, p2, ip1

OneProc == {p1}
TwoProcs == {p1, p2}
OneIP == {ip1}

=============================================================================
