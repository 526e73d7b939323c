--------------------------- MODULE MCKDPipeReader ---------------------------
(* KDPipeReader with a buffer for two bytes, smaller than some streams. *)
EXTENDS KDPipeReader

MCReadSizes == {1, 3}
=============================================================================
