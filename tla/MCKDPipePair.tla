---------------------------- MODULE MCKDPipePair ----------------------------
(* A pair of devices: two bytes in each ring buffer, one or two in the pipe. *)
EXTENDS KDPipePair

MCReadSizes == {1, 2}
MCWriteSizes == {1, 2}
=============================================================================
