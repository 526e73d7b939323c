--------------------------- MODULE MCKDPipeWriter ---------------------------
(* KDPipeWriter with a buffer for two bytes and a pipe for one or two. *)
EXTENDS KDPipeWriter

MCWriteSizes == {1, 3}
=============================================================================
