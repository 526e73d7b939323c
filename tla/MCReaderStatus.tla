--------------------------- MODULE MCReaderStatus ---------------------------
(* Values for TLC. *)
EXTENDS ReaderStatus
CONSTANTS none, c1
MCCards == {none, c1}
=============================================================================
