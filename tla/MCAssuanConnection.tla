------------------------ MODULE MCAssuanConnection ------------------------
(* Instances of AssuanConnection for TLC.                                  *)
EXTENDS AssuanConnection

CONSTANTS c1, c2, c3

TwoCommands == {c1, c2}
ThreeCommands == {c1, c2, c3}

===========================================================================
