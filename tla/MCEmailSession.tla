--------------------------- MODULE MCEmailSession ---------------------------
(* Values for TLC: what a client may sensibly give, and some things it may    *)
(* not.                                                                       *)
EXTENDS EmailSession
CONSTANTS k1, k2, r1, r2
MCConnections == {k1, k2}
MCRecipients == {r1, r2}
MCLines == {
    [Nothing EXCEPT !.recipients = {r1}],
    [Nothing EXCEPT !.recipients = {r2}, !.io = "both"],
    [Nothing EXCEPT !.io = "both"],
    [Nothing EXCEPT !.senders = "given"]}
=============================================================================
