----------------------------- MODULE ByteChannel -----------------------------
(***************************************************************************)
(* What a pair of connected pipe devices promises: the receiver gets what  *)
(* the sender sent, in order, and the end of the stream only after all of  *)
(* it, unless the channel has failed.  Byte number k is the number k.      *)
(***************************************************************************)
EXTENDS Integers, Sequences

VARIABLES sent,         \* bytes the sender has handed over
          got,          \* what the receiver has got, in the order it came
          senderOpen, receiverOpen,
          ended,        \* the receiver has been told that nothing follows
          failed        \* from now on bytes may be lost

channelVars == <<sent, got, senderOpen, receiverOpen, ended, failed>>

Init == /\ sent = 0 /\ got = << >>
        /\ senderOpen = TRUE /\ receiverOpen = TRUE
        /\ ended = FALSE /\ failed = FALSE

Send ==
    /\ senderOpen
    /\ sent' \in Nat /\ sent' > sent
    /\ UNCHANGED <<got, senderOpen, receiverOpen, ended, failed>>

Get ==
    /\ receiverOpen /\ ~ended
    /\ Len(got) < sent
    /\ Len(got') \in Len(got) + 1 .. sent
    /\ got' = [k \in 1 .. Len(got') |-> k]
    /\ UNCHANGED <<sent, senderOpen, receiverOpen, ended, failed>>

SeeEnd ==
    /\ receiverOpen /\ ~ended
    /\ failed \/ (~senderOpen /\ Len(got) = sent)
    /\ ended' = TRUE
    /\ UNCHANGED <<sent, got, senderOpen, receiverOpen, failed>>

CloseSender ==
    /\ senderOpen /\ senderOpen' = FALSE
    /\ UNCHANGED <<sent, got, receiverOpen, ended, failed>>

CloseReceiver ==
    /\ receiverOpen /\ receiverOpen' = FALSE
    /\ UNCHANGED <<sent, got, senderOpen, ended, failed>>

Fail ==
    /\ ~failed /\ failed' = TRUE
    /\ UNCHANGED <<sent, got, senderOpen, receiverOpen, ended>>

Next == Send \/ Get \/ SeeEnd \/ CloseSender \/ CloseReceiver \/ Fail

Spec == Init /\ [][Next]_channelVars
=============================================================================
