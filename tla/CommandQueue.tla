----------------------------- MODULE CommandQueue -----------------------------
(***************************************************************************)
(* What the smart card monitor promises to those who send commands to the  *)
(* card, numbered in the order in which they are sent: each is performed   *)
(* at most once, in that order, and none is begun after stop(); each       *)
(* sender is told at most once, after its command was performed, and it is *)
(* told what came of it, or of an earlier command if it was overtaken.     *)
(***************************************************************************)
EXTENDS Naturals, Sequences

CONSTANTS Command

VARIABLES state,        \* "alive", "stopping", "gone" or "crashed"
          sent,         \* how many commands have been sent
          begun,        \* <<c>>: c is about to be performed; << >>: none is
          performed,    \* what has been performed, in this order
          overtaken,    \* what was through before an earlier one was reported
          told,         \* <<d>>: the sender was told what came of d
          deaf          \* the senders that do not want to know any more

queueVars == <<state, sent, begun, performed, overtaken, told, deaf>>

Init ==
    /\ state = "alive" /\ sent = 0 /\ begun = << >> /\ performed = << >>
    /\ overtaken = {} /\ deaf = {}
    /\ told = [c \in Command |-> << >>]

Send ==
    /\ state = "alive"
    /\ sent' = sent + 1
    /\ UNCHANGED <<state, begun, performed, overtaken, told, deaf>>

Begin ==
    /\ state = "alive" /\ begun = << >> /\ Len(performed) < sent
    /\ begun' = <<Len(performed) + 1>>
    /\ UNCHANGED <<state, sent, performed, overtaken, told, deaf>>

Perform ==
    /\ state \in {"alive", "stopping"} /\ begun # << >>
    /\ performed' = performed \o begun /\ begun' = << >>
    /\ UNCHANGED <<state, sent, overtaken, told, deaf>>

Overtake(c) ==
    /\ state \in {"alive", "stopping"}
    /\ c = Len(performed) /\ told[c] = << >>
    /\ overtaken' = overtaken \cup {c}
    /\ UNCHANGED <<state, sent, begun, performed, told, deaf>>

Tell(c, d) ==
    /\ state = "alive"
    /\ c <= Len(performed) /\ told[c] = << >> /\ c \notin deaf
    /\ d = c \/ (d < c /\ c \in overtaken)
    /\ told' = [told EXCEPT ![c] = <<d>>]
    /\ UNCHANGED <<state, sent, begun, performed, overtaken, deaf>>

TurnDeaf(c) ==
    /\ state = "alive"
    /\ c <= sent /\ told[c] = << >> /\ c \notin deaf
    /\ deaf' = deaf \cup {c}
    /\ UNCHANGED <<state, sent, begun, performed, overtaken, told>>

Stop ==
    /\ state = "alive" /\ state' = "stopping"
    /\ UNCHANGED <<sent, begun, performed, overtaken, told, deaf>>

\* What was begun may be cut off.
Go ==
    /\ state = "stopping" /\ state' = "gone"
    /\ begun' = << >>
    /\ UNCHANGED <<sent, performed, overtaken, told, deaf>>

Crash ==
    /\ state \in {"alive", "stopping"} /\ begun # << >>
    /\ state' = "crashed" /\ begun' = << >>
    /\ UNCHANGED <<sent, performed, overtaken, told, deaf>>

Next ==
    \/ Send \/ Begin \/ Perform \/ Stop \/ Go \/ Crash
    \/ \E c \in Command : Overtake(c) \/ TurnDeaf(c) \/ \E d \in Command : Tell(c, d)

Spec == Init /\ [][Next]_queueVars
=============================================================================
