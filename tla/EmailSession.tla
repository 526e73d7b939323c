---------------------------- MODULE EmailSession ----------------------------
(***************************************************************************)
(* The e-mail commands of the UI server and the sessions they share        *)
(* (kleopatra/src/uiserver: prepencryptcommand.cpp, encryptcommand.cpp,    *)
(* prepsigncommand.cpp, signcommand.cpp, sessiondata.cpp and the mementos  *)
(* of assuanserverconnection.cpp).  PREP_ENCRYPT and PREP_SIGN let the     *)
(* user pick certificates and leave the controller that knows them as a    *)
(* memento; ENCRYPT and SIGN go on with that controller, on the same       *)
(* connection or on another one of the same session.                       *)
(*                                                                         *)
(* A connection is idle or has one command; how commands are posted,       *)
(* answered and put in the background is the module AssuanConnection.      *)
(* Here a command line and its bottom half are one step: between them the  *)
(* connection does nothing.                                                *)
(* NewSignEncryptEMailController is not in the repository (external).      *)
(***************************************************************************)
EXTENDS Integers, Sequences, FiniteSets

CONSTANTS
    Connections,
    Sessions,       \* session ids, from 1
    Recipients,
    Lines,          \* what a client gives before a command
    MaxCommands,    \* bound: commands
    MaxSwitches     \* bound: SESSION and RESET lines

ASSUME SessionsAssumption == Sessions \subseteq Nat \ {0}
ASSUME BoundsAssumption ==
    /\ IsFiniteSet(Connections) /\ MaxCommands \in Nat /\ MaxSwitches \in Nat

VARIABLES
    alive,          \* connections that are not deleted
    sessionId,      \* 0, or the session a connection is in
    cmd,            \* currentCommand
    commands,       \* how many there were
    switches,       \* SESSION and RESET lines
    mementos,       \* of the connection: a controller, or 0
    sessionMemento, \* of the session
    ref,            \* SessionData::ref
    controllers,    \* all controllers, by number
    \* history
    shared,         \* controllers that two commands have had at the same time
    spread,         \* and those that have been the memento of two
    misled,         \* commands answered with success for another one's work
    taken           \* how many ENCRYPTs have gone on with a controller

connVars == <<alive, sessionId, commands, switches>>
dataVars == <<mementos, sessionMemento, ref>>
histVars == <<shared, spread, misled, taken>>
vars == <<connVars, dataVars, cmd, controllers, histVars>>

Kinds == {"PREP_ENCRYPT", "ENCRYPT", "PREP_SIGN", "SIGN"}
Preps == {"PREP_ENCRYPT", "PREP_SIGN"}

\* What the lines before a command have left with the connection, as far as the
\* handlers of INPUT, OUTPUT, RECIPIENT and SENDER let it come: informative and
\* other addresses are not mixed.  other: MESSAGE or FILE.
Given ==
    {g \in [io : {"none", "in", "both"}, recipients : SUBSET Recipients, informative : BOOLEAN,
            senders : {"none", "info", "given"}, other : BOOLEAN] :
        g.recipients = {} => ~g.informative}
ASSUME LinesAssumption == Lines \subseteq Given

Nothing == [io |-> "none", recipients |-> {}, informative |-> FALSE,
            senders |-> "none", other |-> FALSE]

\* state: "resolving", "resolved" (a timer is posted), "working".
NoCommand == [kind |-> "none", state |-> "none", recipients |-> {}, ctrl |-> 0]
Idle(k) == k \in alive /\ cmd[k] = NoCommand

Init ==
    /\ alive = Connections
    /\ sessionId = [k \in Connections |-> 0]
    /\ cmd = [k \in Connections |-> NoCommand]
    /\ commands = 0 /\ switches = 0
    /\ mementos = [k \in Connections |-> 0]
    /\ sessionMemento = [s \in Sessions |-> 0] /\ ref = [s \in Sessions |-> 0]
    /\ controllers = << >>
    /\ shared = {} /\ spread = {} /\ misled = {} /\ taken = << >>

-----------------------------------------------------------------------------
(* Mementos.  All commands use the same tag.                                *)

\* memento(): the session's, or else the connection's.
Memento(k) ==
    IF sessionId[k] # 0 /\ sessionMemento[sessionId[k]] # 0
      THEN sessionMemento[sessionId[k]]
      ELSE mementos[k]

RegisterMemento(k, c) ==
    IF sessionId[k] # 0
      THEN /\ sessionMemento' = [sessionMemento EXCEPT ![sessionId[k]] = c]
           /\ UNCHANGED mementos
      ELSE /\ mementos' = [mementos EXCEPT ![k] = c]
           /\ UNCHANGED sessionMemento

\* removeMemento(): from both.
RemoveOfConnectionOnly(k) ==                \* fault: the session keeps it
    /\ mementos' = [mementos EXCEPT ![k] = 0]
    /\ UNCHANGED sessionMemento
RemoveMemento(k) ==
    /\ mementos' = [mementos EXCEPT ![k] = 0]
    /\ sessionMemento' = [s \in Sessions |->
           IF s = sessionId[k] THEN 0 ELSE sessionMemento[s]]
KeepMementos == UNCHANGED <<mementos, sessionMemento>>

-----------------------------------------------------------------------------
(* SESSION, RESET and the end of a connection *)

EntersSession(k, s) ==
    /\ Idle(k) /\ switches < MaxSwitches
    /\ switches' = switches + 1
    /\ ref' = [ref EXCEPT ![s] = @ + 1]
    /\ sessionId' = [sessionId EXCEPT ![k] = s]
    /\ UNCHANGED <<alive, commands, mementos, sessionMemento, cmd, controllers, histVars>>

\* reset() forgets the session without exitSession(), and leaves its mementos.
Resets(k) ==
    /\ Idle(k) /\ switches < MaxSwitches
    /\ switches' = switches + 1
    /\ sessionId' = [sessionId EXCEPT ![k] = 0]
    /\ mementos' = [mementos EXCEPT ![k] = 0]
    /\ UNCHANGED <<alive, commands, sessionMemento, ref, cmd, controllers, histVars>>

\* exitSession()
Exit(s) == [ref EXCEPT ![s] = IF @ > 0 THEN @ - 1 ELSE 0]

\* The client leaves: its command is canceled, and cancels its controller.
Canceled(c) == [controllers EXCEPT ![c].phase = IF @ = "working" THEN "canceled" ELSE @]

LeavesUncanceled(k) ==                      \* fault: doCanceled() does nothing
    /\ k \in alive
    /\ alive' = alive \ {k}
    /\ cmd' = [cmd EXCEPT ![k] = NoCommand]
    /\ ref' = IF sessionId[k] = 0 THEN ref ELSE Exit(sessionId[k])
    /\ sessionId' = [sessionId EXCEPT ![k] = 0]
    /\ mementos' = [mementos EXCEPT ![k] = 0]
    /\ UNCHANGED <<commands, switches, sessionMemento, controllers, histVars>>

HangsUp(k) ==
    /\ k \in alive
    /\ controllers' = IF cmd[k].ctrl = 0 THEN controllers ELSE Canceled(cmd[k].ctrl)
    /\ alive' = alive \ {k}
    /\ cmd' = [cmd EXCEPT ![k] = NoCommand]
    /\ ref' = IF sessionId[k] = 0 THEN ref ELSE Exit(sessionId[k])
    /\ sessionId' = [sessionId EXCEPT ![k] = 0]
    /\ mementos' = [mementos EXCEPT ![k] = 0]
    /\ UNCHANGED <<commands, switches, sessionMemento, histVars>>

-----------------------------------------------------------------------------
(* Commands: _handle(), doStart() and checkForErrors() *)

\* The command takes everything that was given; another one follows only when it
\* is answered.
Handles(k) ==
    /\ Idle(k) /\ commands < MaxCommands
    /\ commands' = commands + 1
    /\ UNCHANGED <<alive, sessionId, switches, ref>>

HasRecipients(g) == g.recipients # {} /\ ~g.informative
MayPrepEncrypt(g) ==
    g.io = "none" /\ ~g.other /\ g.senders # "given" /\ HasRecipients(g)
MayPrepSign(g) == g.io = "none" /\ ~g.other /\ g.senders # "none"
MayEncryptWithMixed(g, m) ==                \* fault: new recipients are overlooked
    /\ ~g.other /\ g.senders # "given" /\ g.io = "both" /\ m # 0
    /\ controllers[m].encrypting \/ HasRecipients(g)
MayEncrypt(g, m) ==
    /\ ~g.other /\ g.senders # "given" /\ g.io = "both"
    /\ m # 0                                \* kleo_assert(m)
    /\ IF controllers[m].encrypting THEN g.recipients = {} /\ g.senders = "none"
       ELSE HasRecipients(g)
MaySign(g) == ~g.other /\ ~HasRecipients(g) /\ g.io = "both"

\* doStart() throws, always possible on account of the protocol.  PREP_ENCRYPT has
\* removed the memento by then.
Fails(k, kind) ==
    /\ Handles(k)
    /\ IF kind = "PREP_ENCRYPT" THEN RemoveMemento(k) ELSE KeepMementos
    /\ UNCHANGED <<cmd, controllers, histVars>>

\* A new controller for this command begins to resolve certificates.
NewController(k, kind, g, encrypting, signing) ==
    /\ controllers' = Append(controllers,
           [encrypting |-> encrypting, signing |-> signing, phase |-> "resolving",
            recipients |-> g.recipients, owner |-> k, sessions |-> {sessionId[k]} \ {0}])
    /\ taken' = Append(taken, 0)
    /\ cmd' = [cmd EXCEPT ![k] = [kind |-> kind, state |-> "resolving",
                   recipients |-> g.recipients, ctrl |-> Len(controllers) + 1]]
    /\ UNCHANGED <<shared, spread, misled>>

Users(c) == {j \in Connections : cmd[j].ctrl = c}

\* It goes on with the controller of the memento, which is ready.
ReuseWaits(k, kind, g) ==                   \* fault: no timer is posted
    /\ cmd' = [cmd EXCEPT ![k] = [kind |-> kind, state |-> "resolving",
                   recipients |-> g.recipients, ctrl |-> Memento(k)]]
    /\ shared' = IF Users(Memento(k)) = {} THEN shared ELSE shared \cup {Memento(k)}
    /\ UNCHANGED <<controllers, spread, misled>>
Reuse(k, kind, g) ==
    /\ cmd' = [cmd EXCEPT ![k] = [kind |-> kind, state |-> "resolved",
                   recipients |-> g.recipients, ctrl |-> Memento(k)]]
    /\ shared' = IF Users(Memento(k)) = {} THEN shared ELSE shared \cup {Memento(k)}
    /\ UNCHANGED <<controllers, spread, misled>>

Prepared(k, role) == Memento(k) # 0 /\ controllers[Memento(k)][role]

PrepEncryptRegisters(k, g, expectSign) ==   \* fault: registered before it is resolved
    /\ Handles(k) /\ MayPrepEncrypt(g)
    /\ RegisterMemento(k, Len(controllers) + 1)
    /\ NewController(k, "PREP_ENCRYPT", g, TRUE, expectSign)
PrepEncrypt(k, g, expectSign) ==
    /\ Handles(k) /\ MayPrepEncrypt(g)
    /\ RemoveMemento(k)
    /\ NewController(k, "PREP_ENCRYPT", g, TRUE, expectSign)

Encrypt(k, g) ==
    /\ Handles(k) /\ MayEncrypt(g, Memento(k))
    /\ \/ /\ Prepared(k, "encrypting")
          /\ Reuse(k, "ENCRYPT", g) /\ RemoveMemento(k)
          /\ taken' = [taken EXCEPT ![Memento(k)] = @ + 1]
       \/ /\ ~Prepared(k, "encrypting")
          /\ NewController(k, "ENCRYPT", g, TRUE, FALSE) /\ KeepMementos

\* A SENDER that is not informative is a PREP_SIGN at once.
PrepSign(k, g) ==
    /\ Handles(k) /\ MayPrepSign(g) /\ KeepMementos
    /\ \/ Prepared(k, "signing") /\ Reuse(k, "PREP_SIGN", g) /\ UNCHANGED taken
       \/ ~Prepared(k, "signing") /\ NewController(k, "PREP_SIGN", g, FALSE, TRUE)

Sign(k, g) ==
    /\ Handles(k) /\ MaySign(g)
    /\ \/ /\ Prepared(k, "signing")
          /\ Reuse(k, "SIGN", g) /\ UNCHANGED taken
          /\ IF Prepared(k, "encrypting") THEN KeepMementos ELSE RemoveMemento(k)
       \/ /\ ~Prepared(k, "signing")
          /\ NewController(k, "SIGN", g, FALSE, TRUE) /\ KeepMementos

-----------------------------------------------------------------------------
(* slotRecipientsResolved(), slotSignersResolved() *)

\* Where k does not register it, c is a memento too.
KeptElsewhere(k, c) ==
    \/ \E s \in Sessions \ {sessionId[k]} : sessionMemento[s] = c
    \/ \E j \in Connections : mementos[j] = c /\ (j = k => sessionId[k] # 0)

\* A preparation leaves the controller behind and is done.
PreparationEnds(k) ==
    /\ cmd[k].kind \in Preps
    /\ RegisterMemento(k, cmd[k].ctrl)
    /\ controllers' = [controllers EXCEPT
           ![cmd[k].ctrl].phase = IF @ = "resolving" THEN "resolved" ELSE @,
           ![cmd[k].ctrl].sessions = @ \cup ({sessionId[k]} \ {0})]
    /\ cmd' = [cmd EXCEPT ![k] = NoCommand]
    /\ spread' = IF KeptElsewhere(k, cmd[k].ctrl) THEN spread \cup {cmd[k].ctrl} ELSE spread

\* ENCRYPT and SIGN let the controller work; one that works already may refuse,
\* and is canceled.
WorkBegins(k, c) ==
    /\ cmd[k].kind \notin Preps
    /\ \/ /\ cmd' = [cmd EXCEPT ![k].state = "working"]
          /\ controllers' = [controllers EXCEPT ![c].phase = "working"]
       \/ /\ controllers[c].phase \in {"working", "canceled"}
          /\ cmd' = [cmd EXCEPT ![k] = NoCommand]
          /\ controllers' = Canceled(c)
    /\ KeepMementos /\ UNCHANGED spread

\* The controller emits certificatesResolved(); only the command that made it
\* listens.
CertificatesResolved(k) ==
    LET c == cmd[k].ctrl
    IN  /\ cmd[k].state = "resolving"
        /\ controllers[c].phase = "resolving"
        /\ PreparationEnds(k) \/ WorkBegins(k, c)
        /\ UNCHANGED <<connVars, ref, shared, misled, taken>>

\* The timer of a command that has found its controller ready.
TimerFires(k) ==
    LET c == cmd[k].ctrl
    IN  /\ cmd[k].state = "resolved"
        /\ PreparationEnds(k) \/ WorkBegins(k, c)
        /\ UNCHANGED <<connVars, ref, shared, misled, taken>>

\* error() while it resolves: the user closes the dialog.
ResolvingFails(k) ==
    /\ cmd[k].state = "resolving" /\ controllers[cmd[k].ctrl].phase = "resolving"
    /\ controllers' = [controllers EXCEPT ![cmd[k].ctrl].phase = "failed"]
    /\ cmd' = [cmd EXCEPT ![k] = NoCommand]
    /\ UNCHANGED <<connVars, dataVars, histVars>>

\* done() or error() of a controller goes to every command connected to it; done()
\* answers them all with success.  A preparation listens to error() only.
ControllerEnds(c, ok) ==
    LET answered == {j \in Users(c) : ok => cmd[j].kind \notin Preps}
    IN  /\ controllers[c].phase \in {"working", "canceled"}
        /\ ok => controllers[c].phase = "working"
        /\ controllers' = [controllers EXCEPT ![c].phase = "resolved"]
        /\ cmd' = [j \in Connections |-> IF j \in answered THEN NoCommand ELSE cmd[j]]
        /\ misled' = IF ok /\ \E j \in answered : cmd[j].state # "working"
                       THEN misled \cup {c} ELSE misled
        /\ UNCHANGED <<connVars, dataVars, shared, spread, taken>>

-----------------------------------------------------------------------------
Commands(k) ==
    \/ \E kind \in Kinds : Fails(k, kind)
    \/ \E g \in Lines : \/ \E e \in BOOLEAN : PrepEncrypt(k, g, e)
                       \/ Encrypt(k, g) \/ PrepSign(k, g) \/ Sign(k, g)

Advances(k) == CertificatesResolved(k) \/ TimerFires(k) \/ ResolvingFails(k)

ControllersEnd == \E c \in 1 .. Len(controllers), ok \in BOOLEAN : ControllerEnds(c, ok)

Next ==
    \/ \E k \in Connections :
          \/ \E s \in Sessions : EntersSession(k, s)
          \/ Resets(k) \/ HangsUp(k) \/ Commands(k) \/ Advances(k)
    \/ ControllersEnd

Spec == Init /\ [][Next]_vars

\* Timers fire, the user picks certificates or closes the dialog, and a controller
\* comes to an end.
FairSpec == Spec /\ WF_vars(ControllersEnd) /\ \A k \in Connections : WF_vars(Advances(k))

-----------------------------------------------------------------------------
(* Properties *)

TypeOK ==
    /\ alive \subseteq Connections
    /\ sessionId \in [Connections -> Sessions \cup {0}]
    /\ commands \in Nat /\ switches \in Nat
    /\ cmd \in [Connections -> [kind : Kinds \cup {"none"}, ctrl : Nat,
                  state : {"none", "resolving", "resolved", "working"},
                  recipients : SUBSET Recipients]]
    /\ mementos \in [Connections -> Nat] /\ sessionMemento \in [Sessions -> Nat]
    /\ ref \in [Sessions -> Nat]
    /\ controllers \in Seq([encrypting : BOOLEAN, signing : BOOLEAN,
            phase : {"resolving", "resolved", "working", "canceled", "failed"},
            recipients : SUBSET Recipients, owner : Connections, sessions : SUBSET Sessions])
    /\ shared \subseteq Nat /\ spread \subseteq Nat /\ misled \subseteq Nat /\ taken \in Seq(Nat)

\* Nothing is encrypted for anybody but those its client has named: the command's
\* own recipients, or those of a PREP_ENCRYPT on this connection or in this session,
\* and never of both.
RightPeople ==
    \A k \in Connections : cmd[k].kind = "ENCRYPT" /\ cmd[k].ctrl # 0 =>
        LET c == controllers[cmd[k].ctrl]
        IN  /\ c.encrypting /\ c.recipients # {}
            /\ cmd[k].recipients # {} => c.recipients = cmd[k].recipients
            /\ c.owner = k \/ sessionId[k] \in c.sessions

\* A command that goes on with a controller finds its certificates resolved, so that
\* the assertion isResolvingInProgress() is never reached.
FoundResolved ==
    \A k \in Connections : cmd[k].state = "resolved" =>
        controllers[cmd[k].ctrl].phase \in {"resolved", "working", "canceled"}

\* What PREP_ENCRYPT has prepared serves one ENCRYPT, unless two commands had the
\* controller at the same time, or a later PREP_SIGN made it the memento of the
\* session too (removeMemento() clears the mementos of one connection and its session).
PreparedOnce ==
    \A c \in 1 .. Len(taken) : taken[c] > 1 => c \in shared \cup spread

\* A command is answered with success only for what it asked for itself, unless two
\* commands had the controller at the same time.
AnsweredForOwnWork == misled \subseteq shared

\* A session that a connection is in is never up for collection.
UsedIsReferenced ==
    \A s \in Sessions : ref[s] >= Cardinality({k \in alive : sessionId[k] = s})

\* Every command is answered.
EveryCommandEnds == \A k \in Connections : cmd[k] # NoCommand ~> cmd[k] = NoCommand
=============================================================================
