------------------------- MODULE EmailSessionProofs -------------------------
(***************************************************************************)
(* Proofs about the e-mail commands: types, that a prepared controller is  *)
(* found resolved and only by those it was prepared for, that it serves    *)
(* once, and that a session in use is referenced, for any number of        *)
(* connections, sessions and commands.                                     *)
(***************************************************************************)
EXTENDS EmailSession, FiniteSetTheorems, SequenceTheorems, TLAPS

Phases == {"resolving", "resolved", "working", "canceled", "failed"}
States == {"none", "resolving", "resolved", "working"}
Ready == {"resolved", "working", "canceled"}
Controller == [encrypting : BOOLEAN, signing : BOOLEAN, phase : Phases,
               recipients : SUBSET Recipients, owner : Connections,
               sessions : SUBSET Sessions]
Command == [kind : Kinds \cup {"none"}, ctrl : Nat, state : States,
            recipients : SUBSET Recipients]
Numbers == 1 .. Len(controllers)

\* Numbers of controllers are numbers of controllers, and a command has one.
Linked ==
    /\ Len(taken) = Len(controllers)
    /\ \A k \in Connections :
          /\ cmd[k].ctrl <= Len(controllers) /\ mementos[k] <= Len(controllers)
          /\ cmd[k] # NoCommand =>
                cmd[k].ctrl # 0 /\ cmd[k].kind \in Kinds /\ cmd[k].state # "none"
    /\ \A s \in Sessions : sessionMemento[s] <= Len(controllers)
Typed == TypeOK /\ Linked

LEMMA SessionsArePositive == Sessions \subseteq Nat /\ 0 \notin Sessions
  BY SessionsAssumption

LEMMA LineTyped ==
    ASSUME NEW g \in Lines
    PROVE  g.recipients \subseteq Recipients
  BY LinesAssumption DEF Given

-----------------------------------------------------------------------------
(* The next-state relation, by what a step does to commands and controllers *)

\* What mementos there are were there.
Forgets ==
    /\ mementos' \in [Connections -> Nat] /\ sessionMemento' \in [Sessions -> Nat]
    /\ \A k \in Connections : mementos'[k] \in {0, mementos[k]}
    /\ \A s \in Sessions : sessionMemento'[s] \in {0, sessionMemento[s]}

\* No command begins or ends.
Idles ==
    /\ Forgets
    /\ sessionId' \in [Connections -> Sessions \cup {0}]
    /\ \A k \in Connections : sessionId'[k] # sessionId[k] => cmd[k] = NoCommand
    /\ UNCHANGED <<cmd, controllers, histVars>>

BeginsNew(k, kind, g, enc, sign) ==
    /\ cmd[k] = NoCommand /\ Forgets
    /\ enc => g.recipients # {}
    /\ kind = "ENCRYPT" => enc
    /\ NewController(k, kind, g, enc, sign)
    /\ UNCHANGED sessionId

BeginsReused(k, kind, g) ==
    /\ cmd[k] = NoCommand /\ Forgets /\ Memento(k) # 0
    /\ Reuse(k, kind, g)
    /\ IF kind = "ENCRYPT"
         THEN /\ controllers[Memento(k)].encrypting /\ g.recipients = {}
              /\ RemoveMemento(k)
              /\ taken' = [taken EXCEPT ![Memento(k)] = @ + 1]
         ELSE UNCHANGED taken
    /\ UNCHANGED sessionId

\* The command goes on: it listens, or its timer fires.
GoesOn(k) ==
    /\ \/ cmd[k].state = "resolving" /\ controllers[cmd[k].ctrl].phase = "resolving"
       \/ cmd[k].state = "resolved"
    /\ UNCHANGED <<sessionId, shared, misled, taken>>
Prepares(k) == GoesOn(k) /\ PreparationEnds(k)
Works(k) == GoesOn(k) /\ WorkBegins(k, cmd[k].ctrl)

LEMMA RemovingForgets ==
    ASSUME Typed, NEW k \in Connections, RemoveMemento(k) \/ KeepMementos
    PROVE  Forgets
  BY DEF Typed, TypeOK, RemoveMemento, KeepMementos, Forgets

LEMMA MementoTyped ==
    ASSUME Typed, NEW k \in Connections
    PROVE  Memento(k) \in 0 .. Len(controllers)
<1>1. sessionId[k] # 0 => sessionId[k] \in Sessions
  BY DEF Typed, TypeOK
<1>2. /\ mementos[k] \in Nat /\ mementos[k] <= Len(controllers)
      /\ \A s \in Sessions : sessionMemento[s] \in Nat /\ sessionMemento[s] <= Len(controllers)
  BY DEF Typed, TypeOK, Linked
<1>3. Len(controllers) \in Nat
  BY LenProperties DEF Typed, TypeOK
<1> QED
  BY <1>1, <1>2, <1>3 DEF Memento

LEMMA CommandCases ==
    ASSUME Typed, NEW k \in Connections, Commands(k)
    PROVE  \/ Idles
           \/ \E kind \in Kinds, g \in Lines, enc \in BOOLEAN, sign \in BOOLEAN :
                 BeginsNew(k, kind, g, enc, sign)
           \/ \E kind \in Kinds, g \in Lines : BeginsReused(k, kind, g)
<1>1. CASE \E kind \in Kinds : Fails(k, kind)
  <2>1. Forgets
    BY <1>1, RemovingForgets DEF Fails
  <2>2. sessionId' = sessionId /\ UNCHANGED <<cmd, controllers, histVars>>
    BY <1>1 DEF Fails, Handles
  <2>3. sessionId \in [Connections -> Sessions \cup {0}]
    BY DEF Typed, TypeOK
  <2> QED
    BY <2>1, <2>2, <2>3 DEF Idles
<1>2. ASSUME NEW g \in Lines, NEW e \in BOOLEAN, PrepEncrypt(k, g, e)
      PROVE  BeginsNew(k, "PREP_ENCRYPT", g, TRUE, e)
  BY <1>2, RemovingForgets
     DEF PrepEncrypt, Handles, Idle, BeginsNew, MayPrepEncrypt, HasRecipients
<1>3. ASSUME NEW g \in Lines, Encrypt(k, g)
      PROVE  BeginsNew(k, "ENCRYPT", g, TRUE, FALSE) \/ BeginsReused(k, "ENCRYPT", g)
  <2>1. cmd[k] = NoCommand /\ UNCHANGED sessionId
    BY <1>3 DEF Encrypt, Handles, Idle
  <2>2. CASE /\ Prepared(k, "encrypting")
             /\ Reuse(k, "ENCRYPT", g) /\ RemoveMemento(k)
             /\ taken' = [taken EXCEPT ![Memento(k)] = @ + 1]
    <3>1. g.recipients = {}
      BY <1>3, <2>2 DEF Encrypt, MayEncrypt, Prepared
    <3> QED
      BY <2>1, <2>2, <3>1, RemovingForgets DEF BeginsReused, Prepared
  <2>3. CASE /\ ~Prepared(k, "encrypting")
             /\ NewController(k, "ENCRYPT", g, TRUE, FALSE) /\ KeepMementos
    <3>1. g.recipients # {}
      BY <1>3, <2>3 DEF Encrypt, MayEncrypt, Prepared, HasRecipients
    <3> QED
      BY <2>1, <2>3, <3>1, RemovingForgets DEF BeginsNew
  <2> QED
    BY <1>3, <2>2, <2>3 DEF Encrypt
<1>4. ASSUME NEW g \in Lines, PrepSign(k, g)
      PROVE  BeginsNew(k, "PREP_SIGN", g, FALSE, TRUE) \/ BeginsReused(k, "PREP_SIGN", g)
  BY <1>4, RemovingForgets DEF PrepSign, Handles, Idle, BeginsNew, BeginsReused, Prepared
<1>5. ASSUME NEW g \in Lines, Sign(k, g)
      PROVE  BeginsNew(k, "SIGN", g, FALSE, TRUE) \/ BeginsReused(k, "SIGN", g)
  BY <1>5, RemovingForgets DEF Sign, Handles, Idle, BeginsNew, BeginsReused, Prepared
<1>6. {"PREP_ENCRYPT", "ENCRYPT", "PREP_SIGN", "SIGN"} = Kinds
  BY DEF Kinds
<1> QED
  BY <1>1, <1>2, <1>3, <1>4, <1>5, <1>6 DEF Commands

LEMMA StepCases ==
    ASSUME Typed, [Next]_vars
    PROVE  \/ Idles
           \/ \E k \in Connections :
                 \/ \E kind \in Kinds, g \in Lines, enc \in BOOLEAN, sign \in BOOLEAN :
                       BeginsNew(k, kind, g, enc, sign)
                 \/ \E kind \in Kinds, g \in Lines : BeginsReused(k, kind, g)
                 \/ Prepares(k) \/ Works(k) \/ ResolvingFails(k) \/ HangsUp(k)
           \/ \E c \in Numbers, ok \in BOOLEAN : ControllerEnds(c, ok)
<1>1. CASE UNCHANGED vars
  BY <1>1 DEF vars, connVars, dataVars, histVars, Idles, Forgets, Typed, TypeOK
<1>2. ASSUME NEW k \in Connections, NEW s \in Sessions, EntersSession(k, s)
      PROVE  Idles
  BY <1>2 DEF EntersSession, Idle, Idles, Forgets, Typed, TypeOK
<1>3. ASSUME NEW k \in Connections, Resets(k)
      PROVE  Idles
  BY <1>3 DEF Resets, Idle, Idles, Forgets, Typed, TypeOK
<1>4. ASSUME NEW k \in Connections, CertificatesResolved(k) \/ TimerFires(k)
      PROVE  Prepares(k) \/ Works(k)
  BY <1>4 DEF CertificatesResolved, TimerFires, GoesOn, Prepares, Works, connVars
<1> QED
  BY <1>1, <1>2, <1>3, <1>4, CommandCases
     DEF Next, Advances, ControllersEnd, Numbers

-----------------------------------------------------------------------------
(* What steps do to the sequence of controllers *)

LEMMA ControllersTyped ==
    ASSUME Typed
    PROVE  /\ controllers \in Seq(Controller) /\ Len(controllers) \in Nat
           /\ \A c \in Numbers : controllers[c] \in Controller
           /\ taken \in Seq(Nat) /\ \A c \in Numbers : taken[c] \in Nat
<1>1. controllers \in Seq(Controller) /\ taken \in Seq(Nat) /\ Len(taken) = Len(controllers)
  BY Zenon DEF Typed, TypeOK, Linked, Controller, Phases
<1> QED
  BY <1>1, LenProperties, ElementOfSeq DEF Numbers

LEMMA CommandTyped ==
    ASSUME Typed, NEW k \in Connections
    PROVE  /\ cmd[k] \in Command /\ sessionId[k] \in Sessions \cup {0}
           /\ cmd[k].ctrl \in 0 .. Len(controllers)
           /\ cmd[k] # NoCommand => cmd[k].ctrl \in Numbers /\ cmd[k].kind \in Kinds
           /\ cmd[k].state # "none" => cmd[k] # NoCommand
           /\ cmd[k].ctrl # 0 => cmd[k] # NoCommand
           /\ mementos[k] \in 0 .. Len(controllers)
<1>1. cmd \in [Connections -> Command] /\ mementos \in [Connections -> Nat]
      /\ sessionId \in [Connections -> Sessions \cup {0}]
  BY DEF Typed, TypeOK, Command, States
<1>2. cmd[k] \in Command /\ mementos[k] \in Nat /\ sessionId[k] \in Sessions \cup {0}
  BY <1>1
<1>3. /\ cmd[k].ctrl <= Len(controllers) /\ mementos[k] <= Len(controllers)
      /\ cmd[k] # NoCommand => cmd[k].ctrl # 0 /\ cmd[k].kind \in Kinds
  BY DEF Typed, Linked
<1>4. cmd[k].ctrl \in Nat
  BY <1>2 DEF Command
<1>5. NoCommand.state = "none" /\ NoCommand.ctrl = 0
  BY DEF NoCommand
<1>6. Len(controllers) \in Nat
  BY ControllersTyped
<1> QED
  BY <1>2, <1>3, <1>4, <1>5, <1>6 DEF Numbers

LEMMA NoCommandTyped == NoCommand \in Command
  BY DEF NoCommand, Command, States

\* A controller is made for certain people by certain people.
Evolves ==
    /\ controllers' \in Seq(Controller) /\ Len(controllers') = Len(controllers)
    /\ \A c \in Numbers :
          /\ controllers'[c].encrypting = controllers[c].encrypting
          /\ controllers'[c].recipients = controllers[c].recipients
          /\ controllers'[c].owner = controllers[c].owner
          /\ controllers[c].sessions \subseteq controllers'[c].sessions
          /\ controllers[c].phase \in Ready => controllers'[c].phase \in Ready

LEMMA CanceledEffect ==
    ASSUME Typed, NEW c \in Numbers
    PROVE  /\ Canceled(c) \in Seq(Controller) /\ Len(Canceled(c)) = Len(controllers)
           /\ \A d \in Numbers : d # c => Canceled(c)[d] = controllers[d]
           /\ Canceled(c)[c] = [controllers[c] EXCEPT !.phase =
                                    IF @ = "working" THEN "canceled" ELSE @]
<1> DEFINE r == [controllers[c] EXCEPT !.phase = IF @ = "working" THEN "canceled" ELSE @]
<1>1. controllers \in Seq(Controller) /\ controllers[c] \in Controller /\ c \in 1 .. Len(controllers)
  BY ControllersTyped DEF Numbers
<1>2. r \in Controller
  BY <1>1 DEF Controller, Phases
<1>3. Canceled(c) = [controllers EXCEPT ![c] = r]
  BY DEF Canceled
<1> HIDE DEF r
<1>4. /\ [controllers EXCEPT ![c] = r] \in Seq(Controller)
      /\ Len([controllers EXCEPT ![c] = r]) = Len(controllers)
      /\ \A d \in 1 .. Len(controllers) :
            [controllers EXCEPT ![c] = r][d] = IF d = c THEN r ELSE controllers[d]
  BY <1>1, <1>2, ExceptSeq
<1>5. Canceled(c)[c] = r
  BY <1>1, <1>3, <1>4
<1> QED
  BY <1>3, <1>4, <1>5 DEF Numbers, r

LEMMA CanceledEvolves ==
    ASSUME Typed, NEW c \in Numbers, controllers' = Canceled(c)
    PROVE  Evolves /\ controllers'[c].phase # "working"
           /\ \A d \in Numbers : controllers'[d].phase = "working" => controllers[d].phase = "working"
<1>1. controllers[c] \in Controller
  BY ControllersTyped
<1>2. controllers'[c] = [controllers[c] EXCEPT !.phase = IF @ = "working" THEN "canceled" ELSE @]
  BY CanceledEffect
<1>3. /\ controllers'[c].encrypting = controllers[c].encrypting
      /\ controllers'[c].recipients = controllers[c].recipients
      /\ controllers'[c].owner = controllers[c].owner
      /\ controllers'[c].sessions = controllers[c].sessions
      /\ controllers'[c].phase =
            IF controllers[c].phase = "working" THEN "canceled" ELSE controllers[c].phase
  BY <1>1, <1>2 DEF Controller
<1> QED
  BY <1>3, CanceledEffect DEF Evolves, Ready

LEMMA ReplacedEvolves ==
    ASSUME Typed, NEW c \in Numbers, NEW r \in Controller,
           controllers' = [controllers EXCEPT ![c] = r],
           r.encrypting = controllers[c].encrypting,
           r.recipients = controllers[c].recipients,
           r.owner = controllers[c].owner,
           controllers[c].sessions \subseteq r.sessions,
           controllers[c].phase \in Ready => r.phase \in Ready
    PROVE  /\ Evolves /\ controllers'[c] = r
           /\ \A d \in Numbers : d # c => controllers'[d] = controllers[d]
<1>1. controllers \in Seq(Controller)
  BY ControllersTyped
<1>2. /\ controllers' \in Seq(Controller) /\ Len(controllers') = Len(controllers)
      /\ \A d \in Numbers : controllers'[d] = IF d = c THEN r ELSE controllers[d]
  BY <1>1, ExceptSeq DEF Numbers
<1> QED
  BY <1>2 DEF Evolves

LEMMA NewEffect ==
    ASSUME Typed, NEW k \in Connections, NEW kind \in Kinds, NEW g \in Lines,
           NEW enc \in BOOLEAN, NEW sign \in BOOLEAN, BeginsNew(k, kind, g, enc, sign),
           NEW n, n = Len(controllers) + 1
    PROVE  /\ controllers' \in Seq(Controller) /\ Len(controllers') = n /\ n \in Nat
           /\ taken' \in Seq(Nat) /\ Len(taken') = n
           /\ \A c \in Numbers : controllers'[c] = controllers[c] /\ taken'[c] = taken[c]
           /\ Numbers' = Numbers \cup {n} /\ n \notin Numbers
           /\ controllers'[n] =
                 [encrypting |-> enc, signing |-> sign, phase |-> "resolving",
                  recipients |-> g.recipients, owner |-> k, sessions |-> {sessionId[k]} \ {0}]
           /\ taken'[n] = 0
<1> DEFINE r == [encrypting |-> enc, signing |-> sign, phase |-> "resolving",
                 recipients |-> g.recipients, owner |-> k, sessions |-> {sessionId[k]} \ {0}]
<1>1. controllers \in Seq(Controller) /\ taken \in Seq(Nat) /\ Len(taken) = Len(controllers)
      /\ Len(controllers) \in Nat
  BY ControllersTyped DEF Typed, Linked
<1>2. r \in Controller
  BY CommandTyped, LineTyped DEF Controller, Phases
<1>3. controllers' = Append(controllers, r) /\ taken' = Append(taken, 0)
  BY DEF BeginsNew, NewController
<1> HIDE DEF r
<1>4. /\ controllers' \in Seq(Controller) /\ Len(controllers') = n
      /\ \A c \in 1 .. Len(controllers) : controllers'[c] = controllers[c]
      /\ controllers'[n] = r
  BY <1>1, <1>2, <1>3, AppendProperties
<1>5. /\ taken' \in Seq(Nat) /\ Len(taken') = n
      /\ \A c \in 1 .. Len(controllers) : taken'[c] = taken[c]
      /\ taken'[n] = 0
  BY <1>1, <1>3, AppendProperties
<1>6. Numbers' = Numbers \cup {n} /\ n \notin Numbers /\ n \in Nat
  BY <1>1, <1>4 DEF Numbers
<1> QED
  BY <1>3, <1>4, <1>5, <1>6 DEF r, Numbers

\* The new record of its controller after a preparation, and after work begins.
LEMMA PreparesEffect ==
    ASSUME Typed, NEW k \in Connections, Prepares(k)
    PROVE  LET c == cmd[k].ctrl IN
           /\ c \in Numbers /\ Evolves /\ cmd[k].kind \in Preps
           /\ \A d \in Numbers : d # c => controllers'[d] = controllers[d]
           /\ controllers'[c].phase = IF controllers[c].phase = "resolving"
                                        THEN "resolved" ELSE controllers[c].phase
           /\ sessionId[k] # 0 => sessionId[k] \in controllers'[c].sessions
           /\ cmd' = [cmd EXCEPT ![k] = NoCommand]
           /\ RegisterMemento(k, c)
<1> DEFINE c == cmd[k].ctrl
           r == [controllers[c] EXCEPT
                    !.phase = IF @ = "resolving" THEN "resolved" ELSE @,
                    !.sessions = @ \cup ({sessionId[k]} \ {0})]
<1>1. c \in Numbers
  BY CommandTyped DEF Prepares, GoesOn
<1>2. controllers[c] \in Controller /\ sessionId[k] \in Sessions \cup {0}
  BY <1>1, ControllersTyped, CommandTyped
<1>3. /\ r \in Controller
      /\ r.encrypting = controllers[c].encrypting /\ r.recipients = controllers[c].recipients
      /\ r.owner = controllers[c].owner
      /\ r.sessions = controllers[c].sessions \cup ({sessionId[k]} \ {0})
      /\ r.phase = IF controllers[c].phase = "resolving" THEN "resolved" ELSE controllers[c].phase
  BY <1>2 DEF Controller, Phases
<1>4. /\ controllers' = [controllers EXCEPT ![c] = r]
      /\ cmd' = [cmd EXCEPT ![k] = NoCommand] /\ RegisterMemento(k, c) /\ cmd[k].kind \in Preps
  BY <1>1 DEF Prepares, PreparationEnds
<1> HIDE DEF r, c
<1>5. /\ Evolves /\ controllers'[c] = r
      /\ \A d \in Numbers : d # c => controllers'[d] = controllers[d]
  BY <1>1, <1>3, <1>4, ReplacedEvolves DEF Ready
<1> QED
  BY <1>1, <1>3, <1>4, <1>5 DEF c

LEMMA WorksEffect ==
    ASSUME Typed, NEW k \in Connections, Works(k)
    PROVE  LET c == cmd[k].ctrl IN
           /\ c \in Numbers /\ Evolves /\ cmd[k].kind \notin Preps
           /\ UNCHANGED <<mementos, sessionMemento, spread>>
           /\ \A d \in Numbers : d # c => controllers'[d].phase = controllers[d].phase
           /\ \/ /\ cmd' = [cmd EXCEPT ![k].state = "working"]
                 /\ controllers'[c].phase = "working"
              \/ /\ cmd' = [cmd EXCEPT ![k] = NoCommand]
                 /\ controllers'[c].phase # "working"
<1> DEFINE c == cmd[k].ctrl
           r == [controllers[c] EXCEPT !.phase = "working"]
<1>1. c \in Numbers
  BY CommandTyped DEF Works, GoesOn
<1>2. controllers[c] \in Controller
  BY <1>1, ControllersTyped
<1>3. cmd[k].kind \notin Preps /\ UNCHANGED <<mementos, sessionMemento, spread>>
  BY DEF Works, WorkBegins, KeepMementos
<1>4. CASE cmd' = [cmd EXCEPT ![k].state = "working"]
           /\ controllers' = [controllers EXCEPT ![c].phase = "working"]
  <2>1. /\ r \in Controller
        /\ r.encrypting = controllers[c].encrypting /\ r.recipients = controllers[c].recipients
        /\ r.owner = controllers[c].owner /\ r.sessions = controllers[c].sessions
        /\ r.phase = "working"
    BY <1>2 DEF Controller, Phases
  <2>2. controllers' = [controllers EXCEPT ![c] = r]
    BY <1>4
  <2> HIDE DEF r, c
  <2>3. /\ Evolves /\ controllers'[c] = r
        /\ \A d \in Numbers : d # c => controllers'[d] = controllers[d]
    BY <1>1, <2>1, <2>2, ReplacedEvolves DEF Ready
  <2> QED
    BY <1>1, <1>3, <1>4, <2>1, <2>3 DEF c
<1>5. CASE cmd' = [cmd EXCEPT ![k] = NoCommand] /\ controllers' = Canceled(c)
  <2>1. Evolves /\ controllers'[c].phase # "working"
    BY <1>1, <1>5, CanceledEvolves
  <2>2. \A d \in Numbers : d # c => controllers'[d] = controllers[d]
    BY <1>1, <1>5, CanceledEffect
  <2> QED
    BY <1>1, <1>3, <1>5, <2>1, <2>2
<1> QED
  BY <1>4, <1>5 DEF Works, WorkBegins

LEMMA FailsEffect ==
    ASSUME Typed, NEW k \in Connections, ResolvingFails(k)
    PROVE  LET c == cmd[k].ctrl IN
           /\ c \in Numbers /\ Evolves /\ controllers[c].phase = "resolving"
           /\ controllers'[c].phase = "failed"
           /\ \A d \in Numbers : d # c => controllers'[d] = controllers[d]
           /\ cmd' = [cmd EXCEPT ![k] = NoCommand]
<1> DEFINE c == cmd[k].ctrl
           r == [controllers[c] EXCEPT !.phase = "failed"]
<1>1. c \in Numbers /\ controllers[c].phase = "resolving"
  BY CommandTyped DEF ResolvingFails
<1>2. controllers[c] \in Controller
  BY <1>1, ControllersTyped
<1>3. /\ r \in Controller
      /\ r.encrypting = controllers[c].encrypting /\ r.recipients = controllers[c].recipients
      /\ r.owner = controllers[c].owner /\ r.sessions = controllers[c].sessions
      /\ r.phase = "failed"
  BY <1>2 DEF Controller, Phases
<1>4. controllers' = [controllers EXCEPT ![c] = r] /\ cmd' = [cmd EXCEPT ![k] = NoCommand]
  BY DEF ResolvingFails
<1> HIDE DEF r, c
<1>5. /\ Evolves /\ controllers'[c] = r
      /\ \A d \in Numbers : d # c => controllers'[d] = controllers[d]
  BY <1>1, <1>3, <1>4, ReplacedEvolves DEF Ready
<1> QED
  BY <1>1, <1>3, <1>4, <1>5 DEF c

LEMMA EndsEffect ==
    ASSUME Typed, NEW c \in Numbers, NEW ok \in BOOLEAN, ControllerEnds(c, ok)
    PROVE  /\ Evolves /\ controllers'[c].phase = "resolved"
           /\ \A d \in Numbers : d # c => controllers'[d] = controllers[d]
           /\ \A k \in Connections : cmd'[k] = cmd[k] \/ (cmd'[k] = NoCommand /\ cmd[k].ctrl = c)
           /\ cmd' \in [Connections -> Command]
<1> DEFINE r == [controllers[c] EXCEPT !.phase = "resolved"]
<1>1. controllers[c] \in Controller
  BY ControllersTyped
<1>2. /\ r \in Controller
      /\ r.encrypting = controllers[c].encrypting /\ r.recipients = controllers[c].recipients
      /\ r.owner = controllers[c].owner /\ r.sessions = controllers[c].sessions
      /\ r.phase = "resolved"
  BY <1>1 DEF Controller, Phases
<1>3. controllers' = [controllers EXCEPT ![c] = r]
  BY DEF ControllerEnds
<1> HIDE DEF r
<1>4. /\ Evolves /\ controllers'[c] = r
      /\ \A d \in Numbers : d # c => controllers'[d] = controllers[d]
  BY <1>2, <1>3, ReplacedEvolves DEF Ready
<1>5. \A k \in Connections : cmd'[k] = cmd[k] \/ (cmd'[k] = NoCommand /\ cmd[k].ctrl = c)
  <2> DEFINE answered == {j \in Users(c) : ok => cmd[j].kind \notin Preps}
  <2>1. cmd' = [j \in Connections |-> IF j \in answered THEN NoCommand ELSE cmd[j]]
    BY DEF ControllerEnds
  <2>2. \A j \in answered : cmd[j].ctrl = c
    BY DEF Users
  <2> HIDE DEF answered
  <2> QED
    BY <2>1, <2>2
<1>6. cmd' \in [Connections -> Command]
  BY NoCommandTyped, CommandTyped DEF ControllerEnds
<1> QED
  BY <1>2, <1>4, <1>5, <1>6

LEMMA HangsUpEffect ==
    ASSUME Typed, NEW k \in Connections, HangsUp(k)
    PROVE  /\ Evolves /\ cmd' = [cmd EXCEPT ![k] = NoCommand] /\ Forgets
           /\ \A d \in Numbers : d # cmd[k].ctrl => controllers'[d] = controllers[d]
           /\ cmd[k].ctrl # 0 => cmd[k].ctrl \in Numbers
                                 /\ controllers'[cmd[k].ctrl].phase # "working"
<1> DEFINE c == cmd[k].ctrl
<1>1. c # 0 => c \in Numbers
  BY CommandTyped
<1>2. Forgets /\ cmd' = [cmd EXCEPT ![k] = NoCommand]
  BY DEF HangsUp, Forgets, Typed, TypeOK
<1>3. CASE c = 0
  <2>1. controllers' = controllers
    BY <1>3 DEF HangsUp
  <2> QED
    BY <1>2, <1>3, <2>1, ControllersTyped DEF Evolves
<1>4. CASE c # 0
  <2>1. controllers' = Canceled(c)
    BY <1>4 DEF HangsUp
  <2>2. Evolves /\ controllers'[c].phase # "working"
    BY <1>1, <1>4, <2>1, CanceledEvolves
  <2>3. \A d \in Numbers : d # c => controllers'[d] = controllers[d]
    BY <1>1, <1>4, <2>1, CanceledEffect
  <2> QED
    BY <1>1, <1>2, <2>2, <2>3
<1> QED
  BY <1>3, <1>4

-----------------------------------------------------------------------------
(* Types *)

Plain ==
    /\ alive \subseteq Connections /\ commands \in Nat /\ switches \in Nat
    /\ sessionId \in [Connections -> Sessions \cup {0}] /\ ref \in [Sessions -> Nat]

LEMMA PlainTyped ==
    ASSUME Typed, [Next]_vars
    PROVE  Plain'
<1>1. Plain
  BY DEF Typed, TypeOK, Plain
<1>2. CASE UNCHANGED <<connVars, ref>>
  BY <1>1, <1>2 DEF connVars, Plain
<1>3. ASSUME NEW k \in Connections, NEW s \in Sessions, EntersSession(k, s)
      PROVE  Plain'
  BY <1>1, <1>3 DEF EntersSession, Plain
<1>4. ASSUME NEW k \in Connections, Resets(k)
      PROVE  Plain'
  BY <1>1, <1>4 DEF Resets, Plain
<1>5. ASSUME NEW k \in Connections, HangsUp(k)
      PROVE  Plain'
  <2>1. ref' \in [Sessions -> Nat]
    <3>1. CASE sessionId[k] = 0
      BY <1>1, <1>5, <3>1 DEF HangsUp, Plain
    <3>2. CASE sessionId[k] # 0
      BY <1>1, <1>5, <3>2 DEF HangsUp, Exit, Plain
    <3> QED
      BY <3>1, <3>2
  <2> QED
    BY <1>1, <1>5, <2>1 DEF HangsUp, Plain
<1>6. ASSUME NEW k \in Connections, Handles(k)
      PROVE  Plain'
  BY <1>1, <1>6 DEF Handles, Plain
<1>7. ASSUME NEW k \in Connections, Commands(k)
      PROVE  Handles(k)
  BY <1>7 DEF Commands, Fails, PrepEncrypt, Encrypt, PrepSign, Sign
<1>8. ASSUME NEW k \in Connections, Advances(k)
      PROVE  UNCHANGED <<connVars, ref>>
  BY <1>8 DEF Advances, CertificatesResolved, TimerFires, ResolvingFails, dataVars
<1>9. ControllersEnd => UNCHANGED <<connVars, ref>>
  BY DEF ControllersEnd, ControllerEnds, dataVars
<1>10. UNCHANGED vars => UNCHANGED <<connVars, ref>>
  BY DEF vars, dataVars
<1> QED
  BY <1>2, <1>3, <1>4, <1>5, <1>6, <1>7, <1>8, <1>9, <1>10, Zenon DEF Next

\* What is left to be shown of a step.
RestTyped ==
    /\ cmd \in [Connections -> Command]
    /\ mementos \in [Connections -> Nat] /\ sessionMemento \in [Sessions -> Nat]
    /\ controllers \in Seq(Controller)
    /\ shared \subseteq Nat /\ spread \subseteq Nat /\ misled \subseteq Nat /\ taken \in Seq(Nat)

LEMMA RestIsTyped == ASSUME Typed PROVE RestTyped
  BY Zenon DEF Typed, TypeOK, RestTyped, Command, Controller, States, Phases

LEMMA EndedLinked ==
    ASSUME Typed, Len(controllers') = Len(controllers), UNCHANGED taken,
           \A k \in Connections : cmd'[k] = cmd[k] \/ cmd'[k] = NoCommand
    PROVE  \A k \in Connections :
              /\ cmd'[k].ctrl <= Len(controllers')
              /\ cmd'[k] # NoCommand =>
                    cmd'[k].ctrl # 0 /\ cmd'[k].kind \in Kinds /\ cmd'[k].state # "none"
<1>1. NoCommand.ctrl = 0 /\ Len(controllers) \in Nat
  BY ControllersTyped DEF NoCommand
<1> QED
  BY <1>1 DEF Typed, Linked

LEMMA ForgottenLinked ==
    ASSUME Typed, Forgets, Len(controllers') >= Len(controllers), Len(controllers') \in Nat
    PROVE  /\ \A k \in Connections : mementos'[k] <= Len(controllers')
           /\ \A s \in Sessions : sessionMemento'[s] <= Len(controllers')
<1>1. /\ \A k \in Connections : mementos[k] \in Nat /\ mementos[k] <= Len(controllers)
      /\ \A s \in Sessions : sessionMemento[s] \in Nat /\ sessionMemento[s] <= Len(controllers)
      /\ Len(controllers) \in Nat
  BY ControllersTyped DEF Typed, TypeOK, Linked
<1> QED
  BY <1>1 DEF Forgets

LEMMA IdlesTyped ==
    ASSUME Typed, Idles
    PROVE  RestTyped' /\ Linked'
<1>1. RestTyped'
  BY RestIsTyped DEF Idles, Forgets, RestTyped, histVars
<1>2. Len(controllers) \in Nat /\ Len(controllers') = Len(controllers)
  BY ControllersTyped DEF Idles
<1>3. Linked'
  BY <1>2, ForgottenLinked DEF Idles, Linked, Typed, histVars
<1> QED
  BY <1>1, <1>3

LEMMA BeginsNewTyped ==
    ASSUME Typed, NEW k \in Connections, NEW kind \in Kinds, NEW g \in Lines,
           NEW enc \in BOOLEAN, NEW sign \in BOOLEAN, BeginsNew(k, kind, g, enc, sign)
    PROVE  RestTyped' /\ Linked'
<1>1. PICK n : n = Len(controllers) + 1
  OBVIOUS
<1> DEFINE r == [kind |-> kind, state |-> "resolving", recipients |-> g.recipients, ctrl |-> n]
<1>2. /\ controllers' \in Seq(Controller) /\ Len(controllers') = n /\ n \in Nat
      /\ taken' \in Seq(Nat) /\ Len(taken') = n
  BY <1>1, NewEffect, ZenonT(60)
<1>3. cmd' = [cmd EXCEPT ![k] = r]
  BY <1>1 DEF BeginsNew, NewController
<1>4. r \in Command
  BY <1>2, LineTyped DEF Command, States
<1>5. Forgets /\ UNCHANGED <<shared, spread, misled>>
  BY DEF BeginsNew, NewController
<1>6. r.ctrl = n /\ r.kind = kind /\ r.state = "resolving"
  OBVIOUS
<1> HIDE DEF r
<1>7. RestTyped'
  BY <1>2, <1>3, <1>4, <1>5, RestIsTyped DEF RestTyped, Forgets
<1>8. Len(controllers) \in Nat /\ n > Len(controllers)
  BY <1>1, ControllersTyped
<1>9. /\ \A j \in Connections : mementos'[j] <= Len(controllers')
      /\ \A s \in Sessions : sessionMemento'[s] <= Len(controllers')
  BY <1>2, <1>5, <1>8, ForgottenLinked
<1>10. \A j \in Connections : cmd'[j] = IF j = k THEN r ELSE cmd[j]
  BY <1>3, RestIsTyped DEF RestTyped
<1>11. \A j \in Connections : cmd[j].ctrl <= n
  BY <1>1, <1>8, CommandTyped
<1>12. \A j \in Connections :
          /\ cmd'[j].ctrl <= Len(controllers')
          /\ cmd'[j] # NoCommand =>
                cmd'[j].ctrl # 0 /\ cmd'[j].kind \in Kinds /\ cmd'[j].state # "none"
  BY <1>2, <1>6, <1>8, <1>10, <1>11 DEF Typed, Linked
<1> QED
  BY <1>2, <1>7, <1>9, <1>12 DEF Linked

LEMMA BeginsReusedTyped ==
    ASSUME Typed, NEW k \in Connections, NEW kind \in Kinds, NEW g \in Lines,
           BeginsReused(k, kind, g)
    PROVE  RestTyped' /\ Linked'
<1> DEFINE c == Memento(k)
           r == [kind |-> kind, state |-> "resolved", recipients |-> g.recipients, ctrl |-> c]
<1>1. c \in Numbers
  BY MementoTyped, ControllersTyped DEF BeginsReused, Numbers
<1>2. r \in Command
  BY <1>1, LineTyped DEF Command, States, Numbers
<1>3. /\ Forgets /\ UNCHANGED <<controllers, spread, misled>>
      /\ cmd' = [cmd EXCEPT ![k] = r]
  BY DEF BeginsReused, Reuse
<1>4. shared' \subseteq Nat
  BY <1>1, RestIsTyped DEF BeginsReused, Reuse, RestTyped, Numbers
<1>5. taken' \in Seq(Nat) /\ Len(taken') = Len(taken)
  <2>1. taken \in Seq(Nat) /\ c \in 1 .. Len(taken) /\ taken[c] + 1 \in Nat
    BY <1>1, ControllersTyped DEF Typed, Linked, Numbers
  <2>2. CASE taken' = [taken EXCEPT ![c] = @ + 1]
    BY <2>1, <2>2, ExceptSeq
  <2>3. CASE UNCHANGED taken
    BY <2>1, <2>3
  <2> QED
    BY <2>2, <2>3 DEF BeginsReused
<1>6. r.ctrl = c /\ r.kind = kind /\ r.state = "resolved"
  OBVIOUS
<1> HIDE DEF r, c
<1>7. RestTyped'
  BY <1>2, <1>3, <1>4, <1>5, RestIsTyped DEF RestTyped, Forgets
<1>8. Len(controllers) \in Nat
  BY ControllersTyped
<1>9. /\ \A j \in Connections : mementos'[j] <= Len(controllers')
      /\ \A s \in Sessions : sessionMemento'[s] <= Len(controllers')
  BY <1>3, <1>8, ForgottenLinked
<1>10. \A j \in Connections : cmd'[j] = IF j = k THEN r ELSE cmd[j]
  BY <1>3, RestIsTyped DEF RestTyped
<1>11. \A j \in Connections :
          /\ cmd'[j].ctrl <= Len(controllers')
          /\ cmd'[j] # NoCommand =>
                cmd'[j].ctrl # 0 /\ cmd'[j].kind \in Kinds /\ cmd'[j].state # "none"
  BY <1>1, <1>3, <1>6, <1>8, <1>10 DEF Typed, Linked, Numbers
<1> QED
  BY <1>3, <1>5, <1>7, <1>9, <1>11 DEF Linked, Typed

LEMMA PreparesTyped ==
    ASSUME Typed, NEW k \in Connections, Prepares(k)
    PROVE  RestTyped' /\ Linked'
<1> DEFINE c == cmd[k].ctrl
<1>1. /\ c \in Numbers /\ Evolves /\ cmd' = [cmd EXCEPT ![k] = NoCommand]
      /\ RegisterMemento(k, c)
  BY PreparesEffect
<1>2. UNCHANGED <<taken, shared, misled>>
  BY DEF Prepares, GoesOn
<1>3. spread' \subseteq Nat
  BY <1>1, RestIsTyped DEF Prepares, PreparationEnds, RestTyped, Numbers
<1>4. /\ mementos' \in [Connections -> Nat] /\ sessionMemento' \in [Sessions -> Nat]
      /\ \A j \in Connections : mementos'[j] \in {mementos[j], c}
      /\ \A s \in Sessions : sessionMemento'[s] \in {sessionMemento[s], c}
  <2>1. c \in Nat /\ sessionId[k] \in Sessions \cup {0}
    BY <1>1, CommandTyped DEF Numbers
  <2> HIDE DEF c
  <2>2. mementos \in [Connections -> Nat] /\ sessionMemento \in [Sessions -> Nat]
    BY RestIsTyped DEF RestTyped
  <2>3. CASE sessionId[k] # 0
    BY <1>1, <2>1, <2>2, <2>3 DEF RegisterMemento
  <2>4. CASE sessionId[k] = 0
    BY <1>1, <2>1, <2>2, <2>4 DEF RegisterMemento
  <2> QED
    BY <2>3, <2>4
<1>5. RestTyped'
  BY <1>1, <1>2, <1>3, <1>4, RestIsTyped, NoCommandTyped DEF RestTyped, Evolves
<1>6. /\ \A j \in Connections : mementos'[j] <= Len(controllers')
      /\ \A s \in Sessions : sessionMemento'[s] <= Len(controllers')
  BY <1>1, <1>4 DEF Typed, Linked, Evolves, Numbers
<1>7. \A j \in Connections : cmd'[j] = cmd[j] \/ cmd'[j] = NoCommand
  BY <1>1, RestIsTyped DEF RestTyped
<1> QED
  BY <1>1, <1>2, <1>5, <1>6, <1>7, EndedLinked DEF Linked, Typed, Evolves

LEMMA WorksTyped ==
    ASSUME Typed, NEW k \in Connections, Works(k)
    PROVE  RestTyped' /\ Linked'
<1>1. /\ Evolves /\ UNCHANGED <<mementos, sessionMemento, spread, taken, shared, misled>>
      /\ \/ cmd' = [cmd EXCEPT ![k].state = "working"] \/ cmd' = [cmd EXCEPT ![k] = NoCommand]
  BY WorksEffect DEF Works, GoesOn
<1>2. Len(controllers') = Len(controllers)
  BY <1>1 DEF Evolves
<1>3. cmd \in [Connections -> Command]
  BY RestIsTyped DEF RestTyped
<1>4. CASE cmd' = [cmd EXCEPT ![k] = NoCommand]
  <2>1. \A j \in Connections : cmd'[j] = cmd[j] \/ cmd'[j] = NoCommand
    BY <1>3, <1>4
  <2>2. RestTyped'
    BY <1>1, <1>3, <1>4, RestIsTyped, NoCommandTyped DEF RestTyped, Evolves
  <2> QED
    BY <1>1, <1>2, <2>1, <2>2, EndedLinked DEF Linked, Typed
<1>5. CASE cmd' = [cmd EXCEPT ![k].state = "working"]
  <2>1. cmd[k] \in Command /\ cmd[k] # NoCommand
    BY CommandTyped DEF Works, GoesOn
  <2> DEFINE r == [cmd[k] EXCEPT !.state = "working"]
  <2>2. r \in Command /\ r.ctrl = cmd[k].ctrl /\ r.kind = cmd[k].kind /\ r.state = "working"
    BY <2>1 DEF Command, States
  <2>3. cmd' = [cmd EXCEPT ![k] = r]
    BY <1>5
  <2> HIDE DEF r
  <2>4. cmd' \in [Connections -> Command] /\ \A j \in Connections : cmd'[j] = IF j = k THEN r ELSE cmd[j]
    BY <1>3, <2>2, <2>3
  <2>5. RestTyped'
    BY <1>1, <2>4, RestIsTyped DEF RestTyped, Evolves
  <2>6. \A j \in Connections :
          /\ cmd'[j].ctrl <= Len(controllers')
          /\ cmd'[j] # NoCommand =>
                cmd'[j].ctrl # 0 /\ cmd'[j].kind \in Kinds /\ cmd'[j].state # "none"
    BY <1>2, <2>1, <2>2, <2>4 DEF Typed, Linked
  <2> QED
    BY <1>1, <1>2, <2>5, <2>6 DEF Linked, Typed
<1> QED
  BY <1>1, <1>4, <1>5

LEMMA FailsTyped ==
    ASSUME Typed, NEW k \in Connections, ResolvingFails(k)
    PROVE  RestTyped' /\ Linked'
<1>1. /\ Evolves /\ cmd' = [cmd EXCEPT ![k] = NoCommand]
      /\ UNCHANGED <<mementos, sessionMemento, spread, taken, shared, misled>>
  BY FailsEffect DEF ResolvingFails, dataVars, histVars
<1>2. RestTyped' /\ \A j \in Connections : cmd'[j] = cmd[j] \/ cmd'[j] = NoCommand
  BY <1>1, RestIsTyped, NoCommandTyped DEF RestTyped, Evolves
<1> QED
  BY <1>1, <1>2, EndedLinked DEF Linked, Typed, Evolves

LEMMA HangsUpTyped ==
    ASSUME Typed, NEW k \in Connections, HangsUp(k)
    PROVE  RestTyped' /\ Linked'
<1>1. /\ Evolves /\ cmd' = [cmd EXCEPT ![k] = NoCommand] /\ Forgets
      /\ UNCHANGED <<spread, taken, shared, misled>>
  BY HangsUpEffect DEF HangsUp, histVars
<1>2. RestTyped' /\ \A j \in Connections : cmd'[j] = cmd[j] \/ cmd'[j] = NoCommand
  BY <1>1, RestIsTyped, NoCommandTyped DEF RestTyped, Evolves, Forgets
<1>3. Len(controllers) \in Nat /\ Len(controllers') = Len(controllers)
  BY <1>1, ControllersTyped DEF Evolves
<1> QED
  BY <1>1, <1>2, <1>3, EndedLinked, ForgottenLinked DEF Linked, Typed

LEMMA EndsTyped ==
    ASSUME Typed, NEW c \in Numbers, NEW ok \in BOOLEAN, ControllerEnds(c, ok)
    PROVE  RestTyped' /\ Linked'
<1>1. /\ Evolves /\ cmd' \in [Connections -> Command]
      /\ \A k \in Connections : cmd'[k] = cmd[k] \/ cmd'[k] = NoCommand
      /\ UNCHANGED <<mementos, sessionMemento, spread, taken, shared>>
  BY EndsEffect DEF ControllerEnds, dataVars
<1>2. misled' \subseteq Nat
  BY RestIsTyped, ControllersTyped DEF ControllerEnds, RestTyped, Numbers
<1> QED
  BY <1>1, <1>2, RestIsTyped, EndedLinked DEF RestTyped, Linked, Typed, Evolves

LEMMA TypedInit == Init => Typed
<1> SUFFICES ASSUME Init PROVE Typed
  OBVIOUS
<1>1. NoCommand \in Command
  BY NoCommandTyped
<1>2. << >> \in Seq(Controller) /\ << >> \in Seq(Nat) /\ Len(<< >>) = 0
  BY EmptySeq
<1>3. RestTyped
  BY <1>1, <1>2 DEF Init, RestTyped
<1>4. TypeOK
  BY <1>3 DEF Init, TypeOK, RestTyped, Command, Controller, States, Phases
<1>5. NoCommand.ctrl = 0
  BY DEF NoCommand
<1>6. Linked
  BY <1>2, <1>5 DEF Init, Linked
<1> QED
  BY <1>4, <1>6 DEF Typed

LEMMA TypedNext ==
    ASSUME Typed, [Next]_vars
    PROVE  Typed'
<1>1. RestTyped' /\ Linked'
  BY StepCases, IdlesTyped, BeginsNewTyped, BeginsReusedTyped, PreparesTyped, WorksTyped,
     FailsTyped, HangsUpTyped, EndsTyped
<1>2. TypeOK'
  BY <1>1, PlainTyped, Zenon DEF TypeOK, Plain, RestTyped, Command, Controller, States, Phases
<1> QED
  BY <1>1, <1>2 DEF Typed

\* Every variable keeps its type, and the controllers that commands and mementos
\* name exist (assuanserverconnection.cpp, the four e-mail commands).
THEOREM TypeCorrect == Spec => []TypeOK
<1>1. Typed /\ [Next]_vars => Typed'
  BY TypedNext
<1>2. Typed => TypeOK
  BY DEF Typed
<1> QED
  BY TypedInit, <1>1, <1>2, PTL DEF Spec

-----------------------------------------------------------------------------
(* What a command is like when it has begun *)

LEMMA NewBegun ==
    ASSUME Typed, NEW k \in Connections, NEW kind \in Kinds, NEW g \in Lines,
           NEW enc \in BOOLEAN, NEW sign \in BOOLEAN, BeginsNew(k, kind, g, enc, sign),
           NEW n, n = Len(controllers) + 1
    PROVE  /\ cmd'[k].ctrl = n /\ cmd'[k].kind = kind /\ cmd'[k].state = "resolving"
           /\ cmd'[k].recipients = g.recipients
           /\ \A j \in Connections : j # k => cmd'[j] = cmd[j]
           /\ Forgets /\ UNCHANGED <<sessionId, shared, spread, misled>>
           /\ controllers'[n].encrypting = enc /\ controllers'[n].recipients = g.recipients
           /\ controllers'[n].owner = k /\ controllers'[n].phase = "resolving"
           /\ enc => g.recipients # {}
           /\ kind = "ENCRYPT" => enc
<1> DEFINE r == [kind |-> kind, state |-> "resolving", recipients |-> g.recipients, ctrl |-> n]
<1>1. cmd' = [cmd EXCEPT ![k] = r] /\ cmd \in [Connections -> Command]
  BY RestIsTyped DEF BeginsNew, NewController, RestTyped
<1>2. /\ r.ctrl = n /\ r.kind = kind /\ r.state = "resolving"
      /\ r.recipients = g.recipients
  OBVIOUS
<1> HIDE DEF r
<1>3. cmd'[k] = r /\ \A j \in Connections : j # k => cmd'[j] = cmd[j]
  BY <1>1
<1>4. controllers'[n] =
         [encrypting |-> enc, signing |-> sign, phase |-> "resolving",
          recipients |-> g.recipients, owner |-> k, sessions |-> {sessionId[k]} \ {0}]
  BY NewEffect
<1>5. /\ controllers'[n].encrypting = enc /\ controllers'[n].recipients = g.recipients
      /\ controllers'[n].owner = k /\ controllers'[n].phase = "resolving"
  BY <1>4
<1>6. Forgets /\ UNCHANGED <<sessionId, shared, spread, misled>>
      /\ (enc => g.recipients # {}) /\ (kind = "ENCRYPT" => enc)
  BY DEF BeginsNew, NewController
<1> QED
  BY <1>2, <1>3, <1>5, <1>6

LEMMA ReusedBegun ==
    ASSUME Typed, NEW k \in Connections, NEW kind \in Kinds, NEW g \in Lines,
           BeginsReused(k, kind, g)
    PROVE  /\ Memento(k) \in Numbers
           /\ cmd'[k].ctrl = Memento(k) /\ cmd'[k].kind = kind /\ cmd'[k].state = "resolved"
           /\ cmd'[k].recipients = g.recipients
           /\ \A j \in Connections : j # k => cmd'[j] = cmd[j]
           /\ Forgets /\ UNCHANGED <<sessionId, controllers, spread, misled>>
           /\ kind = "ENCRYPT" =>
                 controllers[Memento(k)].encrypting /\ g.recipients = {}
<1> DEFINE c == Memento(k)
           r == [kind |-> kind, state |-> "resolved", recipients |-> g.recipients, ctrl |-> c]
<1>1. cmd' = [cmd EXCEPT ![k] = r] /\ cmd \in [Connections -> Command]
  BY RestIsTyped DEF BeginsReused, Reuse, RestTyped
<1>2. /\ r.ctrl = c /\ r.kind = kind /\ r.state = "resolved"
      /\ r.recipients = g.recipients
  OBVIOUS
<1>3. c \in Numbers
  BY MementoTyped, ControllersTyped DEF BeginsReused, Numbers
<1> HIDE DEF r
<1>4. cmd'[k] = r /\ \A j \in Connections : j # k => cmd'[j] = cmd[j]
  BY <1>1
<1>5. Forgets /\ UNCHANGED <<sessionId, controllers, spread, misled>>
      /\ (kind = "ENCRYPT" => controllers[c].encrypting /\ g.recipients = {})
  BY DEF BeginsReused, Reuse
<1> QED
  BY <1>2, <1>3, <1>4, <1>5

\* A command ends by having none; the others are as they were.
LEMMA OneEnds ==
    ASSUME Typed, NEW k \in Connections, cmd' = [cmd EXCEPT ![k] = NoCommand]
    PROVE  /\ cmd'[k] = NoCommand /\ \A j \in Connections : j # k => cmd'[j] = cmd[j]
           /\ NoCommand.ctrl = 0 /\ NoCommand.state = "none" /\ NoCommand.kind = "none"
  BY RestIsTyped DEF RestTyped, NoCommand

-----------------------------------------------------------------------------
(* A controller that is found is ready *)

MementosReady ==
    /\ \A k \in Connections : mementos[k] # 0 => controllers[mementos[k]].phase \in Ready
    /\ \A s \in Sessions : sessionMemento[s] # 0 => controllers[sessionMemento[s]].phase \in Ready
CommandsReady ==
    \A k \in Connections : cmd[k].state = "resolved" => controllers[cmd[k].ctrl].phase \in Ready
FoundInv == MementosReady /\ CommandsReady

LEMMA MementoNumbers ==
    ASSUME Typed
    PROVE  /\ \A k \in Connections : mementos[k] # 0 => mementos[k] \in Numbers
           /\ \A s \in Sessions : sessionMemento[s] # 0 => sessionMemento[s] \in Numbers
<1>1. /\ \A k \in Connections : mementos[k] \in Nat /\ mementos[k] <= Len(controllers)
      /\ \A s \in Sessions : sessionMemento[s] \in Nat /\ sessionMemento[s] <= Len(controllers)
      /\ Len(controllers) \in Nat
  BY ControllersTyped DEF Typed, TypeOK, Linked
<1> QED
  BY <1>1 DEF Numbers

\* Mementos that are forgotten and controllers that stay ready.
LEMMA ForgottenReady ==
    ASSUME Typed, MementosReady, Forgets,
           \A c \in Numbers : controllers[c].phase \in Ready => controllers'[c].phase \in Ready
    PROVE  MementosReady'
  BY MementoNumbers DEF MementosReady, Forgets

LEMMA MementoReady ==
    ASSUME Typed, MementosReady, NEW k \in Connections, Memento(k) # 0
    PROVE  controllers[Memento(k)].phase \in Ready
  BY CommandTyped DEF MementosReady, Memento

\* Commands that stay or end.
LEMMA EndedReady ==
    ASSUME Typed, CommandsReady, NEW K,
           \A j \in Connections \ K : cmd'[j] = cmd[j],
           \A j \in Connections \cap K : cmd'[j].state # "resolved",
           \A c \in Numbers : controllers[c].phase \in Ready => controllers'[c].phase \in Ready
    PROVE  CommandsReady'
<1>1. \A j \in Connections : cmd[j].state = "resolved" => cmd[j].ctrl \in Numbers
  BY CommandTyped
<1> QED
  BY <1>1 DEF CommandsReady

LEMMA FoundNext ==
    ASSUME Typed, FoundInv, [Next]_vars
    PROVE  FoundInv'
<1>1. Evolves => \A c \in Numbers : controllers[c].phase \in Ready => controllers'[c].phase \in Ready
  BY DEF Evolves
<1>2. CASE Idles
  <2>1. UNCHANGED <<cmd, controllers>> /\ Forgets
    BY <1>2 DEF Idles
  <2>2. CommandsReady'
    BY <2>1 DEF CommandsReady, FoundInv
  <2> QED
    BY <2>1, <2>2, ForgottenReady DEF FoundInv
<1>3. ASSUME NEW k \in Connections, NEW kind \in Kinds, NEW g \in Lines,
             NEW enc \in BOOLEAN, NEW sign \in BOOLEAN, BeginsNew(k, kind, g, enc, sign)
      PROVE  FoundInv'
  <2>1. PICK n : n = Len(controllers) + 1
    OBVIOUS
  <2>2. \A c \in Numbers : controllers'[c] = controllers[c]
    BY <1>3, <2>1, NewEffect, ZenonT(60)
  <2>3. /\ cmd'[k].state = "resolving" /\ \A j \in Connections : j # k => cmd'[j] = cmd[j]
        /\ Forgets
    BY <1>3, <2>1, NewBegun
  <2>4. MementosReady'
    BY <2>2, <2>3, ForgottenReady DEF FoundInv
  <2>5. \A j \in Connections \ {k} : cmd'[j] = cmd[j]
    BY <2>3
  <2>6. \A j \in Connections \cap {k} : cmd'[j].state # "resolved"
    BY <2>3
  <2>7. CommandsReady'
    BY <2>2, <2>5, <2>6, EndedReady DEF FoundInv
  <2> QED
    BY <2>4, <2>7 DEF FoundInv
<1>4. ASSUME NEW k \in Connections, NEW kind \in Kinds, NEW g \in Lines,
             BeginsReused(k, kind, g)
      PROVE  FoundInv'
  <2>1. /\ cmd'[k].ctrl = Memento(k) /\ UNCHANGED controllers /\ Forgets
        /\ \A j \in Connections : j # k => cmd'[j] = cmd[j]
        /\ Memento(k) \in Numbers
    BY <1>4, ReusedBegun
  <2>2. controllers[Memento(k)].phase \in Ready
    BY <2>1, MementoReady, ControllersTyped DEF FoundInv, Numbers
  <2>3. CommandsReady'
    BY <2>1, <2>2 DEF CommandsReady, FoundInv
  <2> QED
    BY <2>1, <2>3, ForgottenReady DEF FoundInv
<1>5. ASSUME NEW k \in Connections, Prepares(k)
      PROVE  FoundInv'
  <2> DEFINE c == cmd[k].ctrl
  <2>1. /\ c \in Numbers /\ Evolves /\ cmd' = [cmd EXCEPT ![k] = NoCommand]
        /\ RegisterMemento(k, c)
        /\ controllers'[c].phase = IF controllers[c].phase = "resolving"
                                     THEN "resolved" ELSE controllers[c].phase
    BY <1>5, PreparesEffect
  <2>2. controllers[c].phase = "resolving" \/ controllers[c].phase \in Ready
    BY <1>5 DEF Prepares, GoesOn, FoundInv, CommandsReady
  <2>3. controllers'[c].phase \in Ready
    BY <2>1, <2>2 DEF Ready
  <2>4. /\ \A j \in Connections : mementos'[j] \in {mementos[j], c}
        /\ \A s \in Sessions : sessionMemento'[s] \in {sessionMemento[s], c}
    <3>1. mementos \in [Connections -> Nat] /\ sessionMemento \in [Sessions -> Nat]
      BY RestIsTyped DEF RestTyped
    <3> HIDE DEF c
    <3> QED
      BY <2>1, <3>1 DEF RegisterMemento
  <2>5. MementosReady'
    BY <1>1, <2>1, <2>3, <2>4, MementoNumbers DEF MementosReady, FoundInv
  <2>6. \A j \in Connections \ {k} : cmd'[j] = cmd[j]
    BY <2>1, OneEnds
  <2>7. \A j \in Connections \cap {k} : cmd'[j].state # "resolved"
    BY <2>1, OneEnds
  <2>8. CommandsReady'
    BY <1>1, <2>1, <2>6, <2>7, EndedReady DEF FoundInv
  <2> QED
    BY <2>5, <2>8 DEF FoundInv
<1>6. ASSUME NEW k \in Connections, Works(k)
      PROVE  FoundInv'
  <2>1. /\ Evolves /\ UNCHANGED <<mementos, sessionMemento>>
        /\ \/ cmd' = [cmd EXCEPT ![k].state = "working"] \/ cmd' = [cmd EXCEPT ![k] = NoCommand]
    BY <1>6, WorksEffect
  <2>2. /\ cmd'[k].state # "resolved"
        /\ \A j \in Connections : j # k => cmd'[j] = cmd[j]
    <3>1. cmd \in [Connections -> Command]
      BY RestIsTyped DEF RestTyped
    <3>2. cmd[k] \in Command
      BY <3>1
    <3>3. CASE cmd' = [cmd EXCEPT ![k].state = "working"]
      BY <3>1, <3>2, <3>3 DEF Command
    <3> QED
      BY <2>1, <3>3, OneEnds
  <2>3. MementosReady'
    BY <1>1, <2>1, MementoNumbers DEF MementosReady, FoundInv
  <2>4. CommandsReady'
    <3>1. \A j \in Connections \ {k} : cmd'[j] = cmd[j]
      BY <2>2
    <3>2. \A j \in Connections \cap {k} : cmd'[j].state # "resolved"
      BY <2>2
    <3> QED
      BY <1>1, <2>1, <3>1, <3>2, EndedReady DEF FoundInv
  <2> QED
    BY <2>3, <2>4 DEF FoundInv
<1>7. ASSUME NEW k \in Connections, ResolvingFails(k) \/ HangsUp(k)
      PROVE  FoundInv'
  <2>1. Evolves /\ cmd' = [cmd EXCEPT ![k] = NoCommand]
    BY <1>7, FailsEffect, HangsUpEffect
  <2>2. Forgets
    BY <1>7, HangsUpEffect, RestIsTyped DEF ResolvingFails, dataVars, Forgets, RestTyped
  <2>3. \A j \in Connections \ {k} : cmd'[j] = cmd[j]
    BY <2>1, OneEnds
  <2>4. \A j \in Connections \cap {k} : cmd'[j].state # "resolved"
    BY <2>1, OneEnds
  <2>5. CommandsReady'
    BY <1>1, <2>1, <2>3, <2>4, EndedReady DEF FoundInv
  <2>6. MementosReady'
    BY <1>1, <2>1, <2>2, ForgottenReady DEF FoundInv
  <2> QED
    BY <2>5, <2>6 DEF FoundInv
<1>8. ASSUME NEW c \in Numbers, NEW ok \in BOOLEAN, ControllerEnds(c, ok)
      PROVE  FoundInv'
  <2>1. /\ Evolves
        /\ \A k \in Connections : cmd'[k] = cmd[k] \/ (cmd'[k] = NoCommand /\ cmd[k].ctrl = c)
    BY <1>8, EndsEffect
  <2>2. Forgets
    BY <1>8, RestIsTyped DEF ControllerEnds, dataVars, Forgets, RestTyped
  <2>3. PICK K : K = {j \in Connections : cmd'[j] # cmd[j]}
    OBVIOUS
  <2>4. \A j \in Connections \ K : cmd'[j] = cmd[j]
    BY <2>3
  <2>5. \A j \in Connections \cap K : cmd'[j].state # "resolved"
    BY <2>1, <2>3 DEF NoCommand
  <2>6. CommandsReady'
    BY <1>1, <2>1, <2>4, <2>5, EndedReady DEF FoundInv
  <2>7. MementosReady'
    BY <1>1, <2>1, <2>2, ForgottenReady DEF FoundInv
  <2> QED
    BY <2>6, <2>7 DEF FoundInv
<1> QED
  BY <1>2, <1>3, <1>4, <1>5, <1>6, <1>7, <1>8, StepCases

\* A command that goes on with a controller finds its certificates resolved, whoever
\* resolved them (encryptcommand.cpp:153, prepsigncommand.cpp, signcommand.cpp).
THEOREM FoundIsResolved == Spec => []FoundResolved
<1>1. Init => FoundInv
  BY DEF Init, FoundInv, MementosReady, CommandsReady, NoCommand
<1>2. Typed /\ FoundInv /\ [Next]_vars => FoundInv'
  BY FoundNext
<1>3. Typed /\ [Next]_vars => Typed'
  BY TypedNext
<1>4. FoundInv => FoundResolved
  BY DEF FoundInv, CommandsReady, FoundResolved, Ready
<1> QED
  BY TypedInit, <1>1, <1>2, <1>3, <1>4, PTL DEF Spec

-----------------------------------------------------------------------------
(* Whose controllers are found *)

EncryptsForSome == \A c \in Numbers : controllers[c].encrypting => controllers[c].recipients # {}

\* A memento is with the connection that made the controller, or in a session in
\* which it was registered.
MementosOurs ==
    /\ \A k \in Connections : mementos[k] # 0 => controllers[mementos[k]].owner = k
    /\ \A s \in Sessions : sessionMemento[s] # 0 => s \in controllers[sessionMemento[s]].sessions

Ours(k, c) == controllers[c].owner = k \/ sessionId[k] \in controllers[c].sessions
CommandsOurs == \A k \in Connections : cmd[k].ctrl # 0 => Ours(k, cmd[k].ctrl)

Encrypting(k, c) ==
    cmd[k].kind = "ENCRYPT" =>
        /\ controllers[c].encrypting
        /\ cmd[k].recipients # {} => controllers[c].recipients = cmd[k].recipients
CommandsEncrypt == \A k \in Connections : cmd[k].ctrl # 0 => Encrypting(k, cmd[k].ctrl)

OursInv == EncryptsForSome /\ MementosOurs /\ CommandsOurs /\ CommandsEncrypt

LEMMA ForgottenOurs ==
    ASSUME Typed, MementosOurs, Forgets,
           \A c \in Numbers : /\ controllers'[c].owner = controllers[c].owner
                              /\ controllers[c].sessions \subseteq controllers'[c].sessions
    PROVE  MementosOurs'
  BY MementoNumbers DEF MementosOurs, Forgets

\* Commands that stay where they are, or end.
LEMMA StayingOurs ==
    ASSUME Typed, CommandsOurs, CommandsEncrypt, Evolves,
           NEW j \in Connections, sessionId'[j] = sessionId[j] \/ cmd'[j].ctrl = 0,
           /\ cmd'[j].ctrl = 0 \/ cmd'[j].ctrl = cmd[j].ctrl
           /\ cmd'[j].ctrl = 0 \/ cmd'[j].kind = cmd[j].kind
           /\ cmd'[j].ctrl = 0 \/ cmd'[j].recipients = cmd[j].recipients
    PROVE  cmd'[j].ctrl # 0 => Ours(j, cmd[j].ctrl)' /\ Encrypting(j, cmd[j].ctrl)'
<1> SUFFICES ASSUME cmd'[j].ctrl # 0
             PROVE  Ours(j, cmd[j].ctrl)' /\ Encrypting(j, cmd[j].ctrl)'
  OBVIOUS
<1>1. /\ cmd[j].ctrl \in Numbers /\ cmd'[j].ctrl = cmd[j].ctrl /\ cmd'[j].kind = cmd[j].kind
      /\ cmd'[j].recipients = cmd[j].recipients /\ sessionId'[j] = sessionId[j]
  BY CommandTyped
<1> QED
  BY <1>1 DEF CommandsOurs, CommandsEncrypt, Ours, Encrypting, Evolves

LEMMA SameEvolves == ASSUME Typed, UNCHANGED controllers PROVE Evolves
  BY ControllersTyped DEF Evolves

LEMMA MementoOurs ==
    ASSUME Typed, MementosOurs, NEW k \in Connections, Memento(k) # 0
    PROVE  Ours(k, Memento(k))
  BY CommandTyped DEF MementosOurs, Memento, Ours

LEMMA OursNext ==
    ASSUME Typed, OursInv, [Next]_vars
    PROVE  OursInv'
<1>1. Evolves => EncryptsForSome'
  BY DEF Evolves, OursInv, EncryptsForSome, Numbers
<1>2. Evolves /\ Forgets => MementosOurs'
  BY ForgottenOurs DEF Evolves, OursInv
<1>3. ASSUME Evolves,
             \A j \in Connections :
                /\ sessionId'[j] = sessionId[j] \/ cmd'[j].ctrl = 0
                /\ cmd'[j].ctrl = 0 \/ cmd'[j].ctrl = cmd[j].ctrl
                /\ cmd'[j].ctrl = 0 \/ cmd'[j].kind = cmd[j].kind
                /\ cmd'[j].ctrl = 0 \/ cmd'[j].recipients = cmd[j].recipients
      PROVE  CommandsOurs' /\ CommandsEncrypt'
  BY <1>3, StayingOurs DEF OursInv, CommandsOurs, CommandsEncrypt
<1>4. CASE Idles
  <2>1. Evolves /\ Forgets
    BY <1>4, SameEvolves DEF Idles
  <2>2. \A j \in Connections : cmd'[j] = cmd[j] /\ (sessionId'[j] = sessionId[j] \/ cmd'[j].ctrl = 0)
    BY <1>4 DEF Idles, NoCommand
  <2> QED
    BY <1>1, <1>2, <1>3, <2>1, <2>2 DEF OursInv
<1>5. ASSUME NEW k \in Connections, NEW kind \in Kinds, NEW g \in Lines,
             NEW enc \in BOOLEAN, NEW sign \in BOOLEAN, BeginsNew(k, kind, g, enc, sign)
      PROVE  OursInv'
  <2>1. PICK n : n = Len(controllers) + 1
    OBVIOUS
  <2>2. /\ \A c \in Numbers : controllers'[c] = controllers[c]
        /\ Numbers' = Numbers \cup {n}
    BY <1>5, <2>1, NewEffect
  <2>3. /\ cmd'[k].ctrl = n /\ cmd'[k].kind = kind /\ cmd'[k].recipients = g.recipients
        /\ \A j \in Connections : j # k => cmd'[j] = cmd[j]
        /\ Forgets /\ UNCHANGED sessionId
    BY <1>5, <2>1, NewBegun
  <2>4. /\ controllers'[n].encrypting = enc /\ controllers'[n].recipients = g.recipients
        /\ controllers'[n].owner = k
        /\ enc => g.recipients # {}
        /\ kind = "ENCRYPT" => enc
    BY <1>5, <2>1, NewBegun
  <2>5. EncryptsForSome'
    BY <2>2, <2>4 DEF EncryptsForSome, OursInv
  <2>6. MementosOurs'
    BY <2>2, <2>3, ForgottenOurs DEF OursInv
  <2>7. \A j \in Connections : j # k /\ cmd[j].ctrl # 0 => cmd[j].ctrl \in Numbers
    BY CommandTyped
  <2>8. CommandsOurs'
    BY <2>2, <2>3, <2>4, <2>7 DEF CommandsOurs, Ours, OursInv
  <2>9. CommandsEncrypt'
    BY <2>2, <2>3, <2>4, <2>7 DEF CommandsEncrypt, Encrypting, OursInv
  <2> QED
    BY <2>5, <2>6, <2>8, <2>9 DEF OursInv
<1>6. ASSUME NEW k \in Connections, NEW kind \in Kinds, NEW g \in Lines,
             BeginsReused(k, kind, g)
      PROVE  OursInv'
  <2>1. /\ Memento(k) \in Numbers
        /\ cmd'[k].ctrl = Memento(k) /\ cmd'[k].kind = kind /\ cmd'[k].recipients = g.recipients
        /\ \A j \in Connections : j # k => cmd'[j] = cmd[j]
        /\ Forgets /\ UNCHANGED <<sessionId, controllers>>
        /\ kind = "ENCRYPT" => controllers[Memento(k)].encrypting /\ g.recipients = {}
    BY <1>6, ReusedBegun
  <2>2. Ours(k, Memento(k))
    BY <1>6, MementoOurs DEF OursInv, BeginsReused
  <2>3. EncryptsForSome' /\ MementosOurs'
    BY <1>1, <1>2, <2>1, SameEvolves
  <2>4. CommandsOurs'
    BY <2>1, <2>2 DEF CommandsOurs, Ours, OursInv
  <2>5. CommandsEncrypt'
    BY <2>1 DEF CommandsEncrypt, Encrypting, OursInv
  <2> QED
    BY <2>3, <2>4, <2>5 DEF OursInv
<1>7. ASSUME NEW k \in Connections, Prepares(k)
      PROVE  OursInv'
  <2> DEFINE c == cmd[k].ctrl
  <2>1. /\ c \in Numbers /\ Evolves /\ cmd' = [cmd EXCEPT ![k] = NoCommand]
        /\ RegisterMemento(k, c)
        /\ sessionId[k] # 0 => sessionId[k] \in controllers'[c].sessions
    BY <1>7, PreparesEffect
  <2>2. /\ cmd'[k] = NoCommand /\ \A j \in Connections : j # k => cmd'[j] = cmd[j]
        /\ NoCommand.ctrl = 0 /\ UNCHANGED sessionId
    BY <1>7, <2>1, OneEnds DEF Prepares, GoesOn
  <2>3. CommandsOurs' /\ CommandsEncrypt'
    BY <1>3, <2>1, <2>2
  <2>4. sessionId[k] \in Sessions \cup {0} /\ 0 \notin Sessions /\ c # 0
    BY <1>7, <2>1, CommandTyped, SessionsArePositive, ControllersTyped DEF Numbers
  <2>5. mementos \in [Connections -> Nat] /\ sessionMemento \in [Sessions -> Nat]
    BY RestIsTyped DEF RestTyped
  <2>6. controllers[c] \in Controller
    BY <2>1, ControllersTyped
  <2>7. sessionId[k] = 0 => controllers[c].owner = k
    BY <2>4, <2>6 DEF OursInv, CommandsOurs, Ours, Controller
  <2> HIDE DEF c
  <2>8. MementosOurs'
    <3>1. CASE sessionId[k] = 0
      <4>1. /\ mementos'[k] = c /\ \A j \in Connections : j # k => mementos'[j] = mementos[j]
            /\ UNCHANGED sessionMemento
        BY <2>1, <2>5, <3>1 DEF RegisterMemento
      <4> QED
        BY <2>1, <2>7, <3>1, <4>1, MementoNumbers DEF MementosOurs, OursInv, Evolves
    <3>2. CASE sessionId[k] # 0
      <4>1. /\ sessionMemento'[sessionId[k]] = c /\ UNCHANGED mementos
            /\ \A s \in Sessions : s # sessionId[k] => sessionMemento'[s] = sessionMemento[s]
        BY <2>1, <2>4, <2>5, <3>2 DEF RegisterMemento
      <4> QED
        BY <2>1, <3>2, <4>1, MementoNumbers DEF MementosOurs, OursInv, Evolves
    <3> QED
      BY <3>1, <3>2
  <2> QED
    BY <1>1, <2>1, <2>3, <2>8 DEF OursInv
<1>8. ASSUME NEW k \in Connections, Works(k)
      PROVE  OursInv'
  <2>1. /\ Evolves /\ UNCHANGED <<mementos, sessionMemento, sessionId>>
        /\ \/ cmd' = [cmd EXCEPT ![k].state = "working"] \/ cmd' = [cmd EXCEPT ![k] = NoCommand]
    BY <1>8, WorksEffect DEF Works, GoesOn
  <2>2. Forgets
    BY <2>1, RestIsTyped DEF Forgets, RestTyped
  <2>3. cmd \in [Connections -> Command] /\ cmd[k] \in Command
    BY RestIsTyped DEF RestTyped
  <2>4. /\ cmd'[k].ctrl = 0 \/ cmd'[k].ctrl = cmd[k].ctrl
        /\ cmd'[k].ctrl = 0 \/ cmd'[k].kind = cmd[k].kind
        /\ cmd'[k].ctrl = 0 \/ cmd'[k].recipients = cmd[k].recipients
        /\ \A j \in Connections : j # k => cmd'[j] = cmd[j]
    <3>1. CASE cmd' = [cmd EXCEPT ![k].state = "working"]
      BY <2>3, <3>1 DEF Command
    <3>2. CASE cmd' = [cmd EXCEPT ![k] = NoCommand]
      BY <3>2, OneEnds
    <3> QED
      BY <2>1, <3>1, <3>2
  <2> QED
    BY <1>1, <1>2, <1>3, <2>1, <2>2, <2>4 DEF OursInv
<1>9. ASSUME NEW k \in Connections, ResolvingFails(k) \/ HangsUp(k)
      PROVE  OursInv'
  <2>1. Evolves /\ cmd' = [cmd EXCEPT ![k] = NoCommand]
    BY <1>9, FailsEffect, HangsUpEffect
  <2>2. Forgets
    BY <1>9, HangsUpEffect, RestIsTyped DEF ResolvingFails, dataVars, Forgets, RestTyped
  <2>3. \A j \in Connections : j # k => sessionId'[j] = sessionId[j]
    BY <1>9, PlainTyped DEF ResolvingFails, HangsUp, connVars, Typed, TypeOK
  <2>4. /\ cmd'[k].ctrl = 0 /\ \A j \in Connections : j # k => cmd'[j] = cmd[j]
    BY <2>1, OneEnds
  <2> QED
    BY <1>1, <1>2, <1>3, <2>1, <2>2, <2>3, <2>4 DEF OursInv
<1>10. ASSUME NEW c \in Numbers, NEW ok \in BOOLEAN, ControllerEnds(c, ok)
      PROVE  OursInv'
  <2>1. /\ Evolves
        /\ \A k \in Connections : cmd'[k] = cmd[k] \/ (cmd'[k] = NoCommand /\ cmd[k].ctrl = c)
    BY <1>10, EndsEffect
  <2>2. Forgets /\ UNCHANGED sessionId
    BY <1>10, RestIsTyped DEF ControllerEnds, dataVars, connVars, Forgets, RestTyped
  <2>3. NoCommand.ctrl = 0
    BY DEF NoCommand
  <2> QED
    BY <1>1, <1>2, <1>3, <2>1, <2>2, <2>3 DEF OursInv
<1> QED
  BY <1>4, <1>5, <1>6, <1>7, <1>8, <1>9, <1>10, StepCases

\* ENCRYPT never encrypts for anybody but those its own client named, on this
\* connection or in its session, and never for a mixture of what two commands were
\* given (encryptcommand.cpp:86-183, assuanserverconnection.cpp:1271-1336).
THEOREM OnlyForTheRightPeople == Spec => []RightPeople
<1>1. Init => OursInv
  <2> SUFFICES ASSUME Init PROVE OursInv
    OBVIOUS
  <2>1. Numbers = {}
    BY EmptySeq DEF Init, Numbers
  <2> QED
    BY <2>1 DEF Init, OursInv, EncryptsForSome, MementosOurs, CommandsOurs, CommandsEncrypt, NoCommand
<1>2. Typed /\ OursInv /\ [Next]_vars => OursInv'
  BY OursNext
<1>3. Typed /\ [Next]_vars => Typed'
  BY TypedNext
<1>4. Typed /\ OursInv => RightPeople
  BY CommandTyped DEF OursInv, EncryptsForSome, CommandsOurs, CommandsEncrypt, Ours,
                      Encrypting, RightPeople
<1> QED
  BY TypedInit, <1>1, <1>2, <1>3, <1>4, PTL DEF Spec

-----------------------------------------------------------------------------
(* References of sessions *)

In(s) == {k \in alive : sessionId[k] = s}

LEMMA InIsFinite ==
    ASSUME Typed, NEW s
    PROVE  IsFiniteSet(In(s)) /\ Cardinality(In(s)) \in Nat
<1>1. In(s) \subseteq Connections
  BY DEF In, Typed, TypeOK
<1> QED
  BY <1>1, BoundsAssumption, FS_Subset, FS_CardinalityType

LEMMA ReferencedNext ==
    ASSUME Typed, UsedIsReferenced, [Next]_vars
    PROVE  UsedIsReferenced'
<1>1. \A s \in Sessions : ref[s] \in Nat /\ ref[s] >= Cardinality(In(s))
  BY DEF UsedIsReferenced, In, Typed, TypeOK
<1>2. sessionId \in [Connections -> Sessions \cup {0}] /\ ref \in [Sessions -> Nat]
      /\ alive \subseteq Connections /\ Sessions \subseteq Nat /\ 0 \notin Sessions
  BY SessionsArePositive DEF Typed, TypeOK
<1>3. Typed'
  BY TypedNext
<1>4. SUFFICES ASSUME NEW s \in Sessions
               PROVE  ref'[s] >= Cardinality(In(s)')
  BY DEF UsedIsReferenced, In
<1>5. Cardinality(In(s)) \in Nat /\ ref[s] \in Nat /\ ref[s] >= Cardinality(In(s))
  BY <1>1, InIsFinite
<1>6. ASSUME In(s)' \subseteq In(s)
      PROVE  Cardinality(In(s)') \in Nat /\ Cardinality(In(s)') <= Cardinality(In(s))
  <2>1. PICK S : S = In(s)'
    OBVIOUS
  <2>2. S \subseteq In(s)
    BY <1>6, <2>1
  <2> QED
    BY <2>1, <2>2, InIsFinite, FS_Subset, FS_CardinalityType
<1>7. ASSUME NEW k \in Connections, NEW t \in Sessions, EntersSession(k, t)
      PROVE  ref'[s] >= Cardinality(In(s)')
  <2>1. /\ alive' = alive /\ sessionId' = [sessionId EXCEPT ![k] = t]
        /\ ref' = [ref EXCEPT ![t] = @ + 1]
    BY <1>7 DEF EntersSession
  <2>2. CASE s # t
    <3>1. In(s)' \subseteq In(s) /\ ref'[s] = ref[s]
      BY <1>2, <2>1, <2>2 DEF In
    <3> QED
      BY <1>5, <1>6, <3>1
  <2>3. CASE s = t
    <3>1. In(s)' \subseteq In(s) \cup {k} /\ ref'[s] = ref[s] + 1
      BY <1>2, <2>1, <2>3 DEF In
    <3>2. PICK S : S = In(s)'
      OBVIOUS
    <3>3. IsFiniteSet(In(s) \cup {k}) /\ Cardinality(In(s) \cup {k}) <= Cardinality(In(s)) + 1
          /\ Cardinality(In(s) \cup {k}) \in Nat
      <4>1. IsFiniteSet(In(s))
        BY InIsFinite
      <4> HIDE DEF In
      <4>2. /\ IsFiniteSet(In(s) \cup {k})
            /\ Cardinality(In(s) \cup {k}) =
                  IF k \in In(s) THEN Cardinality(In(s)) ELSE Cardinality(In(s)) + 1
        BY <4>1, FS_AddElement
      <4> QED
        BY <1>5, <4>2
    <3>4. Cardinality(S) \in Nat /\ Cardinality(S) <= Cardinality(In(s) \cup {k})
      BY <3>1, <3>2, <3>3, FS_Subset, FS_CardinalityType
    <3> QED
      BY <1>5, <3>1, <3>2, <3>3, <3>4
  <2> QED
    BY <2>2, <2>3
<1>8. ASSUME NEW k \in Connections, Resets(k)
      PROVE  ref'[s] >= Cardinality(In(s)')
  <2>1. alive' = alive /\ sessionId' = [sessionId EXCEPT ![k] = 0] /\ ref' = ref
    BY <1>8 DEF Resets
  <2>2. In(s)' \subseteq In(s)
    BY <1>2, <2>1 DEF In
  <2> QED
    BY <1>5, <1>6, <2>1, <2>2
<1>9. ASSUME NEW k \in Connections, HangsUp(k)
      PROVE  ref'[s] >= Cardinality(In(s)')
  <2>1. /\ alive' = alive \ {k} /\ sessionId' = [sessionId EXCEPT ![k] = 0] /\ k \in alive
        /\ ref' = IF sessionId[k] = 0 THEN ref ELSE Exit(sessionId[k])
    BY <1>9 DEF HangsUp
  <2>2. CASE sessionId[k] # s
    <3>1. In(s)' \subseteq In(s) /\ ref'[s] = ref[s]
      BY <1>2, <2>1, <2>2 DEF In, Exit
    <3> QED
      BY <1>5, <1>6, <3>1
  <2>3. CASE sessionId[k] = s
    <3>1. In(s)' = In(s) \ {k} /\ k \in In(s)
      BY <1>2, <2>1, <2>3 DEF In
    <3>2. ref'[s] = IF ref[s] > 0 THEN ref[s] - 1 ELSE 0
      BY <1>2, <2>1, <2>3 DEF Exit
    <3>3. Cardinality(In(s) \ {k}) = Cardinality(In(s)) - 1
      BY <3>1, InIsFinite, FS_RemoveElement
    <3> QED
      BY <1>5, <3>1, <3>2, <3>3
  <2> QED
    BY <2>2, <2>3
<1>10. ASSUME UNCHANGED <<alive, sessionId, ref>>
       PROVE  ref'[s] >= Cardinality(In(s)')
  BY <1>5, <1>10 DEF In
<1>11. ASSUME NEW k \in Connections, Commands(k)
       PROVE  UNCHANGED <<alive, sessionId, ref>>
  BY <1>11 DEF Commands, Fails, PrepEncrypt, Encrypt, PrepSign, Sign, Handles
<1>12. ASSUME NEW k \in Connections, Advances(k)
       PROVE  UNCHANGED <<alive, sessionId, ref>>
  BY <1>12 DEF Advances, CertificatesResolved, TimerFires, ResolvingFails, dataVars, connVars
<1>13. ControllersEnd \/ UNCHANGED vars => UNCHANGED <<alive, sessionId, ref>>
  BY DEF ControllersEnd, ControllerEnds, dataVars, connVars, vars
<1> QED
  BY <1>7, <1>8, <1>9, <1>10, <1>11, <1>12, <1>13, Zenon DEF Next

\* However sessions are entered, left and overwritten, a session that connections
\* are in is referenced at least once for each of them (sessiondata.cpp:73-94).
THEOREM InUseIsReferenced == Spec => []UsedIsReferenced
<1>1. Init => UsedIsReferenced
  <2> SUFFICES ASSUME Init, NEW s \in Sessions
               PROVE  ref[s] >= Cardinality({k \in alive : sessionId[k] = s})
    BY DEF UsedIsReferenced
  <2>1. {k \in alive : sessionId[k] = s} = {} /\ ref[s] = 0
    BY SessionsArePositive DEF Init
  <2> QED
    BY <2>1, FS_EmptySet
<1>2. Typed /\ UsedIsReferenced /\ [Next]_vars => UsedIsReferenced'
  BY ReferencedNext
<1>3. Typed /\ [Next]_vars => Typed'
  BY TypedNext
<1> QED
  BY TypedInit, <1>1, <1>2, <1>3, PTL DEF Spec

-----------------------------------------------------------------------------
(* Who works with a controller *)

SoleUser(c) ==
    \A i \in Connections, j \in Connections : cmd[i].ctrl = c /\ cmd[j].ctrl = c => i = j
WorkerThere(c) ==
    controllers[c].phase = "working" =>
        \E j \in Connections : cmd[j].ctrl = c /\ cmd[j].state = "working"
AloneInv == \A c \in Numbers \ shared : SoleUser(c) /\ WorkerThere(c)

LEMMA NumbersArePositive ==
    ASSUME Typed
    PROVE  0 \notin Numbers /\ NoCommand.ctrl = 0 /\ NoCommand.kind \notin Kinds
  BY ControllersTyped DEF Numbers, NoCommand, Kinds

\* Users that stay or go, workers that stay wherever work goes on.
LEMMA FewerUsersAlone ==
    ASSUME Typed, AloneInv, shared \subseteq shared',
           NEW c \in Numbers \ shared',
           \A j \in Connections : cmd'[j].ctrl = c => cmd[j].ctrl = c,
           controllers'[c].phase = "working" =>
              /\ controllers[c].phase = "working"
              /\ \A j \in Connections : cmd[j].ctrl = c /\ cmd[j].state = "working" => cmd'[j] = cmd[j]
    PROVE  SoleUser(c)' /\ WorkerThere(c)'
<1>1. SoleUser(c) /\ WorkerThere(c)
  BY DEF AloneInv
<1>2. SoleUser(c)'
  BY <1>1 DEF SoleUser
<1>3. WorkerThere(c)'
  BY <1>1 DEF WorkerThere
<1> QED
  BY <1>2, <1>3

LEMMA SameNumbers == Evolves => Numbers' = Numbers
  BY DEF Evolves, Numbers

LEMMA AloneNext ==
    ASSUME Typed, AloneInv, [Next]_vars
    PROVE  AloneInv'
<1> USE NumbersArePositive
<1>1. CASE Idles
  <2>1. UNCHANGED <<cmd, controllers, shared>> /\ Numbers' = Numbers
    BY <1>1 DEF Idles, histVars, Numbers
  <2> QED
    BY <2>1 DEF AloneInv, SoleUser, WorkerThere
<1>2. ASSUME NEW k \in Connections, NEW kind \in Kinds, NEW g \in Lines,
             NEW enc \in BOOLEAN, NEW sign \in BOOLEAN, BeginsNew(k, kind, g, enc, sign)
      PROVE  AloneInv'
  <2>1. PICK n : n = Len(controllers) + 1
    OBVIOUS
  <2>2. /\ \A c \in Numbers : controllers'[c] = controllers[c]
        /\ Numbers' = Numbers \cup {n} /\ n \notin Numbers /\ n \in Nat
    BY <1>2, <2>1, NewEffect, ZenonT(60)
  <2>3. /\ cmd'[k].ctrl = n /\ shared' = shared /\ controllers'[n].phase = "resolving"
        /\ \A j \in Connections : j # k => cmd'[j] = cmd[j]
    BY <1>2, <2>1, NewBegun
  <2>4. cmd[k] = NoCommand
    BY <1>2 DEF BeginsNew
  <2>5. \A c \in Numbers \ shared : SoleUser(c)' /\ WorkerThere(c)'
    <3>1. SUFFICES ASSUME NEW c \in Numbers \ shared
                   PROVE  SoleUser(c)' /\ WorkerThere(c)'
      OBVIOUS
    <3>2. \A j \in Connections : cmd'[j].ctrl = c => cmd[j].ctrl = c
      BY <2>2, <2>3
    <3>3. \A j \in Connections : cmd[j].ctrl = c /\ cmd[j].state = "working" => cmd'[j] = cmd[j]
      BY <2>3, <2>4
    <3> QED
      BY <2>2, <2>3, <3>2, <3>3, FewerUsersAlone
  <2>6. SoleUser(n)' /\ WorkerThere(n)'
    <3>1. \A j \in Connections : cmd[j].ctrl # n
      BY <2>1, <2>2, CommandTyped, ControllersTyped DEF Numbers
    <3> QED
      BY <2>3, <3>1 DEF SoleUser, WorkerThere
  <2> QED
    BY <2>2, <2>3, <2>5, <2>6 DEF AloneInv
<1>3. ASSUME NEW k \in Connections, NEW kind \in Kinds, NEW g \in Lines,
             BeginsReused(k, kind, g)
      PROVE  AloneInv'
  <2>1. /\ Memento(k) \in Numbers /\ cmd'[k].ctrl = Memento(k) /\ UNCHANGED controllers
        /\ \A j \in Connections : j # k => cmd'[j] = cmd[j]
    BY <1>3, ReusedBegun
  <2>2. cmd[k] = NoCommand
    BY <1>3 DEF BeginsReused
  <2>3. shared' = IF Users(Memento(k)) = {} THEN shared ELSE shared \cup {Memento(k)}
    BY <1>3 DEF BeginsReused, Reuse
  <2>4. Numbers' = Numbers
    BY <2>1 DEF Numbers
  <2>5. SUFFICES ASSUME NEW c \in Numbers \ shared'
                 PROVE  SoleUser(c)' /\ WorkerThere(c)'
    BY <2>4 DEF AloneInv
  <2>6. c \notin shared /\ SoleUser(c) /\ WorkerThere(c)
    BY <2>3 DEF AloneInv
  <2>7. WorkerThere(c)'
    BY <2>1, <2>2, <2>6 DEF WorkerThere
  <2>8. CASE c = Memento(k)
    <3>1. \A j \in Connections : cmd[j].ctrl # c
      BY <2>3, <2>8 DEF Users
    <3>2. SoleUser(c)'
      BY <2>1, <3>1 DEF SoleUser
    <3> QED
      BY <2>7, <3>2
  <2>9. CASE c # Memento(k)
    <3>1. SoleUser(c)'
      BY <2>1, <2>6, <2>9 DEF SoleUser
    <3> QED
      BY <2>7, <3>1
  <2> QED
    BY <2>8, <2>9
<1>4. ASSUME NEW k \in Connections, Prepares(k)
      PROVE  AloneInv'
  <2>1. /\ cmd[k].ctrl \in Numbers /\ Evolves /\ cmd' = [cmd EXCEPT ![k] = NoCommand]
        /\ \A d \in Numbers : d # cmd[k].ctrl => controllers'[d] = controllers[d]
        /\ controllers'[cmd[k].ctrl].phase =
              IF controllers[cmd[k].ctrl].phase = "resolving"
                THEN "resolved" ELSE controllers[cmd[k].ctrl].phase
    BY <1>4, PreparesEffect
  <2>2. /\ cmd'[k].ctrl = 0 /\ \A j \in Connections : j # k => cmd'[j] = cmd[j]
        /\ shared' = shared /\ cmd[k].state # "working"
    BY <1>4, <2>1, OneEnds DEF Prepares, GoesOn
  <2>3. SUFFICES ASSUME NEW c \in Numbers \ shared'
                 PROVE  SoleUser(c)' /\ WorkerThere(c)'
    BY <2>1, SameNumbers DEF AloneInv
  <2>4. \A j \in Connections : cmd'[j].ctrl = c => cmd[j].ctrl = c
    BY <2>2
  <2>5. controllers'[c].phase = "working" => controllers[c].phase = "working"
    BY <2>1
  <2>6. \A j \in Connections : cmd[j].ctrl = c /\ cmd[j].state = "working" => cmd'[j] = cmd[j]
    BY <2>2
  <2> QED
    BY <2>2, <2>4, <2>5, <2>6, FewerUsersAlone
<1>5. ASSUME NEW k \in Connections, Works(k)
      PROVE  AloneInv'
  <2> DEFINE d == cmd[k].ctrl
  <2>1. /\ d \in Numbers /\ Evolves /\ shared' = shared
        /\ \A e \in Numbers : e # d => controllers'[e].phase = controllers[e].phase
        /\ \/ /\ cmd' = [cmd EXCEPT ![k].state = "working"]
              /\ controllers'[d].phase = "working"
           \/ /\ cmd' = [cmd EXCEPT ![k] = NoCommand]
              /\ controllers'[d].phase # "working"
    BY <1>5, WorksEffect DEF Works, GoesOn
  <2>2. SUFFICES ASSUME NEW c \in Numbers \ shared'
                 PROVE  SoleUser(c)' /\ WorkerThere(c)'
    BY <2>1, SameNumbers DEF AloneInv
  <2>3. cmd \in [Connections -> Command] /\ cmd[k] \in Command
    BY RestIsTyped DEF RestTyped
  <2>4. CASE cmd' = [cmd EXCEPT ![k].state = "working"] /\ controllers'[d].phase = "working"
    <3>1. /\ cmd'[k].ctrl = d /\ cmd'[k].state = "working"
          /\ \A j \in Connections : j # k => cmd'[j] = cmd[j]
      BY <2>3, <2>4 DEF Command
    <3>2. SoleUser(c) /\ WorkerThere(c)
      BY <2>1 DEF AloneInv
    <3>3. SoleUser(c)'
      BY <3>1, <3>2 DEF SoleUser
    <3>4. CASE c = d
      BY <3>1, <3>3, <3>4 DEF WorkerThere
    <3>5. CASE c # d
      <4>1. WorkerThere(c)'
        BY <2>1, <3>1, <3>2, <3>5 DEF WorkerThere
      <4> QED
        BY <3>3, <4>1
    <3> QED
      BY <3>4, <3>5
  <2>5. CASE cmd' = [cmd EXCEPT ![k] = NoCommand] /\ controllers'[d].phase # "working"
    <3>1. /\ cmd'[k].ctrl = 0 /\ \A j \in Connections : j # k => cmd'[j] = cmd[j]
      BY <2>5, OneEnds
    <3>2. \A j \in Connections : cmd'[j].ctrl = c => cmd[j].ctrl = c
      BY <3>1
    <3>3. controllers'[c].phase = "working" => c # d /\ controllers[c].phase = "working"
      BY <2>1, <2>5
    <3>4. c # d => \A j \in Connections : cmd[j].ctrl = c => cmd'[j] = cmd[j]
      BY <3>1
    <3> QED
      BY <2>1, <3>2, <3>3, <3>4, FewerUsersAlone
  <2> QED
    BY <2>1, <2>4, <2>5
<1>6. ASSUME NEW k \in Connections, ResolvingFails(k) \/ HangsUp(k)
      PROVE  AloneInv'
  <2>1. /\ Evolves /\ cmd' = [cmd EXCEPT ![k] = NoCommand] /\ shared' = shared
        /\ \A d \in Numbers : d # cmd[k].ctrl => controllers'[d] = controllers[d]
        /\ cmd[k].ctrl # 0 => controllers'[cmd[k].ctrl].phase # "working"
    BY <1>6, FailsEffect, HangsUpEffect DEF ResolvingFails, HangsUp, histVars
  <2>2. SUFFICES ASSUME NEW c \in Numbers \ shared'
                 PROVE  SoleUser(c)' /\ WorkerThere(c)'
    BY <2>1, SameNumbers DEF AloneInv
  <2>3. /\ cmd'[k].ctrl = 0 /\ \A j \in Connections : j # k => cmd'[j] = cmd[j]
    BY <2>1, OneEnds
  <2>4. \A j \in Connections : cmd'[j].ctrl = c => cmd[j].ctrl = c
    BY <2>3
  <2>5. controllers'[c].phase = "working" => c # cmd[k].ctrl /\ controllers[c].phase = "working"
    BY <2>1
  <2>6. c # cmd[k].ctrl => \A j \in Connections : cmd[j].ctrl = c => cmd'[j] = cmd[j]
    BY <2>3
  <2> QED
    BY <2>1, <2>4, <2>5, <2>6, FewerUsersAlone
<1>7. ASSUME NEW d \in Numbers, NEW ok \in BOOLEAN, ControllerEnds(d, ok)
      PROVE  AloneInv'
  <2>1. /\ Evolves /\ controllers'[d].phase = "resolved" /\ shared' = shared
        /\ \A e \in Numbers : e # d => controllers'[e] = controllers[e]
        /\ \A k \in Connections : cmd'[k] = cmd[k] \/ (cmd'[k] = NoCommand /\ cmd[k].ctrl = d)
    BY <1>7, EndsEffect, ZenonT(40) DEF ControllerEnds
  <2>2. SUFFICES ASSUME NEW c \in Numbers \ shared'
                 PROVE  SoleUser(c)' /\ WorkerThere(c)'
    BY <2>1, SameNumbers DEF AloneInv
  <2>3. \A j \in Connections : cmd'[j].ctrl = c => cmd[j].ctrl = c
    BY <2>1
  <2>4. controllers'[c].phase = "working" => c # d /\ controllers[c].phase = "working"
    BY <2>1
  <2>5. c # d => \A j \in Connections : cmd[j].ctrl = c => cmd'[j] = cmd[j]
    BY <2>1
  <2> QED
    BY <2>1, <2>3, <2>4, <2>5, FewerUsersAlone
<1> QED
  BY <1>1, <1>2, <1>3, <1>4, <1>5, <1>6, <1>7, StepCases

LEMMA MisledNext ==
    ASSUME Typed, AloneInv, AnsweredForOwnWork, [Next]_vars
    PROVE  AnsweredForOwnWork'
<1>1. CASE misled' = misled /\ shared \subseteq shared'
  BY <1>1 DEF AnsweredForOwnWork
<1>2. ASSUME NEW c \in Numbers, NEW ok \in BOOLEAN, ControllerEnds(c, ok)
      PROVE  AnsweredForOwnWork'
  <2>1. ASSUME c \notin shared, ok, controllers[c].phase = "working"
        PROVE  \A j \in Users(c) : cmd[j].state = "working"
    BY <2>1 DEF AloneInv, SoleUser, WorkerThere, Users
  <2>2. shared' = shared /\ (ok => controllers[c].phase = "working")
    BY <1>2 DEF ControllerEnds
  <2>3. misled' = misled
           \/ (misled' = misled \cup {c} /\ ok /\ \E j \in Users(c) : cmd[j].state # "working")
    BY <1>2 DEF ControllerEnds
  <2> QED
    BY <2>1, <2>2, <2>3 DEF AnsweredForOwnWork
<1>3. ASSUME NEW k \in Connections, NEW kind \in Kinds, NEW g \in Lines, BeginsReused(k, kind, g)
      PROVE  misled' = misled /\ shared \subseteq shared'
  BY <1>3 DEF BeginsReused, Reuse
<1>4. ASSUME NEW k \in Connections, NEW kind \in Kinds, NEW g \in Lines,
             NEW enc \in BOOLEAN, NEW sign \in BOOLEAN, BeginsNew(k, kind, g, enc, sign)
      PROVE  misled' = misled /\ shared \subseteq shared'
  BY <1>4 DEF BeginsNew, NewController
<1>5. ASSUME Idles \/ \E k \in Connections :
                        Prepares(k) \/ Works(k) \/ ResolvingFails(k) \/ HangsUp(k)
      PROVE  misled' = misled /\ shared \subseteq shared'
  BY <1>5 DEF Idles, Prepares, Works, GoesOn, ResolvingFails, HangsUp, histVars
<1> QED
  BY <1>1, <1>2, <1>3, <1>4, <1>5, StepCases

\* done() answers a command for the work of another one only if the two have had the
\* same controller at the same time (encryptcommand.cpp:214-229, signcommand.cpp).
THEOREM SuccessIsOwn == Spec => []AnsweredForOwnWork
<1>1. Init => AloneInv /\ AnsweredForOwnWork
  <2> SUFFICES ASSUME Init PROVE AloneInv /\ AnsweredForOwnWork
    OBVIOUS
  <2>1. Numbers = {}
    BY EmptySeq DEF Init, Numbers
  <2> QED
    BY <2>1 DEF Init, AloneInv, AnsweredForOwnWork
<1>2. Typed /\ AloneInv /\ [Next]_vars => AloneInv'
  BY AloneNext
<1>3. Typed /\ AloneInv /\ AnsweredForOwnWork /\ [Next]_vars => AnsweredForOwnWork'
  BY MisledNext
<1>4. Typed /\ [Next]_vars => Typed'
  BY TypedNext
<1> QED
  BY TypedInit, <1>1, <1>2, <1>3, <1>4, PTL DEF Spec

-----------------------------------------------------------------------------
(* What is prepared serves once *)

OnePlace(c) ==
    /\ \A i \in Connections, j \in Connections : mementos[i] = c /\ mementos[j] = c => i = j
    /\ \A s \in Sessions, t \in Sessions : sessionMemento[s] = c /\ sessionMemento[t] = c => s = t
    /\ \A i \in Connections, s \in Sessions : ~(mementos[i] = c /\ sessionMemento[s] = c)
NoPlace(c) ==
    /\ \A i \in Connections : mementos[i] # c
    /\ \A s \in Sessions : sessionMemento[s] # c
NoPreparer(c) == \A j \in Connections : cmd[j].ctrl = c => cmd[j].kind \notin Preps

\* It is the memento of one; once taken it is nobody's, and nobody will register it.
Spent(c) ==
    /\ OnePlace(c)
    /\ taken[c] \in {0, 1}
    /\ taken[c] = 1 => NoPlace(c) /\ NoPreparer(c)
OnceInv == \A c \in Numbers \ (shared \cup spread) : Spent(c)

LEMMA FewerPlaces ==
    ASSUME Typed, Forgets, NEW c \in Numbers
    PROVE  (OnePlace(c) => OnePlace(c)') /\ (NoPlace(c) => NoPlace(c)')
<1>1. c # 0
  BY NumbersArePositive
<1> QED
  BY <1>1 DEF Forgets, OnePlace, NoPlace

\* Mementos are forgotten, users stay or go, or are no preparations.
LEMMA FewerSpent ==
    ASSUME Typed, OnceInv, Forgets, NEW c \in Numbers \ (shared \cup spread),
           taken'[c] = taken[c],
           \A j \in Connections : cmd'[j].ctrl = c => cmd'[j].kind \notin Preps
                                     \/ (cmd[j].ctrl = c /\ cmd[j].kind = cmd'[j].kind)
    PROVE  Spent(c)'
<1>1. Spent(c)
  BY DEF OnceInv
<1>2. NoPreparer(c) => NoPreparer(c)'
  BY DEF NoPreparer
<1> QED
  BY <1>1, <1>2, FewerPlaces DEF Spent

LEMMA OnceInvNext ==
    ASSUME Typed, OnceInv, [Next]_vars
    PROVE  OnceInv'
<1> USE NumbersArePositive
\* Steps in which no controller is taken and no memento is registered.
<1>1. ASSUME Numbers' = Numbers, shared \subseteq shared', spread \subseteq spread', Forgets,
             taken' = taken,
             \A j \in Connections : cmd'[j].ctrl = 0 \/
                 (cmd'[j].ctrl = cmd[j].ctrl /\ cmd[j].kind = cmd'[j].kind)
      PROVE  OnceInv'
  <2>1. SUFFICES ASSUME NEW c \in Numbers \ (shared' \cup spread')
                 PROVE  Spent(c)'
    BY <1>1 DEF OnceInv
  <2> QED
    BY <1>1, FewerSpent
<1>2. CASE Idles
  <2>1. /\ UNCHANGED <<cmd, controllers, shared, spread, taken>> /\ Forgets
    BY <1>2 DEF Idles, histVars
  <2>2. Numbers' = Numbers
    BY <2>1 DEF Numbers
  <2> QED
    BY <1>1, <2>1, <2>2
<1>3. ASSUME NEW k \in Connections, NEW kind \in Kinds, NEW g \in Lines,
             NEW enc \in BOOLEAN, NEW sign \in BOOLEAN, BeginsNew(k, kind, g, enc, sign)
      PROVE  OnceInv'
  <2>1. PICK n : n = Len(controllers) + 1
    OBVIOUS
  <2>2. /\ \A c \in Numbers : taken'[c] = taken[c]
        /\ Numbers' = Numbers \cup {n} /\ n \notin Numbers /\ n \in Nat /\ taken'[n] = 0
    BY <1>3, <2>1, NewEffect, ZenonT(60)
  <2>3. /\ cmd'[k].ctrl = n /\ UNCHANGED <<shared, spread>> /\ Forgets
        /\ \A j \in Connections : j # k => cmd'[j] = cmd[j]
    BY <1>3, <2>1, NewBegun
  <2>4. \A c \in Numbers \ (shared \cup spread) : Spent(c)'
    BY <2>2, <2>3, FewerSpent
  <2>5. Spent(n)'
    <3>1. NoPlace(n)
      BY <2>1, <2>2, MementoNumbers, ControllersTyped DEF NoPlace
    <3>2. n # 0
      BY <2>1, ControllersTyped
    <3>3. NoPlace(n)'
      BY <2>3, <3>1, <3>2 DEF NoPlace, Forgets
    <3>4. OnePlace(n)'
      BY <3>3 DEF NoPlace, OnePlace
    <3> QED
      BY <2>2, <3>4 DEF Spent
  <2> QED
    BY <2>2, <2>3, <2>4, <2>5 DEF OnceInv
<1>4. ASSUME NEW k \in Connections, NEW kind \in Kinds, NEW g \in Lines,
             BeginsReused(k, kind, g)
      PROVE  OnceInv'
  <2> DEFINE m == Memento(k)
  <2>1. /\ m \in Numbers /\ cmd'[k].ctrl = m /\ cmd'[k].kind = kind /\ UNCHANGED <<controllers, spread>>
        /\ \A j \in Connections : j # k => cmd'[j] = cmd[j]
        /\ Forgets
    BY <1>4, ReusedBegun
  <2>2. shared' = IF Users(m) = {} THEN shared ELSE shared \cup {m}
    BY <1>4 DEF BeginsReused, Reuse
  <2>3. IF kind = "ENCRYPT"
          THEN RemoveMemento(k) /\ taken' = [taken EXCEPT ![m] = @ + 1]
          ELSE taken' = taken
    BY <1>4 DEF BeginsReused
  <2>4. taken \in Seq(Nat) /\ m \in 1 .. Len(taken)
    BY <2>1, ControllersTyped DEF Typed, Linked, Numbers
  <2>5. Numbers' = Numbers
    BY <2>1 DEF Numbers
  <2>6. SUFFICES ASSUME NEW c \in Numbers \ (shared' \cup spread')
                 PROVE  Spent(c)'
    BY <2>5 DEF OnceInv
  <2>7. c \in Numbers \ (shared \cup spread) /\ Spent(c)
    BY <2>1, <2>2 DEF OnceInv
  <2>8. \/ sessionId[k] \in Sessions /\ sessionMemento[sessionId[k]] = m
        \/ mementos[k] = m
    BY CommandTyped DEF Memento
  <2> HIDE DEF m
  <2>9. CASE c # m
    <3>1. taken'[c] = taken[c]
      <4>1. taken \in [1 .. Len(taken) -> Nat] /\ c \in 1 .. Len(taken)
        BY <2>4, <2>7, LenProperties DEF Typed, Linked, Numbers
      <4> QED
        BY <2>3, <2>9, <4>1
    <3> QED
      BY <2>1, <2>7, <2>9, <3>1, FewerSpent
  <2>10. CASE c = m
    <3>1. taken[c] = 0
      BY <2>7, <2>8, <2>10 DEF Spent, NoPlace
    <3>2. OnePlace(c)'
      BY <2>1, <2>7, FewerPlaces DEF Spent
    <3>3. CASE kind # "ENCRYPT"
      BY <2>3, <3>1, <3>2, <3>3 DEF Spent
    <3>4. CASE kind = "ENCRYPT"
      <4>1. taken'[c] = 1
        BY <2>3, <2>4, <2>10, <3>1, <3>4
      <4>2. NoPreparer(c)'
        <5>1. \A j \in Connections : cmd[j].ctrl # c
          BY <2>2, <2>6, <2>10 DEF Users
        <5> QED
          BY <2>1, <3>4, <5>1 DEF NoPreparer, Preps
      <4>3. NoPlace(c)'
        <5>1. RemoveMemento(k) /\ mementos \in [Connections -> Nat] /\ c # 0 /\ OnePlace(c)
          BY <2>3, <2>7, <3>4, RestIsTyped DEF RestTyped, Spent
        <5>2. /\ mementos'[k] = 0 /\ \A j \in Connections : j # k => mementos'[j] = mementos[j]
              /\ \A s \in Sessions :
                    sessionMemento'[s] = IF s = sessionId[k] THEN 0 ELSE sessionMemento[s]
          BY <5>1 DEF RemoveMemento
        <5> QED
          BY <2>8, <2>10, <5>1, <5>2 DEF NoPlace, OnePlace
      <4> QED
        BY <3>2, <4>1, <4>2, <4>3 DEF Spent
    <3> QED
      BY <3>3, <3>4
  <2> QED
    BY <2>9, <2>10
<1>5. ASSUME NEW k \in Connections, Prepares(k)
      PROVE  OnceInv'
  <2> DEFINE m == cmd[k].ctrl
  <2>1. /\ m \in Numbers /\ Evolves /\ cmd' = [cmd EXCEPT ![k] = NoCommand]
        /\ RegisterMemento(k, m) /\ cmd[k].kind \in Preps
    BY <1>5, PreparesEffect
  <2>2. /\ cmd'[k].ctrl = 0 /\ \A j \in Connections : j # k => cmd'[j] = cmd[j]
        /\ UNCHANGED <<shared, taken>>
        /\ spread' = IF KeptElsewhere(k, m) THEN spread \cup {m} ELSE spread
    BY <1>5, <2>1, OneEnds DEF Prepares, PreparationEnds, GoesOn
  <2>3. SUFFICES ASSUME NEW c \in Numbers \ (shared' \cup spread')
                 PROVE  Spent(c)'
    BY <2>1, SameNumbers DEF OnceInv
  <2>4. c \in Numbers \ (shared \cup spread) /\ Spent(c) /\ c # 0
    BY <2>2 DEF OnceInv
  <2>5. NoPreparer(c) => NoPreparer(c)'
    BY <2>2, <2>4 DEF NoPreparer
  <2>6. /\ mementos \in [Connections -> Nat] /\ sessionMemento \in [Sessions -> Nat]
        /\ sessionId[k] \in Sessions \cup {0} /\ 0 \notin Sessions
    BY RestIsTyped, CommandTyped, SessionsArePositive DEF RestTyped
  <2>7. c = m => taken[c] = 0
    BY <2>1, <2>4 DEF Spent, NoPreparer
  <2> HIDE DEF m
  <2>8. \/ /\ sessionId[k] = 0 /\ UNCHANGED sessionMemento /\ mementos'[k] = m
           /\ \A j \in Connections : j # k => mementos'[j] = mementos[j]
        \/ /\ sessionId[k] \in Sessions /\ UNCHANGED mementos
           /\ sessionMemento'[sessionId[k]] = m
           /\ \A s \in Sessions : s # sessionId[k] => sessionMemento'[s] = sessionMemento[s]
    BY <2>1, <2>6 DEF RegisterMemento
  <2>9. CASE c # m
    <3>1. (OnePlace(c) => OnePlace(c)') /\ (NoPlace(c) => NoPlace(c)')
      BY <2>8, <2>9 DEF OnePlace, NoPlace
    <3> QED
      BY <2>2, <2>4, <2>5, <3>1 DEF Spent
  <2>10. CASE c = m
    <3>1. ~KeptElsewhere(k, c)
      BY <2>2, <2>3, <2>10
    <3>2. OnePlace(c)'
      BY <2>6, <2>8, <2>10, <3>1 DEF OnePlace, KeptElsewhere
    <3> QED
      BY <2>2, <2>7, <2>10, <3>2 DEF Spent
  <2> QED
    BY <2>9, <2>10
<1>6. ASSUME NEW k \in Connections, Works(k)
      PROVE  OnceInv'
  <2>1. /\ Evolves /\ UNCHANGED <<mementos, sessionMemento, spread, shared, taken>>
        /\ \/ cmd' = [cmd EXCEPT ![k].state = "working"] \/ cmd' = [cmd EXCEPT ![k] = NoCommand]
    BY <1>6, WorksEffect DEF Works, GoesOn
  <2>2. Forgets
    BY <2>1, RestIsTyped DEF Forgets, RestTyped
  <2>3. cmd \in [Connections -> Command] /\ cmd[k] \in Command
    BY RestIsTyped DEF RestTyped
  <2>4. \A j \in Connections : cmd'[j].ctrl = 0 \/
            (cmd'[j].ctrl = cmd[j].ctrl /\ cmd[j].kind = cmd'[j].kind)
    <3>1. CASE cmd' = [cmd EXCEPT ![k].state = "working"]
      BY <2>3, <3>1 DEF Command
    <3>2. CASE cmd' = [cmd EXCEPT ![k] = NoCommand]
      BY <3>2, OneEnds
    <3> QED
      BY <2>1, <3>1, <3>2
  <2> QED
    BY <1>1, <2>1, <2>2, <2>4, SameNumbers
<1>7. ASSUME NEW k \in Connections, ResolvingFails(k) \/ HangsUp(k)
      PROVE  OnceInv'
  <2>1. Evolves /\ cmd' = [cmd EXCEPT ![k] = NoCommand] /\ UNCHANGED <<shared, spread, taken>>
    BY <1>7, FailsEffect, HangsUpEffect DEF ResolvingFails, HangsUp, histVars
  <2>2. Forgets
    BY <1>7, HangsUpEffect, RestIsTyped DEF ResolvingFails, dataVars, Forgets, RestTyped
  <2>3. /\ cmd'[k].ctrl = 0 /\ \A j \in Connections : j # k => cmd'[j] = cmd[j]
    BY <2>1, OneEnds
  <2> QED
    BY <1>1, <2>1, <2>2, <2>3, SameNumbers
<1>8. ASSUME NEW d \in Numbers, NEW ok \in BOOLEAN, ControllerEnds(d, ok)
      PROVE  OnceInv'
  <2>1. /\ Evolves /\ UNCHANGED <<shared, spread, taken>>
        /\ \A k \in Connections : cmd'[k] = cmd[k] \/ (cmd'[k] = NoCommand /\ cmd[k].ctrl = d)
    BY <1>8, EndsEffect DEF ControllerEnds
  <2>2. Forgets
    BY <1>8, RestIsTyped DEF ControllerEnds, dataVars, Forgets, RestTyped
  <2> QED
    BY <1>1, <2>1, <2>2, SameNumbers
<1> QED
  BY <1>2, <1>3, <1>4, <1>5, <1>6, <1>7, <1>8, StepCases

\* What PREP_ENCRYPT has prepared serves one ENCRYPT, unless two commands had the
\* controller at once or it was made the memento of two
\* (encryptcommand.cpp:153-165, prepsigncommand.cpp:159-187).
THEOREM ServesOnce == Spec => []PreparedOnce
<1>1. Init => OnceInv
  <2> SUFFICES ASSUME Init PROVE OnceInv
    OBVIOUS
  <2>1. Numbers = {}
    BY EmptySeq DEF Init, Numbers
  <2> QED
    BY <2>1 DEF OnceInv
<1>2. Typed /\ OnceInv /\ [Next]_vars => OnceInv'
  BY OnceInvNext
<1>3. Typed /\ [Next]_vars => Typed'
  BY TypedNext
<1>4. Typed /\ OnceInv => PreparedOnce
  BY DEF OnceInv, Spent, PreparedOnce, Typed, Linked, Numbers
<1> QED
  BY TypedInit, <1>1, <1>2, <1>3, <1>4, PTL DEF Spec
=============================================================================
