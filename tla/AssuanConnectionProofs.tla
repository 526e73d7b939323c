---------------------- MODULE AssuanConnectionProofs ----------------------
(***************************************************************************)
(* Theorems of AssuanConnection, for any commands and any number of        *)
(* switches.  The inductive invariant says of every command where it can   *)
(* be: not asked for yet (Fresh), in the slot, in the background, or done; *)
(* and that a closed connection's slot only holds a canceled command.      *)
(***************************************************************************)
EXTENDS AssuanConnection, TLAPS

Fresh(c) ==
    /\ wire # c /\ current # c
    /\ c \notin nohuped /\ c \notin isDone /\ c \notin canceled
    /\ finalized[c] = 0

Delivery(c) ==
    /\ c \notin isDone => finalized[c] = 0
    /\ finalized[c] <= 1
    /\ c \in canceled => c \in isDone /\ finalized[c] = 0
    /\ c \in nohuped => c \notin isDone

Line(c) == wire = c => outstanding = c /\ current = NoCommand /\ c \notin nohuped /\ c \notin isDone
Slot(c) ==
    current = c =>
        /\ outstanding = c /\ wire = NoCommand /\ c \notin nohuped
        /\ conn = "open" => c \notin isDone
        /\ conn = "closed" => c \in isDone

CInv(c) ==
    /\ ~Asked(c) => Fresh(c)
    /\ Delivery(c)
    /\ Line(c)
    /\ Slot(c)
    /\ IF outstanding = c THEN answers[c] = 0 ELSE answers[c] <= 1

Inv == KeptForBackground /\ \A c \in Command : CInv(c)
(***************************************************************************)
(* Types                                                                   *)
(***************************************************************************)

LEMMA PlusTypes ==
    ASSUME NEW count \in [Command -> Nat], NEW c \in Command
    PROVE  Plus(count, c) \in [Command -> Nat]
BY DEF Plus

ConnStates == {"open", "closed", "deleted", "aborted"}

LEMMA DoneTypes ==
    ASSUME TypeOK, NEW c \in Command, ForegroundDone(c)
    PROVE  /\ isDone' \subseteq Command /\ conn' \in ConnStates
           /\ finalized' \in [Command -> Nat]
           /\ answers' \in [Command -> Nat] /\ outstanding' \in Opt
<1> USE DEF TypeOK, ConnStates
<1>1. CASE c \in isDone
  BY <1>1, Zenon DEF ForegroundDone
<1>2. CASE c \notin isDone
  <2>1. Finalize(c) /\ CommandAnswers(c)
    BY <1>2, Zenon DEF ForegroundDone
  <2>2. isDone' \subseteq Command /\ finalized' \in [Command -> Nat]
    BY <2>1, PlusTypes DEF Finalize
  <2>3. CASE peer /\ conn = "open"
    BY <2>1, <2>2, <2>3, PlusTypes DEF CommandAnswers, Answer, Opt
  <2>4. CASE ~(peer /\ conn = "open")
    BY <2>1, <2>2, <2>4 DEF CommandAnswers
  <2> QED
    BY <2>3, <2>4
<1> QED
  BY <1>1, <1>2

LEMMA DeletionTypes ==
    ASSUME TypeOK, TopHalfDeletion
    PROVE  /\ isDone' \subseteq Command /\ canceled' \subseteq Command
           /\ conn' \in ConnStates
           /\ timers' \in Nat /\ waiting' \in BOOLEAN
           /\ current' \in Opt /\ currentIsNohup' \in BOOLEAN
<1> USE DEF TypeOK, Opt, ConnStates
<1>1. {current} \ {NoCommand} \subseteq Command
  OBVIOUS
<1>2. isDone' \subseteq Command /\ canceled' \subseteq Command
  BY <1>1 DEF TopHalfDeletion, CancelCurrent, Cancel
<1>3. CASE nohuped = {}
  <2>1. BottomHalfDeletion
    BY <1>3, Zenon DEF TopHalfDeletion
  <2> QED
    BY <1>2, <2>1 DEF BottomHalfDeletion
<1>4. CASE nohuped # {}
  <2>1. conn' = "closed" /\ UNCHANGED <<timers, waiting, current, currentIsNohup>>
    BY <1>4, Zenon DEF TopHalfDeletion, slot
  <2> QED
    BY <1>2, <2>1
<1> QED
  BY <1>3, <1>4

LEMMA BottomHalfTypes ==
    ASSUME TypeOK, BottomHalf
    PROVE  timers' \in Nat /\ waiting' \in BOOLEAN /\ (MayStart => current \in Command)
BY DEF TypeOK, BottomHalf, MayStart, Opt

\* Every variable keeps its type, in every step of AssuanConnection.
THEOREM TypeCorrect == Spec => []TypeOK
<1>1. Init => TypeOK
  <2> SUFFICES ASSUME Init PROVE TypeOK
    OBVIOUS
  <2>1. switches \in 0..MaxSwitches
    BY SwitchesAssumption DEF Init
  <2>2. /\ starts \in [Command -> Nat] /\ finalized \in [Command -> Nat]
        /\ answers \in [Command -> Nat]
    BY DEF Init
  <2> QED
    BY <2>1, <2>2 DEF Init, TypeOK, Opt
<1>2. TypeOK /\ [Next]_vars => TypeOK'
  <2> SUFFICES ASSUME TypeOK PROVE [Next]_vars => TypeOK'
    OBVIOUS
  <2> USE DEF TypeOK, Opt
  <2>1. ASSUME NEW c \in Command, SendsCommand(c) PROVE TypeOK'
    BY <2>1 DEF SendsCommand, crypto, slot, log
  <2>2. ASSUME NEW c \in Command, NohupDone(c) PROVE TypeOK'
    <3>1. finalized' \in [Command -> Nat] /\ isDone' \subseteq Command
      BY <2>2, PlusTypes DEF NohupDone, Finalize
    <3>2. UNCHANGED <<peer, wire, outstanding, enabled, switches, canceled, starts, answers>>
      BY <2>2, Zenon DEF NohupDone, client
    <3>3. /\ nohuped' \subseteq Command /\ conn' \in ConnStates
          /\ timers' \in Nat /\ waiting' \in BOOLEAN
          /\ current' \in Opt /\ currentIsNohup' \in BOOLEAN
      <4>1. nohuped' \subseteq Command
        BY <2>2 DEF NohupDone
      <4>2. \/ BottomHalfDeletion
            \/ UNCHANGED <<conn, timers, waiting, current, currentIsNohup>>
        BY <2>2, Zenon DEF NohupDone, slot
      <4>3. CASE BottomHalfDeletion
        BY <4>1, <4>3 DEF BottomHalfDeletion, ConnStates
      <4>4. CASE UNCHANGED <<conn, timers, waiting, current, currentIsNohup>>
        BY <4>1, <4>4 DEF ConnStates
      <4> QED
        BY <4>2, <4>3, <4>4, Zenon
    <3> QED
      BY <3>1, <3>2, <3>3 DEF ConnStates
  <2>3. CASE HangsUp
    BY <2>3 DEF HangsUp, crypto, slot, log
  <2>4. ASSUME NEW c \in Command, RefusesCommand(c) PROVE TypeOK'
    <3>1. UNCHANGED <<peer, enabled, switches, starts, finalized, nohuped>> /\ wire' = NoCommand
      BY <2>4, Zenon DEF RefusesCommand
    <3>2. CASE peer
      <4>1. Answer(c) /\ UNCHANGED <<conn, timers, waiting, slot, isDone, canceled>>
        BY <2>4, <3>2, Zenon DEF RefusesCommand
      <4> QED
        BY <3>1, <4>1, PlusTypes DEF Answer, slot
    <3>3. CASE ~peer
      <4>1. TopHalfDeletion /\ UNCHANGED <<answers, outstanding>>
        BY <2>4, <3>3, Zenon DEF RefusesCommand
      <4> QED
        BY <3>1, <4>1, DeletionTypes DEF ConnStates
    <3> QED
      BY <3>2, <3>3
  <2>5. ASSUME NEW c \in Command, NEW nohup \in BOOLEAN, HandlesCommand(c, nohup)
        PROVE  TypeOK'
    BY <2>5 DEF HandlesCommand, crypto, log
  <2>6. CASE ReadsEof
    BY <2>6, DeletionTypes DEF ReadsEof, client, ConnStates
  <2>7. CASE BottomHalfStartsNothing
    BY <2>7, BottomHalfTypes DEF BottomHalfStartsNothing, BottomHalf, slot
  <2>8. CASE BottomHalfFinishes
    <3>1. current \in Command /\ timers' \in Nat /\ waiting' \in BOOLEAN
      BY <2>8, BottomHalfTypes DEF BottomHalfFinishes
    <3>2. ForegroundDone(current) /\ starts' = Plus(starts, current)
      BY <2>8, Zenon DEF BottomHalfFinishes
    <3>3. /\ UNCHANGED <<peer, wire, enabled, switches, canceled, nohuped>>
          /\ current' = NoCommand /\ currentIsNohup' = FALSE
      BY <2>8, Zenon DEF BottomHalfFinishes, BottomHalf
    <3>4. starts' \in [Command -> Nat]
      BY <3>1, <3>2, PlusTypes
    <3>5. /\ isDone' \subseteq Command /\ conn' \in ConnStates
          /\ finalized' \in [Command -> Nat]
          /\ answers' \in [Command -> Nat] /\ outstanding' \in Opt
      BY <3>1, <3>2, DoneTypes
    <3> QED
      BY <3>1, <3>3, <3>4, <3>5 DEF ConnStates
  <2>9. CASE BottomHalfRunsInForeground
    <3>1. current \in Command /\ timers' \in Nat /\ waiting' \in BOOLEAN
      BY <2>9, BottomHalfTypes DEF BottomHalfRunsInForeground, BottomHalfRuns
    <3> QED
      BY <2>9, <3>1, PlusTypes DEF BottomHalfRunsInForeground, BottomHalfRuns, BottomHalf
  <2>10. CASE BottomHalfRunsInBackground
    <3>1. current \in Command /\ timers' \in Nat /\ waiting' \in BOOLEAN
      BY <2>10, BottomHalfTypes DEF BottomHalfRunsInBackground, BottomHalfRuns
    <3>2. answers' \in [Command -> Nat] /\ outstanding' \in Opt
      BY <2>10, <3>1, PlusTypes DEF BottomHalfRunsInBackground, ConnectionAnswers, Answer
    <3> QED
      BY <2>10, <3>1, <3>2, PlusTypes DEF BottomHalfRunsInBackground, BottomHalfRuns, BottomHalf
  <2>11. CASE CurrentDone
    <3>1. current \in Command /\ ForegroundDone(current)
      BY <2>11 DEF CurrentDone
    <3> QED
      BY <2>11, <3>1, DoneTypes DEF CurrentDone, CommandDone, crypto, ConnStates
  <2>12. CASE EnableCryptoCommands
    BY <2>12, SwitchesAssumption DEF EnableCryptoCommands, PostsAgain, client, slot, log
  <2>13. CASE UNCHANGED vars
    BY <2>13 DEF vars, client, crypto, slot, log
  <2> QED
    BY <2>1, <2>2, <2>3, <2>4, <2>5, <2>6, <2>7, <2>8, <2>9, <2>10, <2>11, <2>12, <2>13
       DEF Next, ReadsLine, SomeBottomHalf
<1> QED
  BY <1>1, <1>2, PTL DEF Spec

(***************************************************************************)
(* The inductive invariant                                                 *)
(***************************************************************************)

LEMMA InvInit == Init => Inv
<1> SUFFICES ASSUME Init PROVE Inv
  OBVIOUS
<1>1. ASSUME NEW c \in Command PROVE CInv(c)
  BY CommandAssumption DEF Init, CInv, Asked, Fresh, Delivery, Line, Slot
<1> QED
  BY <1>1 DEF Inv, Init, KeptForBackground

LEMMA SendsCommandKeepsInv ==
    ASSUME TypeOK, Inv, NEW d \in Command, SendsCommand(d)
    PROVE  Inv'
<1> USE CommandAssumption DEF TypeOK, Opt
<1>1. KeptForBackground'
  BY DEF Inv, CInv, Asked, Fresh, Delivery, Line, Slot, KeptForBackground, SendsCommand, crypto, slot, log
<1>2. ASSUME NEW c \in Command PROVE CInv(c)'
  BY DEF Inv, CInv, Asked, Fresh, Delivery, Line, Slot, SendsCommand, crypto, slot, log
<1> QED
  BY <1>1, <1>2 DEF Inv

LEMMA NohupDoneKeepsInv ==
    ASSUME TypeOK, Inv, NEW d \in Command, NohupDone(d)
    PROVE  Inv'
<1> USE CommandAssumption DEF TypeOK, Opt
<1>1. KeptForBackground'
  BY DEF Inv, CInv, Asked, Fresh, Delivery, Line, Slot, KeptForBackground, NohupDone, Finalize, LastOfClosed, BottomHalfDeletion, Plus, slot, client
<1>2. ASSUME NEW c \in Command PROVE CInv(c)'
  BY DEF Inv, CInv, Asked, Fresh, Delivery, Line, Slot, NohupDone, Finalize, LastOfClosed, BottomHalfDeletion, Plus, slot, client
<1> QED
  BY <1>1, <1>2 DEF Inv

LEMMA HangsUpKeepsInv ==
    ASSUME TypeOK, Inv, HangsUp
    PROVE  Inv'
<1> USE CommandAssumption DEF TypeOK, Opt
<1>1. KeptForBackground'
  BY DEF Inv, CInv, Asked, Fresh, Delivery, Line, Slot, KeptForBackground, HangsUp, crypto, slot, log
<1>2. ASSUME NEW c \in Command PROVE CInv(c)'
  BY DEF Inv, CInv, Asked, Fresh, Delivery, Line, Slot, HangsUp, crypto, slot, log
<1> QED
  BY <1>1, <1>2 DEF Inv

LEMMA RefusesCommandKeepsInv ==
    ASSUME TypeOK, Inv, NEW d \in Command, RefusesCommand(d)
    PROVE  Inv'
<1> USE CommandAssumption DEF TypeOK, Opt
<1>1. KeptForBackground'
  BY DEF Inv, CInv, Asked, Fresh, Delivery, Line, Slot, KeptForBackground, RefusesCommand, Answer, TopHalfDeletion, CancelCurrent, Cancel, BottomHalfDeletion, Plus, slot
<1>2. ASSUME NEW c \in Command PROVE CInv(c)'
  BY DEF Inv, CInv, Asked, Fresh, Delivery, Line, Slot, RefusesCommand, Answer, TopHalfDeletion, CancelCurrent, Cancel, BottomHalfDeletion, Plus, slot
<1> QED
  BY <1>1, <1>2 DEF Inv

LEMMA HandlesCommandKeepsInv ==
    ASSUME TypeOK, Inv, NEW d \in Command, NEW nohup \in BOOLEAN, HandlesCommand(d, nohup)
    PROVE  Inv'
<1> USE CommandAssumption DEF TypeOK, Opt
<1>1. KeptForBackground'
  BY DEF Inv, CInv, Asked, Fresh, Delivery, Line, Slot, KeptForBackground, HandlesCommand, crypto, log
<1>2. ASSUME NEW c \in Command PROVE CInv(c)'
  BY DEF Inv, CInv, Asked, Fresh, Delivery, Line, Slot, HandlesCommand, crypto, log
<1> QED
  BY <1>1, <1>2 DEF Inv

LEMMA ReadsEofKeepsInv ==
    ASSUME TypeOK, Inv, ReadsEof
    PROVE  Inv'
<1> USE CommandAssumption DEF TypeOK, Opt
<1>1. KeptForBackground'
  BY DEF Inv, CInv, Asked, Fresh, Delivery, Line, Slot, KeptForBackground, ReadsEof, TopHalfDeletion, CancelCurrent, Cancel, BottomHalfDeletion, client, slot
<1>2. ASSUME NEW c \in Command PROVE CInv(c)'
  BY DEF Inv, CInv, Asked, Fresh, Delivery, Line, Slot, ReadsEof, TopHalfDeletion, CancelCurrent, Cancel, BottomHalfDeletion, client, slot
<1> QED
  BY <1>1, <1>2 DEF Inv

LEMMA StartsNothingKeepsInv ==
    ASSUME TypeOK, Inv, BottomHalfStartsNothing
    PROVE  Inv'
<1> USE CommandAssumption DEF TypeOK, Opt
<1>1. KeptForBackground'
  BY DEF Inv, CInv, Asked, Fresh, Delivery, Line, Slot, KeptForBackground, BottomHalfStartsNothing, BottomHalf, slot
<1>2. ASSUME NEW c \in Command PROVE CInv(c)'
  BY DEF Inv, CInv, Asked, Fresh, Delivery, Line, Slot, BottomHalfStartsNothing, BottomHalf, slot
<1> QED
  BY <1>1, <1>2 DEF Inv

LEMMA FinishesKeepsInv ==
    ASSUME TypeOK, Inv, BottomHalfFinishes
    PROVE  Inv'
<1> USE CommandAssumption DEF TypeOK, Opt
<1>1. KeptForBackground'
  BY DEF Inv, CInv, Asked, Fresh, Delivery, Line, Slot, KeptForBackground, BottomHalfFinishes, BottomHalf, MayStart, ForegroundDone, Finalize, CommandAnswers, Answer, Plus, Alive
<1>2. ASSUME NEW c \in Command PROVE CInv(c)'
  BY DEF Inv, CInv, Asked, Fresh, Delivery, Line, Slot, BottomHalfFinishes, BottomHalf, MayStart, ForegroundDone, Finalize, CommandAnswers, Answer, Plus, Alive
<1> QED
  BY <1>1, <1>2 DEF Inv

LEMMA InForegroundKeepsInv ==
    ASSUME TypeOK, Inv, BottomHalfRunsInForeground
    PROVE  Inv'
<1> USE CommandAssumption DEF TypeOK, Opt
<1>1. KeptForBackground'
  BY DEF Inv, CInv, Asked, Fresh, Delivery, Line, Slot, KeptForBackground, BottomHalfRunsInForeground, BottomHalfRuns, BottomHalf, MayStart, Plus, Alive
<1>2. ASSUME NEW c \in Command PROVE CInv(c)'
  BY DEF Inv, CInv, Asked, Fresh, Delivery, Line, Slot, BottomHalfRunsInForeground, BottomHalfRuns, BottomHalf, MayStart, Plus, Alive
<1> QED
  BY <1>1, <1>2 DEF Inv

LEMMA InBackgroundKeepsInv ==
    ASSUME TypeOK, Inv, BottomHalfRunsInBackground
    PROVE  Inv'
<1> USE CommandAssumption DEF TypeOK, Opt
<1>1. KeptForBackground'
  BY DEF Inv, CInv, Asked, Fresh, Delivery, Line, Slot, KeptForBackground, BottomHalfRunsInBackground, BottomHalfRuns, BottomHalf, MayStart, ConnectionAnswers, Answer, Plus, Alive
<1>2. ASSUME NEW c \in Command PROVE CInv(c)'
  BY DEF Inv, CInv, Asked, Fresh, Delivery, Line, Slot, BottomHalfRunsInBackground, BottomHalfRuns, BottomHalf, MayStart, ConnectionAnswers, Answer, Plus, Alive
<1> QED
  BY <1>1, <1>2 DEF Inv

LEMMA CurrentDoneKeepsInv ==
    ASSUME TypeOK, Inv, CurrentDone
    PROVE  Inv'
<1> USE CommandAssumption DEF TypeOK, Opt
<1>1. KeptForBackground'
  BY DEF Inv, CInv, Asked, Fresh, Delivery, Line, Slot, KeptForBackground, CurrentDone, CommandDone, ForegroundDone, Finalize, CommandAnswers, Answer, Plus, Alive, crypto
<1>2. ASSUME NEW c \in Command PROVE CInv(c)'
  BY DEF Inv, CInv, Asked, Fresh, Delivery, Line, Slot, CurrentDone, CommandDone, ForegroundDone, Finalize, CommandAnswers, Answer, Plus, Alive, crypto
<1> QED
  BY <1>1, <1>2 DEF Inv

LEMMA EnableKeepsInv ==
    ASSUME TypeOK, Inv, EnableCryptoCommands
    PROVE  Inv'
<1> USE CommandAssumption DEF TypeOK, Opt
<1>1. KeptForBackground'
  BY DEF Inv, CInv, Asked, Fresh, Delivery, Line, Slot, KeptForBackground, EnableCryptoCommands, PostsAgain, client, slot, log
<1>2. ASSUME NEW c \in Command PROVE CInv(c)'
  BY DEF Inv, CInv, Asked, Fresh, Delivery, Line, Slot, EnableCryptoCommands, PostsAgain, client, slot, log
<1> QED
  BY <1>1, <1>2 DEF Inv

LEMMA StepKeepsInv == TypeOK /\ Inv /\ [Next]_vars => Inv'
<1> SUFFICES ASSUME TypeOK, Inv PROVE [Next]_vars => Inv'
  OBVIOUS
<1>1. CASE UNCHANGED vars
  BY <1>1 DEF vars, client, crypto, slot, log, Inv, CInv, Asked, Fresh, Delivery,
              Line, Slot, KeptForBackground
<1>2. CASE SomeBottomHalf
  BY <1>2, StartsNothingKeepsInv, FinishesKeepsInv, InForegroundKeepsInv,
     InBackgroundKeepsInv, Zenon DEF SomeBottomHalf
<1>3. CASE ReadsLine
  BY <1>3, RefusesCommandKeepsInv, HandlesCommandKeepsInv, Zenon DEF ReadsLine
<1> QED
  BY <1>1, <1>2, <1>3, SendsCommandKeepsInv, NohupDoneKeepsInv, HangsUpKeepsInv,
     ReadsEofKeepsInv, CurrentDoneKeepsInv, EnableKeepsInv, Zenon DEF Next

LEMMA Invariance == Spec => [](TypeOK /\ Inv)
<1>1. Init => Inv
  BY InvInit
<1>2. TypeOK /\ Inv /\ [Next]_vars => Inv'
  BY StepKeepsInv
<1> QED
  BY <1>1, <1>2, TypeCorrect, PTL DEF Spec

(***************************************************************************)
(* What follows                                                            *)
(***************************************************************************)

\* _handle() never overwrites a command in the connection's slot, and a command
\* is answered at most once, and not while its client waits: the done flag, the
\* background and the end of the connection together.
THEOREM NoSecondAnswer == Spec => []OneAnswerEach
<1>1. TypeOK /\ Inv => OneAnswerEach
  BY DEF TypeOK, Opt, Inv, CInv, Slot, OneAnswerEach
<1> QED
  BY <1>1, Invariance, PTL

\* done() writes results out once, and never after canceled().
THEOREM NoCanceledDelivery == Spec => []DeliveredOnce
<1>1. TypeOK /\ Inv => DeliveredOnce
  BY DEF Inv, CInv, Delivery, DeliveredOnce
<1> QED
  BY <1>1, Invariance, PTL

\* nohupDone() deletes a closed connection with its last command in the
\* background, and not before; its end cancels none of them.
THEOREM BackgroundIsSafe == Spec => []BackgroundLives
<1>1. TypeOK /\ Inv => BackgroundLives
  BY DEF TypeOK, Inv, CInv, Delivery, BackgroundLives, BackgroundRunsOn
<1> QED
  BY <1>1, Invariance, PTL

\* A command of a closed connection has its done flag set, so done() does
\* not get as far as the write that fails.
THEOREM ClosedIsSilent == Spec => SilentWhenClosed
<1>1. TypeOK /\ Inv /\ [Next]_vars => [conn = "closed" => conn' # "aborted"]_vars
  <2> SUFFICES ASSUME TypeOK, Inv, conn = "closed"
               PROVE  [Next]_vars => conn' # "aborted"
    BY Zenon
  <2>1. current # NoCommand => current \in Command /\ current \in isDone
    BY DEF TypeOK, Opt, Inv, CInv, Slot
  <2>2. ASSUME BottomHalfFinishes PROVE conn' # "aborted"
    BY <2>1, <2>2 DEF BottomHalfFinishes, MayStart, ForegroundDone
  <2>3. ASSUME CurrentDone PROVE conn' # "aborted"
    BY <2>1, <2>3 DEF CurrentDone
  <2>4. ASSUME NEW c \in Command, NohupDone(c) PROVE conn' # "aborted"
    BY <2>4 DEF NohupDone, BottomHalfDeletion
  <2>5. ASSUME SomeBottomHalf, ~BottomHalfFinishes PROVE conn' # "aborted"
    BY <2>5 DEF SomeBottomHalf, BottomHalfStartsNothing, BottomHalfRunsInForeground,
                BottomHalfRunsInBackground, BottomHalfRuns
  <2>6. ASSUME ReadsLine \/ ReadsEof PROVE conn' # "aborted"
    BY <2>6 DEF ReadsLine, ReadsEof, RefusesCommand, HandlesCommand
  <2>7. ASSUME \/ HangsUp \/ EnableCryptoCommands \/ UNCHANGED vars
               \/ \E c \in Command : SendsCommand(c)
        PROVE  conn' # "aborted"
    BY <2>7 DEF HangsUp, EnableCryptoCommands, SendsCommand, vars
  <2> QED
    BY <2>2, <2>3, <2>4, <2>5, <2>6, <2>7, Zenon DEF Next
<1> QED
  BY <1>1, Invariance, PTL DEF Spec, SilentWhenClosed

(***************************************************************************)
(* Starting.  A bottom half starts whatever is in the slot, so all depends *)
(* on none being posted for a command that runs.  With fewer than three    *)
(* switches at most one is posted at a time, and none when the slot is     *)
(* empty or its command was started; unless the crypto commands were       *)
(* switched off by the second switch, and then they stay off.              *)
(***************************************************************************)

Off == switches = 2 /\ ~enabled

Posted ==
    /\ timers <= 1
    /\ waiting /\ timers > 0 => switches > 0 /\ enabled
    /\ waiting /\ timers = 0 => ~enabled
    /\ current = NoCommand \/ starts[current] > 0 => timers = 0 /\ ~waiting

NoneTwice == (Off \/ Posted) /\ \A c \in Command : starts[c] <= 1
WasSent(c) == starts[c] > 0 => Asked(c) /\ wire # c

StartInv == (switches < 3 => NoneTwice) /\ \A c \in Command : WasSent(c)

LEMMA StartInit == Init => StartInv
  BY DEF Init, StartInv, NoneTwice, Posted, WasSent

LEMMA StartStep ==
    ASSUME TypeOK, Inv, StartInv, [Next]_vars
    PROVE  StartInv'
<1> USE CommandAssumption DEF TypeOK, Opt
<1>0. /\ \A c \in Command : current = c => outstanding = c /\ wire = NoCommand
      /\ \A c \in Command : wire = c => outstanding = c /\ current = NoCommand
      /\ NoCommand \notin Command
  BY DEF Inv, CInv, Slot, Line
<1>1. ASSUME NEW d \in Command, SendsCommand(d)
      PROVE  StartInv'
  <2>1. switches' < 3 => NoneTwice'
    BY <1>0, <1>1 DEF StartInv, NoneTwice, Posted, Off, WasSent, Asked,
       SendsCommand, crypto, slot, log
  <2>2. \A c \in Command : WasSent(c)'
    BY <1>0, <1>1 DEF StartInv, NoneTwice, Posted, Off, WasSent, Asked,
       SendsCommand, crypto, slot, log
  <2> QED
    BY <2>1, <2>2 DEF StartInv
<1>2. ASSUME NEW d \in Command, NohupDone(d)
      PROVE  StartInv'
  <2>1. switches' < 3 => NoneTwice'
    BY <1>0, <1>2 DEF StartInv, NoneTwice, Posted, Off, WasSent, Asked,
       NohupDone, Finalize, BottomHalfDeletion, slot, client
  <2>2. \A c \in Command : WasSent(c)'
    BY <1>0, <1>2 DEF StartInv, NoneTwice, Posted, Off, WasSent, Asked,
       NohupDone, Finalize, BottomHalfDeletion, slot, client
  <2> QED
    BY <2>1, <2>2 DEF StartInv
<1>3. CASE HangsUp
  <2>1. switches' < 3 => NoneTwice'
    BY <1>0, <1>3 DEF StartInv, NoneTwice, Posted, Off, WasSent, Asked,
       HangsUp, crypto, slot, log
  <2>2. \A c \in Command : WasSent(c)'
    BY <1>0, <1>3 DEF StartInv, NoneTwice, Posted, Off, WasSent, Asked,
       HangsUp, crypto, slot, log
  <2> QED
    BY <2>1, <2>2 DEF StartInv
<1>4. ASSUME NEW d \in Command, RefusesCommand(d)
      PROVE  StartInv'
  <2>1. switches' < 3 => NoneTwice'
    BY <1>0, <1>4 DEF StartInv, NoneTwice, Posted, Off, WasSent, Asked,
       RefusesCommand, Answer, TopHalfDeletion, BottomHalfDeletion, Plus, slot
  <2>2. \A c \in Command : WasSent(c)'
    BY <1>0, <1>4 DEF StartInv, NoneTwice, Posted, Off, WasSent, Asked,
       RefusesCommand, Answer, TopHalfDeletion, BottomHalfDeletion, Plus, slot
  <2> QED
    BY <2>1, <2>2 DEF StartInv
<1>5. ASSUME NEW d \in Command, NEW nohup, HandlesCommand(d, nohup)
      PROVE  StartInv'
  <2>1. switches' < 3 => NoneTwice'
    BY <1>0, <1>5 DEF StartInv, NoneTwice, Posted, Off, WasSent, Asked,
       HandlesCommand, crypto, log
  <2>2. \A c \in Command : WasSent(c)'
    BY <1>0, <1>5 DEF StartInv, NoneTwice, Posted, Off, WasSent, Asked,
       HandlesCommand, crypto, log
  <2> QED
    BY <2>1, <2>2 DEF StartInv
<1>6. CASE ReadsEof
  <2>1. switches' < 3 => NoneTwice'
    BY <1>0, <1>6 DEF StartInv, NoneTwice, Posted, Off, WasSent, Asked,
       ReadsEof, TopHalfDeletion, BottomHalfDeletion, client, slot
  <2>2. \A c \in Command : WasSent(c)'
    BY <1>0, <1>6 DEF StartInv, NoneTwice, Posted, Off, WasSent, Asked,
       ReadsEof, TopHalfDeletion, BottomHalfDeletion, client, slot
  <2> QED
    BY <2>1, <2>2 DEF StartInv
<1>7. CASE BottomHalfStartsNothing
  <2>1. switches' < 3 => NoneTwice'
    BY <1>0, <1>7 DEF StartInv, NoneTwice, Posted, Off, WasSent, Asked,
       BottomHalfStartsNothing, BottomHalf, MayStart, slot
  <2>2. \A c \in Command : WasSent(c)'
    BY <1>0, <1>7 DEF StartInv, NoneTwice, Posted, Off, WasSent, Asked,
       BottomHalfStartsNothing, BottomHalf, MayStart, slot
  <2> QED
    BY <2>1, <2>2 DEF StartInv
<1>8. CASE BottomHalfFinishes
  <2>1. switches' < 3 => NoneTwice'
    <3> SUFFICES ASSUME switches' < 3 PROVE NoneTwice'
      OBVIOUS
    <3>1. /\ switches' = switches /\ enabled' = enabled /\ enabled /\ timers > 0
          /\ current \in Command /\ timers' = timers - 1 /\ ~waiting'
          /\ starts' = [starts EXCEPT ![current] = @ + 1] /\ current' = NoCommand
      BY <1>8 DEF BottomHalfFinishes, BottomHalf, MayStart, Plus
    <3>2. timers = 1 /\ starts[current] = 0 /\ \A c \in Command : starts[c] <= 1
      BY <1>0, <3>1 DEF StartInv, NoneTwice, Posted, Off
    <3>3. \A c \in Command : starts'[c] <= 1
      BY <3>1, <3>2
    <3> QED
      BY <3>1, <3>2, <3>3 DEF NoneTwice, Posted
  <2>2. \A c \in Command : WasSent(c)'
    BY <1>0, <1>8 DEF StartInv, NoneTwice, Posted, Off, WasSent, Asked,
       BottomHalfFinishes, BottomHalf, MayStart, ForegroundDone, Finalize, CommandAnswers, Answer, Plus
  <2> QED
    BY <2>1, <2>2 DEF StartInv
<1>9. CASE BottomHalfRunsInForeground
  <2>1. switches' < 3 => NoneTwice'
    BY <1>0, <1>9 DEF StartInv, NoneTwice, Posted, Off, WasSent, Asked,
       BottomHalfRunsInForeground, BottomHalfRuns, BottomHalf, MayStart, Plus
  <2>2. \A c \in Command : WasSent(c)'
    BY <1>0, <1>9 DEF StartInv, NoneTwice, Posted, Off, WasSent, Asked,
       BottomHalfRunsInForeground, BottomHalfRuns, BottomHalf, MayStart, Plus
  <2> QED
    BY <2>1, <2>2 DEF StartInv
<1>10. CASE BottomHalfRunsInBackground
  <2>1. switches' < 3 => NoneTwice'
    <3> SUFFICES ASSUME switches' < 3 PROVE NoneTwice'
      OBVIOUS
    <3>1. /\ switches' = switches /\ enabled' = enabled /\ enabled /\ timers > 0
          /\ current \in Command /\ timers' = timers - 1 /\ ~waiting'
          /\ starts' = [starts EXCEPT ![current] = @ + 1] /\ current' = NoCommand
      BY <1>10 DEF BottomHalfRunsInBackground, BottomHalfRuns, BottomHalf, MayStart, Plus
    <3>2. timers = 1 /\ starts[current] = 0 /\ \A c \in Command : starts[c] <= 1
      BY <1>0, <3>1 DEF StartInv, NoneTwice, Posted, Off
    <3>3. \A c \in Command : starts'[c] <= 1
      BY <3>1, <3>2
    <3> QED
      BY <3>1, <3>2, <3>3 DEF NoneTwice, Posted
  <2>2. \A c \in Command : WasSent(c)'
    BY <1>0, <1>10 DEF StartInv, NoneTwice, Posted, Off, WasSent, Asked,
       BottomHalfRunsInBackground, BottomHalfRuns, BottomHalf, MayStart, ConnectionAnswers, Answer, Plus
  <2> QED
    BY <2>1, <2>2 DEF StartInv
<1>11. CASE CurrentDone
  <2>1. switches' < 3 => NoneTwice'
    BY <1>0, <1>11 DEF StartInv, NoneTwice, Posted, Off, WasSent, Asked,
       CurrentDone, CommandDone, ForegroundDone, Finalize, CommandAnswers, Answer, Plus, crypto
  <2>2. \A c \in Command : WasSent(c)'
    BY <1>0, <1>11 DEF StartInv, NoneTwice, Posted, Off, WasSent, Asked,
       CurrentDone, CommandDone, ForegroundDone, Finalize, CommandAnswers, Answer, Plus, crypto
  <2> QED
    BY <2>1, <2>2 DEF StartInv
<1>12. CASE EnableCryptoCommands
  <2>1. switches' < 3 => NoneTwice'
    <3> SUFFICES ASSUME switches' < 3 PROVE NoneTwice'
      OBVIOUS
    <3>1. /\ switches' = switches + 1 /\ switches \in Nat /\ timers \in Nat
          /\ timers' = IF waiting THEN timers + 1 ELSE timers
      BY <1>12, SwitchesAssumption DEF EnableCryptoCommands, PostsAgain
    <3>2. (enabled' <=> ~enabled) /\ UNCHANGED <<waiting, current, starts>>
      BY <1>12, Zenon DEF EnableCryptoCommands, slot, log
    <3>3. Posted /\ \A c \in Command : starts[c] <= 1
      BY <3>1 DEF StartInv, NoneTwice, Off
    <3>4. (Off \/ Posted)'
      BY <3>1, <3>2, <3>3 DEF Posted, Off
    <3> QED
      BY <3>2, <3>3, <3>4 DEF NoneTwice
  <2>2. \A c \in Command : WasSent(c)'
    BY <1>0, <1>12 DEF StartInv, NoneTwice, Posted, Off, WasSent, Asked,
       EnableCryptoCommands, PostsAgain, client, slot, log
  <2> QED
    BY <2>1, <2>2 DEF StartInv
<1>13. CASE UNCHANGED vars
  BY <1>13 DEF vars, client, crypto, slot, log, StartInv, NoneTwice, Posted, Off, WasSent, Asked
<1> QED
  BY <1>1, <1>2, <1>3, <1>4, <1>5, <1>6, <1>7, <1>8, <1>9, <1>10, <1>11, <1>12, <1>13, Zenon
     DEF Next, ReadsLine, SomeBottomHalf

\* With fewer than three switches of the crypto commands no command is started twice,
\* whatever is posted and waits (startCommandBottomHalf(), enableCryptoCommands()).
THEOREM NoneStartedTwice == Spec => []StartedOnce
<1>1. TypeOK /\ Inv /\ StartInv /\ [Next]_vars => StartInv'
  BY StartStep
<1>2. StartInv => StartedOnce
  BY DEF StartInv, NoneTwice, StartedOnce
<1> QED
  BY <1>1, <1>2, StartInit, Invariance, PTL DEF Spec

(***************************************************************************)
(* The connection implements CommandServer.  What moves the promise is a   *)
(* line that is refused, a command that is done or goes to the background, *)
(* the client and the end; all that starts, waits and posts stutters.      *)
(***************************************************************************)

PromiseMoves == [Promise!Next]_(Promise!serverVars)

\* What the invariant says of the command in the slot and of one on the wire.
LEMMA SlotMayWrite ==
    ASSUME TypeOK, Inv, NEW c \in Command, c \notin isDone,
           current = c \/ wire = c
    PROVE  Promise!MayWrite(c) /\ outstanding = c /\ answers[c] = 0
  BY DEF Inv, CInv, Delivery, Line, Slot, Promise!MayWrite

LEMMA WritesOnce ==
    ASSUME TypeOK, NEW c \in Command, Finalize(c), finalized[c] = 0
    PROVE  Promise!Writes(c)
  BY DEF TypeOK, Finalize, Plus, Promise!Writes

LEMMA AnswersOnce ==
    ASSUME TypeOK, NEW c \in Command, Answer(c), peer, conn = "open",
           outstanding = c, answers[c] = 0
    PROVE  Promise!Answers(c)
  BY DEF TypeOK, Answer, Plus, Promise!Answers

LEMMA PromiseStutters ==
    ASSUME UNCHANGED <<outstanding, peer, conn, nohuped, answers, finalized, canceled>>
    PROVE  PromiseMoves
  BY DEF PromiseMoves, Promise!serverVars

\* done() in the foreground: the answer and the results, or the end of the server.
LEMMA DoneMoves ==
    ASSUME TypeOK, Inv, current \in Command, Alive, ForegroundDone(current),
           UNCHANGED <<peer, nohuped, canceled>>
    PROVE  PromiseMoves
<1>1. CASE current \in isDone
  BY <1>1, PromiseStutters, Zenon DEF ForegroundDone
<1>2. CASE current \notin isDone
  <2>1. Finalize(current) /\ CommandAnswers(current)
    BY <1>2, Zenon DEF ForegroundDone
  <2>2. /\ Promise!MayWrite(current) /\ outstanding = current /\ answers[current] = 0
        /\ conn = "open"
    BY <1>2, SlotMayWrite DEF Inv, CInv, Slot, Alive
  <2>3. Promise!Writes(current)
    BY <2>1, <2>2, WritesOnce DEF Promise!MayWrite
  <2>4. CASE peer
    <3>1. Answer(current) /\ UNCHANGED conn
      BY <2>1, <2>2, <2>4 DEF CommandAnswers
    <3>2. Promise!Finish(current)
      BY <2>2, <2>3, <2>4, <3>1, AnswersOnce DEF Promise!Finish
    <3> QED
      BY <3>2 DEF PromiseMoves, Promise!Next
  <2>5. CASE ~peer
    <3>1. conn' = "aborted" /\ UNCHANGED <<answers, outstanding>>
      BY <2>1, <2>5 DEF CommandAnswers
    <3>2. Promise!Abort(current)
      BY <2>2, <2>3, <2>5, <3>1 DEF Promise!Abort
    <3> QED
      BY <3>2 DEF PromiseMoves, Promise!Next
  <2> QED
    BY <2>4, <2>5
<1> QED
  BY <1>1, <1>2

\* The top half of the deletion: the command in the slot is canceled.
LEMMA ClosingMoves ==
    ASSUME TypeOK, Inv, conn = "open", ~peer, TopHalfDeletion,
           UNCHANGED <<peer, outstanding, answers, finalized, nohuped>>
    PROVE  PromiseMoves
<1>1. conn' = IF nohuped = {} THEN "deleted" ELSE "closed"
  BY DEF TopHalfDeletion, BottomHalfDeletion
<1>2. canceled' = canceled \cup ({current} \ {NoCommand})
  BY DEF TopHalfDeletion, CancelCurrent, Cancel
<1>3. CASE current = NoCommand
  BY <1>1, <1>2, <1>3 DEF PromiseMoves, Promise!Next, Promise!Close
<1>4. CASE current # NoCommand
  <2>1. current \in Command
    BY <1>4 DEF TypeOK, Opt
  <2>2. Promise!MayWrite(current) /\ outstanding = current
    BY <2>1, SlotMayWrite DEF Inv, CInv, Slot
  <2>3. canceled' = canceled \cup {outstanding}
    BY <1>2, <1>4, <2>2
  <2> QED
    BY <1>1, <1>4, <2>2, <2>3 DEF PromiseMoves, Promise!Next, Promise!Close
<1> QED
  BY <1>3, <1>4

LEMMA RefusesCommandMoves ==
    ASSUME TypeOK, Inv, NEW c \in Command, RefusesCommand(c)
    PROVE  PromiseMoves
<1>1. conn = "open" /\ wire = c /\ UNCHANGED <<peer, finalized, nohuped>>
  BY DEF RefusesCommand
<1>2. CASE peer
  <2>1. Answer(c) /\ UNCHANGED <<conn, canceled>>
    BY <1>2, Zenon DEF RefusesCommand
  <2>2. Promise!MayWrite(c) /\ outstanding = c /\ answers[c] = 0
    BY <1>1, SlotMayWrite DEF Inv, CInv, Line
  <2>3. Promise!Refuse(c)
    BY <1>1, <1>2, <2>1, <2>2, AnswersOnce DEF Promise!Refuse
  <2> QED
    BY <2>3 DEF PromiseMoves, Promise!Next
<1>3. CASE ~peer
  BY <1>1, <1>3, ClosingMoves, Zenon DEF RefusesCommand
<1> QED
  BY <1>2, <1>3

LEMMA BackgroundMoves ==
    ASSUME TypeOK, Inv, BottomHalfRunsInBackground
    PROVE  PromiseMoves
<1>1. /\ current \in Command /\ current \notin isDone /\ Alive
      /\ nohuped' = nohuped \cup {current}
      /\ UNCHANGED <<peer, conn, finalized, canceled>>
      /\ ConnectionAnswers(current)
  BY BottomHalfTypes DEF BottomHalfRunsInBackground, BottomHalfRuns, BottomHalf
<1>2. /\ Promise!MayWrite(current) /\ outstanding = current /\ answers[current] = 0
      /\ conn = "open"
  BY <1>1, SlotMayWrite DEF Inv, CInv, Slot, Alive
<1>3. Promise!Answers(current) \/ (~peer /\ UNCHANGED <<answers, outstanding>>)
  BY <1>1, <1>2, AnswersOnce DEF ConnectionAnswers
<1>4. Promise!GoToBackground(current)
  BY <1>1, <1>2, <1>3 DEF Promise!GoToBackground
<1> QED
  BY <1>1, <1>4 DEF PromiseMoves, Promise!Next

LEMMA NohupDoneMoves ==
    ASSUME TypeOK, Inv, NEW c \in Command, NohupDone(c)
    PROVE  PromiseMoves
<1>1. /\ Alive /\ c \in nohuped /\ Finalize(c) /\ nohuped' = nohuped \ {c}
      /\ UNCHANGED <<outstanding, peer, answers, canceled>>
  BY DEF NohupDone, client
<1>2. finalized[c] = 0 /\ c \notin canceled
  BY <1>1 DEF Inv, CInv, Delivery
<1>3. Promise!Writes(c)
  BY <1>1, <1>2, WritesOnce
<1>4. \/ conn = "closed" /\ nohuped' = {} /\ conn' = "deleted"
      \/ conn = "closed" /\ nohuped' # {} /\ UNCHANGED conn
      \/ conn = "open" /\ UNCHANGED conn
  BY <1>1 DEF NohupDone, LastOfClosed, BottomHalfDeletion, Alive
<1>5. Promise!FinishInBackground(c)
  BY <1>1, <1>2, <1>3, <1>4 DEF Promise!FinishInBackground
<1> QED
  BY <1>5 DEF PromiseMoves, Promise!Next

LEMMA ClientMoves ==
    ASSUME TypeOK, HangsUp \/ \E c \in Command : SendsCommand(c)
    PROVE  PromiseMoves
<1>1. HangsUp => Promise!Leave
  BY DEF HangsUp, log, Promise!Leave
<1>2. ASSUME NEW c \in Command, SendsCommand(c)
      PROVE  Promise!Ask(c)
  BY <1>2 DEF TypeOK, SendsCommand, Asked, log, Promise!Ask
<1> QED
  BY <1>1, <1>2 DEF PromiseMoves, Promise!Next

LEMMA PromiseInit == Init => Promise!Init
  BY DEF Init, Promise!Init

LEMMA PromiseStep == TypeOK /\ Inv /\ [Next]_vars => PromiseMoves
<1> SUFFICES ASSUME TypeOK, Inv PROVE [Next]_vars => PromiseMoves
  OBVIOUS
<1>1. BottomHalfFinishes => PromiseMoves
  BY BottomHalfTypes, DoneMoves DEF BottomHalfFinishes, BottomHalf
<1>2. CurrentDone => PromiseMoves
  BY DoneMoves DEF CurrentDone, TypeOK, Opt
<1>3. ReadsEof => PromiseMoves
  BY ClosingMoves DEF ReadsEof, client
<1>4. ReadsLine => PromiseMoves
  <2>1. ASSUME NEW c, NEW nohup, HandlesCommand(c, nohup) PROVE PromiseMoves
    BY <2>1, PromiseStutters DEF HandlesCommand, log
  <2> QED
    BY <2>1, RefusesCommandMoves DEF ReadsLine
<1>5. BottomHalfStartsNothing \/ BottomHalfRunsInForeground => PromiseMoves
  BY PromiseStutters DEF BottomHalfStartsNothing, BottomHalfRunsInForeground,
                         BottomHalfRuns, BottomHalf
<1>6. EnableCryptoCommands => PromiseMoves
  BY PromiseStutters DEF EnableCryptoCommands, client, log
<1>7. UNCHANGED vars => PromiseMoves
  BY PromiseStutters DEF vars, client, log
<1> QED
  BY <1>1, <1>2, <1>3, <1>4, <1>5, <1>6, <1>7, BackgroundMoves, NohupDoneMoves, ClientMoves,
     Zenon DEF Next, SomeBottomHalf

\* A connection keeps its promise, with any number of commands and of switches of the
\* crypto commands: one answer to the command the client waits for, results once and
\* of no canceled command, and no end of the server but by a client that leaves
\* (assuanserverconnection.cpp: the class, done(), nohupDone(), topHalfDeletion()).
THEOREM ConnectionKeepsPromise == Spec => KeepsPromise
<1>1. TypeOK /\ Inv /\ [Next]_vars => [Promise!Next]_(Promise!serverVars)
  BY PromiseStep DEF PromiseMoves
<1> QED
  BY <1>1, PromiseInit, Invariance, PTL DEF Spec, KeepsPromise, Promise!Spec
=============================================================================
