------------------------- MODULE AssuanConnection -------------------------
(***************************************************************************)
(* One connection of the UI server: class AssuanServerConnection::Private  *)
(* and the AssuanCommand objects it runs.  A command line makes a command  *)
(* object and posts a "bottom half" to the event loop; the bottom half     *)
(* starts the command, unless crypto commands are disabled, in which case  *)
(* enabling them posts it again.  A command answers the client with        *)
(* done(), at once or later; with --nohup it answers when it is in the     *)
(* background and survives the connection.  The client may hang up at any  *)
(* moment, which it does to cancel.                                        *)
(*                                                                         *)
(* libassuan is external.  The client keeps to the protocol: it sends a    *)
(* line only when its last one was answered.  A write to a peer that is    *)
(* gone fails, whether or not this end has read the end of file yet.       *)
(***************************************************************************)
EXTENDS Naturals, FiniteSets

CONSTANTS
    Command,        \* the commands the client may send, each once
    NoCommand,      \* no command
    MaxSwitches     \* bound: how often the crypto commands are switched

ASSUME CommandAssumption == NoCommand \notin Command
ASSUME SwitchesAssumption == MaxSwitches \in Nat

VARIABLES
    peer,           \* the client has its end of the socket open
    wire,           \* the line it sent that was not read yet
    outstanding,    \* the command whose answer it waits for
    conn,           \* "open", "closed" (top half), "deleted" (bottom half),
                    \* or "aborted": the process ended in qFatal()
    enabled,        \* cryptoCommandsEnabled
    waiting,        \* commandWaitingForCryptoCommandsEnabled
    switches,       \* how often the crypto commands were switched
    timers,         \* the bottom halves the event loop has yet to run
    current,        \* currentCommand
    currentIsNohup, \* currentCommandIsNohup
    nohuped,        \* nohupedCommands
    isDone,         \* the commands with done set
    canceled,       \* history: the commands canceled() was called for
    starts,         \* history: how often each was start()ed
    finalized,      \* history: how often its inputs and outputs were finalized
    answers         \* history: how often it was answered

client == <<peer, wire, outstanding>>
crypto == <<enabled, waiting, switches>>
slot   == <<current, currentIsNohup>>
log    == <<canceled, starts, finalized, answers>>
vars   == <<client, crypto, slot, log, conn, timers, nohuped, isDone>>

Opt == Command \union {NoCommand}

TypeOK ==
    /\ peer \in BOOLEAN /\ wire \in Opt /\ outstanding \in Opt
    /\ conn \in {"open", "closed", "deleted", "aborted"}
    /\ enabled \in BOOLEAN /\ waiting \in BOOLEAN /\ switches \in 0..MaxSwitches
    /\ timers \in Nat
    /\ current \in Opt /\ currentIsNohup \in BOOLEAN
    /\ nohuped \subseteq Command /\ isDone \subseteq Command /\ canceled \subseteq Command
    /\ starts \in [Command -> Nat] /\ finalized \in [Command -> Nat] /\ answers \in [Command -> Nat]

\* A fresh connection has the server's setting of the crypto commands.
Init ==
    /\ peer = TRUE /\ wire = NoCommand /\ outstanding = NoCommand
    /\ conn = "open"
    /\ enabled \in BOOLEAN /\ waiting = FALSE /\ switches = 0
    /\ timers = 0
    /\ current = NoCommand /\ currentIsNohup = FALSE
    /\ nohuped = {} /\ isDone = {} /\ canceled = {}
    /\ starts = [c \in Command |-> 0]
    /\ finalized = [c \in Command |-> 0]
    /\ answers = [c \in Command |-> 0]

Alive == conn \in {"open", "closed"}
Plus(count, c) == [count EXCEPT ![c] = @ + 1]
Asked(c) == outstanding = c \/ answers[c] > 0

---------------------------------------------------------------------------
\* The client

SendsCommand(c) ==
    /\ peer /\ outstanding = NoCommand /\ ~Asked(c)
    /\ wire' = c /\ outstanding' = c
    /\ UNCHANGED <<peer, crypto, slot, log, conn, timers, nohuped, isDone>>

HangsUp ==
    /\ peer
    /\ peer' = FALSE
    /\ UNCHANGED <<wire, outstanding, crypto, slot, log, conn, timers, nohuped, isDone>>

---------------------------------------------------------------------------
\* Answering.  A command that cannot answer takes the process down, the
\* connection itself ignores the failure.

Answer(c) == answers' = Plus(answers, c) /\ outstanding' = NoCommand

CommandAnswers(c) ==
    \/ peer /\ conn = "open" /\ Answer(c) /\ UNCHANGED conn
    \/ ~(peer /\ conn = "open") /\ conn' = "aborted" /\ UNCHANGED <<answers, outstanding>>

ConnectionAnswers(c) ==
    \/ peer /\ conn = "open" /\ Answer(c)
    \/ ~(peer /\ conn = "open") /\ UNCHANGED <<answers, outstanding>>

Finalize(c) == finalized' = Plus(finalized, c) /\ isDone' = isDone \union {c}

ForegroundDoneTwice(c) == Finalize(c) /\ CommandAnswers(c)      \* fault: done not looked at

\* done() of a command in the foreground
ForegroundDone(c) ==
    \/ c \in isDone /\ UNCHANGED <<isDone, finalized, answers, outstanding, conn>>
    \/ c \notin isDone /\ Finalize(c) /\ CommandAnswers(c)

---------------------------------------------------------------------------
\* The end of a connection, in two halves

BottomHalfDeletion ==
    /\ conn' = "deleted" /\ timers' = 0 /\ waiting' = FALSE
    /\ current' = NoCommand /\ currentIsNohup' = FALSE

Cancel(cs) == canceled' = canceled \union cs /\ isDone' = isDone \union cs

CancelAll == Cancel(nohuped \union ({current} \ {NoCommand}))   \* fault

\* canceled() of the current command, if there is one
CancelCurrent == Cancel({current} \ {NoCommand})

TopHalfDeletion ==
    /\ CancelCurrent
    /\ \/ nohuped = {} /\ BottomHalfDeletion
       \/ nohuped # {} /\ conn' = "closed" /\ UNCHANGED <<timers, waiting, slot>>

---------------------------------------------------------------------------
\* The event loop: lines from the client

\* The end of the stream, or BYE
ReadsEof ==
    /\ conn = "open" /\ ~peer /\ wire = NoCommand
    /\ TopHalfDeletion
    /\ UNCHANGED <<client, enabled, switches, starts, finalized, answers, nohuped>>

\* A command becomes the current one and its bottom half is posted.
HandlesCommand(c, nohup) ==
    /\ conn = "open" /\ wire = c
    /\ wire' = NoCommand
    /\ current' = c /\ currentIsNohup' = nohup
    /\ timers' = timers + 1
    /\ UNCHANGED <<peer, outstanding, crypto, log, conn, nohuped, isDone>>

\* --nohup with an argument, or a command that cannot be made
RefusesCommand(c) ==
    /\ conn = "open" /\ wire = c
    /\ wire' = NoCommand
    /\ \/ peer /\ Answer(c) /\ UNCHANGED <<conn, timers, waiting, slot, isDone, canceled>>
       \/ ~peer /\ TopHalfDeletion /\ UNCHANGED <<answers, outstanding>>
    /\ UNCHANGED <<peer, enabled, switches, starts, finalized, nohuped>>

---------------------------------------------------------------------------
\* The event loop: startCommandBottomHalf()


BottomHalf ==
    /\ Alive /\ timers > 0
    /\ timers' = timers - 1
    /\ waiting' = (current # NoCommand /\ ~enabled)
    /\ UNCHANGED <<peer, wire, enabled, switches, canceled>>

MayStart == enabled /\ current # NoCommand

BottomHalfStartsNothing ==
    /\ BottomHalf
    /\ ~MayStart
    /\ UNCHANGED <<outstanding, slot, starts, finalized, answers, conn, nohuped, isDone>>

\* The command is done() before start() returns, or had been canceled.
BottomHalfFinishes ==
    /\ BottomHalf
    /\ MayStart
    /\ starts' = Plus(starts, current)
    /\ ForegroundDone(current)
    /\ current' = NoCommand /\ currentIsNohup' = FALSE
    /\ UNCHANGED nohuped

\* start() returns and the command goes on ...
BottomHalfRuns ==
    /\ BottomHalf
    /\ MayStart /\ current \notin isDone
    /\ starts' = Plus(starts, current)
    /\ currentIsNohup' = FALSE
    /\ UNCHANGED <<conn, finalized, isDone>>

\* ... in the foreground,
BottomHalfRunsInForeground ==
    /\ BottomHalfRuns
    /\ ~currentIsNohup
    /\ UNCHANGED <<current, nohuped, answers, outstanding>>

\* ... or in the background.
BottomHalfRunsInBackground ==
    /\ BottomHalfRuns
    /\ currentIsNohup
    /\ current' = NoCommand
    /\ nohuped' = nohuped \union {current}
    /\ ConnectionAnswers(current)

---------------------------------------------------------------------------
\* The event loop: a command that was started finishes later

SlotKept == UNCHANGED current           \* fault: commandDone() not called
CommandDone == current' = NoCommand

CurrentDone ==
    /\ Alive /\ current # NoCommand /\ starts[current] > 0 /\ current \notin isDone
    /\ ForegroundDone(current)
    /\ CommandDone
    /\ UNCHANGED <<peer, wire, crypto, currentIsNohup, timers, nohuped, canceled, starts>>

NoneOfClosed == FALSE                   \* fault: closed not looked at
LastOfClosed == nohuped' = {} /\ conn = "closed"

NohupDone(c) ==
    /\ Alive /\ c \in nohuped
    /\ Finalize(c)
    /\ nohuped' = nohuped \ {c}
    /\ \/ LastOfClosed /\ BottomHalfDeletion
       \/ ~LastOfClosed /\ UNCHANGED <<conn, timers, waiting, slot>>
    /\ UNCHANGED <<client, enabled, switches, canceled, starts, answers>>

---------------------------------------------------------------------------
\* UiServer::enableCryptoCommands()

PostsAlways == timers + 1               \* fault: whether or not one waits
PostsNever == timers                    \* fault
PostsAgain == IF waiting THEN timers + 1 ELSE timers

\* A command that waits for it is tried again, whichever way the switch went.
EnableCryptoCommands ==
    /\ Alive /\ switches < MaxSwitches
    /\ enabled' = ~enabled /\ switches' = switches + 1
    /\ timers' = PostsAgain
    /\ UNCHANGED <<client, waiting, slot, log, conn, nohuped, isDone>>

---------------------------------------------------------------------------
SomeBottomHalf ==
    \/ BottomHalfStartsNothing
    \/ BottomHalfFinishes
    \/ BottomHalfRunsInForeground
    \/ BottomHalfRunsInBackground

ReadsLine == \E c \in Command : RefusesCommand(c) \/ \E nohup \in BOOLEAN : HandlesCommand(c, nohup)

Next ==
    \/ \E c \in Command : SendsCommand(c) \/ NohupDone(c)
    \/ HangsUp
    \/ ReadsLine
    \/ ReadsEof
    \/ SomeBottomHalf
    \/ CurrentDone
    \/ EnableCryptoCommands

Spec == Init /\ [][Next]_vars

\* The event loop delivers what was posted and what can be read, and a
\* command that was started is done at some time.
Fairness ==
    /\ WF_vars(ReadsLine) /\ WF_vars(ReadsEof)
    /\ WF_vars(SomeBottomHalf)
    /\ WF_vars(CurrentDone) /\ \A c \in Command : WF_vars(NohupDone(c))

FairSpec == Spec /\ Fairness

---------------------------------------------------------------------------
\* Safety

\* The command in the connection's only slot is the one the client waits for,
\* so _handle() never overwrites another; and no command answers twice, neither
\* in two calls of done() nor once when it goes to the background and again in
\* done(): the client would take the second answer for that of its next command
\* (AssuanCommand::done, startCommandBottomHalf).
OneAnswerEach ==
    /\ current # NoCommand => outstanding = current /\ wire = NoCommand
    /\ \A c \in Command : answers[c] <= IF outstanding = c THEN 0 ELSE 1

\* A command is started once, unless the crypto commands were switched on,
\* off and on again under its feet (startCommandBottomHalf, the timers that
\* enableCryptoCommands posts).
StartedOnce == switches < 3 => \A c \in Command : starts[c] <= 1

\* The results of a command are written out once, and never those of a
\* command that was canceled (AssuanCommand::done, canceled).
DeliveredOnce ==
    \A c \in Command : finalized[c] <= 1 /\ (c \in canceled => finalized[c] = 0)

\* A connection whose client left is kept exactly as long as a command runs
\* in the background: none is left without its connection, no closed
\* connection without a command that will delete it; and nothing that went to
\* the background is canceled when the client leaves.
KeptForBackground ==
    /\ conn = "closed" => nohuped # {}
    /\ conn = "deleted" => nohuped = {}

BackgroundRunsOn == nohuped \intersect canceled = {} /\ nohuped \intersect isDone = {}
BackgroundLives == KeptForBackground /\ BackgroundRunsOn

\* Once the descriptor is closed no command tries to write to it, which
\* would end the process.
SilentWhenClosed == [][conn = "closed" => conn' # "aborted"]_vars

Promise == INSTANCE CommandServer WITH
    asked      <- outstanding,
    present    <- peer,
    state      <- conn,
    background <- nohuped,
    results    <- finalized

\* With bottom halves, a switch that stops and repeats them, two places for a
\* command and two halves of the end, a connection is still what its client
\* takes it for: one that answers and writes once, and never for another.
KeepsPromise == Promise!Spec

---------------------------------------------------------------------------
\* What the documentation of AssuanCommand says

\* Shutting down the connection cancels the command; it does not take the
\* server and everybody else's commands with it.
LeavingIsACancel == conn # "aborted"

---------------------------------------------------------------------------
\* Liveness

\* If the crypto commands stay enabled every command is answered, as long as
\* the client is there: no command is stranded between the bottom half that
\* found them disabled and the switch.
Answered ==
    <>[]enabled => \A c \in Command : outstanding = c ~> (outstanding # c \/ ~peer)

\* A connection whose client has left is deleted in the end.
LeftIsDeleted == ~peer ~> conn \in {"deleted", "aborted"}
===========================================================================
