---------------------------- MODULE ReaderStatus ----------------------------
(***************************************************************************)
(* The smart card monitor (kleopatra/src/smartcard/readerstatus.cpp): a    *)
(* thread that takes commands for the card from a queue, performs them     *)
(* through gpg-agent and leaves them in a second list, and the GUI thread, *)
(* which fills the queue, is told by queued signals, and passes the error  *)
(* of the signal on to whoever asked.                                      *)
(*                                                                         *)
(* Transactions are numbered in the order in which they are started, and   *)
(* each stands for its own error: told[t] = <<u>> says that the receiver   *)
(* of t got what came of u.                                                *)
(***************************************************************************)
EXTENDS Integers, Sequences, SequencesExt, FiniteSets

CONSTANTS
    Cards,          \* what can be in the reader, NoCard among it
    NoCard,
    MaxTx,          \* bound: transactions that widgets start
    MaxDead,        \* bound: receivers that are deleted
    MaxUpdates,     \* bound: how often the card changes or the user asks for an update
    MaxFailures     \* bound: contexts and readings that fail

ASSUME CardsAssumption == NoCard \in Cards
ASSUME BoundsAssumption ==
    /\ MaxTx \in Nat /\ MaxDead \in Nat /\ MaxUpdates \in Nat /\ MaxFailures \in Nat

Tx == 1 .. MaxTx
Update == 0         \* updateTransaction
Quit == -1          \* quitTransaction
CardError == "CardError"
Unknown == "unknown"
ASSUME NamesAssumption == {CardError, Unknown} \cap Cards = {}

VARIABLES
    \* the reader
    card, notice,   \* what is in it; reader_*.status was written
    changes,
    \* shared, under the mutex
    transactions, finished, cardInfos,
    \* the thread
    tpc, supported, \* where it is; whether GpgME has an Assuan engine
    context,        \* whether gpgAgent is not null
    item, oldCards, newCards,
    failures,
    \* the GUI thread
    monitor,        \* the ReaderStatus object
    events,         \* signals of the thread that are queued
    frames,         \* running slotOneTransactionFinished(), innermost last
    shown,          \* what SmartCardWidget shows
    pings, dead,    \* dead: transactions whose receiver was deleted
    \* history
    started,        \* how many transactions have been started
    performed, told,
    late,           \* finished while a signal of another one was queued
    misread         \* the last update had no card to show

readerVars == <<card, notice, changes>>
sharedVars == <<transactions, finished, cardInfos>>
threadVars == <<tpc, supported, context, item, oldCards, newCards, failures>>
guiVars    == <<monitor, events, frames, shown, pings, dead>>
historyVars == <<started, performed, told, late, misread>>
vars == <<readerVars, sharedVars, threadVars, guiVars, historyVars>>

ThreadPcs == {"idle", "context", "lock", "asleep", "update", "store",
              "announce", "transact", "finish", "emit", "ended", "crashed"}
Readings == Cards \cup {CardError, Unknown}
CardChanged == [signal |-> "cardChanged"]
OneTransactionFinished(t) == [signal |-> "oneTransactionFinished", err |-> t]
Signals == {CardChanged} \cup {OneTransactionFinished(t) : t \in Tx}

-----------------------------------------------------------------------------
Init ==
    /\ card \in Cards /\ notice = FALSE /\ changes = 0
    /\ transactions = <<Update>> /\ finished = << >> /\ cardInfos = Unknown
    /\ tpc = "idle" /\ supported \in BOOLEAN /\ context = FALSE
    /\ item = Update /\ oldCards = Unknown /\ newCards = Unknown /\ failures = 0
    /\ monitor = "alive" /\ events = << >> /\ frames = << >> /\ shown = Unknown
    /\ pings = 0 /\ dead = {}
    /\ started = 0 /\ performed = << >> /\ told = [t \in Tx |-> << >>]
    /\ late = {} /\ misread = FALSE

Running == tpc # "crashed"

-----------------------------------------------------------------------------
(* The queue *)

\* addTransaction()
AddWithoutWaking(t) ==                      \* fault: no wakeOne()
    transactions' = Append(transactions, t) /\ UNCHANGED tpc
Add(t) ==
    /\ transactions' = Append(transactions, t)
    /\ tpc' = IF tpc = "asleep" THEN "lock" ELSE tpc

-----------------------------------------------------------------------------
(* The reader and gpg-agent *)

CardChanges(c) ==
    /\ changes + pings < MaxUpdates /\ c # card
    /\ card' = c
    /\ notice' = TRUE
    /\ changes' = changes + 1
    /\ UNCHANGED <<sharedVars, threadVars, guiVars, historyVars>>

-----------------------------------------------------------------------------
(* ReaderStatusThread::run() *)

\* Context::createForEngine(): not supported, fails, or works.
NewContext ==
    /\ tpc = "context"
    /\ \/ ~supported /\ tpc' = "ended" /\ UNCHANGED <<context, failures>>
       \/ supported /\ tpc' = "lock" /\ context' = TRUE /\ UNCHANGED failures
       \/ /\ supported /\ failures < MaxFailures
          /\ tpc' = "lock" /\ context' = FALSE /\ failures' = failures + 1
    /\ UNCHANGED <<readerVars, sharedVars, supported, item, oldCards, newCards,
                   guiVars, historyVars>>

\* Takes the first transaction, or sleeps while there is none.
Take ==
    /\ tpc = "lock" /\ transactions # << >>
    /\ item' = Head(transactions) /\ transactions' = Tail(transactions)
    /\ oldCards' = cardInfos
    /\ tpc' = CASE item' = Quit -> "ended"
                [] item' = Update -> "update"
                [] OTHER -> "transact"
    /\ UNCHANGED <<readerVars, finished, cardInfos, supported, context,
                   newCards, failures, guiVars, historyVars>>

Sleeps ==
    /\ tpc = "lock" /\ transactions = << >>
    /\ tpc' = "asleep"
    /\ UNCHANGED <<readerVars, sharedVars, supported, context, item, oldCards,
                   newCards, failures, guiVars, historyVars>>

\* update_cardinfo(): an empty card without a context; the card may not answer.
ReadCard ==
    /\ tpc = "update"
    /\ \/ context /\ newCards' = card /\ misread' = FALSE /\ UNCHANGED failures
       \/ ~context /\ newCards' = NoCard /\ misread' = TRUE /\ UNCHANGED failures
       \/ /\ context /\ failures < MaxFailures
          /\ newCards' = CardError /\ misread' = TRUE
          /\ failures' = failures + 1
    /\ tpc' = "store"
    /\ UNCHANGED <<readerVars, sharedVars, supported, context, item, oldCards,
                   guiVars, started, performed, told, late>>

StoreCards ==
    /\ tpc = "store"
    /\ cardInfos' = newCards
    /\ tpc' = "announce"
    /\ UNCHANGED <<readerVars, transactions, finished, supported, context, item,
                   oldCards, newCards, failures, guiVars, historyVars>>

\* The end of an iteration: its local variables are gone.
NextIteration ==
    /\ tpc' = "context"
    /\ context' = FALSE /\ item' = Update
    /\ oldCards' = Unknown /\ newCards' = Unknown

\* cardChanged(), if there was nothing before or the cards differ.  Comparing
\* two equal ones may say that they differ: Card() leaves mSlot uninitialized.
DifferIfPresent == newCards # oldCards /\ newCards # NoCard  \* fault: overlooks a removal
Differ == newCards # oldCards
AnnounceCards ==
    /\ tpc = "announce"
    /\ \/ events' = Append(events, CardChanged)
       \/ ~Differ /\ UNCHANGED events
    /\ NextIteration
    /\ UNCHANGED <<readerVars, sharedVars, supported, failures, monitor, frames,
                   shown, pings, dead, historyVars>>

\* gpgagent_transact(), which does not look whether there is a context.
Transact ==
    /\ tpc = "transact"
    /\ IF context
         THEN tpc' = "finish" /\ performed' = Append(performed, item)
         ELSE tpc' = "crashed" /\ UNCHANGED performed
    /\ UNCHANGED <<readerVars, sharedVars, supported, context, item, oldCards,
                   newCards, failures, guiVars, started, told, late, misread>>

SignalQueued == \E i \in 1 .. Len(events) : events[i] # CardChanged

\* The transaction goes to m_finishedTransactions ...
FinishTransaction ==
    /\ tpc = "finish"
    /\ finished' = Append(finished, item)
    /\ late' = IF SignalQueued THEN late \cup {item} ELSE late
    /\ tpc' = "emit"
    /\ UNCHANGED <<readerVars, transactions, cardInfos, supported, context,
                   item, oldCards, newCards, failures, guiVars, started,
                   performed, told, misread>>

\* ... and its error into a signal.
EmitFinished ==
    /\ tpc = "emit"
    /\ events' = Append(events, OneTransactionFinished(item))
    /\ NextIteration
    /\ UNCHANGED <<readerVars, sharedVars, supported, failures, monitor, frames,
                   shown, pings, dead, historyVars>>

ThreadRuns ==
    \/ NewContext \/ Take \/ Sleeps \/ ReadCard \/ StoreCards \/ AnnounceCards
    \/ Transact \/ FinishTransaction \/ EmitFinished

-----------------------------------------------------------------------------
(* The GUI thread *)

\* Its event loop runs: no slot does, or one that has opened a message box.
InSlot == frames # << >> /\ ~Last(frames).box
LoopRuns == Running /\ monitor = "alive" /\ ~InSlot

StartMonitoring ==
    /\ LoopRuns /\ tpc = "idle"
    /\ tpc' = "context"
    /\ UNCHANGED <<readerVars, sharedVars, supported, context, item, oldCards,
                   newCards, failures, guiVars, historyVars>>

\* startSimpleTransaction()
StartTransaction ==
    /\ LoopRuns /\ started < MaxTx
    /\ started' = started + 1
    /\ Add(started + 1)
    /\ UNCHANGED <<readerVars, finished, cardInfos, supported, context, item,
                   oldCards, newCards, failures, guiVars, performed, told, late,
                   misread>>

\* updateStatus()
UserPings ==
    /\ LoopRuns /\ changes + pings < MaxUpdates
    /\ pings' = pings + 1
    /\ Add(Update)
    /\ UNCHANGED <<readerVars, finished, cardInfos, supported, context, item,
                   oldCards, newCards, failures, monitor, events, frames, shown,
                   dead, historyVars>>

\* FileSystemWatcher::triggered()
WatcherPings ==
    /\ LoopRuns /\ notice
    /\ notice' = FALSE
    /\ Add(Update)
    /\ UNCHANGED <<card, changes, finished, cardInfos, supported, context, item,
                   oldCards, newCards, failures, guiVars, historyVars>>

\* A widget is deleted that is still to be told: its QPointer is null from now on.
ReceiverDies(t) ==
    /\ LoopRuns /\ t \in 1 .. started /\ t \notin dead /\ told[t] = << >>
    /\ Cardinality(dead) < MaxDead
    /\ dead' = dead \cup {t}
    /\ UNCHANGED <<readerVars, sharedVars, threadVars, monitor, events, frames,
                   shown, pings, historyVars>>

DeliverCardChanged ==
    /\ LoopRuns /\ events # << >> /\ Head(events) = CardChanged
    /\ events' = Tail(events)
    /\ shown' = cardInfos
    /\ UNCHANGED <<readerVars, sharedVars, threadVars, monitor, frames, pings,
                   dead, historyVars>>

\* slotOneTransactionFinished(): takes all that have finished by now.
TakeAndKeep ==                              \* fault: copies the list
    /\ LoopRuns /\ events # << >> /\ Head(events) # CardChanged
    /\ events' = Tail(events)
    /\ frames' = Append(frames, [err |-> Head(events).err, todo |-> finished,
                                 box |-> FALSE])
    /\ UNCHANGED <<readerVars, sharedVars, threadVars, monitor, shown, pings,
                   dead, historyVars>>

TakeAllTellFirst ==                         \* fault: tells only the first
    /\ LoopRuns /\ events # << >> /\ Head(events) # CardChanged
    /\ events' = Tail(events)
    /\ frames' = Append(frames, [err |-> Head(events).err, box |-> FALSE,
                    todo |-> IF finished = << >> THEN << >> ELSE <<Head(finished)>>])
    /\ finished' = << >>
    /\ UNCHANGED <<readerVars, transactions, cardInfos, threadVars, monitor,
                   shown, pings, dead, historyVars>>

DeliverFinished ==
    /\ LoopRuns /\ events # << >> /\ Head(events) # CardChanged
    /\ events' = Tail(events)
    /\ frames' = Append(frames, [err |-> Head(events).err, todo |-> finished,
                                 box |-> FALSE])
    /\ finished' = << >>
    /\ UNCHANGED <<readerVars, transactions, cardInfos, threadVars, monitor,
                   shown, pings, dead, historyVars>>

\* The next receiver, if there still is one, is called directly with the error
\* of the signal.  It may open a message box, whose event loop goes on.
TellNext ==
    /\ Running /\ InSlot /\ Last(frames).todo # << >>
    /\ LET t == Head(Last(frames).todo)
       IN  \E box \in BOOLEAN :
             /\ t \in dead => ~box
             /\ told' = IF t \in dead THEN told
                        ELSE [told EXCEPT ![t] = Append(@, Last(frames).err)]
             /\ frames' = [frames EXCEPT ![Len(frames)].todo = Tail(@),
                                         ![Len(frames)].box = box]
    /\ UNCHANGED <<readerVars, sharedVars, threadVars, monitor, events, shown,
                   pings, dead, started, performed, late, misread>>

BoxIsClosed ==
    /\ Running /\ frames # << >> /\ Last(frames).box
    /\ frames' = [frames EXCEPT ![Len(frames)].box = FALSE]
    /\ UNCHANGED <<readerVars, sharedVars, threadVars, monitor, events, shown,
                   pings, dead, historyVars>>

SlotReturns ==
    /\ Running /\ InSlot /\ Last(frames).todo = << >>
    /\ frames' = Front(frames)
    /\ UNCHANGED <<readerVars, sharedVars, threadVars, monitor, events, shown,
                   pings, dead, historyVars>>

\* ~Private() begins with stop(): the end goes before all that waits.
Stop ==
    /\ Running /\ monitor = "alive" /\ frames = << >>
    /\ monitor' = "stopping"
    /\ transactions' = <<Quit>> \o transactions
    /\ tpc' = IF tpc = "asleep" THEN "lock" ELSE tpc
    /\ UNCHANGED <<readerVars, finished, cardInfos, supported, context, item,
                   oldCards, newCards, failures, events, frames, shown, pings,
                   dead, historyVars>>

\* The thread has ended, or is terminated after 100 ms.  What it has signalled
\* dies with the object.
Destroyed ==
    /\ Running /\ monitor = "stopping"
    /\ tpc' = "ended"
    /\ monitor' = "gone"
    /\ events' = << >>
    /\ UNCHANGED <<readerVars, sharedVars, supported, context, item, oldCards,
                   newCards, failures, frames, shown, pings, dead, historyVars>>

GuiRuns ==
    \/ WatcherPings \/ DeliverCardChanged \/ DeliverFinished
    \/ TellNext \/ BoxIsClosed \/ SlotReturns \/ Destroyed

UserActs ==
    \/ StartMonitoring \/ StartTransaction \/ UserPings \/ Stop
    \/ \E t \in Tx : ReceiverDies(t)
    \/ \E c \in Cards : CardChanges(c)

-----------------------------------------------------------------------------
Next == ThreadRuns \/ GuiRuns \/ UserActs

Spec == Init /\ [][Next]_vars

\* Both threads run, the watcher's notice is delivered, and message boxes are
\* closed in the end.
Fairness == WF_vars(ThreadRuns) /\ WF_vars(GuiRuns)

FairSpec == Spec /\ Fairness

-----------------------------------------------------------------------------
(* Properties *)

TypeOK ==
    /\ card \in Cards /\ notice \in BOOLEAN /\ changes \in Nat
    /\ transactions \in Seq(Tx \cup {Update, Quit}) /\ finished \in Seq(Tx)
    /\ cardInfos \in Readings
    /\ tpc \in ThreadPcs /\ supported \in BOOLEAN /\ context \in BOOLEAN
    /\ item \in Tx \cup {Update, Quit} /\ oldCards \in Readings
    /\ newCards \in Readings /\ failures \in Nat
    /\ monitor \in {"alive", "stopping", "gone"} /\ events \in Seq(Signals)
    /\ frames \in Seq([err : Tx, todo : Seq(Tx), box : BOOLEAN])
    /\ shown \in Readings /\ pings \in Nat /\ dead \subseteq Tx
    /\ started \in 0 .. MaxTx /\ performed \in Seq(Tx) /\ told \in [Tx -> Seq(Tx)]
    /\ late \subseteq Tx /\ misread \in BOOLEAN

\* A thread is asleep only if nothing waits for it, whoever fills the queue and
\* when: no wakeOne() is lost.
AsleepOnlyIfIdle == tpc = "asleep" => transactions = << >>

\* Commands reach the card in the order in which they were started, and none is
\* forgotten or repeated: first those performed, then the one the thread has in
\* hand, then those that wait, whatever updates and the end come in between.  (A
\* thread that was terminated may have had one in hand.)
TakenCount == Len(performed) + (IF tpc \in {"transact", "crashed"} THEN 1 ELSE 0)
InOrder == monitor # "gone" =>
    /\ \A k \in 1 .. Len(performed) : performed[k] = k
    /\ tpc \in {"transact", "crashed"} => item = TakenCount
    /\ \A t \in Tx : (\E i \in 1 .. Len(transactions) : transactions[i] = t)
                        <=> t \in TakenCount + 1 .. started
    /\ \A i, j \in 1 .. Len(transactions) :
          i < j /\ transactions[i] \in Tx /\ transactions[j] \in Tx
            => transactions[i] < transactions[j]

\* A receiver is told once, after its command was performed, and it is told
\* another one's error only if a signal was still queued when its own command
\* finished.
ToldOnce ==
    \A t \in Tx :
        /\ Len(told[t]) <= 1
        /\ told[t] # << >> => t <= Len(performed)
        /\ told[t] \notin {<< >>, <<t>>} => t \in late

Queue == INSTANCE CommandQueue WITH
    Command   <- Tx,
    state     <- IF tpc = "crashed" THEN "crashed" ELSE monitor,
    sent      <- started,
    begun     <- IF tpc = "transact" THEN <<item>> ELSE << >>,
    overtaken <- late,
    deaf      <- dead

\* Two threads, two lists and a queue of signals are one queue of commands: in
\* order, once, nothing begun after stop(), and no sender told twice, too early
\* or what came of a later command than its own.
ServesInOrder == Queue!Spec

\* Whoever starts a transaction hears of it, unless its receiver is deleted, the
\* monitor is never started or goes away, there is no Assuan engine, or the
\* process has crashed on a missing context.
EveryoneIsTold ==
    \A t \in Tx :
        t \in 1 .. started ~>
            \/ told[t] # << >> \/ t \in dead
            \/ monitor # "alive" \/ ~supported \/ tpc \in {"idle", "crashed"}

\* The widget shows in the end what is in the reader, unless the last reading
\* failed: nothing repeats it.
DisplayCatchesUp ==
    []<>(\/ shown = card /\ ~notice
         \/ misread \/ monitor # "alive" \/ ~supported
         \/ tpc \in {"idle", "crashed"})
=============================================================================
