------------------------- MODULE ReaderStatusProofs -------------------------
(***************************************************************************)
(* Proofs about the smart card monitor: types, no lost wake-up, commands   *)
(* in order, and one answer to each receiver.                              *)
(***************************************************************************)
EXTENDS ReaderStatus, SequenceTheorems, TLAPS

USE CardsAssumption, BoundsAssumption, NamesAssumption

Items == Tx \cup {Update, Quit}
Frames == [err : Tx, todo : Seq(Tx), box : BOOLEAN]

-----------------------------------------------------------------------------
(* What the operators on sequences do, element by element. *)

LEMMA HeadTail ==
    ASSUME NEW S, NEW s \in Seq(S), s # << >>
    PROVE  /\ Len(s) \in Nat \ {0} /\ Head(s) = s[1] /\ Head(s) \in S
           /\ Tail(s) \in Seq(S) /\ Len(Tail(s)) = Len(s) - 1
           /\ \A i \in 1 .. Len(Tail(s)) : Tail(s)[i] = s[i + 1]
  OBVIOUS

LEMMA LastFront ==
    ASSUME NEW S, NEW s \in Seq(S), s # << >>
    PROVE  /\ Len(s) \in Nat \ {0} /\ Last(s) = s[Len(s)] /\ Last(s) \in S
           /\ Front(s) \in Seq(S) /\ Len(Front(s)) = Len(s) - 1
           /\ \A i \in 1 .. Len(Front(s)) : Front(s)[i] = s[i]
<1>1. Len(s) \in Nat \ {0} /\ \A i \in 1 .. Len(s) : s[i] \in S
  OBVIOUS
<1>2. Last(s) = s[Len(s)] /\ Front(s) = SubSeq(s, 1, Len(s) - 1)
  BY DEF Last, Front
<1>3. \A i \in 1 .. Len(s) - 1 : s[i] \in S
  BY <1>1
<1> DEFINE n == Len(s) - 1
<1>4. n \in Nat /\ 1 \in Int /\ n \in Int
  BY <1>1
<1>5. /\ SubSeq(s, 1, n) \in Seq(S)
      /\ Len(SubSeq(s, 1, n)) = IF 1 <= n THEN n - 1 + 1 ELSE 0
      /\ \A i \in 1 .. n - 1 + 1 : SubSeq(s, 1, n)[i] = s[1 + i - 1]
  <2> HIDE DEF n
  <2> QED
    BY <1>4, <1>3, SubSeqProperties DEF n
<1>6. Len(SubSeq(s, 1, n)) = n /\ \A i \in 1 .. n : SubSeq(s, 1, n)[i] = s[i]
  <2> HIDE DEF n
  <2>1. n - 1 + 1 = n /\ \A i \in 1 .. n : 1 + i - 1 = i
    BY <1>4
  <2>2. \A i \in 1 .. n : SubSeq(s, 1, n)[i] = s[1 + i - 1]
    BY <1>5, <2>1
  <2>3. \A i \in 1 .. n : SubSeq(s, 1, n)[i] = s[i]
    BY <2>1, <2>2
  <2>4. Len(SubSeq(s, 1, n)) = n
    BY <1>4, <1>5, <2>1
  <2> QED
    BY <2>3, <2>4
<1> QED
  BY <1>1, <1>2, <1>5, <1>6

LEMMA AppendOne ==
    ASSUME NEW S, NEW s \in Seq(S), NEW x \in S
    PROVE  /\ Append(s, x) \in Seq(S) /\ Len(s) \in Nat /\ Len(Append(s, x)) = Len(s) + 1
           /\ Append(s, x)[Len(s) + 1] = x
           /\ \A i \in 1 .. Len(s) : Append(s, x)[i] = s[i]
  OBVIOUS

LEMMA Prepend ==
    ASSUME NEW S, NEW s \in Seq(S), NEW x \in S
    PROVE  /\ <<x>> \o s \in Seq(S) /\ Len(s) \in Nat /\ Len(<<x>> \o s) = Len(s) + 1
           /\ (<<x>> \o s)[1] = x
           /\ \A i \in 1 .. Len(s) : (<<x>> \o s)[i + 1] = s[i]
  OBVIOUS

-----------------------------------------------------------------------------
(* Types *)

LEMMA TypeInit == Init => TypeOK
<1> SUFFICES ASSUME Init PROVE TypeOK
  OBVIOUS
<1>1. transactions \in Seq(Tx \cup {Update, Quit}) /\ item \in Tx \cup {Update, Quit}
  BY DEF Init, Update
<1>2. cardInfos \in Readings /\ oldCards \in Readings /\ newCards \in Readings /\ shown \in Readings
  BY DEF Init, Readings
<1>3. started \in 0 .. MaxTx /\ told \in [Tx -> Seq(Tx)]
  BY DEF Init
<1>4. /\ card \in Cards /\ notice \in BOOLEAN /\ supported \in BOOLEAN /\ context \in BOOLEAN
      /\ misread \in BOOLEAN /\ changes \in Nat /\ failures \in Nat /\ pings \in Nat
  BY DEF Init
<1>5. /\ finished \in Seq(Tx) /\ events \in Seq(Signals) /\ performed \in Seq(Tx)
      /\ frames \in Seq([err : Tx, todo : Seq(Tx), box : BOOLEAN])
  BY DEF Init
<1> QED
  BY <1>1, <1>2, <1>3, <1>4, <1>5 DEF Init, TypeOK, ThreadPcs

LEMMA AddTyped ==
    ASSUME TypeOK, NEW t \in Items, Add(t)
    PROVE  /\ transactions' \in Seq(Items) /\ tpc' \in ThreadPcs /\ tpc' # "asleep"
           /\ Len(transactions') = Len(transactions) + 1
           /\ transactions'[Len(transactions) + 1] = t
           /\ \A i \in 1 .. Len(transactions) : transactions'[i] = transactions[i]
<1>1. transactions \in Seq(Items) /\ tpc \in ThreadPcs
  BY DEF TypeOK, Items
<1> QED
  BY <1>1, AppendOne DEF Add, ThreadPcs

\* A command in hand is a transaction.
TypeInv == TypeOK /\ (tpc \in {"transact", "finish", "emit"} => item \in Tx)

LEMMA ThreadTyped == TypeInv /\ ThreadRuns => TypeInv'
<1> SUFFICES ASSUME TypeInv PROVE ThreadRuns => TypeInv'
  OBVIOUS
<1> USE DEF TypeInv, readerVars, sharedVars, threadVars, guiVars, historyVars, NextIteration
<1>1. ASSUME NewContext PROVE TypeInv'
  <2>1. tpc' \in {"ended", "lock"} /\ context' \in BOOLEAN /\ failures' \in Nat
    <3>1. CASE ~supported /\ tpc' = "ended" /\ UNCHANGED <<context, failures>>
      BY <3>1 DEF TypeOK
    <3>2. CASE tpc' = "lock" /\ context' = TRUE /\ UNCHANGED failures
      BY <3>2 DEF TypeOK
    <3>3. CASE tpc' = "lock" /\ context' = FALSE /\ failures' = failures + 1
      <4>1. failures' \in Nat
        BY <3>3 DEF TypeOK
      <4>2. context' \in BOOLEAN /\ tpc' \in {"ended", "lock"}
        BY <3>3
      <4> QED
        BY <4>1, <4>2
    <3> QED
      BY <1>1, <3>1, <3>2, <3>3, Zenon DEF NewContext
  <2> QED
    BY <1>1, <2>1 DEF NewContext, TypeOK, ThreadPcs
<1>2. ASSUME Take PROVE TypeInv'
  <2>1. item' \in Items /\ transactions' \in Seq(Items)
    BY <1>2, HeadTail DEF Take, TypeOK, Items
  <2>2. tpc' \in ThreadPcs /\ oldCards' \in Readings
    BY <1>2 DEF Take, TypeOK, ThreadPcs
  <2>3. tpc' \in {"transact", "finish", "emit"} => item' \in Tx
    BY <1>2, <2>1 DEF Take, Items
  <2> QED
    BY <1>2, <2>1, <2>2, <2>3 DEF Take, TypeOK, Items
<1>3. ASSUME Sleeps PROVE TypeInv'
  BY <1>3 DEF Sleeps, TypeOK, ThreadPcs
<1>4. ASSUME ReadCard PROVE TypeInv'
  <2>1. newCards' \in Readings /\ misread' \in BOOLEAN /\ failures' \in Nat
    <3>1. CASE newCards' = card /\ misread' = FALSE /\ UNCHANGED failures
      BY <3>1 DEF TypeOK, Readings
    <3>2. CASE newCards' = NoCard /\ misread' = TRUE /\ UNCHANGED failures
      BY <3>2 DEF TypeOK, Readings
    <3>3. CASE newCards' = CardError /\ misread' = TRUE /\ failures' = failures + 1
      BY <3>3 DEF TypeOK, Readings
    <3> QED
      BY <1>4, <3>1, <3>2, <3>3, Zenon DEF ReadCard
  <2> QED
    BY <1>4, <2>1 DEF ReadCard, TypeOK, ThreadPcs
<1>5. ASSUME StoreCards PROVE TypeInv'
  BY <1>5 DEF StoreCards, TypeOK, ThreadPcs
<1>6. ASSUME AnnounceCards PROVE TypeInv'
  <2>1. CardChanged \in Signals
    BY DEF Signals
  <2>2. events' \in Seq(Signals)
    <3>1. events \in Seq(Signals) /\ (events' = Append(events, CardChanged) \/ events' = events)
      BY <1>6 DEF AnnounceCards, TypeOK
    <3> QED
      BY <2>1, <3>1, AppendOne
  <2> QED
    BY <1>6, <2>2 DEF AnnounceCards, TypeOK, ThreadPcs, Readings, Unknown, Update
<1>7. ASSUME Transact PROVE TypeInv'
  <2>1. item \in Tx /\ performed \in Seq(Tx) /\ context \in BOOLEAN
    BY <1>7 DEF Transact, TypeOK
  <2>2. tpc' \in ThreadPcs /\ performed' \in Seq(Tx)
    BY <1>7, <2>1, AppendOne DEF Transact, ThreadPcs
  <2> QED
    BY <1>7, <2>1, <2>2 DEF Transact, TypeOK
<1>8. ASSUME FinishTransaction PROVE TypeInv'
  <2>1. item \in Tx /\ finished \in Seq(Tx)
    BY <1>8 DEF FinishTransaction, TypeOK
  <2>2. finished' \in Seq(Tx)
    BY <1>8, <2>1, AppendOne DEF FinishTransaction
  <2> QED
    BY <1>8, <2>1, <2>2 DEF FinishTransaction, TypeOK, ThreadPcs
<1>9. ASSUME EmitFinished PROVE TypeInv'
  <2>1. OneTransactionFinished(item) \in Signals
    BY <1>9 DEF EmitFinished, Signals
  <2>2. events' \in Seq(Signals)
    BY <1>9, <2>1, AppendOne DEF EmitFinished, TypeOK
  <2> QED
    BY <1>9, <2>2 DEF EmitFinished, TypeOK, ThreadPcs, Readings, Unknown, Update
<1> QED
  BY <1>1, <1>2, <1>3, <1>4, <1>5, <1>6, <1>7, <1>8, <1>9 DEF ThreadRuns

\* The frame in which slotOneTransactionFinished() tells its next receiver.
LEMMA LastFrame ==
    ASSUME TypeOK, frames # << >>
    PROVE  /\ Len(frames) \in Nat \ {0} /\ Last(frames) = frames[Len(frames)]
           /\ frames[Len(frames)] \in Frames
           /\ frames[Len(frames)].todo \in Seq(Tx) /\ frames[Len(frames)].err \in Tx
<1>1. frames \in Seq(Frames)
  BY DEF TypeOK, Frames
<1>2. /\ Len(frames) \in Nat \ {0} /\ Last(frames) = frames[Len(frames)]
      /\ Last(frames) \in Frames
  BY <1>1, LastFront
<1> QED
  BY <1>2 DEF Frames

LEMMA GuiTyped == TypeInv /\ GuiRuns => TypeInv'
<1> SUFFICES ASSUME TypeInv PROVE GuiRuns => TypeInv'
  OBVIOUS
<1> USE DEF TypeInv, readerVars, sharedVars, threadVars, guiVars, historyVars
<1>1. ASSUME WatcherPings PROVE TypeInv'
  <2>1. transactions' \in Seq(Items) /\ tpc' \in ThreadPcs
    BY <1>1, AddTyped DEF WatcherPings, Items
  <2>2. tpc' \in {"transact", "finish", "emit"} => item' \in Tx
    BY <1>1 DEF WatcherPings, Add
  <2> QED
    BY <1>1, <2>1, <2>2 DEF WatcherPings, TypeOK, Items
<1>2. ASSUME DeliverCardChanged PROVE TypeInv'
  <2>1. events' \in Seq(Signals)
    BY <1>2, HeadTail DEF DeliverCardChanged, TypeOK
  <2> QED
    BY <1>2, <2>1 DEF DeliverCardChanged, TypeOK
<1>3. ASSUME DeliverFinished PROVE TypeInv'
  <2>1. events' \in Seq(Signals) /\ Head(events) \in Signals /\ Head(events) # CardChanged
    BY <1>3, HeadTail DEF DeliverFinished, TypeOK
  <2>2. Head(events).err \in Tx
    BY <2>1 DEF Signals, OneTransactionFinished
  <2>3. [err |-> Head(events).err, todo |-> finished, box |-> FALSE] \in Frames
    BY <2>2 DEF Frames, TypeOK
  <2>4. frames' \in Seq(Frames) /\ finished' \in Seq(Tx)
    BY <1>3, <2>3, AppendOne DEF DeliverFinished, TypeOK, Frames
  <2> QED
    BY <1>3, <2>1, <2>4 DEF DeliverFinished, TypeOK, Frames
<1>4. ASSUME TellNext PROVE TypeInv'
  <2>1. frames # << >>
    BY <1>4 DEF TellNext, InSlot
  <2> DEFINE n == Len(frames)
             t == Head(Last(frames).todo)
  <2>2. PICK box \in BOOLEAN :
          /\ told' = IF t \in dead THEN told
                     ELSE [told EXCEPT ![t] = Append(@, Last(frames).err)]
          /\ frames' = [frames EXCEPT ![n].todo = Tail(@), ![n].box = box]
    BY <1>4 DEF TellNext
  <2>3. t \in Tx /\ Tail(frames[n].todo) \in Seq(Tx)
    BY <1>4, <2>1, LastFrame, HeadTail DEF TellNext
  <2>4. told' \in [Tx -> Seq(Tx)]
    BY <2>1, <2>2, <2>3, LastFrame, AppendOne DEF TypeOK
  <2>5. frames' \in Seq(Frames)
    <3>1. [[frames[n] EXCEPT !.todo = Tail(@)] EXCEPT !.box = box] \in Frames
      BY <2>1, <2>3, LastFrame DEF Frames
    <3>2. frames' = [frames EXCEPT ![n] = [[frames[n] EXCEPT !.todo = Tail(@)] EXCEPT !.box = box]]
      BY <2>1, <2>2, LastFrame DEF TypeOK
    <3>3. frames \in Seq(Frames) /\ n \in 1 .. Len(frames)
      BY <2>1, LastFrame DEF TypeOK, Frames
    <3> QED
      BY <3>1, <3>2, <3>3, ExceptSeq
  <2> QED
    BY <1>4, <2>4, <2>5 DEF TellNext, TypeOK, Frames
<1>5. ASSUME BoxIsClosed PROVE TypeInv'
  <2>1. frames' \in Seq(Frames)
    <3>1. [frames[Len(frames)] EXCEPT !.box = FALSE] \in Frames
      BY <1>5, LastFrame DEF BoxIsClosed, Frames
    <3>2. frames' = [frames EXCEPT ![Len(frames)] = [frames[Len(frames)] EXCEPT !.box = FALSE]]
      BY <1>5, LastFrame DEF BoxIsClosed, TypeOK
    <3>3. frames \in Seq(Frames) /\ Len(frames) \in 1 .. Len(frames)
      BY <1>5, LastFrame DEF BoxIsClosed, TypeOK, Frames
    <3> QED
      BY <3>1, <3>2, <3>3, ExceptSeq
  <2> QED
    BY <1>5, <2>1 DEF BoxIsClosed, TypeOK, Frames
<1>6. ASSUME SlotReturns PROVE TypeInv'
  <2>1. frames' \in Seq(Frames)
    BY <1>6, LastFront DEF SlotReturns, InSlot, TypeOK, Frames
  <2> QED
    BY <1>6, <2>1 DEF SlotReturns, TypeOK, Frames
<1>7. ASSUME Destroyed PROVE TypeInv'
  BY <1>7 DEF Destroyed, TypeOK, ThreadPcs
<1> QED
  BY <1>1, <1>2, <1>3, <1>4, <1>5, <1>6, <1>7 DEF GuiRuns

LEMMA UserTyped == TypeInv /\ UserActs => TypeInv'
<1> SUFFICES ASSUME TypeInv PROVE UserActs => TypeInv'
  OBVIOUS
<1> USE DEF TypeInv, readerVars, sharedVars, threadVars, guiVars, historyVars
<1>1. ASSUME StartMonitoring PROVE TypeInv'
  BY <1>1 DEF StartMonitoring, TypeOK, ThreadPcs
<1>2. ASSUME StartTransaction PROVE TypeInv'
  <2>1. started + 1 \in Items /\ started' \in 0 .. MaxTx
    BY <1>2 DEF StartTransaction, TypeOK, Items, Tx
  <2>2. transactions' \in Seq(Items) /\ tpc' \in ThreadPcs
    BY <1>2, <2>1, AddTyped DEF StartTransaction
  <2>3. tpc' \in {"transact", "finish", "emit"} => item' \in Tx
    BY <1>2 DEF StartTransaction, Add
  <2> QED
    BY <1>2, <2>1, <2>2, <2>3 DEF StartTransaction, TypeOK, Items
<1>3. ASSUME UserPings PROVE TypeInv'
  <2>1. transactions' \in Seq(Items) /\ tpc' \in ThreadPcs
    BY <1>3, AddTyped DEF UserPings, Items
  <2>2. tpc' \in {"transact", "finish", "emit"} => item' \in Tx
    BY <1>3 DEF UserPings, Add
  <2> QED
    BY <1>3, <2>1, <2>2 DEF UserPings, TypeOK, Items
<1>4. ASSUME Stop PROVE TypeInv'
  <2>1. transactions' \in Seq(Items)
    BY <1>4, Prepend DEF Stop, TypeOK, Items
  <2>2. tpc' \in ThreadPcs /\ (tpc' \in {"transact", "finish", "emit"} => item' \in Tx)
    BY <1>4 DEF Stop, TypeOK, ThreadPcs
  <2> QED
    BY <1>4, <2>1, <2>2 DEF Stop, TypeOK, Items
<1>5. ASSUME NEW t \in Tx, ReceiverDies(t) PROVE TypeInv'
  BY <1>5 DEF ReceiverDies, TypeOK
<1>6. ASSUME NEW c \in Cards, CardChanges(c) PROVE TypeInv'
  BY <1>6 DEF CardChanges, TypeOK
<1> QED
  BY <1>1, <1>2, <1>3, <1>4, <1>5, <1>6 DEF UserActs

LEMMA TypeNext == TypeInv /\ [Next]_vars => TypeInv'
<1>1. TypeInv /\ UNCHANGED vars => TypeInv'
  BY DEF vars, readerVars, sharedVars, threadVars, guiVars, historyVars, TypeInv, TypeOK
<1> QED
  BY <1>1, ThreadTyped, GuiTyped, UserTyped DEF Next

\* Every variable keeps its type: the queues of the thread and of the GUI hold
\* transactions, and only a transaction is performed.
THEOREM TypeCorrect == Spec => []TypeOK
<1>1. Init => TypeInv
  BY TypeInit DEF TypeInv, Init
<1> QED
  BY <1>1, TypeNext, PTL DEF Spec, TypeInv

-----------------------------------------------------------------------------
(* No wake-up is lost. *)

LEMMA AsleepNext == TypeInv /\ AsleepOnlyIfIdle /\ [Next]_vars => AsleepOnlyIfIdle'
<1> SUFFICES ASSUME TypeInv, AsleepOnlyIfIdle PROVE [Next]_vars => AsleepOnlyIfIdle'
  OBVIOUS
<1> USE DEF readerVars, sharedVars, threadVars, guiVars, historyVars, AsleepOnlyIfIdle
<1>1. ASSUME ThreadRuns PROVE AsleepOnlyIfIdle'
  BY <1>1 DEF ThreadRuns, NewContext, Take, Sleeps, ReadCard, StoreCards, AnnounceCards,
              Transact, FinishTransaction, EmitFinished, NextIteration
<1>2. ASSUME GuiRuns PROVE AsleepOnlyIfIdle'
  <2>1. CASE WatcherPings
    BY <2>1 DEF WatcherPings, Add
  <2>2. CASE Destroyed
    BY <2>2 DEF Destroyed
  <2> QED
    BY <1>2, <2>1, <2>2 DEF GuiRuns, DeliverCardChanged, DeliverFinished, TellNext,
                            BoxIsClosed, SlotReturns
<1>3. ASSUME UserActs PROVE AsleepOnlyIfIdle'
  BY <1>3 DEF UserActs, StartMonitoring, StartTransaction, UserPings, Stop, ReceiverDies,
              CardChanges, Add
<1>4. ASSUME UNCHANGED vars PROVE AsleepOnlyIfIdle'
  BY <1>4 DEF vars
<1> QED
  BY <1>1, <1>2, <1>3, <1>4 DEF Next

\* The thread never sleeps while something waits for it: every addition to the
\* queue wakes it (wakeOne() in addTransaction() and stop()).
THEOREM NoLostWakeUp == Spec => []AsleepOnlyIfIdle
<1>1. Init => TypeInv /\ AsleepOnlyIfIdle
  BY TypeInit DEF TypeInv, Init, AsleepOnlyIfIdle
<1> QED
  BY <1>1, TypeNext, AsleepNext, PTL DEF Spec

-----------------------------------------------------------------------------
(* Commands in order.  Besides, none is taken that was not started. *)

OrderInv == InOrder /\ (monitor # "gone" => TakenCount <= started)

Waits(t) == \E i \in 1 .. Len(transactions) : transactions[i] = t
Sorted ==
    \A i, j \in 1 .. Len(transactions) :
        i < j /\ transactions[i] \in Tx /\ transactions[j] \in Tx
          => transactions[i] < transactions[j]

\* The invariant in terms of what may wait.
LEMMA OrderSplit ==
    OrderInv <=> (monitor # "gone" =>
        /\ \A k \in 1 .. Len(performed) : performed[k] = k
        /\ tpc \in {"transact", "crashed"} => item = TakenCount
        /\ \A t \in Tx : Waits(t) <=> t \in TakenCount + 1 .. started
        /\ Sorted
        /\ TakenCount <= started)
  BY DEF OrderInv, InOrder, Waits, Sorted

\* An addition keeps what waits, and its order if it is greater.
LEMMA AddWaits ==
    ASSUME TypeOK, NEW x \in Items, Add(x)
    PROVE  /\ \A t \in Tx : Waits(t)' <=> Waits(t) \/ t = x
           /\ Sorted /\ (x \in Tx => \A t \in Tx : Waits(t) => t < x) => Sorted'
<1>1. /\ transactions \in Seq(Items) /\ Len(transactions) \in Nat
      /\ Len(transactions') = Len(transactions) + 1
      /\ transactions'[Len(transactions) + 1] = x
      /\ \A i \in 1 .. Len(transactions) : transactions'[i] = transactions[i]
  BY AddTyped DEF TypeOK, Items
<1> QED
  BY <1>1 DEF Waits, Sorted

LEMMA OrderNext == TypeInv /\ OrderInv /\ [Next]_vars => OrderInv'
<1> SUFFICES ASSUME TypeInv, OrderInv, monitor # "gone" PROVE [Next]_vars => OrderInv'
  <2>1. TypeInv /\ OrderInv /\ monitor = "gone" /\ [Next]_vars => monitor' = "gone"
    BY DEF Next, ThreadRuns, GuiRuns, UserActs, vars, guiVars, LoopRuns,
           NewContext, Take, Sleeps, ReadCard, StoreCards, AnnounceCards, Transact,
           FinishTransaction, EmitFinished, WatcherPings, DeliverCardChanged, DeliverFinished,
           TellNext, BoxIsClosed, SlotReturns, Destroyed, StartMonitoring, StartTransaction,
           UserPings, Stop, ReceiverDies, CardChanges
  <2> QED
    BY <2>1, OrderSplit DEF OrderInv, InOrder
<1> USE DEF readerVars, sharedVars, threadVars, guiVars, historyVars
<1>a. /\ \A k \in 1 .. Len(performed) : performed[k] = k
      /\ tpc \in {"transact", "crashed"} => item = TakenCount
      /\ \A t \in Tx : Waits(t) <=> t \in TakenCount + 1 .. started
      /\ Sorted
      /\ TakenCount <= started
  BY OrderSplit
<1>b. /\ transactions \in Seq(Items) /\ Len(transactions) \in Nat
      /\ performed \in Seq(Tx) /\ Len(performed) \in Nat /\ started \in 0 .. MaxTx
      /\ Tx = 1 .. MaxTx /\ TakenCount \in Nat
  BY DEF TypeInv, TypeOK, Items, Tx, TakenCount
<1>c. ASSUME UNCHANGED <<transactions, performed, started>>,
             tpc \notin {"transact", "crashed"}, tpc' \notin {"transact", "crashed"}
      PROVE  OrderInv'
  BY <1>a, <1>c DEF OrderInv, InOrder, TakenCount, Waits, Sorted
<1>d. ASSUME UNCHANGED <<transactions, performed, started, tpc, item>> PROVE OrderInv'
  BY <1>a, <1>d DEF OrderInv, InOrder, TakenCount, Waits, Sorted
<1>1. ASSUME Take PROVE OrderInv'
  <2>1. /\ transactions # << >> /\ item' = transactions[1] /\ item' \in Items
        /\ Len(transactions') = Len(transactions) - 1 /\ Len(transactions) >= 1
        /\ \A i \in 1 .. Len(transactions') : transactions'[i] = transactions[i + 1]
    BY <1>1, <1>b, HeadTail DEF Take
  <2>2. UNCHANGED <<performed, started>> /\ tpc = "lock" /\ tpc' # "crashed"
    BY <1>1 DEF Take
  <2>a. \A i \in 1 .. Len(transactions') :
           i + 1 \in 1 .. Len(transactions) /\ transactions'[i] = transactions[i + 1]
    BY <2>1, <1>b
  <2>b. \A i \in 1 .. Len(transactions) :
           i # 1 => i - 1 \in 1 .. Len(transactions') /\ transactions'[i - 1] = transactions[i]
    <3> TAKE i \in 1 .. Len(transactions)
    <3>1. i # 1 => i - 1 \in 1 .. Len(transactions') /\ (i - 1) + 1 = i
      BY <2>1, <1>b
    <3> QED
      BY <3>1, <2>1
  <2>3. Sorted'
    <3> SUFFICES ASSUME NEW i \in 1 .. Len(transactions'), NEW j \in 1 .. Len(transactions'),
                        i < j, transactions'[i] \in Tx, transactions'[j] \in Tx
                 PROVE  transactions'[i] < transactions'[j]
      BY DEF Sorted
    <3>1. i + 1 < j + 1
      BY <2>1, <1>b
    <3> QED
      BY <3>1, <2>a, <1>a DEF Sorted
  <2>4. CASE item' \in Tx
    <3>1. tpc' = "transact"
      BY <1>1, <2>4 DEF Take, Tx, Quit, Update
    <3>2. Waits(item')
      BY <2>1, <1>b DEF Waits
    <3>3. \A t \in Tx : Waits(t) => t >= item'
      <4> SUFFICES ASSUME NEW i \in 1 .. Len(transactions), transactions[i] \in Tx
                   PROVE  transactions[i] >= item'
        BY DEF Waits
      <4>1. i = 1 \/ 1 < i
        BY <1>b
      <4>2. 1 \in 1 .. Len(transactions) /\ transactions[1] \in Tx
        BY <2>1, <2>4, <1>b
      <4>3. 1 < i => transactions[1] < transactions[i]
        BY <4>2, <1>a DEF Sorted
      <4> QED
        BY <4>1, <4>2, <4>3, <2>1, <1>b
    <3>4. item' = TakenCount + 1
      <4>1. TakenCount + 1 \in TakenCount + 1 .. started /\ TakenCount + 1 \in Tx
        BY <2>4, <3>2, <1>a, <1>b
      <4>2. Waits(TakenCount + 1)
        BY <4>1, <1>a, Zenon
      <4>3. item' \in TakenCount + 1 .. started
        BY <2>4, <3>2, <1>a, Zenon
      <4>4. TakenCount + 1 >= item'
        BY <4>1, <4>2, <3>3, Zenon
      <4> QED
        BY <4>3, <4>4, <1>b
    <3>5. TakenCount' = TakenCount + 1
      BY <2>2, <3>1, <1>b DEF TakenCount
    <3>6. \A t \in Tx : Waits(t)' <=> Waits(t) /\ t # item'
      <4> TAKE t \in Tx
      <4>1. Waits(t)' => Waits(t) /\ t # item'
        <5> SUFFICES ASSUME NEW i \in 1 .. Len(transactions'), transactions'[i] = t
                     PROVE  Waits(t) /\ t # item'
          BY DEF Waits
        <5>1. i + 1 \in 1 .. Len(transactions) /\ transactions[i + 1] = t /\ 1 < i + 1
          BY <2>a, <1>b
        <5>2. 1 \in 1 .. Len(transactions) /\ transactions[1] \in Tx
          BY <2>1, <2>4, <1>b
        <5>3. transactions[1] < t
          BY <5>1, <5>2, <1>a DEF Sorted
        <5> QED
          BY <5>1, <5>3, <2>1, <1>b DEF Waits
      <4>2. Waits(t) /\ t # item' => Waits(t)'
        BY <2>1, <2>b DEF Waits
      <4> QED
        BY <4>1, <4>2
    <3>7. \A t \in Tx : Waits(t)' <=> t \in TakenCount' + 1 .. started'
      BY <3>4, <3>5, <3>6, <2>2, <1>a, <1>b
    <3>8. TakenCount' <= started' /\ item' = TakenCount'
      BY <3>2, <3>4, <3>5, <2>2, <2>4, <1>a, <1>b
    <3>9. \A k \in 1 .. Len(performed') : performed'[k] = k
      BY <2>2, <1>a
    <3> QED
      BY <3>7, <3>8, <3>9, <2>3 DEF OrderInv, InOrder, Waits, Sorted
  <2>5. CASE item' \notin Tx
    <3>1. tpc' \in {"ended", "update"}
      BY <1>1, <2>1, <2>5 DEF Take, Items
    <3>2. TakenCount' = TakenCount
      BY <2>2, <3>1 DEF TakenCount
    <3>3. \A t \in Tx : Waits(t)' <=> Waits(t)
      <4> TAKE t \in Tx
      <4>1. Waits(t)' => Waits(t)
        BY <2>a DEF Waits
      <4>2. Waits(t) => Waits(t)'
        BY <2>1, <2>5, <2>b DEF Waits
      <4> QED
        BY <4>1, <4>2
    <3> QED
      BY <3>1, <3>2, <3>3, <2>2, <2>3, <1>a DEF OrderInv, InOrder, Waits, Sorted
  <2> QED
    BY <2>4, <2>5
<1>2. ASSUME Transact PROVE OrderInv'
  <2>1. tpc = "transact" /\ item \in Tx /\ UNCHANGED <<transactions, started, item>>
    BY <1>2 DEF Transact, TypeInv
  <2>2. CASE context
    <3>1. tpc' = "finish" /\ performed' = Append(performed, item)
      BY <1>2, <2>2 DEF Transact
    <3>2. /\ Len(performed') = Len(performed) + 1 /\ performed'[Len(performed) + 1] = item
          /\ \A k \in 1 .. Len(performed) : performed'[k] = performed[k]
      BY <3>1, <2>1, <1>b, AppendOne
    <3>3. TakenCount' = TakenCount /\ item = Len(performed) + 1
      BY <3>1, <3>2, <2>1, <1>a, <1>b DEF TakenCount
    <3>4. \A k \in 1 .. Len(performed') : performed'[k] = k
      BY <3>2, <3>3, <1>a, <1>b
    <3> QED
      BY <3>1, <3>3, <3>4, <2>1, <1>a DEF OrderInv, InOrder, Waits, Sorted
  <2>3. CASE ~context
    <3>1. tpc' = "crashed" /\ UNCHANGED performed
      BY <1>2, <2>3 DEF Transact
    <3> QED
      BY <3>1, <2>1, <1>a DEF OrderInv, InOrder, Waits, Sorted, TakenCount
  <2> QED
    BY <2>2, <2>3
<1>3. ASSUME NEW x \in {Update}, Add(x), UNCHANGED <<performed, started, item>> PROVE OrderInv'
  <2>1. TakenCount' = TakenCount /\ (tpc' \in {"transact", "crashed"} => tpc' = tpc)
    BY <1>3 DEF Add, TakenCount
  <2>2. x \in Items /\ x \notin Tx
    BY DEF Items, Tx, Update
  <2>3. Sorted' /\ \A t \in Tx : Waits(t)' <=> Waits(t)
    BY <1>3, <2>2, <1>a, AddWaits DEF TypeInv
  <2> QED
    BY <2>1, <2>3, <1>3, <1>a DEF OrderInv, InOrder, Waits, Sorted
<1>4. ASSUME StartTransaction PROVE OrderInv'
  <2>1. /\ Add(started + 1) /\ started' = started + 1 /\ UNCHANGED <<performed, item>>
        /\ started + 1 \in Tx
    BY <1>4, <1>b DEF StartTransaction
  <2>2. TakenCount' = TakenCount /\ (tpc' \in {"transact", "crashed"} => tpc' = tpc)
    BY <2>1 DEF Add, TakenCount
  <2>3. \A t \in Tx : Waits(t) => t < started + 1
    BY <1>a, <1>b
  <2>4. Sorted' /\ \A t \in Tx : Waits(t)' <=> Waits(t) \/ t = started + 1
    BY <2>1, <2>3, <1>a, AddWaits DEF TypeInv, Items
  <2>5. \A t \in Tx : Waits(t)' <=> t \in TakenCount' + 1 .. started'
    BY <2>1, <2>2, <2>4, <1>a, <1>b
  <2>6. TakenCount' <= started'
    BY <2>1, <2>2, <1>a, <1>b
  <2> QED
    BY <2>1, <2>2, <2>4, <2>5, <2>6, <1>a DEF OrderInv, InOrder, Waits, Sorted
<1>5. ASSUME Stop PROVE OrderInv'
  <2>1. /\ transactions' = <<Quit>> \o transactions /\ UNCHANGED <<performed, started, item>>
        /\ TakenCount' = TakenCount /\ (tpc' \in {"transact", "crashed"} => tpc' = tpc)
    BY <1>5 DEF Stop, TakenCount
  <2>2. Quit \notin Tx /\ Quit \in Items
    BY DEF Tx, Quit, Items
  <2>3. /\ Len(transactions') = Len(transactions) + 1 /\ transactions'[1] = Quit
        /\ \A i \in 1 .. Len(transactions) : transactions'[i + 1] = transactions[i]
    BY <2>1, <2>2, <1>b, Prepend
  <2>a. \A i \in 1 .. Len(transactions) :
           i + 1 \in 1 .. Len(transactions') /\ transactions'[i + 1] = transactions[i]
    BY <2>3, <1>b
  <2>b. \A i \in 1 .. Len(transactions') :
           transactions'[i] \in Tx => i - 1 \in 1 .. Len(transactions)
                                      /\ transactions'[i] = transactions[i - 1]
    <3> TAKE i \in 1 .. Len(transactions')
    <3>1. i # 1 => i - 1 \in 1 .. Len(transactions) /\ (i - 1) + 1 = i
      BY <2>3, <1>b
    <3>2. i # 1 => transactions'[i] = transactions[i - 1]
      BY <3>1, <2>3
    <3> QED
      BY <3>1, <3>2, <2>2, <2>3
  <2>5. \A t \in Tx : Waits(t)' <=> Waits(t)
    <3> TAKE t \in Tx
    <3>1. Waits(t)' => Waits(t)
      BY <2>b DEF Waits
    <3>2. Waits(t) => Waits(t)'
      BY <2>a DEF Waits
    <3> QED
      BY <3>1, <3>2
  <2>6. Sorted'
    <3> SUFFICES ASSUME NEW i \in 1 .. Len(transactions'), NEW j \in 1 .. Len(transactions'),
                        i < j, transactions'[i] \in Tx, transactions'[j] \in Tx
                 PROVE  transactions'[i] < transactions'[j]
      BY DEF Sorted
    <3>1. i - 1 < j - 1
      BY <2>3, <1>b
    <3> QED
      BY <3>1, <2>b, <1>a DEF Sorted
  <2> QED
    BY <2>1, <2>5, <2>6, <1>a DEF OrderInv, InOrder, Waits, Sorted
<1>6. ASSUME Destroyed PROVE OrderInv'
  BY <1>6 DEF Destroyed, OrderInv, InOrder
<1>7. ASSUME ThreadRuns PROVE OrderInv'
  <2>1. CASE Take \/ Transact
    BY <2>1, <1>1, <1>2
  <2>2. CASE ~(Take \/ Transact)
    <3>1. /\ UNCHANGED <<transactions, performed, started>>
          /\ tpc \notin {"transact", "crashed"} /\ tpc' \notin {"transact", "crashed"}
      BY <1>7, <2>2 DEF ThreadRuns, NewContext, Sleeps, ReadCard, StoreCards, AnnounceCards,
                        FinishTransaction, EmitFinished, NextIteration
    <3> QED
      BY <3>1, <1>c
  <2> QED
    BY <2>1, <2>2
<1>8. ASSUME GuiRuns PROVE OrderInv'
  <2>1. CASE WatcherPings
    BY <2>1, <1>3 DEF WatcherPings
  <2>2. CASE ~(WatcherPings \/ Destroyed)
    <3>1. UNCHANGED <<transactions, performed, started, tpc, item>>
      BY <1>8, <2>2 DEF GuiRuns, DeliverCardChanged, DeliverFinished, TellNext, BoxIsClosed,
                        SlotReturns
    <3> QED
      BY <3>1, <1>d
  <2> QED
    BY <2>1, <2>2, <1>6
<1>9. ASSUME UserActs PROVE OrderInv'
  <2>1. CASE UserPings
    BY <2>1, <1>3 DEF UserPings
  <2>2. CASE StartMonitoring
    BY <2>2, <1>c DEF StartMonitoring
  <2>3. CASE ~(UserPings \/ StartMonitoring \/ StartTransaction \/ Stop)
    <3>1. UNCHANGED <<transactions, performed, started, tpc, item>>
      BY <1>9, <2>3 DEF UserActs, ReceiverDies, CardChanges
    <3> QED
      BY <3>1, <1>d
  <2> QED
    BY <2>1, <2>2, <2>3, <1>4, <1>5
<1>10. ASSUME UNCHANGED vars PROVE OrderInv'
  BY <1>10, <1>d DEF vars
<1> QED
  BY <1>7, <1>8, <1>9, <1>10 DEF Next

-----------------------------------------------------------------------------
(* Answers.  What has finished waits in m_finishedTransactions, then in a   *)
(* running slotOneTransactionFinished(), each at one place only, and is not *)
(* told before it leaves.  Unless it was late, its own signal is the first  *)
(* of those that are queued.                                                *)

FinCount == Len(performed) - (IF tpc = "finish" THEN 1 ELSE 0)
EmitCount == FinCount - (IF tpc = "emit" THEN 1 ELSE 0)

InHand == tpc \in {"finish", "emit"} => item = Len(performed)
Gone == (monitor # "alive" => frames = << >>) /\ (monitor = "gone" => tpc = "ended")

IsSignal(i) == events[i] # CardChanged
Signaled(t) == \E i \in 1 .. Len(events) : IsSignal(i) /\ events[i].err = t
SignalsInv ==
    \A i \in 1 .. Len(events) : IsSignal(i) =>
        /\ events[i].err \in 1 .. EmitCount
        /\ \A j \in 1 .. Len(events) : i < j /\ IsSignal(j) => events[i].err < events[j].err

Has(s, t) == \E i \in 1 .. Len(s) : s[i] = t
Distinct(s) == \A i, j \in 1 .. Len(s) : s[i] = s[j] => i = j

InTime(t) ==
    /\ \A i \in 1 .. Len(events) : IsSignal(i) => t <= events[i].err
    /\ Signaled(t) \/ (tpc = "emit" /\ item = t) \/ monitor = "gone"
FinishedInv ==
    /\ Distinct(finished)
    /\ \A t \in Tx : Has(finished, t) =>
          t <= FinCount /\ told[t] = << >> /\ (t \notin late => InTime(t))

FrameFits(f, t) ==
    /\ t <= FinCount /\ told[t] = << >> /\ (t \notin late => frames[f].err = t)
    /\ ~Has(finished, t)
    /\ \A g \in 1 .. Len(frames) : Has(frames[g].todo, t) => g = f
FramesInv ==
    \A f \in 1 .. Len(frames) :
        /\ Distinct(frames[f].todo)
        /\ \A t \in Tx : Has(frames[f].todo, t) => FrameFits(f, t)

ToldInv ==
    \A t \in Tx :
        /\ told[t] # << >> => Len(told[t]) = 1 /\ t <= FinCount
        /\ told[t] \notin {<< >>, <<t>>} => t \in late

AnswerInv == InHand /\ Gone /\ SignalsInv /\ FinishedInv /\ FramesInv /\ ToldInv
AllInv == TypeInv /\ OrderInv /\ AnswerInv

\* What the steps do that change nothing of this.
Quiet ==
    /\ UNCHANGED <<performed, finished, events, frames, told, late, monitor>>
    /\ tpc \in {"finish", "emit"} \/ tpc' \in {"finish", "emit"} => UNCHANGED <<tpc, item>>

LEMMA Steps ==
    ASSUME [Next]_vars
    PROVE  \/ Quiet
           \/ AnnounceCards \/ Transact \/ FinishTransaction \/ EmitFinished
           \/ DeliverCardChanged \/ DeliverFinished \/ TellNext \/ BoxIsClosed \/ SlotReturns
           \/ Stop \/ Destroyed
<1> USE DEF readerVars, sharedVars, threadVars, guiVars, historyVars, Quiet
<1>1. CASE NewContext \/ Take \/ Sleeps \/ ReadCard \/ StoreCards
  BY <1>1 DEF NewContext, Take, Sleeps, ReadCard, StoreCards
<1>2. CASE WatcherPings \/ StartTransaction \/ UserPings
  BY <1>2 DEF WatcherPings, StartTransaction, UserPings, Add
<1>3. CASE StartMonitoring \/ (\E t \in Tx : ReceiverDies(t)) \/ (\E c \in Cards : CardChanges(c))
  BY <1>3 DEF StartMonitoring, ReceiverDies, CardChanges
<1>4. CASE UNCHANGED vars
  BY <1>4 DEF vars
<1> QED
  BY <1>1, <1>2, <1>3, <1>4 DEF Next, ThreadRuns, GuiRuns, UserActs

LEMMA Typed ==
    ASSUME TypeInv
    PROVE  /\ events \in Seq(Signals) /\ Len(events) \in Nat
           /\ finished \in Seq(Tx) /\ Len(finished) \in Nat
           /\ frames \in Seq(Frames) /\ Len(frames) \in Nat
           /\ \A f \in 1 .. Len(frames) : /\ frames[f] \in Frames /\ frames[f].err \in Tx
                                          /\ frames[f].todo \in Seq(Tx)
                                          /\ Len(frames[f].todo) \in Nat
           /\ told \in [Tx -> Seq(Tx)]
           /\ performed \in Seq(Tx) /\ Len(performed) \in Nat
           /\ FinCount \in Int /\ EmitCount \in Int
           /\ EmitCount <= FinCount /\ FinCount <= Len(performed)
           /\ Tx \subseteq Nat
<1>1. /\ events \in Seq(Signals) /\ finished \in Seq(Tx) /\ frames \in Seq(Frames)
      /\ told \in [Tx -> Seq(Tx)] /\ performed \in Seq(Tx)
  BY DEF TypeInv, TypeOK, Frames
<1>2. Len(performed) \in Nat /\ Len(events) \in Nat /\ Len(finished) \in Nat
  BY <1>1
<1>3. /\ FinCount \in Int /\ EmitCount \in Int
      /\ EmitCount <= FinCount /\ FinCount <= Len(performed)
  BY <1>2 DEF FinCount, EmitCount
<1>4. Len(frames) \in Nat /\ \A f \in 1 .. Len(frames) : frames[f] \in Frames
  BY <1>1
<1>5. \A f \in Frames : f.err \in Tx /\ f.todo \in Seq(Tx) /\ Len(f.todo) \in Nat
  BY DEF Frames
<1> QED
  BY <1>1, <1>2, <1>3, <1>4, <1>5 DEF Tx

\* The counts only grow; a command in hand is the last that was performed.
LEMMA CountsNext ==
    ASSUME AllInv, TypeInv', [Next]_vars
    PROVE  /\ InHand' /\ Gone' /\ FinCount' >= FinCount /\ EmitCount' >= EmitCount
           /\ FinCount' \in Int /\ EmitCount' \in Int
<1> USE DEF readerVars, sharedVars, threadVars, guiVars, historyVars
<1>1. InHand /\ Gone /\ Len(performed) \in Nat /\ performed \in Seq(Tx)
  BY Typed DEF AllInv, AnswerInv
<1>2. Gone'
  <2>1. monitor = "gone" => monitor' = "gone" /\ tpc' = "ended"
    BY <1>1 DEF Gone, Next, ThreadRuns, GuiRuns, UserActs, vars, LoopRuns, Add,
           NewContext, Take, Sleeps, ReadCard, StoreCards, AnnounceCards, Transact,
           FinishTransaction, EmitFinished, WatcherPings, DeliverCardChanged, DeliverFinished,
           TellNext, BoxIsClosed, SlotReturns, Destroyed, StartMonitoring, StartTransaction,
           UserPings, Stop, ReceiverDies, CardChanges
  <2>2. monitor' = monitor \/ Stop \/ Destroyed
    BY Steps DEF Quiet, AnnounceCards, Transact, FinishTransaction, EmitFinished,
           DeliverCardChanged, DeliverFinished, TellNext, BoxIsClosed, SlotReturns
  <2>3. frames = << >> /\ monitor # "alive" => frames' = << >>
    BY Steps DEF Quiet, AnnounceCards, Transact, FinishTransaction, EmitFinished,
           DeliverCardChanged, DeliverFinished, TellNext, BoxIsClosed, SlotReturns, InSlot,
           LoopRuns, Stop, Destroyed
  <2>4. CASE Stop
    BY <2>4 DEF Stop, Gone
  <2>5. CASE Destroyed
    BY <1>1, <2>5 DEF Destroyed, Gone
  <2>6. CASE monitor' = monitor
    BY <1>1, <2>1, <2>3, <2>6 DEF Gone
  <2> QED
    BY <2>2, <2>4, <2>5, <2>6
<1>c. FinCount' \in Int /\ EmitCount' \in Int
  <2>1. Len(performed') \in Nat
    BY DEF TypeInv, TypeOK
  <2> QED
    BY <2>1 DEF FinCount, EmitCount
<1>a. ASSUME UNCHANGED <<performed, item>>,
             tpc \in {"finish", "emit"} \/ tpc' \in {"finish", "emit"} => tpc' = tpc
      PROVE  InHand' /\ FinCount' >= FinCount /\ EmitCount' >= EmitCount
  <2>1. Len(performed') = Len(performed)
    BY <1>a
  <2>2. CASE tpc' = tpc
    BY <1>1, <1>a, <2>1, <2>2, Typed DEF InHand, FinCount, EmitCount, AllInv
  <2>3. CASE tpc \notin {"finish", "emit"} /\ tpc' \notin {"finish", "emit"}
    <3>1. tpc # "finish" /\ tpc # "emit" /\ tpc' # "finish" /\ tpc' # "emit"
      BY <2>3
    <3>2. FinCount' = FinCount
      BY <1>1, <2>1, <3>1 DEF FinCount
    <3>3. EmitCount' = EmitCount
      BY <1>1, <3>1, <3>2, Typed DEF EmitCount, AllInv
    <3> QED
      BY <2>3, <3>2, <3>3, Typed DEF InHand, AllInv
  <2> QED
    BY <1>a, <2>2, <2>3
<1>b. ASSUME UNCHANGED performed, tpc' \notin {"finish", "emit"}
      PROVE  InHand' /\ FinCount' >= FinCount /\ EmitCount' >= EmitCount
  <2>1. Len(performed') = Len(performed)
    BY <1>b
  <2>2. FinCount' = Len(performed) /\ EmitCount' = Len(performed)
    <3>1. tpc' # "finish" /\ tpc' # "emit"
      BY <1>b
    <3>2. FinCount' = Len(performed)
      BY <1>1, <2>1, <3>1 DEF FinCount
    <3> QED
      BY <1>1, <3>1, <3>2 DEF EmitCount
  <2>3. FinCount <= Len(performed) /\ EmitCount <= Len(performed)
    BY <1>1, Typed DEF AllInv
  <2> QED
    BY <1>b, <2>2, <2>3 DEF InHand
<1>3. CASE Quiet
  BY <1>2, <1>c, <1>3, <1>a, <1>b DEF Quiet
<1>4. CASE Transact
  <2>1. CASE tpc' = "crashed"
    BY <1>2, <1>c, <1>4, <2>1, <1>b DEF Transact
  <2>2. CASE tpc' # "crashed"
    <3>1. /\ tpc = "transact" /\ tpc' = "finish" /\ performed' = Append(performed, item)
          /\ item \in Tx /\ UNCHANGED <<item, monitor, frames>>
      BY <1>4, <2>2 DEF Transact, AllInv, TypeInv
    <3>2. Len(performed') = Len(performed) + 1
      BY <1>1, <3>1, AppendOne
    <3>3. monitor # "gone" /\ item = Len(performed) + 1
      BY <3>1, <1>1, OrderSplit DEF AllInv, TakenCount, Gone
    <3> QED
      BY <1>1, <1>2, <1>c, <3>1, <3>2, <3>3 DEF InHand, FinCount, EmitCount
  <2> QED
    BY <2>1, <2>2
<1>5. CASE FinishTransaction
  BY <1>1, <1>2, <1>c, <1>5 DEF FinishTransaction, InHand, FinCount, EmitCount
<1>6. CASE EmitFinished \/ AnnounceCards \/ Destroyed
  BY <1>2, <1>c, <1>6, <1>b DEF EmitFinished, AnnounceCards, Destroyed, NextIteration
<1>7. CASE DeliverCardChanged \/ DeliverFinished \/ TellNext \/ BoxIsClosed \/ SlotReturns
  BY <1>2, <1>c, <1>7, <1>a DEF DeliverCardChanged, DeliverFinished, TellNext, BoxIsClosed, SlotReturns
<1>8. CASE Stop
  BY <1>2, <1>c, <1>8, <1>a DEF Stop
<1> QED
  BY <1>2, <1>c, <1>3, <1>4, <1>5, <1>6, <1>7, <1>8, Steps

\* How the queued signals change: one more, one less, none.
LEMMA EventAdded ==
    ASSUME TypeInv, NEW e \in Signals, events' = Append(events, e)
    PROVE  /\ Len(events') = Len(events) + 1 /\ events'[Len(events) + 1] = e
           /\ \A i \in 1 .. Len(events) : i \in 1 .. Len(events') /\ events'[i] = events[i]
           /\ \A i \in 1 .. Len(events') : i \in 1 .. Len(events) \/ i = Len(events) + 1
  BY Typed, AppendOne

LEMMA EventTaken ==
    ASSUME TypeInv, events # << >>, events' = Tail(events)
    PROVE  /\ 1 \in 1 .. Len(events) /\ Head(events) = events[1]
           /\ \A i \in 1 .. Len(events') : i + 1 \in 1 .. Len(events) /\ events'[i] = events[i + 1]
           /\ \A i \in 1 .. Len(events) :
                 i # 1 => i - 1 \in 1 .. Len(events') /\ events'[i - 1] = events[i]
<1>1. /\ Len(events) \in Nat \ {0} /\ Head(events) = events[1]
      /\ Len(events') = Len(events) - 1
      /\ \A i \in 1 .. Len(events') : events'[i] = events[i + 1]
  BY Typed, HeadTail
<1>2. \A i \in 1 .. Len(events) : i # 1 => i - 1 \in 1 .. Len(events') /\ (i - 1) + 1 = i
  BY <1>1
<1> QED
  BY <1>1, <1>2

LEMMA SignalsNext ==
    ASSUME AllInv, TypeInv', [Next]_vars
    PROVE  SignalsInv'
<1>1. /\ SignalsInv /\ TypeInv /\ EmitCount \in Int /\ EmitCount' \in Int
      /\ EmitCount' >= EmitCount
  BY Typed, CountsNext DEF AllInv, AnswerInv
<1>a. ASSUME events' = events PROVE SignalsInv'
  <2>1. \A i \in 1 .. Len(events) : IsSignal(i)' <=> IsSignal(i)
    BY <1>a DEF IsSignal
  <2> QED
    BY <1>1, <1>a, <2>1 DEF SignalsInv
<1>2. CASE EmitFinished
  <2>1. /\ item \in Tx /\ events' = Append(events, OneTransactionFinished(item))
        /\ tpc = "emit" /\ tpc' = "context" /\ UNCHANGED performed
    BY <1>2, <1>1 DEF EmitFinished, TypeInv, NextIteration, historyVars
  <2>2. OneTransactionFinished(item) \in Signals /\ OneTransactionFinished(item).err = item
    BY <2>1 DEF Signals, OneTransactionFinished
  <2>3. EmitCount = item - 1 /\ EmitCount' = item
    <3>1. item = Len(performed) /\ Len(performed) \in Nat
      BY <2>1, Typed DEF AllInv, AnswerInv, InHand
    <3> QED
      BY <2>1, <3>1 DEF EmitCount, FinCount
  <2>4. item \in Nat \ {0}
    BY <2>1 DEF Tx
  <2>5. /\ Len(events) \in Nat /\ Len(events') = Len(events) + 1
        /\ events'[Len(events) + 1] = OneTransactionFinished(item)
        /\ \A i \in 1 .. Len(events) : i \in 1 .. Len(events') /\ events'[i] = events[i]
        /\ \A i \in 1 .. Len(events') : i \in 1 .. Len(events) \/ i = Len(events) + 1
    BY <1>1, <2>1, <2>2, EventAdded, Typed
  <2>6. \A i \in 1 .. Len(events) : IsSignal(i) =>
           /\ events[i].err \in 1 .. item - 1
           /\ \A j \in 1 .. Len(events) : i < j /\ IsSignal(j) => events[i].err < events[j].err
    BY <1>1, <2>3 DEF SignalsInv
  <2>7. \A i \in 1 .. Len(events) : IsSignal(i)' <=> IsSignal(i)
    BY <2>5 DEF IsSignal
  <2> SUFFICES ASSUME NEW i \in 1 .. Len(events'), IsSignal(i)'
               PROVE  /\ events'[i].err \in 1 .. item
                      /\ \A j \in 1 .. Len(events') : i < j /\ IsSignal(j)' =>
                            events'[i].err < events'[j].err
    BY <2>3 DEF SignalsInv
  <2>8. CASE i = Len(events) + 1
    BY <2>2, <2>4, <2>5, <2>8
  <2>9. CASE i \in 1 .. Len(events)
    <3>1. events[i].err \in 1 .. item - 1 /\ events'[i] = events[i] /\ IsSignal(i)
      BY <2>5, <2>6, <2>7, <2>9
    <3>2. ASSUME NEW j \in 1 .. Len(events'), i < j, IsSignal(j)'
          PROVE  events'[i].err < events'[j].err
      <4>1. CASE j \in 1 .. Len(events)
        BY <2>5, <2>6, <2>7, <2>9, <3>1, <3>2, <4>1
      <4>2. CASE j = Len(events) + 1
        BY <2>2, <2>4, <2>5, <3>1, <4>2
      <4> QED
        BY <2>5, <4>1, <4>2
    <3> QED
      BY <2>4, <3>1, <3>2
  <2> QED
    BY <2>5, <2>8, <2>9
<1>3. CASE AnnounceCards
  <2>1. CASE events' = Append(events, CardChanged)
    <3>1. CardChanged \in Signals
      BY DEF Signals
    <3> QED
      BY <1>1, <2>1, <3>1, EventAdded DEF SignalsInv, IsSignal
  <2> QED
    BY <1>3, <1>a, <2>1 DEF AnnounceCards
<1>4. CASE DeliverCardChanged \/ DeliverFinished
  <2>1. events # << >> /\ events' = Tail(events)
    BY <1>4 DEF DeliverCardChanged, DeliverFinished
  <2>2. Len(events) \in Nat /\ Len(events') \in Nat
    BY <1>1, Typed DEF TypeInv, TypeOK
  <2> SUFFICES ASSUME NEW i \in 1 .. Len(events'), IsSignal(i)'
               PROVE  /\ events'[i].err \in 1 .. EmitCount'
                      /\ \A j \in 1 .. Len(events') :
                            i < j /\ IsSignal(j)' => events'[i].err < events'[j].err
    BY DEF SignalsInv
  <2>3. i + 1 \in 1 .. Len(events) /\ IsSignal(i + 1) /\ events'[i] = events[i + 1]
    BY <1>1, <2>1, EventTaken DEF IsSignal
  <2>4. events'[i].err \in 1 .. EmitCount'
    BY <1>1, <2>3 DEF SignalsInv
  <2>5. ASSUME NEW j \in 1 .. Len(events'), i < j, IsSignal(j)'
        PROVE  events'[i].err < events'[j].err
    <3>1. j + 1 \in 1 .. Len(events) /\ IsSignal(j + 1) /\ events'[j] = events[j + 1]
      BY <1>1, <2>1, <2>5, EventTaken DEF IsSignal
    <3>2. i + 1 < j + 1
      BY <2>5
    <3> QED
      BY <1>1, <2>3, <3>1, <3>2 DEF SignalsInv
  <2> QED
    BY <2>4, <2>5
<1>5. CASE Destroyed
  BY <1>5 DEF Destroyed, SignalsInv
<1>6. CASE Quiet \/ Transact \/ FinishTransaction \/ TellNext \/ BoxIsClosed \/ SlotReturns \/ Stop
  BY <1>6, <1>a DEF Quiet, Transact, FinishTransaction, TellNext, BoxIsClosed, SlotReturns, Stop,
                    guiVars
<1> QED
  BY <1>2, <1>3, <1>4, <1>5, <1>6, Steps

-----------------------------------------------------------------------------
\* The step that tells somebody, one command at a time.
LEMMA TellsOne ==
    ASSUME AllInv, TellNext
    PROVE  \E t \in Tx, n \in 1 .. Len(frames) :
             /\ Has(frames[n].todo, t)
             /\ told' = IF t \in dead THEN told
                        ELSE [told EXCEPT ![t] = Append(@, frames[n].err)]
             /\ Len(frames') = Len(frames)
             /\ \A f \in 1 .. Len(frames) :
                   /\ frames'[f].err = frames[f].err
                   /\ Distinct(frames'[f].todo)
                   /\ \A u \in Tx : Has(frames'[f].todo, u) =>
                         Has(frames[f].todo, u) /\ (f = n => u # t)
<1> DEFINE n == Len(frames)
           t == Head(Last(frames).todo)
<1>1. frames # << >> /\ Last(frames).todo # << >> /\ TypeInv
  BY DEF TellNext, InSlot, AllInv
<1>2. n \in 1 .. Len(frames) /\ n \in Nat /\ Last(frames) = frames[n] /\ frames[n].todo \in Seq(Tx)
  BY <1>1, LastFrame DEF TypeInv
<1>3. /\ t = frames[n].todo[1] /\ t \in Tx /\ 1 \in 1 .. Len(frames[n].todo)
      /\ Len(Tail(frames[n].todo)) = Len(frames[n].todo) - 1 /\ Len(frames[n].todo) \in Nat
      /\ \A i \in 1 .. Len(Tail(frames[n].todo)) : Tail(frames[n].todo)[i] = frames[n].todo[i + 1]
  BY <1>1, <1>2, HeadTail
<1>4. PICK box \in BOOLEAN :
        /\ told' = IF t \in dead THEN told
                   ELSE [told EXCEPT ![t] = Append(@, frames[n].err)]
        /\ frames' = [frames EXCEPT ![n].todo = Tail(@), ![n].box = box]
  BY <1>2 DEF TellNext
<1>5. /\ Len(frames') = Len(frames)
      /\ \A f \in 1 .. Len(frames) :
            /\ frames'[f].err = frames[f].err
            /\ frames'[f].todo = IF f = n THEN Tail(frames[n].todo) ELSE frames[f].todo
  <2>1. frames \in Seq(Frames) /\ frames[n] \in Frames
    BY <1>1, <1>2, Typed
  <2> DEFINE new == [[frames[n] EXCEPT !.todo = Tail(@)] EXCEPT !.box = box]
  <2>2. new \in Frames /\ new.err = frames[n].err /\ new.todo = Tail(frames[n].todo)
    BY <1>1, <1>2, <2>1, HeadTail DEF Frames
  <2>3. frames' = [frames EXCEPT ![n] = new]
    BY <1>2, <1>4, <2>1
  <2> QED
    BY <1>2, <2>1, <2>2, <2>3, ExceptSeq
<1>6. \A f \in 1 .. Len(frames) : Distinct(frames[f].todo)
  BY DEF AllInv, AnswerInv, FramesInv
<1>7. ASSUME NEW i \in 1 .. Len(Tail(frames[n].todo))
      PROVE  /\ i + 1 \in 1 .. Len(frames[n].todo) /\ i + 1 # 1
             /\ Tail(frames[n].todo)[i] = frames[n].todo[i + 1]
  BY <1>3
<1>8. Distinct(Tail(frames[n].todo))
  <2> SUFFICES ASSUME NEW i \in 1 .. Len(Tail(frames[n].todo)),
                      NEW j \in 1 .. Len(Tail(frames[n].todo)),
                      Tail(frames[n].todo)[i] = Tail(frames[n].todo)[j]
               PROVE  i = j
    BY DEF Distinct
  <2>1. i + 1 = j + 1
    BY <1>2, <1>6, <1>7 DEF Distinct
  <2> QED
    BY <2>1
<1>9. \A u \in Tx : Has(Tail(frames[n].todo), u) => Has(frames[n].todo, u) /\ u # t
  <2> SUFFICES ASSUME NEW i \in 1 .. Len(Tail(frames[n].todo))
               PROVE  /\ Has(frames[n].todo, Tail(frames[n].todo)[i])
                      /\ Tail(frames[n].todo)[i] # t
    BY DEF Has
  <2>1. i + 1 # 1 /\ i + 1 \in 1 .. Len(frames[n].todo)
    BY <1>7
  <2> QED
    BY <1>2, <1>3, <1>6, <1>7, <2>1 DEF Has, Distinct
<1>10. Has(frames[n].todo, t)
  BY <1>3 DEF Has
<1>11. \A f \in 1 .. Len(frames) :
          /\ frames'[f].err = frames[f].err
          /\ Distinct(frames'[f].todo)
          /\ \A u \in Tx : Has(frames'[f].todo, u) => Has(frames[f].todo, u) /\ (f = n => u # t)
  <2> HIDE DEF n, t
  <2> QED
    BY <1>5, <1>6, <1>8, <1>9
<1>12. told' = IF t \in dead THEN told ELSE [told EXCEPT ![t] = Append(@, frames[n].err)]
  BY <1>4
<1>13. t \in Tx /\ n \in 1 .. Len(frames) /\ Len(frames') = Len(frames)
  BY <1>2, <1>3, <1>5
<1> HIDE DEF n, t
<1> QED
  BY <1>10, <1>11, <1>12, <1>13

-----------------------------------------------------------------------------
\* What has finished: one more, all taken, or the same.
LEMMA FinishAdds ==
    ASSUME AllInv, FinishTransaction
    PROVE  /\ item \in Tx /\ item = Len(performed) /\ FinCount = item - 1 /\ FinCount' = item
           /\ Distinct(finished')
           /\ \A t \in Tx : Has(finished', t) <=> Has(finished, t) \/ t = item
<1>1. /\ finished' = Append(finished, item) /\ item \in Tx /\ tpc = "finish" /\ tpc' = "emit"
      /\ performed' = performed
  BY DEF FinishTransaction, AllInv, TypeInv
<1>2. item = Len(performed) /\ Len(performed) \in Nat /\ finished \in Seq(Tx)
      /\ Len(finished) \in Nat
  BY <1>1, Typed DEF AllInv, AnswerInv, InHand
<1>3. FinCount = item - 1 /\ FinCount' = item
  BY <1>1, <1>2 DEF FinCount
<1>4. /\ Len(finished') = Len(finished) + 1 /\ finished'[Len(finished) + 1] = item
      /\ \A i \in 1 .. Len(finished) : finished'[i] = finished[i]
  BY <1>1, <1>2, AppendOne
<1>5. \A t \in Tx : Has(finished', t) <=> Has(finished, t) \/ t = item
  BY <1>2, <1>4 DEF Has
<1>6. \A i \in 1 .. Len(finished) : finished[i] # item
  <2> SUFFICES ASSUME NEW i \in 1 .. Len(finished) PROVE finished[i] # item
    OBVIOUS
  <2>1. finished[i] \in Tx /\ Has(finished, finished[i])
    BY <1>2 DEF Has
  <2>2. finished[i] <= item - 1
    BY <1>3, <2>1 DEF AllInv, AnswerInv, FinishedInv
  <2> QED
    BY <1>1, <2>1, <2>2 DEF Tx
<1>7. Distinct(finished')
  BY <1>2, <1>4, <1>6 DEF AllInv, AnswerInv, FinishedInv, Distinct
<1> QED
  BY <1>1, <1>2, <1>3, <1>5, <1>7

LEMMA FinishedNext ==
    ASSUME AllInv, TypeInv', [Next]_vars
    PROVE  FinishedInv'
<1> USE DEF sharedVars, threadVars, guiVars, historyVars
<1>1. /\ FinishedInv /\ InHand /\ TypeInv /\ FinCount \in Int /\ FinCount' \in Int
      /\ FinCount' >= FinCount /\ Tx \subseteq Nat
  BY Typed, CountsNext DEF AllInv, AnswerInv
\* Nothing finishes and nobody is told.
<1>a. ASSUME UNCHANGED <<finished, told, late>>,
             \A t \in Tx : Has(finished, t) /\ t \notin late /\ InTime(t) => InTime(t)'
      PROVE  FinishedInv'
  <2>1. \A t \in Tx : t <= FinCount => t <= FinCount'
    BY <1>1
  <2> QED
    BY <1>1, <1>a, <2>1 DEF FinishedInv
<1>b. ASSUME UNCHANGED events, monitor' = monitor,
             tpc = "emit" \/ tpc' = "emit" => UNCHANGED <<tpc, item>>, NEW t \in Tx, InTime(t)
      PROVE  InTime(t)'
  BY <1>b DEF InTime, Signaled, IsSignal
<1>2. CASE Quiet
  BY <1>2, <1>a, <1>b DEF Quiet
<1>3. CASE Transact
  BY <1>3, <1>a, <1>b DEF Transact
<1>4. CASE BoxIsClosed \/ SlotReturns
  BY <1>4, <1>a, <1>b DEF BoxIsClosed, SlotReturns
<1>5. CASE AnnounceCards
  <2>1. /\ UNCHANGED <<finished, told, late, monitor>> /\ tpc = "announce" /\ tpc' = "context"
        /\ events' = Append(events, CardChanged) \/ events' = events
    BY <1>5 DEF AnnounceCards, NextIteration
  <2>2. CASE events' = events
    BY <2>1, <2>2, <1>a, <1>b
  <2>3. CASE events' = Append(events, CardChanged)
    <3>1. CardChanged \in Signals
      BY DEF Signals
    <3>2. ASSUME NEW t \in Tx, InTime(t) PROVE InTime(t)'
      BY <1>1, <2>1, <2>3, <3>1, <3>2, EventAdded DEF InTime, Signaled, IsSignal
    <3> QED
      BY <2>1, <3>2, <1>a
  <2> QED
    BY <2>1, <2>2, <2>3
<1>6. CASE EmitFinished
  <2>1. /\ item \in Tx /\ events' = Append(events, OneTransactionFinished(item))
        /\ tpc = "emit" /\ tpc' = "context" /\ UNCHANGED <<finished, told, late, monitor>>
        /\ item = Len(performed)
    BY <1>6, <1>1 DEF EmitFinished, TypeInv, NextIteration, InHand
  <2>2. /\ OneTransactionFinished(item) \in Signals /\ OneTransactionFinished(item).err = item
        /\ OneTransactionFinished(item) # CardChanged
    BY <2>1 DEF Signals, OneTransactionFinished, CardChanged
  <2>3. ASSUME NEW t \in Tx, Has(finished, t), InTime(t) PROVE InTime(t)'
    <3>1. t <= item
      BY <1>1, <2>1, <2>3, Typed DEF FinishedInv
    <3>2. \A i \in 1 .. Len(events') : IsSignal(i)' => t <= events'[i].err
      BY <1>1, <2>1, <2>2, <2>3, <3>1, EventAdded DEF InTime, IsSignal
    <3>3. Signaled(t)' \/ monitor' = "gone"
      <4>1. CASE Signaled(t)
        BY <1>1, <2>1, <2>2, <4>1, EventAdded DEF Signaled, IsSignal
      <4>2. CASE item = t
        <5>1. Len(events) + 1 \in 1 .. Len(events')
          BY <1>1, <2>1, <2>2, EventAdded, Typed
        <5>2. events'[Len(events) + 1] = OneTransactionFinished(item)
          BY <1>1, <2>1, <2>2, EventAdded
        <5> QED
          BY <5>1, <5>2, <2>2, <4>2 DEF Signaled, IsSignal
      <4>3. CASE monitor = "gone"
        BY <2>1, <4>3
      <4> QED
        BY <2>3, <4>1, <4>2, <4>3 DEF InTime
    <3> QED
      BY <3>2, <3>3 DEF InTime
  <2> QED
    BY <2>1, <2>3, <1>a
<1>7. CASE FinishTransaction
  <2>1. /\ UNCHANGED <<events, monitor, told, item>> /\ tpc = "finish" /\ tpc' = "emit"
        /\ late' = IF SignalQueued THEN late \cup {item} ELSE late
        /\ monitor # "gone"
    BY <1>7 DEF FinishTransaction, AllInv, AnswerInv, Gone
  <2>2. ASSUME NEW t \in Tx, Has(finished', t)
        PROVE  t <= FinCount' /\ told'[t] = << >> /\ (t \notin late' => InTime(t)')
    <3>1. CASE Has(finished, t)
      <4>1. t <= FinCount /\ told[t] = << >> /\ (t \notin late => InTime(t))
        BY <1>1, <3>1 DEF FinishedInv
      <4>2. t \notin late' => Signaled(t) /\ InTime(t)
        BY <2>1, <4>1 DEF InTime
      <4>3. Signaled(t) => Signaled(t)'
        BY <2>1 DEF Signaled, IsSignal
      <4>4. t \notin late' => InTime(t)'
        BY <2>1, <4>2, <4>3 DEF InTime, IsSignal
      <4> QED
        BY <1>1, <2>1, <4>1, <4>4
    <3>2. CASE t = item
      <4>1. t <= FinCount' /\ ~(t <= FinCount)
        BY <1>1, <1>7, <3>2, FinishAdds
      <4>2. told[t] = << >>
        BY <4>1 DEF AllInv, AnswerInv, ToldInv
      <4>3. t \notin late' => \A i \in 1 .. Len(events) : ~IsSignal(i)
        BY <2>1, <3>2 DEF SignalQueued, IsSignal
      <4>4. t \notin late' => InTime(t)'
        BY <2>1, <3>2, <4>3 DEF InTime, IsSignal
      <4> QED
        BY <2>1, <4>1, <4>2, <4>4
    <3> QED
      BY <1>7, <2>2, <3>1, <3>2, FinishAdds
  <2> QED
    BY <1>7, <2>2, FinishAdds DEF FinishedInv
<1>8. CASE DeliverCardChanged
  <2>1. /\ UNCHANGED <<finished, told, late, monitor, tpc, item>>
        /\ events # << >> /\ Head(events) = CardChanged /\ events' = Tail(events)
    BY <1>8 DEF DeliverCardChanged
  <2>2. ASSUME NEW t \in Tx, InTime(t) PROVE InTime(t)'
    <3>1. \A i \in 1 .. Len(events') : IsSignal(i)' => t <= events'[i].err
      BY <1>1, <2>1, <2>2, EventTaken DEF InTime, IsSignal
    <3>2. ASSUME Signaled(t) PROVE Signaled(t)'
      <4>1. PICK i \in 1 .. Len(events) : IsSignal(i) /\ events[i].err = t
        BY <3>2 DEF Signaled
      <4>2. i # 1
        BY <1>1, <2>1, <4>1, EventTaken DEF IsSignal
      <4> QED
        BY <1>1, <2>1, <4>1, <4>2, EventTaken DEF Signaled, IsSignal
    <3> QED
      BY <2>1, <2>2, <3>1, <3>2 DEF InTime
  <2> QED
    BY <2>1, <2>2, <1>a
<1>9. CASE DeliverFinished
  BY <1>9 DEF DeliverFinished, FinishedInv, Has, Distinct
<1>10. CASE TellNext
  <2>1. UNCHANGED <<finished, late, events, monitor, tpc, item>>
    BY <1>10 DEF TellNext
  <2>2. PICK r \in Tx, n \in 1 .. Len(frames) :
          /\ Has(frames[n].todo, r)
          /\ told' = IF r \in dead THEN told
                     ELSE [told EXCEPT ![r] = Append(@, frames[n].err)]
    BY <1>10, TellsOne
  <2>3. ~Has(finished, r)
    BY <2>2 DEF AllInv, AnswerInv, FramesInv, FrameFits
  <2>4. \A t \in Tx : t # r => told'[t] = told[t]
    BY <2>2, <1>1, Typed
  <2>5. \A t \in Tx : InTime(t) => InTime(t)'
    BY <2>1, <1>b
  <2>6. \A t \in Tx : t <= FinCount => t <= FinCount'
    BY <1>1
  <2> QED
    BY <1>1, <2>1, <2>3, <2>4, <2>5, <2>6 DEF FinishedInv
<1>11. CASE Stop
  <2>1. /\ UNCHANGED <<finished, told, late, events, item>> /\ monitor # "gone"
        /\ (tpc = "emit" <=> tpc' = "emit")
    BY <1>11 DEF Stop
  <2>2. \A t \in Tx : InTime(t) => InTime(t)'
    BY <2>1 DEF InTime, Signaled, IsSignal
  <2> QED
    BY <2>1, <2>2, <1>a
<1>12. CASE Destroyed
  BY <1>12, <1>a DEF Destroyed, InTime
<1> QED
  BY <1>2, <1>3, <1>4, <1>5, <1>6, <1>7, <1>8, <1>9, <1>10, <1>11, <1>12, Steps

LEMMA FramesNext ==
    ASSUME AllInv, TypeInv', [Next]_vars
    PROVE  FramesInv'
<1> USE DEF sharedVars, threadVars, guiVars, historyVars
<1>1. /\ FramesInv /\ FinishedInv /\ TypeInv /\ FinCount \in Int /\ FinCount' \in Int
      /\ FinCount' >= FinCount /\ Tx \subseteq Nat /\ Len(frames) \in Nat
      /\ \A t \in Tx : t <= FinCount => t <= FinCount'
  BY Typed, CountsNext DEF AllInv, AnswerInv
\* Frames may go, and nothing finishes.
<1>a. ASSUME UNCHANGED <<finished, told, late>>, Len(frames') \in Nat,
             Len(frames') <= Len(frames),
             \A f \in 1 .. Len(frames') : /\ frames'[f].todo = frames[f].todo
                                          /\ frames'[f].err = frames[f].err
      PROVE  FramesInv'
  <2>1. \A f \in 1 .. Len(frames') : f \in 1 .. Len(frames)
    BY <1>1, <1>a
  <2> SUFFICES ASSUME NEW f \in 1 .. Len(frames')
               PROVE  /\ Distinct(frames'[f].todo)
                      /\ \A t \in Tx : Has(frames'[f].todo, t) => FrameFits(f, t)'
    BY DEF FramesInv
  <2>2. Distinct(frames'[f].todo)
    BY <1>1, <1>a, <2>1 DEF FramesInv
  <2>3. ASSUME NEW t \in Tx, Has(frames'[f].todo, t) PROVE FrameFits(f, t)'
    <3>1. FrameFits(f, t)
      BY <1>1, <1>a, <2>1, <2>3 DEF FramesInv
    <3> QED
      BY <1>1, <1>a, <2>1, <3>1 DEF FrameFits
  <2> QED
    BY <2>2, <2>3
<1>2. CASE frames' = frames /\ UNCHANGED <<finished, told, late>>
  BY <1>1, <1>2, <1>a
<1>3. CASE Quiet \/ AnnounceCards \/ Transact \/ EmitFinished \/ DeliverCardChanged \/ Stop
           \/ Destroyed
  BY <1>3, <1>2 DEF Quiet, AnnounceCards, Transact, EmitFinished, DeliverCardChanged, Stop,
                    Destroyed
<1>4. CASE SlotReturns
  <2>1. frames # << >> /\ frames' = Front(frames) /\ UNCHANGED <<finished, told, late>>
    BY <1>4 DEF SlotReturns, InSlot
  <2>2. /\ Len(frames') = Len(frames) - 1 /\ Len(frames) \in Nat \ {0}
        /\ \A f \in 1 .. Len(frames') : frames'[f] = frames[f]
    <3>1. frames \in Seq(Frames)
      BY <1>1, Typed
    <3> QED
      BY <2>1, <3>1, LastFront
  <2> QED
    BY <2>1, <2>2, <1>a
<1>5. CASE BoxIsClosed
  <2>1. frames # << >> /\ UNCHANGED <<finished, told, late>>
        /\ frames' = [frames EXCEPT ![Len(frames)].box = FALSE]
    BY <1>5 DEF BoxIsClosed
  <2> DEFINE n == Len(frames)
             new == [frames[n] EXCEPT !.box = FALSE]
  <2>2. frames \in Seq(Frames) /\ n \in 1 .. Len(frames) /\ frames[n] \in Frames
    BY <1>1, <2>1, LastFrame, Typed DEF TypeInv
  <2>3. new \in Frames /\ new.err = frames[n].err /\ new.todo = frames[n].todo
    BY <2>2 DEF Frames
  <2>4. frames' = [frames EXCEPT ![n] = new]
    BY <2>1, <2>2
  <2>5. Len(frames') = Len(frames) /\ \A f \in 1 .. Len(frames) :
           frames'[f].todo = frames[f].todo /\ frames'[f].err = frames[f].err
    BY <2>2, <2>3, <2>4, ExceptSeq
  <2> QED
    BY <1>1, <2>1, <2>5, <1>a
<1>6. CASE FinishTransaction
  <2>1. UNCHANGED <<frames, told>> /\ \A t \in Tx : t \notin late' => t \notin late
    BY <1>6 DEF FinishTransaction
  <2> SUFFICES ASSUME NEW f \in 1 .. Len(frames), NEW t \in Tx, Has(frames[f].todo, t)
               PROVE  FrameFits(f, t)'
    BY <1>1, <2>1 DEF FramesInv
  <2>2. FrameFits(f, t)
    BY <1>1 DEF FramesInv
  <2>3. t <= FinCount' /\ t # item
    BY <1>1, <1>6, <2>2, FinishAdds DEF FrameFits
  <2>4. ~Has(finished', t)
    BY <1>6, <2>2, <2>3, FinishAdds DEF FrameFits
  <2> QED
    BY <2>1, <2>2, <2>3, <2>4 DEF FrameFits
<1>7. CASE DeliverFinished
  <2>1. /\ events # << >> /\ Head(events) # CardChanged /\ finished' = << >>
        /\ UNCHANGED <<told, late, monitor>> /\ tpc' = tpc /\ monitor = "alive"
        /\ frames' = Append(frames, [err |-> Head(events).err, todo |-> finished, box |-> FALSE])
    BY <1>7 DEF DeliverFinished, LoopRuns
  <2> DEFINE new == [err |-> Head(events).err, todo |-> finished, box |-> FALSE]
             m == Len(frames) + 1
  <2>2. Head(events) = events[1] /\ 1 \in 1 .. Len(events) /\ events[1] \in Signals /\ IsSignal(1)
    BY <1>1, <2>1, HeadTail, Typed DEF IsSignal
  <2>3. events[1].err \in Tx
    BY <2>2 DEF Signals, OneTransactionFinished, IsSignal
  <2>4. new \in Frames /\ new.err = events[1].err /\ new.todo = finished
    BY <1>1, <2>2, <2>3, Typed DEF Frames
  <2>5. /\ Len(frames') = m /\ frames'[m].err = events[1].err /\ frames'[m].todo = finished
        /\ \A f \in 1 .. Len(frames) : frames'[f] = frames[f]
    BY <1>1, <2>1, <2>4, AppendOne, Typed
  <2>6. \A f \in 1 .. Len(frames') : f \in 1 .. Len(frames) \/ f = m
    BY <1>1, <2>5
  <2>7. \A t \in Tx : ~Has(finished', t)
    BY <2>1 DEF Has
  \* The first signal is that of whatever was in time.
  <2>8. ASSUME NEW t \in Tx, Has(finished, t), t \notin late PROVE events[1].err = t
    <3>1. InTime(t)
      BY <1>1, <2>8 DEF FinishedInv
    <3>2. t <= events[1].err /\ events[1].err \in Nat /\ t \in Nat
      BY <1>1, <2>2, <2>3, <3>1 DEF InTime
    <3>3. /\ events[1].err <= EmitCount
          /\ \A j \in 1 .. Len(events) : 1 < j /\ IsSignal(j) => events[1].err < events[j].err
      BY <1>1, <2>2, Typed DEF AllInv, AnswerInv, SignalsInv
    <3>4. ASSUME tpc = "emit", item = t PROVE FALSE
      <4>1. t = Len(performed) /\ EmitCount = Len(performed) - 1 /\ Len(performed) \in Nat
        BY <1>1, <3>4, Typed DEF AllInv, AnswerInv, InHand, EmitCount, FinCount
      <4> QED
        BY <3>2, <3>3, <4>1
    <3>5. PICK i \in 1 .. Len(events) : IsSignal(i) /\ events[i].err = t
      BY <2>1, <3>1, <3>4 DEF InTime, Signaled
    <3>6. i = 1 \/ 1 < i
      OBVIOUS
    <3> QED
      BY <3>2, <3>3, <3>5, <3>6
  <2>9. ASSUME NEW f \in 1 .. Len(frames), NEW t \in Tx, Has(frames'[f].todo, t)
        PROVE  FrameFits(f, t)'
    <3>1. FrameFits(f, t) /\ Has(frames[f].todo, t)
      BY <1>1, <2>5, <2>9 DEF FramesInv
    <3>2. ~Has(frames'[m].todo, t)
      BY <2>5, <3>1 DEF FrameFits
    <3> QED
      BY <1>1, <2>1, <2>5, <2>6, <2>7, <3>1, <3>2 DEF FrameFits
  <2>10. ASSUME NEW f, f = m, NEW t \in Tx, Has(frames'[f].todo, t) PROVE FrameFits(f, t)'
    <3>1. Has(finished, t)
      BY <2>5, <2>10
    <3>2. t <= FinCount /\ told[t] = << >>
      BY <1>1, <3>1 DEF FinishedInv
    <3>3. \A g \in 1 .. Len(frames) : ~Has(frames'[g].todo, t)
      BY <1>1, <2>5, <3>1 DEF FramesInv, FrameFits
    <3>4. t <= FinCount' /\ told'[t] = << >> /\ ~Has(finished', t)
      BY <1>1, <2>1, <2>7, <3>2
    <3>5. t \notin late' => frames'[f].err = t
      BY <2>1, <2>5, <2>8, <2>10, <3>1
    <3>6. \A g \in 1 .. Len(frames') : Has(frames'[g].todo, t) => g = f
      BY <2>6, <2>10, <3>3
    <3> QED
      BY <3>4, <3>5, <3>6 DEF FrameFits
  <2>11. Distinct(frames'[m].todo) /\ \A f \in 1 .. Len(frames) : Distinct(frames'[f].todo)
    BY <1>1, <2>5 DEF FinishedInv, FramesInv
  <2> HIDE DEF m, new
  <2> SUFFICES ASSUME NEW f \in 1 .. Len(frames')
               PROVE  /\ Distinct(frames'[f].todo)
                      /\ \A t \in Tx : Has(frames'[f].todo, t) => FrameFits(f, t)'
    BY DEF FramesInv
  <2>12. CASE f = m
    BY <2>10, <2>11, <2>12
  <2>13. CASE f \in 1 .. Len(frames)
    BY <2>9, <2>11, <2>13
  <2> QED
    BY <2>6, <2>12, <2>13
<1>8. CASE TellNext
  <2>1. UNCHANGED <<finished, late>>
    BY <1>8 DEF TellNext
  <2>2. PICK r \in Tx, n \in 1 .. Len(frames) :
          /\ Has(frames[n].todo, r)
          /\ told' = IF r \in dead THEN told
                     ELSE [told EXCEPT ![r] = Append(@, frames[n].err)]
          /\ Len(frames') = Len(frames)
          /\ \A f \in 1 .. Len(frames) :
                /\ frames'[f].err = frames[f].err
                /\ Distinct(frames'[f].todo)
                /\ \A u \in Tx : Has(frames'[f].todo, u) =>
                      Has(frames[f].todo, u) /\ (f = n => u # r)
    BY <1>8, TellsOne
  <2>3. \A t \in Tx : t # r => told'[t] = told[t]
    BY <2>2, <1>1, Typed
  <2> SUFFICES ASSUME NEW f \in 1 .. Len(frames), NEW t \in Tx, Has(frames'[f].todo, t)
               PROVE  FrameFits(f, t)'
    BY <2>2 DEF FramesInv
  <2>4. Has(frames[f].todo, t) /\ FrameFits(f, t)
    BY <1>1, <2>2 DEF FramesInv
  <2>5. t # r
    BY <2>2, <2>4 DEF FrameFits
  <2> QED
    BY <1>1, <2>1, <2>2, <2>3, <2>4, <2>5 DEF FrameFits
<1> QED
  BY <1>3, <1>4, <1>5, <1>6, <1>7, <1>8, Steps

LEMMA ToldNext ==
    ASSUME AllInv, TypeInv', [Next]_vars
    PROVE  ToldInv'
<1> USE DEF sharedVars, threadVars, guiVars, historyVars
<1>1. /\ ToldInv /\ FramesInv /\ TypeInv /\ told \in [Tx -> Seq(Tx)]
      /\ \A t \in Tx : t <= FinCount => t <= FinCount'
  BY Typed, CountsNext DEF AllInv, AnswerInv
<1>2. CASE told' = told /\ late \subseteq late'
  BY <1>1, <1>2 DEF ToldInv
<1>3. CASE Quiet \/ AnnounceCards \/ Transact \/ FinishTransaction \/ EmitFinished
           \/ DeliverCardChanged \/ DeliverFinished \/ BoxIsClosed \/ SlotReturns \/ Stop
           \/ Destroyed
  BY <1>2, <1>3 DEF Quiet, AnnounceCards, Transact, FinishTransaction, EmitFinished,
                    DeliverCardChanged, DeliverFinished, BoxIsClosed, SlotReturns, Stop, Destroyed
<1>4. CASE TellNext
  <2>1. PICK r \in Tx, n \in 1 .. Len(frames) :
          /\ Has(frames[n].todo, r)
          /\ told' = IF r \in dead THEN told
                     ELSE [told EXCEPT ![r] = Append(@, frames[n].err)]
    BY <1>4, TellsOne
  <2>2. FrameFits(n, r) /\ late' = late
    BY <1>1, <1>4, <2>1 DEF FramesInv, TellNext
  <2>3. CASE r \in dead
    BY <1>2, <2>1, <2>2, <2>3
  <2>4. CASE r \notin dead
    <3>1. told'[r] = <<frames[n].err>> /\ \A t \in Tx : t # r => told'[t] = told[t]
      BY <1>1, <2>1, <2>2, <2>4 DEF FrameFits
    <3>2. \A t \in Tx : t # r =>
             /\ told'[t] # << >> => Len(told'[t]) = 1 /\ t <= FinCount'
             /\ told'[t] \notin {<< >>, <<t>>} => t \in late'
      BY <1>1, <2>2, <3>1 DEF ToldInv
    <3>3. Len(told'[r]) = 1 /\ r <= FinCount'
      BY <1>1, <2>2, <3>1 DEF FrameFits
    <3>4. told'[r] \notin {<< >>, <<r>>} => r \in late'
      BY <2>2, <3>1 DEF FrameFits
    <3> QED
      BY <3>2, <3>3, <3>4 DEF ToldInv
  <2> QED
    BY <2>3, <2>4
<1> QED
  BY <1>3, <1>4, Steps

LEMMA AllNext == AllInv /\ [Next]_vars => AllInv'
  BY TypeNext, OrderNext, CountsNext, SignalsNext, FinishedNext, FramesNext, ToldNext
     DEF AllInv, AnswerInv

LEMMA AllInit == Init => AllInv
<1> SUFFICES ASSUME Init PROVE AllInv
  OBVIOUS
<1>1. TypeInv
  BY TypeInit DEF TypeInv, Init
<1>2. OrderInv
  <2>1. transactions = <<Update>> /\ performed = << >> /\ started = 0 /\ tpc = "idle"
    BY DEF Init
  <2>2. Update \notin Tx /\ \A t \in Tx : t > 0
    BY DEF Update, Tx
  <2>3. TakenCount = 0
    BY <2>1 DEF TakenCount
  <2> QED
    BY <2>1, <2>2, <2>3 DEF OrderInv, InOrder, Tx
<1>3. AnswerInv
  BY DEF Init, AnswerInv, InHand, Gone, SignalsInv, FinishedInv, FramesInv, ToldInv, Has, Distinct
<1> QED
  BY <1>1, <1>2, <1>3 DEF AllInv

\* Commands are performed in the order in which they were started, none is
\* forgotten and none performed twice (addTransaction() and run()).
THEOREM CommandsInOrder == Spec => []InOrder
  BY AllInit, AllNext, PTL DEF Spec, AllInv, OrderInv

\* A receiver is told at most once and only of a command that was performed, and
\* of another one's error only if that command's signal was queued when its own
\* finished (slotOneTransactionFinished()).
THEOREM AnsweredOnce == Spec => []ToldOnce
<1>1. AllInv => ToldOnce
  <2> SUFFICES ASSUME AllInv, NEW t \in Tx
               PROVE  /\ Len(told[t]) <= 1
                      /\ told[t] # << >> => t <= Len(performed)
                      /\ told[t] \notin {<< >>, <<t>>} => t \in late
    BY DEF ToldOnce
  <2>1. /\ FinCount <= Len(performed) /\ FinCount \in Int /\ Len(performed) \in Nat /\ t \in Nat
    BY Typed DEF AllInv
  <2>2. /\ told[t] # << >> => Len(told[t]) = 1 /\ t <= FinCount
        /\ told[t] \notin {<< >>, <<t>>} => t \in late
    BY DEF AllInv, AnswerInv, ToldInv
  <2>3. Len(told[t]) <= 1
    <3>1. CASE told[t] = << >>
      BY <3>1
    <3>2. CASE told[t] # << >>
      <4>1. Len(told[t]) = 1
        BY <2>2, <3>2
      <4> QED
        BY <4>1
    <3> QED
      BY <3>1, <3>2
  <2> QED
    BY <2>1, <2>2, <2>3
<1> QED
  BY <1>1, AllInit, AllNext, PTL DEF Spec

-----------------------------------------------------------------------------
(* The monitor implements CommandQueue.  What the invariant lacks for that: an  *)
(* error is never that of a later command, and nothing is taken after stop().   *)

Precedes(t) ==
    \/ \E i \in 1 .. Len(events) : IsSignal(i) /\ events[i].err <= t
    \/ tpc = "emit" /\ item = t
    \/ monitor = "gone"

EarlierInv ==
    /\ \A t \in Tx : Has(finished, t) => Precedes(t)
    /\ \A f \in 1 .. Len(frames) : \A t \in Tx :
          Has(frames[f].todo, t) => frames[f].err <= t

StopInv ==
    monitor = "stopping" /\ tpc \notin {"ended", "crashed"} =>
        transactions # << >> /\ transactions[1] = Quit

\* As long as a command waits to be told of, a signal of it or of an earlier one
\* is queued.
LEMMA PrecedesNext ==
    ASSUME AllInv, TypeInv', [Next]_vars, ~DeliverFinished,
           NEW t \in Tx, Has(finished', t), Has(finished, t) => Precedes(t)
    PROVE  Precedes(t)'
<1> USE DEF sharedVars, threadVars, guiVars, historyVars
<1>1. TypeInv /\ Gone /\ Len(events) \in Nat
  BY Typed DEF AllInv, AnswerInv
<1>a. ASSUME UNCHANGED <<events, finished>>, monitor = "gone" => monitor' = "gone",
             tpc = "emit" => tpc' = "emit" /\ item' = item
      PROVE  Precedes(t)'
  BY <1>a DEF Precedes, IsSignal
<1>2. CASE Quiet
  BY <1>2, <1>a DEF Quiet
<1>3. CASE Transact \/ TellNext \/ BoxIsClosed \/ SlotReturns \/ Stop
  BY <1>3, <1>a DEF Transact, TellNext, BoxIsClosed, SlotReturns, Stop
<1>4. CASE Destroyed
  BY <1>4 DEF Destroyed, Precedes
<1>5. CASE FinishTransaction
  <2>1. /\ UNCHANGED <<events, monitor, item>> /\ tpc = "finish" /\ tpc' = "emit"
        /\ Has(finished, t) \/ t = item
    BY <1>5, FinishAdds DEF FinishTransaction
  <2> QED
    BY <2>1 DEF Precedes, IsSignal
<1>6. CASE AnnounceCards
  <2>1. UNCHANGED <<finished, monitor>> /\ tpc = "announce"
    BY <1>6 DEF AnnounceCards
  <2>2. CASE events' = events
    BY <1>a, <2>1, <2>2
  <2>3. CASE events' = Append(events, CardChanged)
    <3>1. CardChanged \in Signals
      BY DEF Signals
    <3> QED
      BY <1>1, <2>1, <2>3, <3>1, EventAdded DEF Precedes, IsSignal
  <2> QED
    BY <1>6, <2>2, <2>3 DEF AnnounceCards
<1>7. CASE EmitFinished
  <2>1. /\ UNCHANGED <<finished, monitor>> /\ item \in Tx
        /\ events' = Append(events, OneTransactionFinished(item))
    BY <1>1, <1>7 DEF EmitFinished, TypeInv
  <2>2. /\ OneTransactionFinished(item) \in Signals /\ OneTransactionFinished(item).err = item
        /\ OneTransactionFinished(item) # CardChanged
    BY <2>1 DEF Signals, OneTransactionFinished, CardChanged
  <2>3. CASE \E i \in 1 .. Len(events) : IsSignal(i) /\ events[i].err <= t
    BY <1>1, <2>1, <2>2, <2>3, EventAdded DEF Precedes, IsSignal
  <2>4. CASE item = t
    <3>1. /\ Len(events) + 1 \in 1 .. Len(events')
          /\ events'[Len(events) + 1] = OneTransactionFinished(item)
      BY <1>1, <2>1, <2>2, EventAdded
    <3>2. item <= t
      BY <2>1, <2>4 DEF Tx
    <3> QED
      BY <2>2, <3>1, <3>2 DEF Precedes, IsSignal
  <2> QED
    BY <2>1, <2>3, <2>4 DEF Precedes
<1>8. CASE DeliverCardChanged
  <2>1. /\ UNCHANGED <<finished, monitor, tpc, item>>
        /\ events # << >> /\ Head(events) = CardChanged /\ events' = Tail(events)
    BY <1>8 DEF DeliverCardChanged
  <2>2. ASSUME NEW i \in 1 .. Len(events), IsSignal(i), events[i].err <= t
        PROVE  Precedes(t)'
    <3>1. i # 1
      BY <1>1, <2>1, <2>2, EventTaken DEF IsSignal
    <3>2. i - 1 \in 1 .. Len(events') /\ events'[i - 1] = events[i]
      BY <1>1, <2>1, <3>1, EventTaken
    <3> QED
      BY <2>2, <3>2 DEF Precedes, IsSignal
  <2> QED
    BY <2>1, <2>2 DEF Precedes
<1> QED
  BY <1>2, <1>3, <1>4, <1>5, <1>6, <1>7, <1>8, Steps

\* The signal a slot is called with comes before all that it is to tell of.
LEMMA FirstSignalPrecedes ==
    ASSUME AllInv, EarlierInv, DeliverFinished, NEW t \in Tx, Has(finished, t)
    PROVE  Head(events).err <= t
<1>1. /\ TypeInv /\ events # << >> /\ Head(events) # CardChanged /\ monitor = "alive"
  BY DEF DeliverFinished, LoopRuns, AllInv
<1>2. Head(events) = events[1] /\ 1 \in 1 .. Len(events) /\ IsSignal(1)
  BY <1>1, HeadTail, Typed DEF IsSignal
<1>3. /\ events[1].err \in 1 .. EmitCount /\ EmitCount \in Int /\ t \in Nat
      /\ \A i \in 1 .. Len(events) : IsSignal(i) =>
            events[i].err \in Int /\ (1 < i => events[1].err < events[i].err)
  BY <1>1, <1>2, Typed DEF AllInv, AnswerInv, SignalsInv
<1>4. CASE tpc = "emit" /\ item = t
  <2>1. t = Len(performed) /\ EmitCount = Len(performed) - 1
    BY <1>1, <1>4, Typed DEF AllInv, AnswerInv, InHand, EmitCount, FinCount
  <2> QED
    BY <1>2, <1>3, <2>1
<1>5. ASSUME NEW i \in 1 .. Len(events), IsSignal(i), events[i].err <= t
      PROVE  events[1].err <= t
  <2>1. i = 1 \/ 1 < i
    OBVIOUS
  <2> QED
    BY <1>3, <1>5, <2>1
<1> QED
  BY <1>1, <1>2, <1>4, <1>5 DEF EarlierInv, Precedes

LEMMA EarlierNext ==
    ASSUME AllInv, EarlierInv, TypeInv', [Next]_vars
    PROVE  EarlierInv'
<1> USE DEF sharedVars, threadVars, guiVars, historyVars
<1>1. TypeInv /\ Len(frames) \in Nat
  BY Typed DEF AllInv
<1>2. ASSUME NEW t \in Tx, Has(finished', t) PROVE Precedes(t)'
  <2>1. CASE DeliverFinished
    BY <1>2, <2>1 DEF DeliverFinished, Has
  <2>2. Has(finished, t) => Precedes(t)
    BY DEF EarlierInv
  <2> QED
    BY <1>2, <2>1, <2>2, PrecedesNext
<1> DEFINE Behind ==
      \A f \in 1 .. Len(frames') : \A t \in Tx :
          Has(frames'[f].todo, t) => frames'[f].err <= t
<1>a. ASSUME Len(frames') \in Nat, Len(frames') <= Len(frames),
             \A f \in 1 .. Len(frames') :
                /\ frames'[f].err = frames[f].err
                /\ \A t \in Tx : Has(frames'[f].todo, t) => Has(frames[f].todo, t)
      PROVE  Behind
  <2>1. \A f \in 1 .. Len(frames') : f \in 1 .. Len(frames)
    BY <1>1, <1>a
  <2> QED
    BY <1>a, <2>1 DEF EarlierInv
<1>b. frames' = frames => Behind
  BY DEF EarlierInv
<1> SUFFICES Behind
  BY <1>2 DEF EarlierInv
<1> HIDE DEF Behind
<1>3. CASE Quiet \/ AnnounceCards \/ Transact \/ EmitFinished \/ DeliverCardChanged \/ Stop
           \/ Destroyed \/ FinishTransaction
  <2>1. frames' = frames
    BY <1>3 DEF Quiet, AnnounceCards, Transact, EmitFinished, DeliverCardChanged, Stop,
                Destroyed, FinishTransaction
  <2> QED
    BY <1>b, <2>1
<1>4. CASE SlotReturns
  <2>1. frames # << >> /\ frames' = Front(frames)
    BY <1>4 DEF SlotReturns, InSlot
  <2>2. /\ Len(frames') = Len(frames) - 1 /\ Len(frames) \in Nat \ {0}
        /\ \A f \in 1 .. Len(frames') : frames'[f] = frames[f]
    <3>1. frames \in Seq(Frames)
      BY <1>1, Typed
    <3> QED
      BY <2>1, <3>1, LastFront
  <2> QED
    BY <2>2, <1>a
<1>5. CASE BoxIsClosed
  <2>1. frames # << >> /\ frames' = [frames EXCEPT ![Len(frames)].box = FALSE]
    BY <1>5 DEF BoxIsClosed
  <2> DEFINE n == Len(frames)
             new == [frames[n] EXCEPT !.box = FALSE]
  <2>2. frames \in Seq(Frames) /\ n \in 1 .. Len(frames) /\ frames[n] \in Frames
    BY <1>1, <2>1, LastFrame, Typed DEF TypeInv
  <2>3. new \in Frames /\ new.err = frames[n].err /\ new.todo = frames[n].todo
    BY <2>2 DEF Frames
  <2>4. frames' = [frames EXCEPT ![n] = new]
    BY <2>1, <2>2
  <2>5. Len(frames') = Len(frames) /\ \A f \in 1 .. Len(frames) :
           frames'[f].todo = frames[f].todo /\ frames'[f].err = frames[f].err
    BY <2>2, <2>3, <2>4, ExceptSeq
  <2> QED
    BY <1>1, <2>5, <1>a
<1>6. CASE TellNext
  <2>1. /\ Len(frames') = Len(frames)
        /\ \A f \in 1 .. Len(frames) :
              /\ frames'[f].err = frames[f].err
              /\ \A u \in Tx : Has(frames'[f].todo, u) => Has(frames[f].todo, u)
    BY <1>6, TellsOne
  <2> QED
    BY <1>1, <2>1, <1>a
<1>7. CASE DeliverFinished
  <2> DEFINE new == [err |-> Head(events).err, todo |-> finished, box |-> FALSE]
             m == Len(frames) + 1
  <2>1. events # << >> /\ Head(events) # CardChanged /\ frames' = Append(frames, new)
    BY <1>7 DEF DeliverFinished
  <2>2. Head(events) \in Signals
    BY <1>1, <2>1, HeadTail, Typed
  <2>3. new \in Frames /\ new.err = Head(events).err /\ new.todo = finished
    BY <1>1, <2>1, <2>2, Typed DEF Frames, Signals, OneTransactionFinished
  <2>4. /\ Len(frames') = m /\ frames'[m] = new
        /\ \A f \in 1 .. Len(frames) : frames'[f] = frames[f]
    BY <1>1, <2>1, <2>3, AppendOne, Typed
  <2>5. \A t \in Tx : Has(finished, t) => new.err <= t
    BY <1>7, <2>3, FirstSignalPrecedes
  <2>6. \A f \in 1 .. Len(frames') : f \in 1 .. Len(frames) \/ f = m
    BY <1>1, <2>4
  <2> HIDE DEF new, m
  <2> QED
    BY <2>3, <2>4, <2>5, <2>6 DEF EarlierInv, Behind
<1> QED
  BY <1>3, <1>4, <1>5, <1>6, <1>7, Steps

LEMMA StopNext == TypeInv /\ StopInv /\ [Next]_vars => StopInv'
<1> SUFFICES ASSUME TypeInv, StopInv PROVE [Next]_vars => StopInv'
  OBVIOUS
<1> USE DEF readerVars, sharedVars, threadVars, guiVars, historyVars, NextIteration
<1>1. transactions \in Seq(Items) /\ Len(transactions) \in Nat
  BY DEF TypeInv, TypeOK, Items
<1>2. CASE Take
  <2>1. /\ tpc = "lock" /\ transactions # << >> /\ monitor' = monitor
        /\ item' = Head(transactions)
    BY <1>2 DEF Take
  <2>2. item' = transactions[1]
    BY <1>1, <2>1, HeadTail
  <2>3. ASSUME item' = Quit PROVE tpc' = "ended"
    BY <1>2, <2>3, SMT DEF Take, Quit, Update
  <2> QED
    BY <2>1, <2>2, <2>3 DEF StopInv
<1>3. CASE Stop
  <2>1. transactions' = <<Quit>> \o transactions
    BY <1>3 DEF Stop
  <2>2. Len(transactions') = Len(transactions) + 1 /\ transactions'[1] = Quit
    BY <1>1, <2>1, Prepend DEF Items
  <2> QED
    BY <1>1, <2>2 DEF StopInv
<1>4. CASE StartTransaction \/ UserPings \/ WatcherPings
  BY <1>4 DEF StartTransaction, UserPings, WatcherPings, LoopRuns, StopInv
<1>5. CASE NewContext \/ Sleeps \/ ReadCard \/ StoreCards \/ AnnounceCards
           \/ FinishTransaction \/ EmitFinished
  BY <1>5 DEF NewContext, Sleeps, ReadCard, StoreCards, AnnounceCards, Transact,
              FinishTransaction, EmitFinished, StopInv
<1>6. CASE Transact
  BY <1>6 DEF Transact, StopInv
<1>7. CASE DeliverCardChanged \/ DeliverFinished \/ TellNext \/ BoxIsClosed \/ SlotReturns
  BY <1>7 DEF DeliverCardChanged, DeliverFinished, TellNext, BoxIsClosed, SlotReturns, StopInv
<1>8. CASE Destroyed \/ StartMonitoring
  BY <1>8 DEF Destroyed, StartMonitoring, LoopRuns, StopInv
<1>9. ASSUME NEW t \in Tx, ReceiverDies(t) PROVE StopInv'
  BY <1>9 DEF ReceiverDies, StopInv
<1>10. ASSUME NEW c \in Cards, CardChanges(c) PROVE StopInv'
  BY <1>10 DEF CardChanges, StopInv
<1>11. UNCHANGED vars => StopInv'
  BY DEF vars, StopInv
<1> QED
  BY <1>2, <1>3, <1>4, <1>5, <1>6, <1>7, <1>8, <1>9, <1>10, <1>11
     DEF Next, ThreadRuns, GuiRuns, UserActs

QueueInv == AllInv /\ EarlierInv /\ StopInv

LEMMA QueueInvInit == Init => QueueInv
  BY AllInit DEF QueueInv, EarlierInv, StopInv, Init, Has

LEMMA QueueInvNext == QueueInv /\ [Next]_vars => QueueInv'
  BY AllNext, EarlierNext, StopNext DEF QueueInv, AllInv

-----------------------------------------------------------------------------
(* The steps *)

QueueMoves == [Queue!Next]_(Queue!queueVars)

LEMMA QueueStutters ==
    ASSUME UNCHANGED <<monitor, started, performed, late, told, dead>>,
           tpc' = "crashed" <=> tpc = "crashed",
           tpc' = "transact" <=> tpc = "transact",
           tpc = "transact" => UNCHANGED item
    PROVE  QueueMoves
  BY DEF QueueMoves, Queue!queueVars

LEMMA TakeMoves ==
    ASSUME QueueInv, Take
    PROVE  QueueMoves
<1> USE DEF QueueInv, AllInv, TypeInv, readerVars, guiVars, historyVars
<1>1. /\ tpc = "lock" /\ transactions # << >> /\ item' = transactions[1]
      /\ transactions[1] \in Items /\ 1 \in 1 .. Len(transactions)
      /\ tpc' \in {"ended", "update", "transact"}
      /\ tpc' = "transact" <=> item' \notin {Quit, Update}
      /\ UNCHANGED <<monitor, started, performed, late, told, dead>>
  BY HeadTail DEF Take, TypeOK, Items
<1>2. CASE tpc' # "transact"
  BY <1>1, <1>2, QueueStutters
<1>3. CASE tpc' = "transact"
  <2>1. item' \in Tx /\ item' = transactions[1] /\ monitor = "alive"
    BY <1>1, <1>3 DEF Items, StopInv, Gone, AnswerInv, TypeOK
  <2>2. TakenCount = Len(performed) /\ Len(performed) \in Nat
    BY <1>1, Typed DEF TakenCount
  <2>3. /\ \A t \in Tx : Waits(t) <=> t \in Len(performed) + 1 .. started
        /\ Sorted
    BY <2>1, <2>2, OrderSplit
  <2>4. item' \in Len(performed) + 1 .. started
    BY <1>1, <2>1, <2>3 DEF Waits
  <2>5. started \in Nat /\ started \in 0 .. MaxTx /\ item' \in Nat
    BY <2>1 DEF TypeOK, Tx
  <2>6. item' = Len(performed) + 1
    <3> DEFINE n == Len(performed) + 1
    <3>1. n \in Tx /\ n \in Len(performed) + 1 .. started /\ n <= item'
      BY <2>1, <2>2, <2>4, <2>5 DEF Tx
    <3>2. PICK i \in 1 .. Len(transactions) : transactions[i] = n
      BY <2>3, <3>1 DEF Waits
    <3>3. i = 1 \/ 1 < i
      OBVIOUS
    <3> HIDE DEF n
    <3>4. i # 1 => item' < n
      BY <1>1, <2>1, <2>3, <3>1, <3>2, <3>3 DEF Sorted
    <3>5. n \in Nat
      BY <2>2 DEF n
    <3>6. i = 1
      BY <2>5, <3>1, <3>4, <3>5
    <3> QED
      BY <2>1, <3>2, <3>6 DEF n
  <2>7. Queue!Begin
    BY <1>1, <1>3, <2>1, <2>2, <2>4, <2>5, <2>6 DEF Queue!Begin
  <2> QED
    BY <2>7 DEF QueueMoves, Queue!Next
<1> QED
  BY <1>2, <1>3

LEMMA TransactMoves ==
    ASSUME QueueInv, Transact
    PROVE  QueueMoves
<1>1. /\ tpc = "transact" /\ item \in Tx /\ performed \in Seq(Tx)
      /\ UNCHANGED <<monitor, started, late, told, dead, item>>
      /\ monitor \in {"alive", "stopping"}
  BY Typed DEF Transact, QueueInv, AllInv, AnswerInv, TypeInv, TypeOK, Gone, guiVars
<1>2. CASE context
  <2>1. tpc' = "finish" /\ performed' = Append(performed, item)
    BY <1>2 DEF Transact
  <2>2. performed' = performed \o <<item>>
    BY <1>1, <2>1
  <2>3. Queue!Perform
    BY <1>1, <2>1, <2>2 DEF Queue!Perform
  <2> QED
    BY <2>3 DEF QueueMoves, Queue!Next
<1>3. CASE ~context
  <2>1. tpc' = "crashed" /\ performed' = performed
    BY <1>3 DEF Transact
  <2>2. Queue!Crash
    BY <1>1, <2>1 DEF Queue!Crash
  <2> QED
    BY <2>2 DEF QueueMoves, Queue!Next
<1> QED
  BY <1>2, <1>3

LEMMA FinishMoves ==
    ASSUME QueueInv, FinishTransaction
    PROVE  QueueMoves
<1>1. /\ tpc = "finish" /\ tpc' = "emit"
      /\ UNCHANGED <<monitor, started, performed, told, dead, item>>
      /\ late' = late \cup {item} \/ late' = late
      /\ monitor \in {"alive", "stopping"}
  BY DEF FinishTransaction, QueueInv, AllInv, AnswerInv, TypeInv, TypeOK, Gone, guiVars
<1>2. CASE late' = late
  BY <1>1, <1>2, QueueStutters
<1>3. CASE late' = late \cup {item}
  <2>1. item \in Tx /\ item = Len(performed) /\ FinCount = item - 1 /\ item \in Nat
    BY FinishAdds DEF QueueInv, Tx
  <2>2. told[item] = << >>
    BY <2>1 DEF QueueInv, AllInv, AnswerInv, ToldInv
  <2>3. Queue!Overtake(item)
    BY <1>1, <1>3, <2>1, <2>2 DEF Queue!Overtake
  <2> QED
    BY <2>1, <2>3 DEF QueueMoves, Queue!Next
<1> QED
  BY <1>1, <1>2, <1>3

LEMMA TellMoves ==
    ASSUME QueueInv, TellNext
    PROVE  QueueMoves
<1>1. UNCHANGED <<tpc, item, monitor, started, performed, late, dead>> /\ tpc # "crashed"
  BY DEF TellNext, Running, sharedVars, threadVars
<1>2. PICK t \in Tx, n \in 1 .. Len(frames) :
        /\ Has(frames[n].todo, t)
        /\ told' = IF t \in dead THEN told
                   ELSE [told EXCEPT ![t] = Append(@, frames[n].err)]
  BY TellsOne DEF QueueInv
<1> DEFINE d == frames[n].err
<1>3. /\ d \in Tx /\ d <= t /\ FrameFits(n, t)
      /\ told \in [Tx -> Seq(Tx)] /\ Tx \subseteq Nat
      /\ FinCount \in Int /\ FinCount <= Len(performed) /\ Len(performed) \in Nat
  BY <1>2, Typed DEF QueueInv, AllInv, AnswerInv, FramesInv, EarlierInv
<1> HIDE DEF d
<1>4. CASE t \in dead
  BY <1>1, <1>2, <1>4, QueueStutters
<1>5. CASE t \notin dead
  <2>1. told' = [told EXCEPT ![t] = <<d>>]
    BY <1>2, <1>3, <1>5 DEF FrameFits, d
  <2>2. t <= Len(performed) /\ told[t] = << >>
    BY <1>3 DEF FrameFits
  <2>3. d = t \/ (d < t /\ t \in late)
    <3>1. t \notin late => d = t
      BY <1>3 DEF FrameFits, d
    <3>2. d \in Nat /\ t \in Nat
      BY <1>3
    <3> QED
      BY <1>3, <3>1, <3>2
  <2>4. monitor = "alive"
    BY <1>2 DEF QueueInv, AllInv, AnswerInv, Gone, TypeInv, TypeOK
  <2>5. Queue!Tell(t, d)
    BY <1>1, <1>5, <2>1, <2>2, <2>3, <2>4 DEF Queue!Tell
  <2> QED
    BY <1>3, <2>5 DEF QueueMoves, Queue!Next
<1> QED
  BY <1>4, <1>5

\* What the user does and what ends the thread.
LEMMA OutsideMoves ==
    ASSUME QueueInv
    PROVE  /\ StartTransaction => QueueMoves
           /\ Stop => QueueMoves
           /\ Destroyed => QueueMoves
           /\ \A t \in Tx : ReceiverDies(t) => QueueMoves
<1> USE DEF QueueMoves, Queue!Next, readerVars, sharedVars, threadVars, guiVars, historyVars
<1>1. ASSUME StartTransaction PROVE Queue!Send
  BY <1>1 DEF StartTransaction, LoopRuns, Running, Add, Queue!Send
<1>2. ASSUME Stop PROVE Queue!Stop
  BY <1>2 DEF Stop, Running, Queue!Stop
<1>3. ASSUME Destroyed PROVE Queue!Go
  BY <1>3 DEF Destroyed, Running, Queue!Go
<1>4. ASSUME NEW t \in Tx, ReceiverDies(t) PROVE Queue!TurnDeaf(t)
  BY <1>4 DEF ReceiverDies, LoopRuns, Running, Queue!TurnDeaf
<1> QED
  BY <1>1, <1>2, <1>3, <1>4

LEMMA QueueStep == QueueInv /\ [Next]_vars => QueueMoves
<1> SUFFICES ASSUME QueueInv PROVE [Next]_vars => QueueMoves
  OBVIOUS
<1> USE DEF readerVars, sharedVars, threadVars, guiVars, historyVars
<1>1. ASSUME NewContext \/ Sleeps \/ ReadCard \/ StoreCards \/ AnnounceCards \/ EmitFinished
      PROVE  QueueMoves
  BY <1>1, QueueStutters
     DEF NewContext, Sleeps, ReadCard, StoreCards, AnnounceCards, EmitFinished, NextIteration
<1>2. ASSUME WatcherPings \/ UserPings \/ StartMonitoring
      PROVE  QueueMoves
  BY <1>2, QueueStutters DEF WatcherPings, UserPings, StartMonitoring, Add
<1>3. ASSUME DeliverCardChanged \/ DeliverFinished \/ BoxIsClosed \/ SlotReturns
      PROVE  QueueMoves
  BY <1>3, QueueStutters DEF DeliverCardChanged, DeliverFinished, BoxIsClosed, SlotReturns
<1>4. ASSUME NEW c, CardChanges(c) PROVE QueueMoves
  BY <1>4, QueueStutters DEF CardChanges
<1>5. ASSUME UNCHANGED vars PROVE QueueMoves
  BY <1>5, QueueStutters DEF vars
<1> QED
  BY <1>1, <1>2, <1>3, <1>4, <1>5, TakeMoves, TransactMoves, FinishMoves, TellMoves,
     OutsideMoves DEF Next, ThreadRuns, GuiRuns, UserActs

LEMMA QueueInit == Init => Queue!Init
  BY DEF Init, Queue!Init

\* The thread, the lists and the signals are one queue of commands for the card, with
\* any number of commands, updates, failures and deleted receivers: in order, once,
\* none begun after stop(), and nobody told of what came after its own command
\* (readerstatus.cpp: run(), addTransaction(), stop(), slotOneTransactionFinished()).
THEOREM MonitorServesInOrder == Spec => ServesInOrder
<1>1. QueueInv /\ [Next]_vars => [Queue!Next]_(Queue!queueVars)
  BY QueueStep DEF QueueMoves
<1> QED
  BY <1>1, QueueInvInit, QueueInvNext, QueueInit, PTL DEF Spec, ServesInOrder, Queue!Spec
=============================================================================
