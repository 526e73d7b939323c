-------------------------- MODULE KDPipePairProofs --------------------------
(***************************************************************************)
(* Proofs about KDPipeReader and about KDPipePair, which extends it: first *)
(* what the reading half keeps, whoever its peer is, then the two halves   *)
(* together and the channel they implement.  For every buffer size, every  *)
(* set of read and write sizes, every stream and every policy of the       *)
(* client.                                                                 *)
(***************************************************************************)
EXTENDS KDPipePair, SequenceTheorems, TLAPS

-----------------------------------------------------------------------------
(* Lemmas about the ring buffer *)

\* The remainder that moves a pointer around the ring once at most.
LEMMA ModOnce ==
    ASSUME NEW N \in Nat \ {0}, NEW x \in Nat, x < 2 * N
    PROVE  x % N = IF x < N THEN x ELSE x - N
  OBVIOUS

\* What fits next to something fits next to less.
LEMMA StillFits ==
    ASSUME NEW a \in Nat, NEW b \in Nat, NEW c \in Int, NEW d \in Nat,
           b <= a, a + c <= d - 1
    PROVE  b + c <= d - 1
  OBVIOUS

\* A pointer that has been advanced is a pointer.
LEMMA AdvanceIsPointer ==
    ASSUME NEW ptr \in 0 .. BufferSize - 1, NEW n \in 0 .. BufferSize
    PROVE  /\ Advance(ptr, n) \in 0 .. BufferSize - 1
           /\ Advance(ptr, n) = IF ptr + n < BufferSize THEN ptr + n
                                ELSE ptr + n - BufferSize
<1> DEFINE x == ptr + n
<1>1. x \in Nat /\ x < 2 * BufferSize /\ BufferSize \in Nat \ {0}
  BY BufferSizeAssumption
<1>2. x % BufferSize = IF x < BufferSize THEN x ELSE x - BufferSize
  BY <1>1, ModOnce
<1> QED
  BY <1>1, <1>2, BufferSizeAssumption DEF Advance

\* The distance from one pointer to another, without the remainder.
LEMMA DistanceValue ==
    ASSUME NEW r \in 0 .. BufferSize - 1, NEW w \in 0 .. BufferSize - 1
    PROVE  /\ (w + BufferSize - r) % BufferSize \in 0 .. BufferSize - 1
           /\ (w + BufferSize - r) % BufferSize =
                IF r <= w THEN w - r ELSE w + BufferSize - r
<1> DEFINE x == w + BufferSize - r
<1>1. x \in Nat /\ x < 2 * BufferSize /\ BufferSize \in Nat \ {0}
  BY BufferSizeAssumption
<1>2. x % BufferSize = IF x < BufferSize THEN x ELSE x - BufferSize
  BY <1>1, ModOnce
<1> QED
  BY <1>1, <1>2, BufferSizeAssumption

\* How full the buffer is.
LEMMA BytesInBufferValue ==
    ASSUME TypeOK
    PROVE  /\ BytesInBuffer \in 0 .. BufferSize - 1
           /\ BytesInBuffer = IF rptr <= wptr THEN wptr - rptr
                              ELSE wptr + BufferSize - rptr
<1>1. rptr \in 0 .. BufferSize - 1 /\ wptr \in 0 .. BufferSize - 1
  BY DEF TypeOK
<1> QED
  BY <1>1, DistanceValue DEF BytesInBuffer

\* How full it is after a step.
LEMMA BytesInBufferValueNext ==
    ASSUME TypeOK'
    PROVE  /\ BytesInBuffer' \in 0 .. BufferSize - 1
           /\ BytesInBuffer' = IF rptr' <= wptr' THEN wptr' - rptr'
                               ELSE wptr' + BufferSize - rptr'
<1>1. rptr' \in 0 .. BufferSize - 1 /\ wptr' \in 0 .. BufferSize - 1
  BY DEF TypeOK
<1> QED
  BY <1>1, DistanceValue DEF BytesInBuffer

\* What run() reads fits behind wptr, and next to the bytes in the buffer.
LEMMA RoomFits ==
    ASSUME NEW r \in 0 .. BufferSize - 1, NEW w \in 0 .. BufferSize - 1
    PROVE  /\ Room(r, w) \in Nat
           /\ w + Room(r, w) <= BufferSize
           /\ ((w + BufferSize - r) % BufferSize) + Room(r, w) <= BufferSize - 1
<1> DEFINE x == r + BufferSize - w - 1
           y == w + BufferSize - r
<1>1. /\ x \in Nat /\ x < 2 * BufferSize
      /\ y \in Nat /\ y < 2 * BufferSize
      /\ BufferSize \in Nat \ {0}
  BY BufferSizeAssumption
<1>2. x % BufferSize = IF x < BufferSize THEN x ELSE x - BufferSize
  BY <1>1, ModOnce
<1>3. y % BufferSize = IF y < BufferSize THEN y ELSE y - BufferSize
  BY <1>1, ModOnce
<1> QED
  BY <1>1, <1>2, <1>3, BufferSizeAssumption DEF Room, SmallerOf

\* What readData() copies lies in the buffer in one piece, before wptr.
LEMMA CopyFits ==
    ASSUME TypeOK
    PROVE  /\ NumToCopy \in Nat
           /\ rptr + NumToCopy <= BufferSize
           /\ ~BufferEmpty => NumToCopy <= BytesInBuffer
           /\ maxSize > 0 => NumToCopy > 0
BY BytesInBufferValue, BufferSizeAssumption
   DEF TypeOK, NumToCopy, SmallerOf, Contiguous, BufferEmpty

LEMMA CopiedBytesAreASequence ==
    ASSUME TypeOK
    PROVE  /\ CopiedBytes \in Seq(Nat)
           /\ Len(CopiedBytes) = NumToCopy
           /\ \A k \in 1 .. NumToCopy : CopiedBytes[k] = buffer[rptr + k - 1]
<1>1. NumToCopy \in Nat /\ rptr + NumToCopy <= BufferSize
  BY CopyFits
<1>2. \A k \in 1 .. NumToCopy : rptr + k - 1 \in 0 .. BufferSize - 1
  BY <1>1, BufferSizeAssumption DEF TypeOK
<1>3. CopiedBytes \in [1 .. NumToCopy -> Nat]
  BY <1>1, <1>2 DEF CopiedBytes, TypeOK
<1>4. CopiedBytes \in Seq(Nat)
  BY <1>1, <1>3, SeqDef
<1>5. DOMAIN CopiedBytes = 1 .. NumToCopy
  BY DEF CopiedBytes
<1>6. Len(CopiedBytes) = NumToCopy
  BY <1>1, <1>4, <1>5, LenProperties
<1> QED
  BY <1>4, <1>6 DEF CopiedBytes

-----------------------------------------------------------------------------
(* Type correctness *)

LEMMA ModRange ==
    ASSUME NEW x \in Nat
    PROVE  x % BufferSize \in 0 .. BufferSize - 1
  BY BufferSizeAssumption

LEMMA TypeInit == Init => TypeOK
<1> SUFFICES ASSUME Init PROVE TypeOK
  OBVIOUS
<1>1. /\ rptr \in 0 .. BufferSize - 1 /\ wptr \in 0 .. BufferSize - 1
      /\ buffer \in [0 .. BufferSize - 1 -> Nat]
  BY BufferSizeAssumption DEF Init
<1>2. stream \in Seq(Nat) /\ received \in Seq(Nat)
  BY EmptySeq DEF Init
<1>3. /\ rpc \in ReaderPcs /\ rret \in LockedAt /\ rwait \in Conditions
      /\ cpc \in ClientPcs /\ cwait \in Conditions
  BY DEF Init, ReaderPcs, LockedAt, ClientPcs, Conditions
<1>4. /\ writeEndOpen \in BOOLEAN /\ wasEmpty \in BOOLEAN /\ cancel \in BOOLEAN
      /\ eof \in BOOLEAN /\ error \in BOOLEAN /\ eofShortCut \in BOOLEAN
      /\ consumerBlocksOnUs \in BOOLEAN /\ triedToStartReader \in BOOLEAN
      /\ inSlot \in BOOLEAN
  BY Zenon DEF Init
<1> QED
  BY <1>1, <1>2, <1>3, <1>4 DEF Init, TypeOK

\* Taking bytes out of the buffer, alone or after a wait.
LEMMA TypeTakeBytes ==
    ASSUME TypeOK, NEW woken \in SUBSET Conditions, TakeBytes(woken)
    PROVE  /\ received' \in Seq(Nat)
           /\ rptr' \in 0 .. BufferSize - 1
           /\ rwait' \in Conditions
           /\ eofShortCut' \in BOOLEAN
           /\ outcome' \in {"data", "eof", "error"}
<1>1. CASE BufferEmpty
  BY <1>1 DEF TakeBytes, TypeOK, Woken, Conditions
<1>2. CASE ~BufferEmpty
  <2>1. rptr + NumToCopy \in Nat
    BY CopyFits DEF TypeOK
  <2>2. rptr' \in 0 .. BufferSize - 1
    <3>1. rptr' = (rptr + NumToCopy) % BufferSize
      BY <1>2 DEF TakeBytes, Advance
    <3> QED
      BY <2>1, <3>1, ModRange
  <2>3. received' \in Seq(Nat)
    <3>1. received' = received \o CopiedBytes
      BY <1>2, Zenon DEF TakeBytes
    <3>2. received \in Seq(Nat) /\ CopiedBytes \in Seq(Nat)
      BY CopiedBytesAreASequence DEF TypeOK
    <3> QED
      BY <3>1, <3>2, ConcatProperties, Zenon
  <2> QED
    BY <1>2, <2>2, <2>3 DEF TakeBytes, TypeOK, Woken, Conditions
<1> QED
  BY <1>1, <1>2

LEMMA TypeStep == TypeOK /\ [Next]_vars => TypeOK'
<1> SUFFICES ASSUME TypeOK PROVE [Next]_vars => TypeOK'
  OBVIOUS
<1> USE DEF TypeOK, pipeVars, threadVars, flagVars, bufferVars, callVars,
            slotVars, resultVars
<1>1. ASSUME PeerWrite
      PROVE  TypeOK'
  BY <1>1 DEF PeerWrite
<1>2. ASSUME PeerClose
      PROVE  TypeOK'
  <2>1. writeEndOpen' \in BOOLEAN
    BY <1>2, Zenon DEF PeerClose
  <2> QED
    BY <1>2, <2>1 DEF PeerClose
<1>3. ASSUME ReaderStarts
      PROVE  TypeOK'
  BY <1>3 DEF ReaderStarts, ReaderPcs, LockedAt, Woken, Conditions
<1>4. ASSUME ReaderResumes
      PROVE  TypeOK'
  BY <1>4 DEF ReaderResumes, ReaderPcs
<1>5. ASSUME ReaderLoop
      PROVE  TypeOK'
  <2>1. wasEmpty' \in BOOLEAN
    BY <1>5, Zenon DEF ReaderLoop, BufferEmpty
  <2> QED
    BY <1>5, <2>1 DEF ReaderLoop, ReaderPcs, LockedAt
<1>6. ASSUME NotifyReadyRead
      PROVE  TypeOK'
  BY <1>6 DEF NotifyReadyRead, SleepOn, ReaderPcs, Woken, Conditions
<1>7. ASSUME ReaderAfterEofNotice
      PROVE  TypeOK'
  BY <1>7 DEF ReaderAfterEofNotice, SleepOn, ReaderPcs, LockedAt, Conditions
<1>8. ASSUME ReaderFullLoop
      PROVE  TypeOK'
  BY <1>8 DEF ReaderFullLoop, ReaderPcs, LockedAt
<1>9. ASSUME ReaderFullRecheck
      PROVE  TypeOK'
  BY <1>9 DEF ReaderFullRecheck, SleepOn, ReaderPcs, LockedAt, Conditions
<1>10. ASSUME ReaderCheck
      PROVE  TypeOK'
  <2>1. /\ rptr' \in 0 .. BufferSize - 1
        /\ wptr' \in 0 .. BufferSize - 1
    BY <1>10, BufferSizeAssumption DEF ReaderCheck
  <2>2. numBytes' \in Nat
    BY <1>10, <2>1, RoomFits DEF ReaderCheck
  <2> QED
    BY <1>10, <2>1, <2>2 DEF ReaderCheck, ReaderPcs, LockedAt
<1>11. ASSUME ReaderReadsEof \/ ReaderReadFails
      PROVE  TypeOK'
  <2>1. CASE ReaderReadsEof
    BY <2>1 DEF ReaderReadsEof, ReadsNothing, ReaderPcs
  <2>2. CASE ReaderReadFails
    BY <2>2 DEF ReaderReadFails, ReadsNothing, ReaderPcs
  <2> QED
    BY <1>11, <2>1, <2>2, Zenon
<1>12. ASSUME ReaderCommits
      PROVE  TypeOK'
  <2>1. wptr' \in 0 .. BufferSize - 1
    <3>1. numRead > 0 => wptr + numRead \in Nat
      OBVIOUS
    <3> QED
      BY <1>12, <3>1, ModRange DEF ReaderCommits, Advance
  <2> QED
    BY <1>12, <2>1 DEF ReaderCommits, ReaderPcs, LockedAt
<1>13. ASSUME NEW n \in 1 .. BufferSize, ReaderRead(n)
       PROVE  TypeOK'
  <2>1. n \in Nat /\ n <= Len(stream) - fetched
    BY <1>13, BufferSizeAssumption DEF ReaderRead, ReadsTo, SmallerOf
  <2>2. buffer' \in [0 .. BufferSize - 1 -> Nat]
    <3>1. \A i \in 0 .. BufferSize - 1 : wptr <= i /\ i < wptr + n =>
             stream[fetched + 1 + i - wptr] \in Nat
      BY <2>1
    <3> QED
      BY <1>13, <3>1 DEF ReaderRead, ReadsTo
  <2> QED
    BY <1>13, <2>1, <2>2 DEF ReaderRead, ReadsTo, ReaderPcs
<1>14. ASSUME NEW c \in Calls, NEW n \in Nat, ClientCalls(c, n)
       PROVE  TypeOK'
  BY <1>14 DEF ClientCalls, ReaderPcs, ClientPcs, Conditions
<1>15. ASSUME ClientStarted \/ ClientQuery \/ ClientAtEnd
      PROVE  TypeOK'
  <2>1. CASE ClientStarted
    BY <2>1 DEF ClientStarted, ClientPcs, Conditions
  <2>2. CASE ClientQuery
    BY <2>2 DEF ClientQuery, ClientPcs
  <2>3. CASE ClientAtEnd
    BY <2>3 DEF ClientAtEnd, ClientPcs
  <2> QED
    BY <1>15, <2>1, <2>2, <2>3, Zenon
<1>16. ASSUME ReadShortCut
      PROVE  TypeOK'
  BY <1>16 DEF ReadShortCut, ClientPcs
<1>17. ASSUME ReadLimitsSize
      PROVE  TypeOK'
  BY <1>17, BytesInBufferValue DEF ReadLimitsSize, SmallerOf, ClientPcs
<1>18. ASSUME ReadWithoutBlocking
      PROVE  TypeOK'
  BY <1>18, TypeTakeBytes DEF ReadWithoutBlocking, ClientPcs, Conditions
<1>19. ASSUME ReadBlocks
      PROVE  TypeOK'
  BY <1>19 DEF ReadBlocks, ClientPcs, Woken, Conditions
<1>20. ASSUME ReadWoken
      PROVE  TypeOK'
  BY <1>20, TypeTakeBytes, ZenonT(40) DEF ReadWoken, ClientPcs, Conditions
<1>21. ASSUME WaitReturnsAtOnce \/ WaitBlocks \/ WaitEnds
      PROVE  TypeOK'
  <2>1. CASE WaitReturnsAtOnce
    BY <2>1 DEF WaitReturnsAtOnce, ClientPcs
  <2>2. CASE WaitBlocks
    BY <2>2 DEF WaitBlocks, ClientPcs, Conditions
  <2>3. CASE WaitEnds
    BY <2>3 DEF WaitEnds, ClientPcs, Conditions
  <2> QED
    BY <1>21, <2>1, <2>2, <2>3, Zenon
<1>22. ASSUME DeliverReadyRead \/ SlotReturns \/ SlotReturnsClosed
      PROVE  TypeOK'
  <2>1. inSlot' \in BOOLEAN
    BY <1>22, Zenon DEF DeliverReadyRead, SlotReturns, SlotReturnsClosed
  <2>2. CASE DeliverReadyRead
    BY <2>1, <2>2 DEF DeliverReadyRead
  <2>3. CASE SlotReturns
    BY <2>1, <2>3 DEF SlotReturns, Woken, Conditions
  <2>4. CASE SlotReturnsClosed
    BY <2>1, <2>4 DEF SlotReturnsClosed
  <2> QED
    BY <1>22, <2>2, <2>3, <2>4
<1>23. ASSUME CloseCancels \/ CloseWakes \/ CloseJoins
      PROVE  TypeOK'
  <2>1. cancel' \in BOOLEAN
    BY <1>23, Zenon DEF CloseCancels, CloseWakes, CloseJoins
  <2>2. CASE CloseCancels
    BY <2>1, <2>2 DEF CloseCancels, ClientPcs, Woken, Conditions
  <2>3. CASE CloseWakes
    BY <2>1, <2>3 DEF CloseWakes, ClientPcs, Woken, Conditions
  <2>4. CASE CloseJoins
    BY <2>1, <2>4 DEF CloseJoins, ClientPcs
  <2> QED
    BY <1>23, <2>2, <2>3, <2>4, Zenon
<1>24. ASSUME UNCHANGED vars
      PROVE  TypeOK'
  BY <1>24 DEF vars
<1>25. ASSUME Terminated
      PROVE  TypeOK'
  BY <1>24, <1>25 DEF Terminated
<1>26. ASSUME ReaderStep
      PROVE  TypeOK'
  BY <1>26, <1>3, <1>4, <1>5, <1>6, <1>7, <1>8, <1>9, <1>10, <1>11, <1>12, <1>13
     DEF ReaderStep, ReaderRuns
<1>27. ASSUME ClientContinues
      PROVE  TypeOK'
  BY <1>27, <1>15, <1>16, <1>17, <1>18, <1>19, <1>20, <1>21, <1>22, <1>23
     DEF ClientContinues
<1>28. ASSUME ClientBegins
      PROVE  TypeOK'
  <2>1. ASSUME NEW n \in ReadSizes, ClientCalls("read", n)
        PROVE  TypeOK'
    <3>1. n \in Nat /\ "read" \in Calls
      BY ReadSizesAssumption DEF Calls
    <3> QED
      BY <1>14, <2>1, <3>1
  <2>2. ASSUME NEW c \in Calls, ClientCalls(c, 0)
        PROVE  TypeOK'
    BY <1>14, <2>2
  <2> QED
    BY <1>22, <1>23, <1>28, <2>1, <2>2, Zenon DEF ClientBegins
<1> QED
  BY <1>1, <1>2, <1>24, <1>25, <1>26, <1>27, <1>28 DEF Next

\* Every variable of the reading half has its type.
THEOREM TypeCorrect == Spec => []TypeOK
<1>1. Init => TypeOK
  BY TypeInit
<1>2. TypeOK /\ [Next]_vars => TypeOK'
  BY TypeStep
<1> QED
  BY <1>1, <1>2, PTL DEF Spec

-----------------------------------------------------------------------------
(***************************************************************************)
(* Nothing is lost, duplicated or reordered.  The invariant adds to        *)
(* GapIsInBuffer, which says where every byte is, that a ::read() that is  *)
(* under way has room: it was measured before the mutex was given up, and  *)
(* the client has only made more since.                                    *)
(***************************************************************************)

ReadHasRoom ==
    /\ fetched <= Len(stream)
    /\ rpc = "inRead" =>
          /\ wptr + numBytes <= BufferSize
          /\ BytesInBuffer + numBytes <= BufferSize - 1
    /\ rpc = "lockAfterRead" =>
          /\ wptr + numRead <= BufferSize
          /\ BytesInBuffer + numRead <= BufferSize - 1
    /\ ~triedToStartReader => rpc = "idle"

DataInv == TypeOK /\ GapIsInBuffer /\ DeliveredInOrder /\ ReadHasRoom

\* The slot of byte number k of the buffer, without the remainder.
LEMMA SlotValue ==
    ASSUME NEW r \in 0 .. BufferSize - 1, NEW k \in 0 .. BufferSize - 1
    PROVE  (r + k) % BufferSize = IF r + k < BufferSize THEN r + k
                                  ELSE r + k - BufferSize
<1> DEFINE x == r + k
<1>1. x \in Nat /\ x < 2 * BufferSize /\ BufferSize \in Nat \ {0}
  BY BufferSizeAssumption
<1>2. x % BufferSize = IF x < BufferSize THEN x ELSE x - BufferSize
  BY <1>1, ModOnce
<1> QED
  BY <1>1, <1>2, BufferSizeAssumption

\* The facts about sizes that the steps below share.
Sizes ==
    /\ TypeOK
    /\ BufferSize \in Nat /\ BufferSize >= 2
    /\ rptr \in 0 .. BufferSize - 1 /\ wptr \in 0 .. BufferSize - 1
    /\ rptr \in Nat /\ rptr < BufferSize /\ wptr \in Nat /\ wptr < BufferSize
    /\ BytesInBuffer \in Nat
    /\ BytesInBuffer = IF rptr <= wptr THEN wptr - rptr
                       ELSE wptr + BufferSize - rptr
    /\ InFlight \in Nat /\ InFlight + BytesInBuffer <= BufferSize - 1
    /\ fetched = Len(received) + BytesInBuffer + InFlight
    /\ fetched <= Len(stream)
    /\ fetched \in Nat /\ Len(stream) \in Nat /\ Len(received) \in Nat

LEMMA DataSizes ==
    ASSUME DataInv
    PROVE  Sizes
<1>1. TypeOK
  BY DEF DataInv
<1>2. /\ rptr \in 0 .. BufferSize - 1 /\ wptr \in 0 .. BufferSize - 1
      /\ fetched \in Nat /\ numRead \in Int
  BY <1>1 DEF TypeOK
<1>3. Len(stream) \in Nat /\ Len(received) \in Nat
  BY <1>1, LenProperties DEF TypeOK
<1>4. /\ BytesInBuffer \in 0 .. BufferSize - 1
      /\ BytesInBuffer = IF rptr <= wptr THEN wptr - rptr
                         ELSE wptr + BufferSize - rptr
  BY <1>1, BytesInBufferValue
<1>5. InFlight \in Nat /\ InFlight + BytesInBuffer <= BufferSize - 1
  BY <1>2, <1>4, BufferSizeAssumption DEF DataInv, ReadHasRoom, InFlight
<1>6. /\ BufferSize \in Nat /\ BufferSize >= 2 /\ BytesInBuffer \in Nat
      /\ rptr \in Nat /\ rptr < BufferSize /\ wptr \in Nat /\ wptr < BufferSize
  BY <1>2, <1>4, BufferSizeAssumption
<1>7. fetched = Len(received) + BytesInBuffer + InFlight /\ fetched <= Len(stream)
  BY DEF DataInv, GapIsInBuffer, ReadHasRoom
<1> QED
  BY <1>1, <1>2, <1>3, <1>4, <1>5, <1>6, <1>7 DEF Sizes

\* Steps that move neither bytes nor the thread into or out of ::read().
DataFrame ==
    /\ UNCHANGED <<stream, fetched, rptr, wptr, buffer, received, numBytes,
                   numRead>>
    /\ \/ rpc' = rpc
       \/ rpc \notin {"inRead", "lockAfterRead"}
          /\ rpc' \notin {"inRead", "lockAfterRead"}
    /\ ~triedToStartReader' => rpc' = "idle"

LEMMA DataFrameStep ==
    ASSUME DataInv, DataFrame, TypeOK'
    PROVE  DataInv'
<1>1. BytesInBuffer' = BytesInBuffer
  BY DEF DataFrame, BytesInBuffer
<1>2. InFlight' = InFlight
  BY DEF DataFrame, InFlight
<1>3. GapIsInBuffer' /\ DeliveredInOrder'
  BY <1>1, <1>2 DEF DataInv, GapIsInBuffer, DeliveredInOrder, DataFrame
<1>4. ReadHasRoom'
  BY <1>1 DEF DataInv, ReadHasRoom, DataFrame
<1> QED
  BY <1>3, <1>4 DEF DataInv

\* The peer writes, in one ::write() or in several: what it wrote before stays.
PeerAppends ==
    /\ writeEndOpen
    /\ stream' \in Seq(Nat)
    /\ Len(stream') >= Len(stream)
    /\ \A k \in 1 .. Len(stream) : stream'[k] = stream[k]
    /\ UNCHANGED <<fetched, writeEndOpen, threadVars, flagVars, bufferVars,
                   callVars, slotVars, resultVars>>

LEMMA PeerWriteAppends ==
    ASSUME TypeOK, PeerWrite
    PROVE  PeerAppends
  BY DEF TypeOK, PeerWrite, PeerAppends

LEMMA DataPeerAppends ==
    ASSUME DataInv, PeerAppends, TypeOK'
    PROVE  DataInv'
<1>0. Sizes
  BY DataSizes
<1> USE DEF Sizes
<1>1. /\ BytesInBuffer' = BytesInBuffer /\ InFlight' = InFlight
      /\ UNCHANGED <<rptr, buffer, received, fetched>>
  BY DEF PeerAppends, BytesInBuffer, InFlight, bufferVars, threadVars, resultVars
<1>2. /\ Len(stream') \in Nat /\ Len(stream') >= Len(stream)
      /\ \A k \in 1 .. Len(stream) : stream'[k] = stream[k]
  BY LenProperties DEF PeerAppends
<1>3. /\ BytesInBuffer \in Nat /\ InFlight \in Nat
      /\ fetched \in Nat /\ Len(stream) \in Nat /\ Len(received) \in Nat
  BY <1>0
<1>4. GapIsInBuffer'
  <2>1. ASSUME NEW k \in 0 .. BytesInBuffer + InFlight - 1
        PROVE  Len(received) + 1 + k \in 1 .. Len(stream)
    BY <1>3 DEF DataInv, GapIsInBuffer, ReadHasRoom
  <2> QED
    BY <1>1, <1>2, <2>1 DEF DataInv, GapIsInBuffer
<1>5. DeliveredInOrder'
  BY <1>1, <1>2, <1>3 DEF DataInv, DeliveredInOrder
<1>6. ReadHasRoom'
  BY <1>1, <1>2, <1>3
     DEF DataInv, ReadHasRoom, PeerAppends, bufferVars, threadVars, callVars
<1> QED
  BY <1>4, <1>5, <1>6 DEF DataInv

\* Choosing how much to read, and moving both pointers of an empty buffer to 0.
LEMMA DataReaderCheck ==
    ASSUME DataInv, ReaderCheck, TypeOK'
    PROVE  DataInv'
<1>0. Sizes
  BY DataSizes
<1> USE DEF Sizes
<1>1. CASE rpc' # "inRead"
  <2>1. DataFrame
    BY <1>1 DEF ReaderCheck, DataFrame, pipeVars, resultVars, callVars,
                DataInv, ReadHasRoom
  <2> QED
    BY <2>1, DataFrameStep
<1>2. CASE rpc' = "inRead"
  <2>1. /\ UNCHANGED <<stream, fetched, buffer, received, triedToStartReader>>
        /\ rpc = "check" /\ numBytes' = Room(rptr', wptr')
        /\ rptr' = IF rptr = wptr THEN 0 ELSE rptr
        /\ wptr' = IF rptr = wptr THEN 0 ELSE wptr
    BY <1>2 DEF ReaderCheck, pipeVars, resultVars, callVars
  <2>2. InFlight = 0 /\ InFlight' = 0
    BY <1>2, <2>1 DEF InFlight
  <2>3. /\ BytesInBuffer \in 0 .. BufferSize - 1
        /\ BytesInBuffer = IF rptr <= wptr THEN wptr - rptr
                           ELSE wptr + BufferSize - rptr
        /\ BytesInBuffer' = IF rptr' <= wptr' THEN wptr' - rptr'
                            ELSE wptr' + BufferSize - rptr'
        /\ rptr \in 0 .. BufferSize - 1 /\ wptr \in 0 .. BufferSize - 1
    BY <1>0, BytesInBufferValueNext
  <2>4. BytesInBuffer' = BytesInBuffer
    BY <2>1, <2>3, BufferSizeAssumption
  <2>5. GapIsInBuffer'
    <3>1. CASE rptr = wptr
      BY <3>1, <2>1, <2>2, <2>3, <2>4 DEF DataInv, GapIsInBuffer
    <3>2. CASE rptr # wptr
      BY <3>2, <2>1, <2>2, <2>4 DEF DataInv, GapIsInBuffer
    <3> QED
      BY <3>1, <3>2
  <2>6. DeliveredInOrder'
    BY <2>1 DEF DataInv, DeliveredInOrder
  <2>7. ReadHasRoom'
    <3>1. /\ wptr' + numBytes' <= BufferSize
          /\ BytesInBuffer' + numBytes' <= BufferSize - 1
      BY <2>1, RoomFits DEF TypeOK, BytesInBuffer
    <3>2. triedToStartReader'
      BY <2>1 DEF DataInv, ReadHasRoom
    <3> QED
      BY <1>2, <2>1, <3>1, <3>2 DEF DataInv, ReadHasRoom
  <2> QED
    BY <2>5, <2>6, <2>7 DEF DataInv
<1> QED
  BY <1>1, <1>2

\* ::read() fills the free bytes behind wptr, none of those in the buffer.
LEMMA DataReaderRead ==
    ASSUME DataInv, NEW n \in 1 .. BufferSize, ReaderRead(n), TypeOK'
    PROVE  DataInv'
<1>0. Sizes
  BY DataSizes
<1> USE DEF Sizes
<1>1. /\ UNCHANGED <<stream, rptr, wptr, received, triedToStartReader>>
      /\ rpc = "inRead" /\ rpc' = "lockAfterRead" /\ numRead' = n
      /\ fetched' = fetched + n
      /\ buffer' = [i \in 0 .. BufferSize - 1 |->
                      IF wptr <= i /\ i < wptr + n
                        THEN stream[fetched + 1 + i - wptr] ELSE buffer[i]]
  BY DEF ReaderRead, ReadsTo, callVars, resultVars
<1>2. n \in Nat /\ n > 0 /\ n <= numBytes /\ n <= Len(stream) - fetched
  <2>1. numBytes \in Nat /\ fetched \in Nat /\ Len(stream) \in Nat
    BY <1>0 DEF TypeOK
  <2> QED
    BY <2>1, BufferSizeAssumption DEF ReaderRead, ReadsTo, SmallerOf
<1>3. /\ wptr + n <= BufferSize /\ BytesInBuffer + n <= BufferSize - 1
  <2>1. numBytes \in Nat
    BY <1>0 DEF TypeOK
  <2>2. /\ wptr + numBytes <= BufferSize
        /\ BytesInBuffer + numBytes <= BufferSize - 1
    BY <1>1 DEF DataInv, ReadHasRoom
  <2> QED
    BY <1>2, <2>1, <2>2, <1>0
<1>4. BytesInBuffer' = BytesInBuffer /\ InFlight = 0 /\ InFlight' = n
  BY <1>1, <1>2 DEF BytesInBuffer, InFlight
<1>5. GapIsInBuffer'
  <2>1. fetched' = Len(received') + BytesInBuffer' + InFlight'
    BY <1>1, <1>2, <1>4, <1>0
  <2>2. ASSUME NEW k \in 0 .. BytesInBuffer + n - 1
        PROVE  buffer'[(rptr + k) % BufferSize] = stream[Len(received) + 1 + k]
    <3> DEFINE s == IF rptr + k < BufferSize THEN rptr + k
                    ELSE rptr + k - BufferSize
    <3>1. (rptr + k) % BufferSize = s /\ s \in 0 .. BufferSize - 1
      <4>1. k \in 0 .. BufferSize - 1
        BY <1>2, <1>3, <1>0, BufferSizeAssumption
      <4>2. (rptr + k) % BufferSize = s
        BY <4>1, SlotValue, <1>0
      <4>3. s \in 0 .. BufferSize - 1
        BY <4>1, <1>0
      <4> QED
        BY <4>2, <4>3
    <3>2. CASE k < BytesInBuffer
      <4>1. ~(wptr <= s /\ s < wptr + n)
        BY <1>2, <1>3, <3>2, <1>0, BufferSizeAssumption
      <4>2. buffer'[s] = buffer[s]
        BY <1>1, <3>1, <4>1
      <4>3. k \in 0 .. BytesInBuffer + InFlight - 1
        BY <1>4, <3>2, <1>0
      <4>4. buffer[(rptr + k) % BufferSize] = stream[Len(received) + 1 + k]
        BY <4>3 DEF DataInv, GapIsInBuffer
      <4> QED
        BY <3>1, <4>2, <4>4
    <3>3. CASE ~(k < BytesInBuffer)
      <4>1. s = wptr + (k - BytesInBuffer)
        BY <1>2, <1>3, <3>3, <1>0, BufferSizeAssumption
      <4>2. wptr <= s /\ s < wptr + n
        BY <1>2, <3>3, <4>1, <1>0, BufferSizeAssumption
      <4>3. fetched + 1 + s - wptr = Len(received) + 1 + k
        <5>1. /\ fetched = Len(received) + BytesInBuffer + InFlight
              /\ Len(received) \in Nat /\ BytesInBuffer \in Nat /\ wptr \in Nat
          BY <1>0
        <5> HIDE DEF s
        <5> QED
          BY <1>4, <4>1, <5>1
      <4> QED
        BY <1>1, <3>1, <4>2, <4>3
    <3> QED
      BY <3>2, <3>3
  <2> QED
    BY <1>1, <1>4, <2>1, <2>2 DEF GapIsInBuffer
<1>6. DeliveredInOrder'
  BY <1>1 DEF DataInv, DeliveredInOrder
<1>7. ReadHasRoom'
  <2>1. fetched' <= Len(stream')
    <3>1. fetched \in Nat /\ Len(stream) \in Nat
      BY <1>0
    <3> QED
      BY <1>1, <1>2, <3>1
  <2>2. /\ wptr' + numRead' <= BufferSize
        /\ BytesInBuffer' + numRead' <= BufferSize - 1
    BY <1>1, <1>3, <1>4, Zenon
  <2>3. triedToStartReader'
    BY <1>1, Zenon DEF DataInv, ReadHasRoom
  <2>4. rpc' # "inRead"
    BY <1>1, Zenon
  <2> QED
    BY <2>1, <2>2, <2>3, <2>4, Zenon DEF ReadHasRoom
<1> QED
  BY <1>5, <1>6, <1>7 DEF DataInv

\* The bytes read become part of the buffer.
LEMMA DataReaderCommits ==
    ASSUME DataInv, ReaderCommits, TypeOK'
    PROVE  DataInv'
<1>0. Sizes
  BY DataSizes
<1> USE DEF Sizes
<1>1. /\ UNCHANGED <<stream, fetched, rptr, buffer, received, numRead,
                     triedToStartReader>>
      /\ rpc = "lockAfterRead" /\ rpc' = "loop"
      /\ wptr' = IF numRead > 0 THEN Advance(wptr, numRead) ELSE wptr
  BY DEF ReaderCommits, pipeVars, callVars, resultVars
<1>2. numRead \in Int
  BY <1>0 DEF TypeOK
<1>3. InFlight' = 0 /\ InFlight = IF numRead > 0 THEN numRead ELSE 0
  BY <1>1 DEF InFlight
<1>4. BytesInBuffer' = BytesInBuffer + InFlight
  <2>1. CASE numRead > 0
    <3>1. /\ wptr + numRead <= BufferSize
          /\ BytesInBuffer + numRead <= BufferSize - 1
      BY <1>1 DEF DataInv, ReadHasRoom
    <3>2. numRead \in 0 .. BufferSize
      BY <1>2, <2>1, <3>1, <1>0, BufferSizeAssumption
    <3>3. wptr' = IF wptr + numRead < BufferSize THEN wptr + numRead
                  ELSE wptr + numRead - BufferSize
      BY <1>1, <2>1, <3>2, AdvanceIsPointer, <1>0
    <3>4. BytesInBuffer' = IF rptr <= wptr' THEN wptr' - rptr
                           ELSE wptr' + BufferSize - rptr
      BY <1>1, BytesInBufferValueNext
    <3> QED
      BY <1>2, <1>3, <2>1, <3>1, <3>3, <3>4, <1>0, BufferSizeAssumption
  <2>2. CASE ~(numRead > 0)
    BY <1>1, <1>3, <2>2, <1>0 DEF BytesInBuffer
  <2> QED
    BY <2>1, <2>2
<1>5. BytesInBuffer' + InFlight' = BytesInBuffer + InFlight
  BY <1>3, <1>4, <1>0
<1>6. GapIsInBuffer'
  <2>1. Len(received') = Len(received)
    BY <1>1
  <2>2. fetched' = Len(received') + BytesInBuffer' + InFlight'
    <3>1. /\ fetched = Len(received) + BytesInBuffer + InFlight
          /\ Len(received) \in Nat /\ BytesInBuffer \in Nat /\ InFlight \in Nat
      BY <1>0
    <3>2. InFlight' = 0 /\ fetched' = fetched
      BY <1>1, <1>3
    <3> QED
      BY <1>4, <2>1, <3>1, <3>2
  <2>3. ASSUME NEW k \in 0 .. BytesInBuffer' + InFlight' - 1
        PROVE  buffer'[(rptr' + k) % BufferSize]
                  = stream'[Len(received') + 1 + k]
    <3>1. k \in 0 .. BytesInBuffer + InFlight - 1
      BY <1>0, <1>3, <1>4, <2>3
    <3>2. buffer[(rptr + k) % BufferSize] = stream[Len(received) + 1 + k]
      BY <3>1 DEF DataInv, GapIsInBuffer
    <3> QED
      BY <1>1, <2>1, <3>2
  <2> QED
    BY <2>2, <2>3 DEF GapIsInBuffer
<1>7. DeliveredInOrder'
  BY <1>1 DEF DataInv, DeliveredInOrder
<1>8. ReadHasRoom'
  BY <1>1 DEF DataInv, ReadHasRoom
<1> QED
  BY <1>6, <1>7, <1>8 DEF DataInv

\* readData() takes the oldest bytes of the buffer.
LEMMA DataTakeBytes ==
    ASSUME DataInv, TypeOK', NEW woken, TakeBytes(woken),
           UNCHANGED <<stream, fetched, wptr, buffer, rpc, numBytes, numRead,
                       triedToStartReader>>
    PROVE  DataInv'
<1>0. Sizes
  BY DataSizes
<1> USE DEF Sizes
<1>1. InFlight' = InFlight
  BY DEF InFlight
<1>2. CASE BufferEmpty
  <2>1. DataFrame
    BY <1>2 DEF TakeBytes, DataFrame, DataInv, ReadHasRoom
  <2> QED
    BY <2>1, DataFrameStep
<1>3. CASE ~BufferEmpty
  <2> DEFINE n == NumToCopy
  <2>1. /\ n \in Nat /\ n <= BytesInBuffer /\ rptr + n <= BufferSize
        /\ n \in 0 .. BufferSize
    <3>1. n \in Nat /\ n <= BytesInBuffer /\ rptr + n <= BufferSize
      BY <1>3, CopyFits, <1>0
    <3> QED
      BY <3>1, <1>0, BufferSizeAssumption
  <2>2. /\ received' = received \o CopiedBytes
        /\ rptr' = Advance(rptr, n)
    BY <1>3 DEF TakeBytes
  <2>3. rptr' = IF rptr + n < BufferSize THEN rptr + n
                ELSE rptr + n - BufferSize
    BY <2>1, <2>2, AdvanceIsPointer, <1>0
  <2>4. /\ Len(received') = Len(received) + n
        /\ \A k \in 1 .. Len(received) : received'[k] = received[k]
        /\ \A k \in Len(received) + 1 .. Len(received) + n :
              received'[k] = buffer[rptr + (k - Len(received)) - 1]
    <3>1. /\ CopiedBytes \in Seq(Nat) /\ Len(CopiedBytes) = n
          /\ \A k \in 1 .. n : CopiedBytes[k] = buffer[rptr + k - 1]
      BY CopiedBytesAreASequence, <1>0
    <3>2. received \in Seq(Nat) /\ Len(received) \in Nat
      BY <1>0 DEF TypeOK
    <3>3. Len(received') = Len(received) + n
      BY <2>2, <3>1, <3>2, ConcatProperties
    <3>4. \A k \in 1 .. Len(received) : received'[k] = received[k]
      BY <2>1, <2>2, <3>1, <3>2, ConcatProperties
    <3>5. ASSUME NEW k \in Len(received) + 1 .. Len(received) + n
          PROVE  received'[k] = buffer[rptr + (k - Len(received)) - 1]
      <4>1. k - Len(received) \in 1 .. n
        BY <2>1, <3>2
      <4>2. received'[k] = CopiedBytes[k - Len(received)]
        BY <2>1, <2>2, <3>1, <3>2, ConcatProperties
      <4> QED
        BY <3>1, <4>1, <4>2
    <3> QED
      BY <3>3, <3>4, <3>5
  <2>5. BytesInBuffer' = BytesInBuffer - n
    <3>1. BytesInBuffer' = IF rptr' <= wptr THEN wptr - rptr'
                           ELSE wptr + BufferSize - rptr'
      BY BytesInBufferValueNext
    <3>2. rptr' \in 0 .. BufferSize - 1
      BY DEF TypeOK
    <3> QED
      BY <2>1, <2>3, <3>1, <3>2, <1>0, BufferSizeAssumption
  <2>6. GapIsInBuffer'
    <3>1. fetched' = Len(received') + BytesInBuffer' + InFlight'
      <4>1. fetched' = fetched
        OBVIOUS
      <4>2. /\ fetched = Len(received) + BytesInBuffer + InFlight
            /\ Len(received) \in Nat /\ BytesInBuffer \in Nat /\ InFlight \in Nat
        BY <1>0
      <4>3. n \in Nat /\ Len(received') = Len(received) + n
        BY <2>1, <2>4
      <4> HIDE DEF n
      <4> QED
        BY <1>1, <2>5, <4>1, <4>2, <4>3
    <3>2. ASSUME NEW k \in 0 .. BytesInBuffer' + InFlight' - 1
          PROVE  buffer'[(rptr' + k) % BufferSize]
                    = stream'[Len(received') + 1 + k]
      <4>1. k + n \in 0 .. BytesInBuffer + InFlight - 1
        BY <1>1, <2>1, <2>5, <1>0
      <4>2. buffer[(rptr + (k + n)) % BufferSize]
               = stream[Len(received) + 1 + (k + n)]
        BY <4>1 DEF DataInv, GapIsInBuffer
      <4>3. (rptr' + k) % BufferSize = (rptr + (k + n)) % BufferSize
        <5>1. k + n \in 0 .. BufferSize - 1 /\ k \in 0 .. BufferSize - 1
          BY <2>1, <4>1, <1>0, BufferSizeAssumption
        <5>2. rptr' \in 0 .. BufferSize - 1
          BY DEF TypeOK
        <5>3. (rptr + (k + n)) % BufferSize =
                IF rptr + (k + n) < BufferSize THEN rptr + (k + n)
                ELSE rptr + (k + n) - BufferSize
          BY <5>1, SlotValue, <1>0
        <5>4. (rptr' + k) % BufferSize =
                IF rptr' + k < BufferSize THEN rptr' + k
                ELSE rptr' + k - BufferSize
          BY <5>1, <5>2, SlotValue
        <5> QED
          BY <2>1, <2>3, <5>1, <5>3, <5>4, <1>0, BufferSizeAssumption
      <4>4. Len(received') + 1 + k = Len(received) + 1 + (k + n)
        BY <2>1, <2>4, <4>1, <1>0
      <4> QED
        BY <4>2, <4>3, <4>4
    <3> QED
      BY <3>1, <3>2 DEF GapIsInBuffer
  <2>7. DeliveredInOrder'
    <3>1. Len(received') <= Len(stream')
      <4>1. /\ fetched = Len(received) + BytesInBuffer + InFlight
            /\ Len(received) \in Nat /\ BytesInBuffer \in Nat /\ InFlight \in Nat
            /\ fetched <= Len(stream) /\ Len(stream) \in Nat
        BY <1>0
      <4>2. /\ n \in Nat /\ n <= BytesInBuffer /\ stream' = stream
            /\ Len(received') = Len(received) + n
        BY <2>1, <2>4
      <4> HIDE DEF n
      <4> QED
        BY <4>1, <4>2
    <3>2. ASSUME NEW k \in 1 .. Len(received')
          PROVE  received'[k] = stream'[k]
      <4>1. CASE k <= Len(received)
        BY <2>4, <4>1, <1>0 DEF DataInv, DeliveredInOrder
      <4>2. CASE ~(k <= Len(received))
        <5> DEFINE j == k - Len(received) - 1
        <5>1. j \in 0 .. n - 1 /\ k \in Len(received) + 1 .. Len(received) + n
          BY <2>1, <2>4, <4>2, <1>0
        <5>2. received'[k] = buffer[rptr + j]
          <6>1. received'[k] = buffer[rptr + (k - Len(received)) - 1]
            BY <2>4, <5>1
          <6>2. rptr + (k - Len(received)) - 1 = rptr + j
            BY <5>1, <1>0
          <6> QED
            BY <6>1, <6>2
        <5>3. (rptr + j) % BufferSize = rptr + j
          <6>1. j \in 0 .. BufferSize - 1 /\ rptr + j < BufferSize
            BY <2>1, <5>1, <1>0, BufferSizeAssumption
          <6> QED
            BY <6>1, SlotValue, <1>0
        <5>4. j \in 0 .. BytesInBuffer + InFlight - 1
          BY <2>1, <5>1, <1>0
        <5>5. buffer[(rptr + j) % BufferSize] = stream[Len(received) + 1 + j]
          BY <5>4 DEF DataInv, GapIsInBuffer
        <5>6. Len(received) + 1 + j = k
          BY <5>1, <1>0
        <5> QED
          BY <5>2, <5>3, <5>5, <5>6
      <4> QED
        BY <4>1, <4>2
    <3> QED
      BY <3>1, <3>2 DEF DeliveredInOrder
  <2>8. ReadHasRoom'
    <3>1. BytesInBuffer' <= BytesInBuffer /\ BytesInBuffer' \in Nat
      BY <2>1, <2>5, <1>0
    <3>2. numBytes \in Int /\ numRead \in Int
      BY <1>0 DEF TypeOK
    <3>3. BytesInBuffer \in Nat /\ BufferSize \in Nat
      BY <1>0
    <3>4. ASSUME rpc = "inRead"
          PROVE  BytesInBuffer' + numBytes <= BufferSize - 1
      <4>1. BytesInBuffer + numBytes <= BufferSize - 1
        BY <3>4 DEF DataInv, ReadHasRoom
      <4> QED
        BY <3>1, <3>2, <3>3, <4>1, StillFits, Zenon
    <3>5. ASSUME rpc = "lockAfterRead"
          PROVE  BytesInBuffer' + numRead <= BufferSize - 1
      <4>1. BytesInBuffer + numRead <= BufferSize - 1
        BY <3>5 DEF DataInv, ReadHasRoom
      <4> QED
        BY <3>1, <3>2, <3>3, <4>1, StillFits, Zenon
    <3> QED
      BY <3>4, <3>5 DEF DataInv, ReadHasRoom
  <2> QED
    BY <2>6, <2>7, <2>8 DEF DataInv
<1> QED
  BY <1>2, <1>3

LEMMA DataInit == Init => DataInv
<1> SUFFICES ASSUME Init PROVE DataInv
  OBVIOUS
<1>1. TypeOK
  BY TypeInit
<1>2. /\ Len(stream) = 0 /\ Len(received) = 0 /\ fetched = 0
      /\ rptr = 0 /\ wptr = 0 /\ rpc = "idle"
  BY EmptySeq DEF Init
<1>3. BytesInBuffer = 0
  BY <1>1, <1>2, BytesInBufferValue
<1>4. InFlight = 0
  BY <1>2 DEF InFlight
<1>5. GapIsInBuffer
  BY <1>2, <1>3, <1>4 DEF GapIsInBuffer
<1>6. DeliveredInOrder
  BY <1>2 DEF DeliveredInOrder
<1>7. ReadHasRoom
  BY <1>2 DEF ReadHasRoom
<1> QED
  BY <1>1, <1>5, <1>6, <1>7 DEF DataInv

LEMMA DataStep == DataInv /\ [Next]_vars => DataInv'
<1> SUFFICES ASSUME DataInv, TypeOK' PROVE [Next]_vars => DataInv'
  BY TypeStep DEF DataInv
<1> USE DEF pipeVars, threadVars, flagVars, bufferVars, callVars, slotVars,
            resultVars
<1>1. ~triedToStartReader => rpc = "idle"
  BY DEF DataInv, ReadHasRoom
<1>2. ASSUME PeerWrite
      PROVE  DataInv'
  BY <1>2, PeerWriteAppends, DataPeerAppends DEF DataInv
<1>3. ASSUME ReaderStep
      PROVE  DataInv'
  <2>1. ASSUME ReaderCheck
        PROVE  DataInv'
    BY <2>1, DataReaderCheck
  <2>2. ASSUME NEW n \in 1 .. BufferSize, ReaderRead(n)
        PROVE  DataInv'
    BY <2>2, DataReaderRead
  <2>3. ASSUME ReaderCommits
        PROVE  DataInv'
    BY <2>3, DataReaderCommits
  <2>4. ASSUME ReaderReadsEof \/ ReaderReadFails
        PROVE  DataInv'
    <3>1. /\ UNCHANGED <<stream, fetched, rptr, wptr, buffer, received,
                         triedToStartReader>>
          /\ rpc = "inRead" /\ rpc' = "lockAfterRead" /\ numRead' \in {0, -1}
      BY <2>4 DEF ReaderReadsEof, ReaderReadFails, ReadsNothing
    <3>2. /\ BytesInBuffer' = BytesInBuffer /\ InFlight = 0 /\ InFlight' = 0
      BY <3>1 DEF BytesInBuffer, InFlight
    <3>3. GapIsInBuffer' /\ DeliveredInOrder'
      BY <3>1, <3>2 DEF DataInv, GapIsInBuffer, DeliveredInOrder
    <3>4. ReadHasRoom'
      <4>1. Sizes
        BY DataSizes
      <4>2. /\ wptr + numRead' <= BufferSize
            /\ BytesInBuffer + numRead' <= BufferSize - 1
        <5>1. /\ wptr \in Nat /\ wptr < BufferSize /\ BytesInBuffer \in Nat
              /\ BytesInBuffer <= BufferSize - 1 /\ BufferSize \in Nat
          BY <3>2, <4>1 DEF Sizes
        <5>2. CASE numRead' = 0
          BY <5>1, <5>2
        <5>3. CASE numRead' = -1
          BY <5>1, <5>3
        <5> QED
          BY <3>1, <5>2, <5>3
      <4> QED
        BY <1>1, <3>1, <3>2, <4>2 DEF DataInv, ReadHasRoom
    <3> QED
      BY <3>3, <3>4 DEF DataInv
  <2>5. ASSUME \/ ReaderStarts \/ ReaderLoop \/ NotifyReadyRead
               \/ ReaderAfterEofNotice \/ ReaderFullLoop \/ ReaderFullRecheck
        PROVE  DataInv'
    <3>1. DataFrame
      BY <1>1, <2>5
         DEF ReaderStarts, ReaderLoop, NotifyReadyRead, ReaderAfterEofNotice,
             ReaderFullLoop, ReaderFullRecheck, SleepOn, DataFrame
    <3> QED
      BY <3>1, DataFrameStep
  <2>6. ASSUME ReaderResumes
        PROVE  DataInv'
    <3>1. rret \in LockedAt
      BY DEF DataInv, TypeOK
    <3>2. DataFrame
      BY <1>1, <2>6, <3>1 DEF ReaderResumes, LockedAt, DataFrame
    <3> QED
      BY <3>2, DataFrameStep
  <2> QED
    BY <1>3, <2>1, <2>2, <2>3, <2>4, <2>5, <2>6 DEF ReaderStep, ReaderRuns
<1>4. ASSUME ReadWithoutBlocking
      PROVE  DataInv'
  BY <1>4, DataTakeBytes DEF ReadWithoutBlocking
<1>5. ASSUME ReadWoken
      PROVE  DataInv'
  BY <1>5, DataTakeBytes DEF ReadWoken
<1>6. ASSUME NEW c, NEW n, ClientCalls(c, n)
      PROVE  DataInv'
  <2>1. DataFrame
    BY <1>1, <1>6 DEF ClientCalls, DataFrame
  <2> QED
    BY <2>1, DataFrameStep
<1>7. ASSUME \/ PeerClose \/ ClientStarted \/ ClientQuery \/ ClientAtEnd
             \/ ReadShortCut \/ ReadLimitsSize \/ ReadBlocks
             \/ WaitReturnsAtOnce \/ WaitBlocks \/ WaitEnds
             \/ CloseWakes \/ CloseJoins \/ SlotReturnsClosed
             \/ DeliverReadyRead \/ SlotReturns \/ CloseCancels
      PROVE  DataInv'
  <2>1. DataFrame
    BY <1>1, <1>7
       DEF PeerClose, ClientStarted, ClientQuery, ClientAtEnd, ReadShortCut,
           ReadLimitsSize, ReadBlocks, WaitReturnsAtOnce, WaitBlocks, WaitEnds,
           CloseWakes, CloseJoins, SlotReturnsClosed, DeliverReadyRead,
           SlotReturns, CloseCancels, DataFrame
  <2> QED
    BY <2>1, DataFrameStep
<1>8. ASSUME UNCHANGED vars
      PROVE  DataInv'
  <2>1. DataFrame
    BY <1>1, <1>8 DEF vars, DataFrame
  <2> QED
    BY <2>1, DataFrameStep
<1>9. ASSUME Terminated
      PROVE  DataInv'
  BY <1>8, <1>9 DEF Terminated
<1>10. ASSUME ClientContinues
       PROVE  DataInv'
  BY <1>4, <1>5, <1>7, <1>10 DEF ClientContinues
<1>11. ASSUME ClientBegins
       PROVE  DataInv'
  BY <1>6, <1>7, <1>11 DEF ClientBegins
<1> QED
  BY <1>2, <1>3, <1>7, <1>8, <1>9, <1>10, <1>11 DEF Next

\* The strengthened invariant.
THEOREM DataIsSafe == Spec => []DataInv
<1>1. Init => DataInv
  BY DataInit
<1>2. DataInv /\ [Next]_vars => DataInv'
  BY DataStep
<1> QED
  BY <1>1, <1>2, PTL DEF Spec

\* What the client has got is always the beginning of what the peer wrote, and
\* what has been read from the descriptor and not been delivered is in the ring
\* buffer, where readData() will look for it.
THEOREM NothingLostOrReordered == Spec => []StreamIsIntact
<1>1. DataInv => StreamIsIntact
  BY DEF DataInv, StreamIsIntact
<1> QED
  BY <1>1, DataIsSafe, PTL

-----------------------------------------------------------------------------
(***************************************************************************)
(* The end of the stream, and who wakes whom.  Once end of file or an      *)
(* error is known, run() does not read any more, so a buffer found empty   *)
(* stays empty: this is what makes eofShortCut and wasEmpty, which are     *)
(* never taken back, true for good.  A consumer that is still asleep       *)
(* although there is something for it (Readable) has a thread on the way   *)
(* to notifyReadyRead(), with the mutex held all the way.                  *)
(***************************************************************************)

EndInv ==
    /\ eof \/ (rpc = "lockAfterRead" /\ numRead = 0) =>
          ~writeEndOpen /\ fetched = Len(stream)
    /\ eof \/ error => rpc \notin {"inRead", "lockAfterRead"}
    /\ eofShortCut \/ wasEmpty => BufferEmpty /\ (eof \/ error)
    /\ outcome \in {"eof", "atEnd"} /\ ~error => BufferEmpty /\ eof

Asleep == cpc = "blocked" /\ cwait # "none"

WakeInv ==
    /\ rwait # "none" => rpc = "waiting"
    /\ rwait \in {"none", "waitForCancel", "bufferNotFull", "readyReadSent",
                  "blockedConsumerIsDone"}
    /\ rpc \in {"waiting", "notify"} => rret \in {"eofReturn", "full", "fullRecheck"}
    /\ consumerBlocksOnUs <=> cpc = "blocked"
    /\ cpc = "blocked" => cwait \in {"none", "bufferNotEmpty"}
    /\ cancel <=> cpc \in {"closing", "joining", "closed"}
    /\ rpc = "finished" => cancel
    /\ rpc = "notify" => ~cancel /\ Readable
    /\ rret = "eofReturn" \/ rpc = "eofReturn" => eof \/ error
    /\ Asleep /\ Readable =>
          rpc \in {"loop", "notify"} \/ (rpc = "full" /\ BufferFull /\ ~error)

WaitInv == DataInv /\ EndInv /\ WakeInv /\ NobodySleepsForever

\* What a step may do to an empty and to a full buffer.
LEMMA FullIsNotEmpty == BufferFull => ~BufferEmpty
  BY BufferSizeAssumption DEF BufferFull, BufferEmpty

LEMMA SameBuffer ==
    ASSUME UNCHANGED <<rptr, wptr>>
    PROVE  (BufferEmpty' <=> BufferEmpty) /\ (BufferFull' <=> BufferFull)
  BY DEF BufferEmpty, BufferFull, BytesInBuffer

LEMMA ResetKeepsBytes ==
    ASSUME TypeOK, TypeOK', ReaderCheck
    PROVE  (BufferEmpty' <=> BufferEmpty) /\ (BufferFull' <=> BufferFull)
<1>1. CASE UNCHANGED <<rptr, wptr>>
  BY <1>1, SameBuffer
<1>2. CASE rptr = wptr /\ rptr' = 0 /\ wptr' = 0
  <2>1. BytesInBuffer = 0
    BY <1>2, BytesInBufferValue DEF TypeOK
  <2>2. BytesInBuffer' = 0
    BY <1>2, BytesInBufferValueNext
  <2> QED
    BY <2>1, <2>2 DEF BufferEmpty, BufferFull
<1> QED
  BY <1>1, <1>2 DEF ReaderCheck

LEMMA CommitsOnlyAdd ==
    ASSUME DataInv, TypeOK', ReaderCommits
    PROVE  /\ BufferEmpty' => BufferEmpty
           /\ numRead <= 0 => (BufferEmpty' <=> BufferEmpty) /\ (BufferFull' <=> BufferFull)
<1>1. CASE numRead <= 0
  <2>1. UNCHANGED <<rptr, wptr>>
    BY <1>1 DEF ReaderCommits, DataInv, TypeOK
  <2> QED
    BY <2>1, SameBuffer
<1>2. CASE numRead > 0
  <2>1. /\ numRead \in Int /\ wptr \in 0 .. BufferSize - 1 /\ rptr \in 0 .. BufferSize - 1
        /\ wptr + numRead <= BufferSize /\ BytesInBuffer + numRead <= BufferSize - 1
    BY DEF ReaderCommits, DataInv, TypeOK, ReadHasRoom
  <2>2. numRead \in 0 .. BufferSize
    BY <1>2, <2>1, BufferSizeAssumption
  <2>3. wptr' = IF wptr + numRead < BufferSize THEN wptr + numRead
                ELSE wptr + numRead - BufferSize
    BY <1>2, <2>1, <2>2, AdvanceIsPointer DEF ReaderCommits
  <2>4. rptr' = rptr
    BY DEF ReaderCommits
  <2>5. BytesInBuffer = IF rptr <= wptr THEN wptr - rptr
                        ELSE wptr + BufferSize - rptr
    BY BytesInBufferValue DEF DataInv
  <2>6. BytesInBuffer' = IF rptr <= wptr' THEN wptr' - rptr
                         ELSE wptr' + BufferSize - rptr
    BY <2>4, BytesInBufferValueNext
  <2>7. BytesInBuffer' # 0
    BY <1>2, <2>1, <2>3, <2>5, <2>6, BufferSizeAssumption
  <2> QED
    BY <1>2, <2>1, <2>7 DEF BufferEmpty
<1> QED
  BY <1>1, <1>2 DEF DataInv, TypeOK

LEMMA WaitInit == Init => WaitInv
<1> SUFFICES ASSUME Init PROVE WaitInv
  OBVIOUS
<1>1. EndInv
  BY DEF Init, EndInv
<1>2. WakeInv
  BY DEF Init, WakeInv, Asleep
<1>3. NobodySleepsForever
  BY DEF Init, NobodySleepsForever
<1> QED
  BY <1>1, <1>2, <1>3, DataInit DEF WaitInv

LEMMA WaitTakeBytes ==
    ASSUME WaitInv, ReadWithoutBlocking \/ ReadWoken
    PROVE  EndInv' /\ WakeInv' /\ NobodySleepsForever'
<1> USE DEF WaitInv, EndInv, WakeInv, Asleep, Readable, NobodySleepsForever, Woken,
            ReaderHoldsMutex, LockedAt, pipeVars, slotVars
<1>1. Readable /\ UNCHANGED wptr
  BY DEF ReadWithoutBlocking, ReadWoken
<1>2. CASE BufferEmpty
  <2>1. UNCHANGED <<rptr, wptr>>
    BY <1>2 DEF ReadWithoutBlocking, ReadWoken, TakeBytes
  <2>2. BufferEmpty'
    BY <1>2, <2>1, SameBuffer
  <2>3. CASE ReadWithoutBlocking
    BY <1>1, <1>2, <2>2, <2>3, FullIsNotEmpty DEF ReadWithoutBlocking, TakeBytes
  <2>4. CASE ReadWoken
    BY <1>1, <1>2, <2>2, <2>4, FullIsNotEmpty DEF ReadWoken, TakeBytes
  <2> QED
    BY <2>3, <2>4
<1>3. CASE ~BufferEmpty
  <2>1. CASE ReadWithoutBlocking
    BY <1>1, <1>3, <2>1 DEF ReadWithoutBlocking, TakeBytes
  <2>2. CASE ReadWoken
    BY <1>1, <1>3, <2>2 DEF ReadWoken, TakeBytes
  <2> QED
    BY <2>1, <2>2
<1> QED
  BY <1>2, <1>3

\* None of this depends on what the peer writes, as long as its end is open.
LEMMA WaitPeerAppends ==
    ASSUME WaitInv, PeerAppends
    PROVE  WaitInv'
<1>1. TypeOK'
  BY DEF WaitInv, DataInv, TypeOK, PeerAppends, threadVars, flagVars, bufferVars,
         callVars, slotVars, resultVars
<1>2. DataInv'
  BY <1>1, DataPeerAppends DEF WaitInv
<1>3. (BufferEmpty' <=> BufferEmpty) /\ (BufferFull' <=> BufferFull)
  BY SameBuffer DEF PeerAppends, bufferVars
<1>4. EndInv' /\ WakeInv' /\ NobodySleepsForever'
  BY <1>3
     DEF WaitInv, EndInv, WakeInv, Asleep, Readable, NobodySleepsForever, PeerAppends,
         threadVars, flagVars, bufferVars, callVars, slotVars, resultVars
<1> QED
  BY <1>2, <1>4 DEF WaitInv

LEMMA WaitStep == WaitInv /\ [Next]_vars => WaitInv'
<1> SUFFICES ASSUME WaitInv, [Next]_vars PROVE EndInv' /\ WakeInv' /\ NobodySleepsForever'
  BY DataStep DEF WaitInv
<1>0. DataInv /\ DataInv' /\ TypeOK /\ TypeOK'
  BY DataStep DEF WaitInv, DataInv
<1>t. /\ queuedReadyRead \in Nat /\ stream \in Seq(Nat) /\ fetched \in Nat /\ numRead \in Int
      /\ ~triedToStartReader => rpc = "idle"
  BY <1>0 DEF TypeOK, DataInv, ReadHasRoom
<1>f. BufferFull => ~BufferEmpty
  BY FullIsNotEmpty
<1>s. UNCHANGED <<rptr, wptr>> =>
         (BufferEmpty' <=> BufferEmpty) /\ (BufferFull' <=> BufferFull)
  BY SameBuffer
<1> USE DEF WaitInv, EndInv, WakeInv, Asleep, Readable, NobodySleepsForever, Woken, SleepOn,
            ReaderHoldsMutex, LockedAt, pipeVars, threadVars, flagVars, bufferVars,
            callVars, slotVars, resultVars
<1> DEFINE Goal == EndInv' /\ WakeInv' /\ NobodySleepsForever'
<1>1. CASE PeerWrite
  BY <1>0, <1>1, PeerWriteAppends, WaitPeerAppends
<1>2. CASE PeerClose
  BY <1>2, <1>s, <1>f DEF PeerClose
<1>3. CASE ReaderStarts
  BY <1>3, <1>s, <1>f DEF ReaderStarts
<1>4. CASE ReaderResumes
  BY <1>4, <1>s, <1>f DEF ReaderResumes
<1>5. CASE ReaderLoop
  BY <1>5, <1>s, <1>f DEF ReaderLoop, AnnouncesEnd, AnnouncesData
<1>6. CASE NotifyReadyRead
  BY <1>6, <1>s, <1>f, <1>t DEF NotifyReadyRead
<1>7. CASE ReaderAfterEofNotice
  BY <1>7, <1>s, <1>f DEF ReaderAfterEofNotice
<1>8. CASE ReaderFullLoop
  BY <1>8, <1>s, <1>f DEF ReaderFullLoop
<1>9. CASE ReaderFullRecheck
  BY <1>9, <1>s, <1>f DEF ReaderFullRecheck
<1>10. CASE ReaderCheck
  <2>1. (BufferEmpty' <=> BufferEmpty) /\ (BufferFull' <=> BufferFull)
    BY <1>0, <1>10, ResetKeepsBytes
  <2> QED
    BY <1>10, <2>1, <1>f DEF ReaderCheck
<1>11. CASE ReaderReadsEof \/ ReaderReadFails
  BY <1>11, <1>s, <1>f DEF ReaderReadsEof, ReaderReadFails, ReadsNothing
<1>12. CASE ReaderCommits
  <2>1. /\ BufferEmpty' => BufferEmpty
        /\ numRead <= 0 => (BufferEmpty' <=> BufferEmpty) /\ (BufferFull' <=> BufferFull)
    BY <1>0, <1>12, CommitsOnlyAdd
  <2> QED
    BY <1>12, <2>1, <1>f, <1>t DEF ReaderCommits
<1>13. ASSUME NEW n \in 1 .. BufferSize, ReaderRead(n)
       PROVE  Goal
  <2>1. n # 0
    BY BufferSizeAssumption
  <2> QED
    BY <1>13, <2>1, <1>s, <1>f DEF ReaderRead
<1>14. ASSUME NEW c, NEW n, ClientCalls(c, n)
       PROVE  Goal
  BY <1>14, <1>s, <1>f, <1>t DEF ClientCalls
<1>15. CASE ClientStarted \/ ClientQuery \/ ClientAtEnd
  BY <1>15, <1>s, <1>f DEF ClientStarted, ClientQuery, ClientAtEnd, AtEnd
<1>16. CASE ReadShortCut
  BY <1>16, <1>s, <1>f DEF ReadShortCut
<1>17. CASE ReadLimitsSize
  BY <1>17, <1>s, <1>f DEF ReadLimitsSize
<1>18. CASE ReadWithoutBlocking \/ ReadWoken
  BY <1>18, WaitTakeBytes
<1>19. CASE ReadBlocks
  BY <1>19, <1>s, <1>f DEF ReadBlocks
<1>20. CASE WaitReturnsAtOnce \/ WaitBlocks \/ WaitEnds
  BY <1>20, <1>s, <1>f DEF WaitReturnsAtOnce, WaitBlocks, WaitEnds
<1>21. CASE DeliverReadyRead \/ SlotReturns \/ SlotReturnsClosed
  BY <1>21, <1>s, <1>f, <1>t DEF DeliverReadyRead, SlotReturns, SlotReturnsClosed
<1>22. CASE CloseCancels
  BY <1>22, <1>s, <1>f DEF CloseCancels, StopWakes
<1>23. CASE CloseWakes \/ CloseJoins
  BY <1>23, <1>s, <1>f DEF CloseWakes, CloseJoins
<1>24. CASE UNCHANGED vars
  BY <1>24, <1>s DEF vars
<1>25. Terminated => UNCHANGED vars
  BY DEF Terminated
<1>26. CASE ReaderStep
  BY <1>26, <1>3, <1>4, <1>5, <1>6, <1>7, <1>8, <1>9, <1>10, <1>11, <1>12, <1>13, Zenon
     DEF ReaderStep, ReaderRuns
<1>27. CASE ClientContinues
  BY <1>27, <1>15, <1>16, <1>17, <1>18, <1>19, <1>20, <1>21, <1>23, Zenon
     DEF ClientContinues
<1>28. CASE ClientBegins
  BY <1>28, <1>14, <1>21, <1>22, Zenon DEF ClientBegins
<1> HIDE DEF Goal
<1> QED
  BY <1>1, <1>2, <1>24, <1>25, <1>26, <1>27, <1>28, Zenon DEF Next, Goal

LEMMA WaitAlways == Spec => []WaitInv
  BY WaitInit, WaitStep, PTL DEF Spec

LEMMA WaitMeansEnd == WaitInv => EndIsTheEnd
<1> SUFFICES ASSUME WaitInv, outcome \in {"eof", "atEnd"}, ~error
             PROVE  ~writeEndOpen /\ Len(received) = Len(stream)
  BY DEF EndIsTheEnd
<1>1. BufferEmpty /\ ~writeEndOpen /\ fetched = Len(stream) /\ rpc # "lockAfterRead"
  BY DEF WaitInv, EndInv
<1>2. BytesInBuffer = 0 /\ InFlight = 0
  BY <1>1 DEF BufferEmpty, InFlight
<1>3. fetched = Len(received) + BytesInBuffer + InFlight /\ Len(received) \in Nat
  BY DEF WaitInv, DataInv, GapIsInBuffer, TypeOK
<1> QED
  BY <1>1, <1>2, <1>3

\* readData() returning 0 and atEnd() mean the end: the peer has closed its side and
\* every byte has been delivered (kdpipeiodevice.cpp: readData(), atEnd()).
THEOREM TheEndIsTheEnd == Spec => []EndIsTheEnd
  BY WaitMeansEnd, WaitAlways, PTL

\* No wake-up is lost between the thread, the consumer, the slot of readyRead() and
\* close() (kdpipeiodevice.cpp: run(), notifyReadyRead(), readData(), stopThreads()).
THEOREM NoLostWakeUp == Spec => []NobodySleepsForever
<1>1. WaitInv => NobodySleepsForever
  BY DEF WaitInv
<1> QED
  BY <1>1, WaitAlways, PTL

-----------------------------------------------------------------------------
(***************************************************************************)
(* The pair.  Each half keeps its own invariant: what the other half does  *)
(* to the pipe is what its peer may do.  The channel needs both, and that  *)
(* only close() ends the stream.                                           *)
(***************************************************************************)

WP == INSTANCE KDPipeWriterProofs

WriterInv == WP!Typed /\ WP!ControlInv /\ WP!DataInv

PairInv ==
    /\ WaitInv
    /\ WriterInv
    /\ ~writeEndOpen => wcpc = "closed"

\* W and WP are instances of the same module.
LEMMA SameInit == W!Init => WP!Init
  BY DEF WP!Init, W!Init

LEMMA SameThread == W!WriterStep => WP!WriterStep
<1> USE DEF WP!wpipeVars, W!wpipeVars, WP!wthreadVars, W!wthreadVars,
            WP!wcallVars, W!wcallVars, WP!wresultVars, W!wresultVars,
            WP!Woken, W!Woken, WP!EmptiedWakes, W!EmptiedWakes,
            WP!BufferEmpty, W!BufferEmpty
<1>1. W!WriterStarts => WP!WriterStarts
  BY DEF WP!WriterStarts, W!WriterStarts
<1>2. W!WriterLoop => WP!WriterLoop
  BY DEF WP!WriterLoop, W!WriterLoop, WP!WriterSleepsOn, W!WriterSleepsOn
<1>3. W!WriterResumes => WP!WriterResumes
  BY DEF WP!WriterResumes, W!WriterResumes
<1>4. W!WriterCheck => WP!WriterCheck
  BY DEF WP!WriterCheck, W!WriterCheck
<1>5. W!WriterCommits => WP!WriterCommits
  BY DEF WP!WriterCommits, W!WriterCommits
<1>6. W!WriterLeaves => WP!WriterLeaves
  BY DEF WP!WriterLeaves, W!WriterLeaves
<1>7. W!WriterWriteFails => WP!WriterWriteFails
  BY DEF WP!WriterWriteFails, W!WriterWriteFails
<1>8. ASSUME NEW n \in 1 .. WriteBufferSize, W!WriterWrite(n)
      PROVE  WP!WriterWrite(n)
  BY <1>8 DEF WP!WriterWrite, W!WriterWrite, WP!SmallerOf, W!SmallerOf, WP!Chunk, W!Chunk
<1> QED
  BY <1>1, <1>2, <1>3, <1>4, <1>5, <1>6, <1>7, <1>8, Zenon
     DEF WP!WriterStep, W!WriterStep, WP!WriterRuns, W!WriterRuns

LEMMA SameClient == W!ClientContinues \/ W!ClientBegins => WP!ClientContinues \/ WP!ClientBegins
<1> USE DEF WP!wpipeVars, W!wpipeVars, WP!wthreadVars, W!wthreadVars,
            WP!wcallVars, W!wcallVars, WP!wresultVars, W!wresultVars,
            WP!Woken, W!Woken, WP!BufferEmpty, W!BufferEmpty,
            WP!WriterHoldsMutex, W!WriterHoldsMutex, WP!SmallerOf, W!SmallerOf
<1>1. W!ClientStarted => WP!ClientStarted
  BY DEF WP!ClientStarted, W!ClientStarted
<1>2. W!ClientQuery => WP!ClientQuery
  BY DEF WP!ClientQuery, W!ClientQuery
<1>3. W!WriteWaits => WP!WriteWaits
  BY DEF WP!WriteWaits, W!WriteWaits, WP!MayFill, W!MayFill
<1>4. W!WriteReturns => WP!WriteReturns
  BY DEF WP!WriteReturns, W!WriteReturns, WP!MayFill, W!MayFill
<1>5. W!WaitWrittenBlocks => WP!WaitWrittenBlocks
  BY DEF WP!WaitWrittenBlocks, W!WaitWrittenBlocks
<1>6. W!WaitWrittenReturns => WP!WaitWrittenReturns
  BY DEF WP!WaitWrittenReturns, W!WaitWrittenReturns
<1>7. W!CloseFlushes => WP!CloseFlushes
  BY DEF WP!CloseFlushes, W!CloseFlushes
<1>8. W!CloseWoken => WP!CloseWoken
  BY DEF WP!CloseWoken, W!CloseWoken
<1>9. W!CloseCancels => WP!CloseCancels
  BY DEF WP!CloseCancels, W!CloseCancels
<1>10. W!CloseJoins => WP!CloseJoins
  BY DEF WP!CloseJoins, W!CloseJoins
<1>11. W!CloseBegins => WP!CloseBegins
  BY DEF WP!CloseBegins, W!CloseBegins, WP!NeedsFlush, W!NeedsFlush
<1>12. ASSUME NEW c, NEW n, W!ClientCalls(c, n)
       PROVE  WP!ClientCalls(c, n)
  BY <1>12 DEF WP!ClientCalls, W!ClientCalls
<1> QED
  BY <1>1, <1>2, <1>3, <1>4, <1>5, <1>6, <1>7, <1>8, <1>9, <1>10, <1>11, <1>12, Zenon
     DEF WP!ClientContinues, W!ClientContinues, WP!ClientBegins, W!ClientBegins

\* The theorems about the writing half hold of this instance of it.
LEMMA WriterConstants ==
    /\ WriteBufferSize \in Nat \ {0} /\ WriteSizes \subseteq Nat \ {0}
    /\ MaxAccepted \in Nat /\ PipeCapacity \in Nat \ {0} /\ WriteMayFail \in BOOLEAN
  BY WriteBufferSizeAssumption, WriteSizesAssumption, MaxAcceptedAssumption,
     PipeCapacityAssumption, WriteMayFailAssumption

LEMMA WriterInvInit == W!Init => WriterInv
  BY SameInit, WP!TypedInit, WP!ControlInit, WP!DataInit, WriterConstants DEF WriterInv

LEMMA WriterInvStep ==
    ASSUME WriterInv, W!WriterStep \/ W!ClientContinues \/ W!ClientBegins
    PROVE  WriterInv'
<1>1. WP!Next
  BY SameThread, SameClient DEF WP!Next
<1>2. WP!Typed'
  BY <1>1, WP!TypedNext, WriterConstants DEF WriterInv
<1>3. WP!ControlInv'
  BY <1>1, WP!ControlNext, WriterConstants DEF WriterInv
<1>4. WP!DataInv'
  BY <1>1, WP!DataNext, WriterConstants DEF WriterInv
<1> QED
  BY <1>2, <1>3, <1>4 DEF WriterInv

\* What the reading half does to the pipe disturbs nothing of the writing half.
LEMMA WriterInvKept ==
    ASSUME WriterInv, UNCHANGED <<stream, writeEndOpen, writerVars>>,
           fetched' \in Nat, readEndOpen' \in BOOLEAN
    PROVE  WriterInv'
<1> USE DEF WriterInv, writerVars
<1>1. WP!Typed'
  BY DEF WP!Typed, WP!TypeOK, WP!SizeInv
<1>2. WP!ControlInv'
  BY DEF WP!ControlInv, WP!ThreadInv, WP!BufferInv, WP!SleepInv, WP!BufferEmpty, WP!Writing
<1>3. WP!DataInv'
  BY DEF WP!DataInv, WP!BufferHolds, WP!StreamHolds, WP!Balance, WP!Writing
<1> QED
  BY <1>1, <1>2, <1>3

-----------------------------------------------------------------------------
(* The invariant of the pair *)

LEMMA PairInvInit == PairInit => PairInv
<1>1. PairInit => writeEndOpen
  BY DEF PairInit, Init
<1> QED
  BY <1>1, WaitInit, WriterInvInit DEF PairInit, PairInv

ReadingStep == ReaderStep \/ ClientContinues \/ ClientBegins
WritingStep == W!WriterStep \/ W!ClientContinues \/ W!ClientBegins

\* No step of the reading half touches the writing end of the pipe.
LEMMA ReadingKeepsPipe ==
    ASSUME ReadingStep
    PROVE  UNCHANGED <<stream, writeEndOpen>>
<1> USE DEF pipeVars
<1>1. ReaderStep => UNCHANGED <<stream, writeEndOpen>>
  BY DEF ReaderStep, ReaderRuns, ReaderStarts, ReaderResumes, ReaderLoop, NotifyReadyRead,
         ReaderAfterEofNotice, ReaderFullLoop, ReaderFullRecheck, ReaderCheck,
         ReaderReadsEof, ReaderReadFails, ReadsNothing, ReaderCommits, ReaderRead
<1>2. ClientContinues => UNCHANGED <<stream, writeEndOpen>>
  BY DEF ClientContinues, ClientStarted, ClientQuery, ClientAtEnd, ReadShortCut,
         ReadLimitsSize, ReadWithoutBlocking, ReadBlocks, ReadWoken, WaitReturnsAtOnce,
         WaitBlocks, WaitEnds, CloseWakes, CloseJoins, SlotReturnsClosed
<1>3. ClientBegins => UNCHANGED <<stream, writeEndOpen>>
  BY DEF ClientBegins, ClientCalls, DeliverReadyRead, SlotReturns, CloseCancels
<1> QED
  BY <1>1, <1>2, <1>3 DEF ReadingStep

LEMMA ReadingStepKeeps ==
    ASSUME PairInv, ReadingSide(ReadingStep)
    PROVE  PairInv'
<1>1. ReadingStep /\ readEndOpen' = (cpc' # "closed") /\ UNCHANGED writerVars
  BY Zenon DEF ReadingSide
<1>2. UNCHANGED <<stream, writeEndOpen>>
  BY <1>1, ReadingKeepsPipe
<1>3. WaitInv'
  BY <1>1, WaitStep DEF PairInv, ReadingStep, Next
<1>4. fetched' \in Nat
  BY <1>3 DEF WaitInv, DataInv, TypeOK
<1>5. WriterInv'
  BY <1>1, <1>2, <1>4, WriterInvKept DEF PairInv
<1> QED
  BY <1>1, <1>2, <1>3, <1>5 DEF PairInv, writerVars

\* A step of the writing half writes to the pipe, ends it, or leaves it alone.
LEMMA WritingStepCases ==
    ASSUME WritingStep
    PROVE  \/ UNCHANGED pipeVars
           \/ wcpc' = "closed" /\ writeEndOpen' = FALSE /\ UNCHANGED <<stream, fetched>>
           \/ /\ wpc = "inWrite" /\ wcpc' = wcpc
              /\ UNCHANGED <<fetched, writeEndOpen>>
              /\ \E n \in 1 .. WriteBufferSize : W!WriterWrite(n)
<1> USE DEF pipeVars, W!wpipeVars
<1>1. CASE W!WriterStep
  BY <1>1 DEF W!WriterStep, W!WriterRuns, W!WriterStarts, W!WriterLoop, W!WriterResumes,
              W!WriterCheck, W!WriterCommits, W!WriterLeaves, W!WriterWriteFails,
              W!WriterWrite, W!wcallVars
<1>2. CASE W!ClientContinues
  BY <1>2 DEF W!ClientContinues, W!ClientStarted, W!ClientQuery, W!WriteWaits,
              W!WriteReturns, W!WaitWrittenBlocks, W!WaitWrittenReturns, W!CloseFlushes,
              W!CloseWoken, W!CloseCancels, W!CloseJoins
<1>3. CASE W!ClientBegins
  BY <1>3 DEF W!ClientBegins, W!ClientCalls, W!CloseBegins
<1> QED
  BY <1>1, <1>2, <1>3 DEF WritingStep

\* For the reading half ::write() is a peer that appends to the stream.
LEMMA WriteAppends ==
    ASSUME WriterInv, writeEndOpen, NEW n \in 1 .. WriteBufferSize, WritingSide(W!WriterWrite(n))
    PROVE  PeerAppends
<1>1. WP!WriterWrite(n)
  BY DEF WritingSide, WP!WriterWrite, W!WriterWrite, WP!SmallerOf, W!SmallerOf,
         WP!Chunk, W!Chunk, WP!wcallVars, W!wcallVars, WP!wresultVars, W!wresultVars
<1>2. PICK b : b = WP!Chunk(n)
  OBVIOUS
<1>3. b \in Seq(Nat)
  BY <1>1, <1>2, WP!ChunkTyped, WriterConstants DEF WriterInv
<1>4. stream' = stream \o b /\ UNCHANGED <<fetched, writeEndOpen>>
  BY <1>1, <1>2 DEF WP!WriterWrite
<1>5. stream \in Seq(Nat)
  BY DEF WriterInv, WP!Typed, WP!TypeOK
<1>6. /\ stream' \in Seq(Nat) /\ Len(stream') >= Len(stream)
      /\ \A k \in 1 .. Len(stream) : stream'[k] = stream[k]
  BY <1>3, <1>4, <1>5, ConcatProperties, LenProperties
<1> QED
  BY <1>4, <1>6 DEF PeerAppends, WritingSide

LEMMA WritingStepKeeps ==
    ASSUME PairInv, WritingSide(WritingStep)
    PROVE  PairInv'
<1>1. /\ WritingStep
      /\ UNCHANGED <<threadVars, flagVars, bufferVars, callVars, slotVars, resultVars>>
  BY Zenon DEF WritingSide
<1>2. WriterInv'
  BY <1>1, WriterInvStep DEF PairInv, WritingStep
<1>3. CASE UNCHANGED pipeVars /\ wcpc' # "closed" /\ wcpc = "closed"
  <2>1. wcpc = "closed" /\ wcpc' # "closed"
    BY <1>3
  <2>2. W!WriterStep => wcpc' = wcpc
    BY DEF W!WriterStep, W!WriterRuns, W!WriterStarts, W!WriterLoop, W!WriterResumes,
           W!WriterCheck, W!WriterCommits, W!WriterLeaves, W!WriterWriteFails,
           W!WriterWrite, W!wcallVars
  <2>3. W!ClientContinues => wcpc # "closed"
    BY DEF W!ClientContinues, W!ClientStarted, W!ClientQuery, W!WriteWaits,
           W!WriteReturns, W!WaitWrittenBlocks, W!WaitWrittenReturns, W!CloseFlushes,
           W!CloseWoken, W!CloseCancels, W!CloseJoins
  <2>4. W!ClientBegins => wcpc # "closed"
    BY DEF W!ClientBegins, W!ClientCalls, W!CloseBegins
  <2> QED
    BY <1>1, <2>1, <2>2, <2>3, <2>4 DEF WritingStep
<1>4. CASE UNCHANGED pipeVars /\ ~(wcpc' # "closed" /\ wcpc = "closed")
  <2>1. UNCHANGED vars
    BY <1>1, <1>4 DEF vars
  <2>2. WaitInv'
    BY <2>1, WaitStep DEF PairInv
  <2>3. ~writeEndOpen' => wcpc' = "closed"
    BY <1>4 DEF PairInv, pipeVars
  <2> QED
    BY <1>2, <2>2, <2>3 DEF PairInv
<1>5. CASE wcpc' = "closed" /\ writeEndOpen' = FALSE /\ UNCHANGED <<stream, fetched>>
  <2>1. CASE writeEndOpen
    <3>1. PeerClose
      BY <1>1, <1>5, <2>1 DEF PeerClose
    <3> QED
      BY <1>2, <1>5, <3>1, WaitStep DEF PairInv, Next
  <2>2. CASE ~writeEndOpen
    <3>1. writeEndOpen' = writeEndOpen
      BY <1>5, <2>2 DEF PairInv, WaitInv, DataInv, TypeOK
    <3>2. UNCHANGED vars
      BY <1>1, <1>5, <3>1 DEF vars, pipeVars
    <3> QED
      BY <1>2, <1>5, <3>2, WaitStep DEF PairInv
  <2> QED
    BY <2>1, <2>2
<1>6. ASSUME wpc = "inWrite", wcpc' = wcpc, UNCHANGED <<fetched, writeEndOpen>>,
             NEW n \in 1 .. WriteBufferSize, W!WriterWrite(n)
      PROVE  PairInv'
  <2>1. wcpc # "closed"
    BY <1>6 DEF PairInv, WriterInv, WP!ControlInv, WP!ThreadInv
  <2>2. writeEndOpen
    BY <2>1 DEF PairInv
  <2>3. PeerAppends
    BY <1>1, <1>6, <2>2, WriteAppends DEF PairInv, WritingSide
  <2>4. WaitInv'
    BY <2>3, WaitPeerAppends DEF PairInv
  <2> QED
    BY <1>2, <1>6, <2>2, <2>4 DEF PairInv
<1> QED
  BY <1>1, <1>3, <1>4, <1>5, <1>6, WritingStepCases

LEMMA PairInvStep == PairInv /\ [PairNext]_pairVars => PairInv'
<1> SUFFICES ASSUME PairInv, [PairNext]_pairVars PROVE PairInv'
  OBVIOUS
<1>1. CASE ReadingSide(ReaderStep) \/ ReadingSide(ClientContinues) \/ ReadingSide(ClientBegins)
  <2>1. ReadingSide(ReadingStep)
    BY <1>1, Zenon DEF ReadingSide, ReadingStep
  <2> QED
    BY <2>1, ReadingStepKeeps
<1>2. CASE \/ WritingSide(W!WriterStep) \/ WritingSide(W!ClientContinues)
           \/ WritingSide(W!ClientBegins)
  <2>1. WritingSide(WritingStep)
    BY <1>2, Zenon DEF WritingSide, WritingStep
  <2> QED
    BY <2>1, WritingStepKeeps
<1>3. CASE UNCHANGED pairVars
  <2>1. UNCHANGED vars /\ UNCHANGED readEndOpen /\ UNCHANGED writerVars
    BY <1>3 DEF pairVars
  <2>2. WaitInv'
    BY <2>1, WaitStep DEF PairInv
  <2>3. fetched' \in Nat /\ readEndOpen' \in BOOLEAN /\ UNCHANGED <<stream, writeEndOpen>>
    BY <2>1 DEF PairInv, WriterInv, WP!Typed, WP!TypeOK, vars, pipeVars
  <2>4. WriterInv'
    BY <2>1, <2>3, WriterInvKept DEF PairInv
  <2> QED
    BY <2>1, <2>2, <2>3, <2>4 DEF PairInv, writerVars
<1>4. PairTerminated => UNCHANGED pairVars
  BY DEF PairTerminated
<1> QED
  BY <1>1, <1>2, <1>3, <1>4 DEF PairNext

\* Both invariants hold of the two devices together.
THEOREM PairIsSafe == PairSpec => []PairInv
  BY PairInvInit, PairInvStep, PTL DEF PairSpec

BothHalves ==
    /\ StreamIsIntact /\ EndIsTheEnd /\ NobodySleepsForever
    /\ W!WrittenInOrder /\ W!ClosedIsFlushed /\ W!AssertionsHold
    /\ W!NobodySleepsForever

LEMMA ReadingHalf == PairInv => StreamIsIntact /\ EndIsTheEnd /\ NobodySleepsForever
  BY WaitMeansEnd DEF PairInv, WaitInv, DataInv, StreamIsIntact

LEMMA WritingHalf ==
    ASSUME PairInv
    PROVE  /\ W!WrittenInOrder /\ W!ClosedIsFlushed /\ W!AssertionsHold
           /\ W!NobodySleepsForever
<1> USE DEF PairInv, WriterInv
<1>1. W!WrittenInOrder
  BY WP!DataMeansOrder, WriterConstants
     DEF WP!WrittenInOrder, W!WrittenInOrder, WP!Unwritten, W!Unwritten
<1>2. W!ClosedIsFlushed
  BY WP!DataMeansFlushed, WriterConstants DEF WP!ClosedIsFlushed, W!ClosedIsFlushed
<1>3. W!AssertionsHold
  BY WP!ControlMeansNoFailure, WriterConstants
     DEF WP!AssertionsHold, W!AssertionsHold, WP!BufferEmpty, W!BufferEmpty
<1>4. W!NobodySleepsForever
  BY WP!ControlMeansWakeUps, WriterConstants
     DEF WP!NobodySleepsForever, W!NobodySleepsForever, WP!BufferEmpty, W!BufferEmpty
<1> QED
  BY <1>1, <1>2, <1>3, <1>4

\* What each device keeps with a peer that does as it likes, it keeps with the other
\* device at the end of the pipe: no byte is lost, no end is told too early, no wake-up
\* is missed and no assertion fails in any of the four threads.
THEOREM PairKeepsBothHalves == PairSpec => []BothHalves
<1>1. PairInv => BothHalves
  BY ReadingHalf, WritingHalf DEF BothHalves
<1> QED
  BY <1>1, PairIsSafe, PTL

-----------------------------------------------------------------------------
(***************************************************************************)
(* The pair implements ByteChannel.  Few steps move the channel: readData() *)
(* gets bytes or sees the end, writeData() sends, both close()s close, and  *)
(* a failed ::read() or ::write() makes it fail.  All others stutter.      *)
(***************************************************************************)

ChannelMoves == [Channel!Next]_(Channel!channelVars)

LEMMA ChannelStutters ==
    ASSUME UNCHANGED <<accepted, received, writeEndOpen, eofShortCut, error, werror>>,
           cpc' = "closed" <=> cpc = "closed"
    PROVE  ChannelMoves
  BY DEF ChannelMoves, Channel!channelVars

\* What the receiver has got is the beginning of what was sent, and no more.
GotPrefix ==
    /\ received \in Seq(Nat) /\ Len(received) \in Nat /\ accepted \in Nat
    /\ Len(received) <= Len(stream) /\ Len(stream) <= accepted /\ Len(stream) \in Nat
    /\ received = [k \in 1 .. Len(received) |-> k]

LEMMA GotIsPrefix == PairInv => GotPrefix
<1> SUFFICES ASSUME PairInv PROVE GotPrefix
  OBVIOUS
<1>1. received \in Seq(Nat) /\ stream \in Seq(Nat) /\ accepted \in Nat
  BY DEF PairInv, WaitInv, DataInv, TypeOK, WriterInv, WP!Typed, WP!TypeOK
<1>2. Len(received) \in Nat /\ Len(stream) \in Nat
  BY <1>1, LenProperties
<1>3. Len(received) <= Len(stream) /\ \A k \in 1 .. Len(received) : received[k] = stream[k]
  BY DEF PairInv, WaitInv, DataInv, DeliveredInOrder
<1>4. Len(stream) <= accepted /\ \A k \in 1 .. Len(stream) : stream[k] = k
  BY DEF PairInv, WriterInv, WP!DataInv, WP!Balance, WP!StreamHolds
<1>5. \A k \in 1 .. Len(received) : received[k] = k
  BY <1>2, <1>3, <1>4
<1>6. received = [k \in 1 .. Len(received) |-> k]
  BY <1>1, <1>2, <1>5
<1> QED
  BY <1>1, <1>2, <1>3, <1>4, <1>6 DEF GotPrefix

LEMMA GotIsPrefixNext == PairInv' => GotPrefix'
  BY GotIsPrefix, PTL

\* A device that is closed has left nothing behind, unless it has failed.
LEMMA EndedIsComplete ==
    ASSUME PairInv, eof, BufferEmpty, ~werror
    PROVE  ~writeEndOpen /\ Len(received) = accepted
<1>1. ~writeEndOpen /\ fetched = Len(stream) /\ rpc # "lockAfterRead"
  BY DEF PairInv, WaitInv, EndInv
<1>2. BytesInBuffer = 0 /\ InFlight = 0
  BY <1>1 DEF BufferEmpty, InFlight
<1>3. Len(received) = Len(stream)
  BY <1>1, <1>2, GotIsPrefix DEF GotPrefix, PairInv, WaitInv, DataInv, GapIsInBuffer
<1>4. wcpc = "closed"
  BY <1>1 DEF PairInv
<1>5. WP!BufferEmpty /\ ~WP!Writing
  BY <1>4 DEF PairInv, WriterInv, WP!ControlInv, WP!ThreadInv, WP!BufferInv, WP!Writing
<1>6. Len(wbuffer) = 0
  BY <1>5, EmptySeq DEF WP!BufferEmpty
<1>7. Len(stream) = accepted
  BY <1>5, <1>6, GotIsPrefix DEF GotPrefix, PairInv, WriterInv, WP!DataInv, WP!Balance
<1> QED
  BY <1>1, <1>3, <1>7

\* The end of readData() hands over bytes, or tells the client of the end.
LEMMA TakeBytesMoves ==
    ASSUME PairInv, PairInv', NEW woken, TakeBytes(woken), Readable,
           cpc # "closed", cpc' # "closed",
           UNCHANGED <<accepted, writeEndOpen, error, werror>>
    PROVE  ChannelMoves
<1>1. CASE BufferEmpty
  <2>1. eofShortCut' = TRUE /\ UNCHANGED received
    BY <1>1 DEF TakeBytes
  <2>2. CASE eofShortCut
    <3>1. UNCHANGED eofShortCut
      BY <2>1, <2>2 DEF PairInv, WaitInv, DataInv, TypeOK
    <3> QED
      BY <2>1, <3>1, ChannelStutters
  <2>3. CASE ~eofShortCut
    <3>1. (error \/ werror) \/ (~writeEndOpen /\ Len(received) = accepted)
      BY <1>1, EndedIsComplete DEF Readable
    <3>2. Channel!SeeEnd
      BY <2>1, <2>3, <3>1 DEF Channel!SeeEnd
    <3> QED
      BY <3>2 DEF ChannelMoves, Channel!Next
  <2> QED
    BY <2>2, <2>3
<1>2. CASE ~BufferEmpty
  <2>1. received' = received \o CopiedBytes /\ UNCHANGED eofShortCut
    BY <1>2 DEF TakeBytes
  <2>2. ~eofShortCut
    BY <1>2 DEF PairInv, WaitInv, EndInv
  <2>3. CopiedBytes \in Seq(Nat)
    BY CopiedBytesAreASequence DEF PairInv, WaitInv, DataInv
  <2>4. Len(received') >= Len(received)
    <3>1. PICK b : b = CopiedBytes
      OBVIOUS
    <3>2. b \in Seq(Nat) /\ received \in Seq(Nat) /\ received' = received \o b
      BY <2>1, <2>3, <3>1, GotIsPrefix DEF GotPrefix
    <3> QED
      BY <3>2, ConcatProperties, LenProperties
  <2>5. PICK m : m = Len(received')
    OBVIOUS
  <2>6. m \in Nat /\ m <= accepted /\ received' = [k \in 1 .. m |-> k]
    <3>1. GotPrefix'
      BY GotIsPrefixNext
    <3> QED
      BY <2>5, <3>1 DEF GotPrefix
  <2>7. CASE m = Len(received)
    <3>1. received' = received
      BY <2>6, <2>7, GotIsPrefix DEF GotPrefix
    <3> QED
      BY <2>1, <3>1, ChannelStutters
  <2>8. CASE m # Len(received)
    <3>1. Len(received) < accepted /\ m \in Len(received) + 1 .. accepted
      BY <2>4, <2>5, <2>6, <2>8, GotIsPrefix DEF GotPrefix
    <3>2. Channel!Get
      BY <2>1, <2>2, <2>5, <2>6, <3>1 DEF Channel!Get
    <3> QED
      BY <3>2 DEF ChannelMoves, Channel!Next
  <2> QED
    BY <2>7, <2>8
<1> QED
  BY <1>1, <1>2

\* Which variables of the channel a step of the reading half moves.
LEMMA ReaderStepMoves ==
    ASSUME PairInv, ReadingSide(ReaderStep)
    PROVE  ChannelMoves
<1> USE DEF pipeVars, callVars, resultVars, flagVars
<1>0. UNCHANGED <<accepted, werror>>
  BY DEF ReadingSide, writerVars
<1>1. CASE ReaderCommits
  <2>1. UNCHANGED <<received, writeEndOpen, eofShortCut, cpc>> /\ error' = (error \/ numRead < 0)
    BY <1>1 DEF ReaderCommits
  <2>2. error \in BOOLEAN /\ werror \in BOOLEAN
    BY DEF PairInv, WaitInv, DataInv, TypeOK, WriterInv, WP!Typed, WP!TypeOK
  <2>3. CASE error' = error
    BY <1>0, <2>1, <2>3, ChannelStutters
  <2>4. CASE error' # error /\ ~werror
    <3>1. ~error /\ error'
      BY <2>1, <2>2, <2>4
    <3>2. Channel!Fail
      BY <1>0, <2>1, <2>4, <3>1 DEF Channel!Fail
    <3> QED
      BY <3>2 DEF ChannelMoves, Channel!Next
  <2>5. CASE error' # error /\ werror
    <3>1. (error \/ werror) = TRUE /\ (error' \/ werror') = TRUE
      BY <1>0, <2>5
    <3>2. UNCHANGED Channel!channelVars
      BY <1>0, <2>1, <3>1 DEF Channel!channelVars
    <3> QED
      BY <3>2 DEF ChannelMoves
  <2> QED
    BY <2>3, <2>4, <2>5
<1>2. CASE ~ReaderCommits
  <2>1. UNCHANGED <<received, writeEndOpen, eofShortCut, cpc, error>>
    BY <1>2 DEF ReadingSide, ReaderStep, ReaderRuns, ReaderStarts, ReaderResumes, ReaderLoop,
         NotifyReadyRead, ReaderAfterEofNotice, ReaderFullLoop, ReaderFullRecheck,
         ReaderCheck, ReaderReadsEof, ReaderReadFails, ReadsNothing, ReaderRead
  <2> QED
    BY <1>0, <2>1, ChannelStutters
<1> QED
  BY <1>1, <1>2

LEMMA ReadingClientMoves ==
    ASSUME PairInv, PairInv', ReadingSide(ClientContinues) \/ ReadingSide(ClientBegins)
    PROVE  ChannelMoves
<1> USE DEF pipeVars, callVars, resultVars, flagVars
<1>0. UNCHANGED <<accepted, werror>> /\ (ClientContinues \/ ClientBegins)
  BY Zenon DEF ReadingSide, writerVars
<1>1. CASE ReadWithoutBlocking
  <2>1. /\ TakeBytes({"readyReadSent"}) /\ Readable /\ cpc # "closed" /\ cpc' # "closed"
        /\ UNCHANGED <<writeEndOpen, error>>
    BY <1>1 DEF ReadWithoutBlocking
  <2> QED
    BY <1>0, <2>1, TakeBytesMoves
<1>2. CASE ReadWoken
  <2>1. /\ TakeBytes({"blockedConsumerIsDone"}) /\ cpc # "closed" /\ cpc' # "closed"
        /\ UNCHANGED <<writeEndOpen, error>> /\ cpc = "blocked" /\ cwait = "none"
    BY <1>2 DEF ReadWoken
  <2>2. Readable
    BY <2>1 DEF PairInv, WaitInv, NobodySleepsForever
  <2> QED
    BY <1>0, <2>1, <2>2, TakeBytesMoves
<1>3. CASE CloseJoins
  <2>1. /\ UNCHANGED <<received, writeEndOpen, eofShortCut, error>>
        /\ cpc = "joining" /\ cpc' = "closed"
    BY <1>3 DEF CloseJoins
  <2>2. Channel!CloseReceiver
    BY <1>0, <2>1 DEF Channel!CloseReceiver
  <2> QED
    BY <2>2 DEF ChannelMoves, Channel!Next
<1>4. CASE ~ReadWithoutBlocking /\ ~ReadWoken /\ ~CloseJoins
  <2>1. /\ UNCHANGED <<received, writeEndOpen, eofShortCut, error>>
        /\ cpc' = "closed" <=> cpc = "closed"
    <3>1. CASE ClientContinues
      BY <1>4, <3>1
         DEF ClientContinues, ClientStarted, ClientQuery, ClientAtEnd, ReadShortCut,
             ReadLimitsSize, ReadBlocks, WaitReturnsAtOnce, WaitBlocks, WaitEnds,
             CloseWakes, SlotReturnsClosed
    <3>2. CASE ClientBegins
      BY <3>2 DEF ClientBegins, ClientCalls, DeliverReadyRead, SlotReturns, CloseCancels
    <3> QED
      BY <1>0, <3>1, <3>2
  <2> QED
    BY <1>0, <2>1, ChannelStutters
<1> QED
  BY <1>1, <1>2, <1>3, <1>4

\* writeData() sends, close() closes, a failed ::write() fails.
LEMMA WritingStepMoves ==
    ASSUME PairInv, PairInv', WritingSide(WritingStep)
    PROVE  ChannelMoves
<1> USE DEF W!wpipeVars, W!wthreadVars, W!wcallVars, W!wresultVars
<1>0. UNCHANGED <<received, eofShortCut, error, cpc>> /\ WritingStep
  BY DEF WritingSide, flagVars, callVars, resultVars
<1>t. /\ writeEndOpen \in BOOLEAN /\ werror \in BOOLEAN /\ error \in BOOLEAN
      /\ writeEndOpen' \in BOOLEAN /\ accepted \in Nat
  BY DEF PairInv, WaitInv, DataInv, TypeOK, WriterInv, WP!Typed, WP!TypeOK
<1>1. CASE W!WriterLeaves
  <2>1. UNCHANGED <<accepted, writeEndOpen>> /\ (werror' = werror \/ werror' = TRUE)
    BY <1>1 DEF W!WriterLeaves
  <2>2. CASE werror' = werror
    BY <1>0, <2>1, <2>2, ChannelStutters
  <2>3. CASE werror' = TRUE /\ ~werror /\ ~error
    <3>1. Channel!Fail
      BY <1>0, <2>1, <2>3 DEF Channel!Fail
    <3> QED
      BY <3>1 DEF ChannelMoves, Channel!Next
  <2>4. CASE werror' = TRUE /\ ~werror /\ error
    <3>1. (error \/ werror) = TRUE /\ (error' \/ werror') = TRUE
      BY <1>0, <2>4
    <3>2. UNCHANGED Channel!channelVars
      BY <1>0, <2>1, <3>1 DEF Channel!channelVars
    <3> QED
      BY <3>2 DEF ChannelMoves
  <2>5. CASE werror' = TRUE /\ werror
    BY <1>t, <2>2, <2>5
  <2> QED
    BY <2>1, <2>2, <2>3, <2>4, <2>5
<1>2. CASE W!WriteReturns
  <2>1. UNCHANGED <<writeEndOpen, werror>> /\ wcpc = "called" /\ wcall = "write"
    BY <1>2 DEF W!WriteReturns
  <2>2. CASE UNCHANGED accepted
    BY <1>0, <2>1, <2>2, ChannelStutters
  <2>3. CASE ~werror
    <3>1. PICK n : n = W!SmallerOf(size, WriteBufferSize)
      OBVIOUS
    <3>2. n \in Nat \ {0}
      <4>1. size \in Nat \ {0}
        BY <2>1 DEF PairInv, WriterInv, WP!Typed, WP!TypeOK, WP!SizeInv
      <4> QED
        BY <3>1, <4>1, WriterConstants DEF W!SmallerOf
    <3>3. accepted' = accepted + n
      BY <1>2, <2>3, <3>1 DEF W!WriteReturns
    <3>4. writeEndOpen
      BY <2>1 DEF PairInv
    <3>5. accepted' \in Nat /\ accepted' > accepted
      BY <1>t, <3>2, <3>3
    <3>6. Channel!Send
      BY <1>0, <2>1, <3>4, <3>5 DEF Channel!Send
    <3> QED
      BY <3>6 DEF ChannelMoves, Channel!Next
  <2> QED
    BY <1>2, <2>2, <2>3 DEF W!WriteReturns
<1>3. CASE W!CloseJoins
  <2>1. UNCHANGED <<accepted, werror>> /\ writeEndOpen' = FALSE
    BY <1>3 DEF W!CloseJoins
  <2>2. CASE writeEndOpen
    <3>1. Channel!CloseSender
      BY <1>0, <2>1, <2>2 DEF Channel!CloseSender
    <3> QED
      BY <3>1 DEF ChannelMoves, Channel!Next
  <2>3. CASE ~writeEndOpen
    <3>1. UNCHANGED writeEndOpen
      BY <1>t, <2>1, <2>3
    <3> QED
      BY <1>0, <2>1, <3>1, ChannelStutters
  <2> QED
    BY <2>2, <2>3
<1>4. CASE ~W!WriterLeaves /\ ~W!WriteReturns /\ ~W!CloseJoins
  <2>1. UNCHANGED <<accepted, writeEndOpen, werror>>
    <3>1. CASE W!WriterStep
      BY <1>4, <3>1
         DEF W!WriterStep, W!WriterRuns, W!WriterStarts, W!WriterLoop, W!WriterResumes,
             W!WriterCheck, W!WriterCommits, W!WriterWriteFails, W!WriterWrite
    <3>2. CASE W!ClientContinues
      BY <1>4, <3>2
         DEF W!ClientContinues, W!ClientStarted, W!ClientQuery, W!WriteWaits,
             W!WaitWrittenBlocks, W!WaitWrittenReturns, W!CloseFlushes, W!CloseWoken,
             W!CloseCancels
    <3>3. CASE W!ClientBegins
      BY <3>3 DEF W!ClientBegins, W!ClientCalls, W!CloseBegins
    <3> QED
      BY <1>0, <3>1, <3>2, <3>3 DEF WritingStep
  <2> QED
    BY <1>0, <2>1, ChannelStutters
<1> QED
  BY <1>1, <1>2, <1>3, <1>4

LEMMA ChannelInit == PairInit => Channel!Init
<1> SUFFICES ASSUME PairInit PROVE Channel!Init
  OBVIOUS
<1>1. /\ received = << >> /\ writeEndOpen = TRUE /\ eofShortCut = FALSE
      /\ error = FALSE /\ cpc = "idle"
  BY DEF PairInit, Init
<1>2. accepted = 0 /\ werror = FALSE
  BY DEF PairInit, W!Init
<1> QED
  BY <1>1, <1>2 DEF Channel!Init

LEMMA ChannelStep == PairInv /\ PairInv' /\ [PairNext]_pairVars => ChannelMoves
<1> SUFFICES ASSUME PairInv, PairInv', [PairNext]_pairVars PROVE ChannelMoves
  OBVIOUS
<1>1. CASE ReadingSide(ReaderStep)
  BY <1>1, ReaderStepMoves
<1>2. CASE ReadingSide(ClientContinues) \/ ReadingSide(ClientBegins)
  BY <1>2, ReadingClientMoves
<1>3. CASE \/ WritingSide(W!WriterStep) \/ WritingSide(W!ClientContinues)
           \/ WritingSide(W!ClientBegins)
  <2>1. WritingSide(WritingStep)
    BY <1>3, Zenon DEF WritingSide, WritingStep
  <2> QED
    BY <2>1, WritingStepMoves
<1>4. CASE UNCHANGED pairVars
  BY <1>4, ChannelStutters DEF pairVars, vars, writerVars, pipeVars, flagVars, callVars,
                               resultVars
<1>5. PairTerminated => UNCHANGED pairVars
  BY DEF PairTerminated
<1> QED
  BY <1>1, <1>2, <1>3, <1>4, <1>5 DEF PairNext

\* A pair of connected devices is a channel for bytes, whatever the sizes of the two
\* buffers, of the pipe and of the single reads and writes, with reads and writes that
\* fail and clients that use the devices in any legal way
\* (kdpipeiodevice.cpp: makePairOfConnectedPipes()).
THEOREM PairImplementsChannel == PairSpec => PairIsAChannel
<1>1. PairInv /\ PairInv' /\ [PairNext]_pairVars => [Channel!Next]_(Channel!channelVars)
  BY ChannelStep DEF ChannelMoves
<1> QED
  BY <1>1, ChannelInit, PairIsSafe, PTL DEF PairSpec, PairIsAChannel, Channel!Spec
=============================================================================
