------------------------- MODULE KDPipeWriterProofs -------------------------
(***************************************************************************)
(* Proofs about the writing half of KDPipeIODevice: types, that the pipe   *)
(* gets what the device accepted, the assertions of the code and the       *)
(* wake-ups, for every buffer, pipe and write size.                        *)
(***************************************************************************)
EXTENDS KDPipeWriter, SequenceTheorems, TLAPS

LEMMA Constants ==
    /\ WriteBufferSize \in Nat \ {0} /\ WriteSizes \subseteq Nat \ {0}
    /\ MaxAccepted \in Nat /\ PipeCapacity \in Nat \ {0}
  BY WriteBufferSizeAssumption, WriteSizesAssumption, MaxAcceptedAssumption,
     PipeCapacityAssumption

\* What write() fills the buffer with.
LEMMA FilledBuffer ==
    ASSUME NEW a \in Nat, NEW n \in Nat \ {0}
    PROVE  LET b == [k \in 1 .. n |-> a + k]
           IN  b \in Seq(Nat) /\ Len(b) = n /\ b # << >> /\ \A i \in 1 .. n : b[i] = a + i
<1> DEFINE b == [k \in 1 .. n |-> a + k]
<1>1. b \in Seq(Nat) /\ Len(b) = n
  OBVIOUS
<1>2. b # << >>
  BY <1>1, EmptySeq
<1> QED
  BY <1>1, <1>2

LEMMA EmptyBuffer == << >> \in Seq(Nat) /\ Len(<< >>) = 0
  BY EmptySeq

LEMMA FillSize ==
    ASSUME NEW s \in Nat \ {0}
    PROVE  SmallerOf(s, WriteBufferSize) \in Nat \ {0}
  BY Constants DEF SmallerOf

-----------------------------------------------------------------------------
(* Types *)

\* A write() has something to write.
SizeInv == wcall = "write" => size # 0
Typed == TypeOK /\ SizeInv

LEMMA ChunkTyped ==
    ASSUME Typed, NEW n, WriterWrite(n)
    PROVE  /\ n \in Nat \ {0} /\ totalWritten + n <= Len(wbuffer)
           /\ Chunk(n) \in Seq(Nat) /\ Len(Chunk(n)) = n
           /\ \A i \in 1 .. n : Chunk(n)[i] = wbuffer[totalWritten + i]
<1>1. /\ wbuffer \in Seq(Nat) /\ totalWritten \in Nat /\ Len(wbuffer) \in Nat
      /\ stream \in Seq(Nat) /\ Len(stream) \in Nat /\ fetched \in Nat
  BY LenProperties DEF Typed, TypeOK
<1>2. n \in Nat \ {0} /\ n <= Len(wbuffer) - totalWritten
  BY <1>1, Constants DEF WriterWrite, SmallerOf
<1>3. \A i \in totalWritten + 1 .. totalWritten + n : wbuffer[i] \in Nat
  BY <1>1, <1>2, ElementOfSeq
<1> QED
  BY <1>1, <1>2, <1>3, SubSeqProperties DEF Chunk

LEMMA TypedInit == Init => Typed
<1> SUFFICES ASSUME Init PROVE Typed
  OBVIOUS
<1>1. stream \in Seq(Nat) /\ wbuffer \in Seq(Nat)
  BY EmptyBuffer DEF Init
<1>2. TypeOK
  BY <1>1 DEF Init, TypeOK, WriterPcs, ClientPcs, Calls
<1>3. SizeInv
  BY DEF Init, SizeInv
<1> QED
  BY <1>2, <1>3 DEF Typed

LEMMA SizeNext ==
    ASSUME Typed, [Next]_wvars
    PROVE  SizeInv'
<1> USE DEF Typed, SizeInv, wpipeVars, wthreadVars, wcallVars, wresultVars
<1>1. CASE UNCHANGED <<wcall, size>>
  BY <1>1
<1>2. ASSUME NEW n \in WriteSizes, ClientCalls("write", n)
      PROVE  SizeInv'
  BY <1>2, Constants DEF ClientCalls
<1>3. CASE ClientCalls("query", 0) \/ ClientCalls("waitForBytesWritten", 0) \/ CloseBegins
  BY <1>3 DEF ClientCalls, CloseBegins
<1>4. CASE PeerStep \/ Terminated \/ UNCHANGED wvars
  BY <1>1, <1>4 DEF PeerStep, PeerCloseRead, PeerRead, Terminated, wvars
<1>5. CASE WriterStep
  BY <1>1, <1>5 DEF WriterStep, WriterRuns, WriterStarts, WriterLoop, WriterResumes, WriterCheck,
                    WriterCommits, WriterLeaves, WriterWrite, WriterWriteFails
<1>6. CASE ClientContinues
  BY <1>1, <1>6 DEF ClientContinues, ClientStarted, ClientQuery, WriteWaits, WriteReturns,
                    WaitWrittenBlocks, WaitWrittenReturns, CloseFlushes, CloseWoken,
                    CloseCancels, CloseJoins
<1> QED
  BY <1>2, <1>3, <1>4, <1>5, <1>6 DEF Next, ClientBegins

LEMMA TypeNext ==
    ASSUME Typed, [Next]_wvars
    PROVE  TypeOK'
<1> USE DEF Typed, TypeOK, wpipeVars, wthreadVars, wcallVars, wresultVars
<1>1. ASSUME NEW n \in 1 .. PipeCapacity, PeerRead(n)
      PROVE  TypeOK'
  BY <1>1, Constants DEF PeerRead
<1>2. CASE PeerCloseRead
  BY <1>2 DEF PeerCloseRead
<1>3. CASE WriterStarts \/ WriterResumes \/ WriterCheck \/ WriterWriteFails
  BY <1>3 DEF WriterStarts, WriterResumes, WriterCheck, WriterWriteFails, WriterPcs, Woken
<1>4. CASE WriterLoop
  BY <1>4 DEF WriterLoop, WriterSleepsOn, EmptiedWakes, WriterPcs, Woken
<1>5. ASSUME NEW n \in 1 .. WriteBufferSize, WriterWrite(n)
      PROVE  TypeOK'
  <2>1. n \in Nat /\ Chunk(n) \in Seq(Nat)
    BY <1>5, ChunkTyped
  <2>2. stream' = stream \o Chunk(n) /\ totalWritten' = totalWritten + n
    BY <1>5 DEF WriterWrite
  <2>3. stream \o Chunk(n) \in Seq(Nat)
    <3>1. PICK b : b = Chunk(n)
      OBVIOUS
    <3>2. stream \in Seq(Nat) /\ b \in Seq(Nat)
      BY <2>1, <3>1
    <3>3. stream \o b \in Seq(Nat)
      BY <3>2, ConcatProperties
    <3> QED
      BY <3>1, <3>3
  <2>4. stream' \in Seq(Nat) /\ totalWritten' \in Nat
    BY <2>1, <2>2, <2>3
  <2> QED
    BY <1>5, <2>4 DEF WriterWrite, WriterPcs
<1>6. CASE WriterCommits
  BY <1>6, EmptyBuffer, ZenonT(40) DEF WriterCommits, EmptiedWakes, WriterPcs, Woken
<1>7. CASE WriterLeaves
  BY <1>7, EmptyBuffer DEF WriterLeaves, EmptiedWakes, WriterPcs, Woken
<1>8. ASSUME NEW c \in {"query", "waitForBytesWritten"}, ClientCalls(c, 0)
      PROVE  TypeOK'
  BY <1>8 DEF ClientCalls, WriterPcs, ClientPcs, Calls
<1>9. ASSUME NEW n \in WriteSizes, ClientCalls("write", n)
      PROVE  TypeOK'
  BY <1>9, Constants DEF ClientCalls, WriterPcs, ClientPcs, Calls
<1>10. CASE ClientStarted \/ ClientQuery \/ WriteWaits
  BY <1>10 DEF ClientStarted, ClientQuery, WriteWaits, ClientPcs
<1>11. CASE WriteReturns
  <2>1. wbuffer' \in Seq(Nat) /\ accepted' \in Nat /\ written' \in {"error", "data"}
    <3>1. CASE werror
      BY <1>11, <3>1 DEF WriteReturns
    <3>2. CASE ~werror
      <4>1. PICK n : n = SmallerOf(size, WriteBufferSize)
        OBVIOUS
      <4>2. n \in Nat \ {0}
        BY <1>11, <4>1, FillSize DEF WriteReturns, SizeInv
      <4>3. /\ wbuffer' = [k \in 1 .. n |-> accepted + k]
            /\ accepted' = accepted + n /\ written' = "data"
        BY <1>11, <3>2, <4>1 DEF WriteReturns
      <4> QED
        BY <4>2, <4>3, FilledBuffer
    <3> QED
      BY <3>1, <3>2
  <2> QED
    BY <1>11, <2>1 DEF WriteReturns, ClientPcs, Woken
<1>12. CASE WaitWrittenBlocks \/ WaitWrittenReturns
  BY <1>12 DEF WaitWrittenBlocks, WaitWrittenReturns, ClientPcs
<1>13. CASE CloseBegins \/ CloseFlushes \/ CloseWoken \/ CloseCancels \/ CloseJoins
  BY <1>13, ZenonT(40) DEF CloseBegins, CloseFlushes, CloseWoken, CloseCancels, CloseJoins,
                 ClientPcs, Calls, Woken
<1>14. CASE UNCHANGED wvars
  BY <1>14 DEF wvars
<1>15. Terminated => UNCHANGED wvars
  BY DEF Terminated
<1>16. \A c \in {"query", "waitForBytesWritten"} : ClientCalls(c, 0) => TypeOK'
  BY <1>8
<1> QED
  BY <1>1, <1>2, <1>3, <1>4, <1>5, <1>6, <1>7, <1>9, <1>10, <1>11, <1>12, <1>13, <1>14,
     <1>15, <1>16, Zenon
     DEF Next, PeerStep, WriterStep, WriterRuns, ClientContinues, ClientBegins

LEMMA TypedNext ==
    ASSUME Typed, [Next]_wvars
    PROVE  Typed'
  BY TypeNext, SizeNext DEF Typed

\* Every variable of the writing half keeps its type (kdpipeiodevice.cpp).
THEOREM TypeCorrect == Spec => []TypeOK
<1>1. Typed /\ [Next]_wvars => Typed'
  BY TypedNext
<1>2. Typed => TypeOK
  BY DEF Typed
<1> QED
  BY TypedInit, <1>1, <1>2, PTL DEF Spec

-----------------------------------------------------------------------------
(* Who waits for what *)

Writing == wpc \in {"inWrite", "lockAfterWrite", "lockAfterError"}

ThreadInv ==
    /\ triedToStartWriter <=> wpc # "idle"
    /\ wcpc \in {"starting", "called", "waitWritten", "flushing", "flushWait"} =>
          triedToStartWriter
    /\ werror => wpc = "finished"
    /\ wpc = "finished" => werror \/ wcancel
    /\ wcancel => wcpc \in {"joining", "closed"}
    /\ wcpc = "closed" => wpc \in {"idle", "finished"}

\* There is something in the buffer only while the thread runs and close() has not
\* come past its wait, and the thread writes only when there is.
BufferInv ==
    /\ wpc \in {"idle", "finished"} => BufferEmpty
    /\ wpc = "check" => wcancel \/ ~BufferEmpty
    /\ Writing => ~BufferEmpty
    /\ wcpc \in {"cancelling", "joining", "closed"} => BufferEmpty
    /\ wcpc = "flushWait" /\ wcwait = "none" => BufferEmpty
    /\ wcwait = "hasStarted" => wcpc \notin {"flushWait"}

SleepInv ==
    /\ wwait # "none" => wpc = "waiting" /\ BufferEmpty /\ ~wcancel
    /\ wcwait = "bufferEmpty" => ~BufferEmpty

ControlInv == ThreadInv /\ BufferInv /\ SleepInv

LEMMA FillFills ==
    ASSUME Typed, WriteReturns
    PROVE  \/ werror /\ UNCHANGED <<wbuffer, wwait, accepted>>
           \/ /\ ~werror /\ wbuffer' # << >> /\ wwait' = Woken(wwait, {"bufferNotEmpty"})
              /\ BufferEmpty
<1>1. CASE werror
  BY <1>1 DEF WriteReturns
<1>2. CASE ~werror
  <2>1. PICK n : n = SmallerOf(size, WriteBufferSize)
    OBVIOUS
  <2>2. n \in Nat \ {0} /\ accepted \in Nat
    BY <2>1, FillSize DEF WriteReturns, Typed, SizeInv, TypeOK
  <2>3. /\ wbuffer' = [k \in 1 .. n |-> accepted + k]
        /\ wwait' = Woken(wwait, {"bufferNotEmpty"}) /\ BufferEmpty
    BY <1>2, <2>1 DEF WriteReturns, MayFill
  <2>4. wbuffer' # << >>
    BY <2>2, <2>3, FilledBuffer
  <2> QED
    BY <1>2, <2>3, <2>4
<1> QED
  BY <1>1, <1>2

LEMMA ControlInit == Init => ControlInv
  BY DEF Init, ControlInv, ThreadInv, BufferInv, SleepInv, BufferEmpty, Writing

LEMMA ControlNext ==
    ASSUME Typed, ControlInv, [Next]_wvars
    PROVE  ControlInv'
<1> USE DEF ControlInv, ThreadInv, BufferInv, SleepInv, BufferEmpty, Writing, Typed, TypeOK,
            wpipeVars, wthreadVars, wcallVars, wresultVars, Woken, WriterHoldsMutex,
            WriterPcs, ClientPcs
<1>1. ASSUME NEW n \in 1 .. PipeCapacity, PeerRead(n)
      PROVE  ControlInv'
  BY <1>1 DEF PeerRead
<1>2. CASE PeerCloseRead
  BY <1>2 DEF PeerCloseRead
<1>3. CASE WriterStarts
  BY <1>3 DEF WriterStarts
<1>4. CASE WriterLoop
  BY <1>4 DEF WriterLoop, WriterSleepsOn, EmptiedWakes
<1>5. CASE WriterResumes \/ WriterCheck
  BY <1>5 DEF WriterResumes, WriterCheck
<1>6. CASE WriterWriteFails
  BY <1>6 DEF WriterWriteFails
<1>7. ASSUME NEW n \in 1 .. WriteBufferSize, WriterWrite(n)
      PROVE  ControlInv'
  BY <1>7 DEF WriterWrite
<1>8. CASE WriterCommits
  BY <1>8 DEF WriterCommits, EmptiedWakes
<1>9. CASE WriterLeaves
  BY <1>9 DEF WriterLeaves, EmptiedWakes
<1>10. ASSUME NEW c, NEW n, ClientCalls(c, n)
       PROVE  ControlInv'
  BY <1>10 DEF ClientCalls
<1>11. CASE ClientStarted \/ ClientQuery
  BY <1>11 DEF ClientStarted, ClientQuery
<1>12. CASE WriteWaits
  BY <1>12 DEF WriteWaits, MayFill
<1>13. CASE WriteReturns
  <2>1. /\ UNCHANGED <<wpc, wcancel, werror, wcwait, triedToStartWriter>>
        /\ wcpc = "called" /\ wcpc' = "idle" /\ wcwait = "none" /\ ~WriterHoldsMutex
    BY <1>13 DEF WriteReturns
  <2>2. CASE werror /\ UNCHANGED <<wbuffer, wwait, accepted>>
    BY <2>1, <2>2
  <2>3. CASE ~werror /\ wbuffer' # << >> /\ wwait' = Woken(wwait, {"bufferNotEmpty"}) /\ BufferEmpty
    BY <2>1, <2>3
  <2> QED
    BY <1>13, <2>2, <2>3, FillFills
<1>14. CASE WaitWrittenBlocks
  BY <1>14 DEF WaitWrittenBlocks
<1>15. CASE WaitWrittenReturns
  BY <1>15 DEF WaitWrittenReturns
<1>16. CASE CloseBegins
  BY <1>16 DEF CloseBegins, NeedsFlush
<1>17. CASE CloseFlushes
  BY <1>17 DEF CloseFlushes
<1>18. CASE CloseWoken
  BY <1>18 DEF CloseWoken
<1>19. CASE CloseCancels
  BY <1>19 DEF CloseCancels
<1>20. CASE CloseJoins
  BY <1>20 DEF CloseJoins
<1>21. CASE UNCHANGED wvars
  BY <1>21 DEF wvars
<1>22. Terminated => UNCHANGED wvars
  BY DEF Terminated
<1>23. \A c, n : ClientCalls(c, n) => ControlInv'
  BY <1>10
<1> QED
  BY <1>1, <1>2, <1>3, <1>4, <1>5, <1>6, <1>7, <1>8, <1>9, <1>11, <1>12, <1>13, <1>14,
     <1>15, <1>16, <1>17, <1>18, <1>19, <1>20, <1>21, <1>22, <1>23, Zenon
     DEF Next, PeerStep, WriterStep, WriterRuns, ClientContinues, ClientBegins

LEMMA ControlAlways == Spec => [](Typed /\ ControlInv)
<1>1. Typed /\ ControlInv /\ [Next]_wvars => Typed' /\ ControlInv'
  BY TypedNext, ControlNext
<1> QED
  BY TypedInit, ControlInit, <1>1, PTL DEF Spec

LEMMA ControlMeansNoFailure == Typed /\ ControlInv => AssertionsHold
  BY DEF ControlInv, ThreadInv, BufferInv, AssertionsHold

\* The assertions of writeData() and stopThreads() hold: the thread that is to write
\* runs or has an error, and after one wait the buffer is empty
\* (kdpipeiodevice.cpp: writeData(), stopThreads()).
THEOREM NoAssertionFails == Spec => []AssertionsHold
  BY ControlMeansNoFailure, ControlAlways, PTL

LEMMA ControlMeansWakeUps == Typed /\ ControlInv => NobodySleepsForever
  BY DEF ControlInv, ThreadInv, BufferInv, SleepInv, NobodySleepsForever, Typed, TypeOK

\* No wake-up is lost, in whatever order the thread and the client take the mutex
\* (kdpipeiodevice.cpp: Writer::run(), writeData(), close()).
THEOREM NoLostWakeUp == Spec => []NobodySleepsForever
  BY ControlMeansWakeUps, ControlAlways, PTL

-----------------------------------------------------------------------------
(* What has become of the bytes *)

BufferHolds ==
    /\ Len(wbuffer) <= accepted
    /\ \A i \in 1 .. Len(wbuffer) : wbuffer[i] = accepted - Len(wbuffer) + i
StreamHolds == \A k \in 1 .. Len(stream) : stream[k] = k
Balance ==
    /\ Writing => /\ totalWritten <= Len(wbuffer)
                  /\ Len(stream) = accepted - Len(wbuffer) + totalWritten
    /\ ~Writing /\ ~werror => Len(stream) = accepted - Len(wbuffer)
    /\ Len(stream) <= accepted
DataInv == BufferHolds /\ StreamHolds /\ Balance

LEMMA Lengths ==
    ASSUME Typed
    PROVE  /\ Len(stream) \in Nat /\ Len(wbuffer) \in Nat /\ totalWritten \in Nat
           /\ accepted \in Nat
           /\ BufferEmpty <=> Len(wbuffer) = 0
  BY LenProperties, EmptySeq DEF Typed, TypeOK, BufferEmpty

LEMMA DataInit == Init => DataInv
<1> SUFFICES ASSUME Init PROVE DataInv
  OBVIOUS
<1>1. /\ Len(stream) = 0 /\ Len(wbuffer) = 0 /\ accepted = 0 /\ totalWritten = 0
      /\ ~Writing
  BY EmptyBuffer DEF Init, Writing
<1> QED
  BY <1>1 DEF DataInv, BufferHolds, StreamHolds, Balance

\* Steps that leave the bytes and the places of the thread that matter alone.
LEMMA DataKept ==
    ASSUME Typed, DataInv, UNCHANGED <<stream, wbuffer, accepted, werror, totalWritten>>,
           Writing' = Writing
    PROVE  DataInv'
  BY DEF DataInv, BufferHolds, StreamHolds, Balance

LEMMA DataNext ==
    ASSUME Typed, ControlInv, DataInv, [Next]_wvars
    PROVE  DataInv'
<1> DEFINE Same == UNCHANGED <<stream, wbuffer, accepted, werror, totalWritten>>
                   /\ Writing' = Writing
<1>1. ASSUME NEW n \in 1 .. PipeCapacity, PeerRead(n)
      PROVE  Same
  BY <1>1 DEF PeerRead, wthreadVars, wresultVars, Writing
<1>2. PeerCloseRead => Same
  BY DEF PeerCloseRead, wthreadVars, wresultVars, Writing
<1>3. WriterStarts \/ WriterLoop \/ WriterResumes \/ WriterWriteFails => Same
  BY DEF WriterStarts, WriterLoop, WriterResumes, WriterWriteFails, wpipeVars, wresultVars, Writing
<1>4. CASE WriterCheck
  <2>1. /\ UNCHANGED <<stream, wbuffer, accepted, werror>> /\ totalWritten' = 0
        /\ ~Writing /\ Writing' /\ ~werror
    BY <1>4 DEF WriterCheck, wpipeVars, wresultVars, Writing, ControlInv, ThreadInv
  <2> QED
    BY <2>1, Lengths DEF DataInv, BufferHolds, StreamHolds, Balance
<1>5. ASSUME NEW n \in 1 .. WriteBufferSize, WriterWrite(n)
      PROVE  DataInv'
  <2>1. /\ UNCHANGED <<wbuffer, accepted, werror>> /\ totalWritten' = totalWritten + n
        /\ stream' = stream \o Chunk(n) /\ Writing /\ Writing'
    BY <1>5 DEF WriterWrite, wresultVars, Writing
  <2>2. /\ n \in Nat \ {0} /\ totalWritten + n <= Len(wbuffer)
        /\ Chunk(n) \in Seq(Nat) /\ Len(Chunk(n)) = n
        /\ \A i \in 1 .. n : Chunk(n)[i] = wbuffer[totalWritten + i]
    BY <1>5, ChunkTyped
  <2>3. /\ Len(stream') = Len(stream) + n
        /\ \A i \in 1 .. Len(stream) + n : stream'[i] =
              IF i <= Len(stream) THEN stream[i] ELSE Chunk(n)[i - Len(stream)]
    <3>1. PICK b : b = Chunk(n)
      OBVIOUS
    <3>2. stream \in Seq(Nat) /\ b \in Seq(Nat) /\ Len(b) = n /\ stream' = stream \o b
      BY <2>1, <2>2, <3>1 DEF Typed, TypeOK
    <3>3. /\ Len(stream \o b) = Len(stream) + n
          /\ \A i \in 1 .. Len(stream) + n : (stream \o b)[i] =
                IF i <= Len(stream) THEN stream[i] ELSE b[i - Len(stream)]
      BY <3>2, ConcatProperties
    <3> QED
      BY <3>1, <3>2, <3>3
  <2>4. Balance'
    <3>1. Len(stream') = accepted - Len(wbuffer) + (totalWritten + n)
      <4>1. Len(stream) = accepted - Len(wbuffer) + totalWritten
        BY <2>1 DEF DataInv, Balance
      <4>2. Len(stream') = Len(stream) + n
        BY <2>3, Zenon
      <4> QED
        BY <2>2, <4>1, <4>2, Lengths
    <3>2. Len(stream') <= accepted
      BY <2>2, <3>1, Lengths
    <3> QED
      BY <2>1, <2>2, <3>1, <3>2 DEF Balance
  <2>5. \A i \in 1 .. n : Chunk(n)[i] = Len(stream) + i
    <3>1. \A i \in 1 .. n : totalWritten + i \in 1 .. Len(wbuffer)
      BY <2>2, Lengths
    <3>2. Len(stream) = accepted - Len(wbuffer) + totalWritten
      BY <2>1 DEF DataInv, Balance
    <3>3. \A i \in 1 .. n : wbuffer[totalWritten + i] = accepted - Len(wbuffer) + (totalWritten + i)
      BY <3>1 DEF DataInv, BufferHolds
    <3>4. \A i \in 1 .. n : Chunk(n)[i] = accepted - Len(wbuffer) + (totalWritten + i)
      BY <2>2, <3>3
    <3>5. \A i \in 1 .. n : i \in Nat
      BY <2>2
    <3> HIDE DEF Chunk
    <3> QED
      BY <3>2, <3>4, <3>5, Lengths
  <2>6. StreamHolds'
    <3>1. SUFFICES ASSUME NEW i \in 1 .. Len(stream) + n
                   PROVE  stream'[i] = i
      BY <2>3 DEF StreamHolds
    <3>2. CASE i <= Len(stream)
      BY <2>2, <2>3, <3>2, Lengths DEF DataInv, StreamHolds
    <3>3. CASE ~(i <= Len(stream))
      <4>1. i - Len(stream) \in 1 .. n
        BY <2>2, <3>3, Lengths
      <4>2. stream'[i] = Chunk(n)[i - Len(stream)]
        BY <2>3, <3>3
      <4>3. Chunk(n)[i - Len(stream)] = Len(stream) + (i - Len(stream))
        BY <2>5, <4>1
      <4>4. Len(stream) + (i - Len(stream)) = i
        BY <2>2, Lengths
      <4> QED
        BY <4>2, <4>3, <4>4
    <3> QED
      BY <3>2, <3>3
  <2> QED
    BY <2>1, <2>4, <2>6 DEF DataInv, BufferHolds
<1>6. CASE WriterCommits
  <2>1. CASE totalWritten < Len(wbuffer)
    BY <1>6, <2>1, DataKept DEF WriterCommits, wpipeVars, wresultVars, Writing
  <2>2. CASE ~(totalWritten < Len(wbuffer))
    <3>1. /\ UNCHANGED <<stream, accepted, werror>> /\ wbuffer' = << >>
          /\ Writing /\ ~Writing'
      BY <1>6, <2>2 DEF WriterCommits, wpipeVars, wresultVars, Writing
    <3>2. Len(stream) = accepted
      BY <2>2, <3>1, Lengths DEF DataInv, Balance
    <3> QED
      BY <3>1, <3>2, Lengths, EmptyBuffer DEF DataInv, BufferHolds, StreamHolds, Balance
  <2> QED
    BY <2>1, <2>2
<1>7. CASE WriterLeaves
  <2>1. UNCHANGED <<stream, accepted>> /\ wbuffer' = << >> /\ ~Writing'
    BY <1>7 DEF WriterLeaves, wpipeVars, wresultVars, Writing
  <2>2. ~werror' => Len(stream) = accepted
    <3>1. SUFFICES ASSUME ~werror'
                   PROVE  Len(stream) = accepted
      OBVIOUS
    <3>2. wpc = "check" /\ wcancel /\ ~werror
      BY <1>7, <3>1 DEF WriterLeaves
    <3>3. BufferEmpty /\ ~Writing
      BY <3>2 DEF ControlInv, ThreadInv, BufferInv, Writing
    <3> QED
      BY <3>2, <3>3, Lengths DEF DataInv, Balance
  <2> QED
    BY <2>1, <2>2, Lengths, EmptyBuffer DEF DataInv, BufferHolds, StreamHolds, Balance
<1>8. ASSUME NEW c, NEW n, ClientCalls(c, n)
      PROVE  Same
  BY <1>8 DEF ClientCalls, wpipeVars, wresultVars, Writing, ControlInv, ThreadInv
<1>9. ClientStarted \/ ClientQuery \/ WriteWaits \/ WaitWrittenBlocks \/ WaitWrittenReturns => Same
  BY DEF ClientStarted, ClientQuery, WriteWaits, WaitWrittenBlocks, WaitWrittenReturns,
         wpipeVars, wthreadVars, wresultVars, Writing
<1>10. CASE WriteReturns
  <2>1. UNCHANGED <<stream, werror, totalWritten, wpc>>
    BY <1>10 DEF WriteReturns, wpipeVars
  <2>2. CASE werror
    BY <1>10, <2>1, <2>2, DataKept DEF WriteReturns, Writing
  <2>3. CASE ~werror
    <3>1. PICK n : n = SmallerOf(size, WriteBufferSize)
      OBVIOUS
    <3>2. n \in Nat \ {0} /\ accepted \in Nat
      BY <1>10, <3>1, FillSize DEF WriteReturns, Typed, SizeInv, TypeOK
    <3>3. /\ wbuffer' = [k \in 1 .. n |-> accepted + k] /\ accepted' = accepted + n
          /\ BufferEmpty
      BY <1>10, <2>3, <3>1 DEF WriteReturns, MayFill
    <3>4. Len(wbuffer') = n /\ \A i \in 1 .. n : wbuffer'[i] = accepted + i
      BY <3>2, <3>3, FilledBuffer
    <3>5. BufferHolds'
      BY <3>2, <3>3, <3>4 DEF BufferHolds
    <3>6. ~Writing /\ ~Writing'
      BY <2>1, <3>3 DEF ControlInv, BufferInv, Writing
    <3>7. Balance'
      BY <2>1, <2>3, <3>2, <3>3, <3>4, <3>6, Lengths DEF DataInv, Balance
    <3> QED
      BY <2>1, <3>5, <3>7 DEF DataInv, StreamHolds
  <2> QED
    BY <2>2, <2>3
<1>11. CloseBegins \/ CloseFlushes \/ CloseWoken \/ CloseCancels \/ CloseJoins => Same
  BY DEF CloseBegins, CloseFlushes, CloseWoken, CloseCancels, CloseJoins,
         wpipeVars, wthreadVars, wresultVars, Writing
<1>12. UNCHANGED wvars => Same
  BY DEF wvars, wpipeVars, wthreadVars, wresultVars, Writing
<1>13. Terminated => UNCHANGED wvars
  BY DEF Terminated
<1>14. Same => DataInv'
  BY DataKept
<1>15. \A c, n : ClientCalls(c, n) => Same
  BY <1>8
<1> HIDE DEF Same
<1> QED
  BY <1>1, <1>2, <1>3, <1>4, <1>5, <1>6, <1>7, <1>9, <1>10, <1>11, <1>12, <1>13, <1>14,
     <1>15, Zenon
     DEF Next, PeerStep, WriterStep, WriterRuns, ClientContinues, ClientBegins

LEMMA DataAlways == Spec => [](Typed /\ ControlInv /\ DataInv)
<1>1. Typed /\ ControlInv /\ DataInv /\ [Next]_wvars => Typed' /\ ControlInv' /\ DataInv'
  BY TypedNext, ControlNext, DataNext
<1> QED
  BY TypedInit, ControlInit, DataInit, <1>1, PTL DEF Spec

LEMMA DataMeansOrder == Typed /\ ControlInv /\ DataInv => WrittenInOrder
<1> SUFFICES ASSUME Typed, ControlInv, DataInv
             PROVE  WrittenInOrder
  OBVIOUS
<1>1. ~werror => Len(stream) + Unwritten = accepted
  BY Lengths DEF DataInv, Balance, Unwritten, Writing
<1> QED
  BY <1>1 DEF DataInv, StreamHolds, Balance, WrittenInOrder

\* The pipe gets the accepted bytes in order, each once, and without an error those
\* it has not got are still buffered (kdpipeiodevice.cpp: Writer::run()).
THEOREM NothingLostOrReordered == Spec => []WrittenInOrder
  BY DataMeansOrder, DataAlways, PTL

LEMMA DataMeansFlushed == Typed /\ ControlInv /\ DataInv => ClosedIsFlushed
<1> SUFFICES ASSUME Typed, ControlInv, DataInv, wcpc = "closed", ~werror
             PROVE  Len(stream) = accepted
  BY DEF ClosedIsFlushed
<1>1. BufferEmpty /\ ~Writing
  BY DEF ControlInv, ThreadInv, BufferInv, Writing
<1> QED
  BY <1>1, Lengths DEF DataInv, Balance

\* A device that was closed without an error has written everything it accepted
\* (kdpipeiodevice.cpp: close()).
THEOREM CloseFlushesAll == Spec => []ClosedIsFlushed
  BY DataMeansFlushed, DataAlways, PTL
=============================================================================
