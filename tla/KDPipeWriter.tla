---------------------------- MODULE KDPipeWriter ----------------------------
(***************************************************************************)
(* The writing half of KDPipeIODevice (kleopatra/src/utils/                *)
(* kdpipeiodevice.cpp): the Writer thread, which moves the content of a    *)
(* buffer to a file descriptor, and the client, the thread that owns the   *)
(* device and writes to it, together with the pipe behind the descriptor.  *)
(*                                                                         *)
(* Mutex and conditions are modelled as in KDPipeReader.  Byte number k    *)
(* that the device accepts is the number k.                                *)
(***************************************************************************)
EXTENDS Integers, Sequences

CONSTANTS
    WriteBufferSize,    \* sizeof buffer
    WriteSizes,         \* the values of size the client calls write() with
    MaxAccepted,        \* bound: bytes the client ever gets accepted
    PipeCapacity,       \* bytes the pipe holds
    WriteMayFail        \* whether ::write() may fail while the peer is there

ASSUME WriteBufferSizeAssumption == WriteBufferSize \in Nat \ {0}
ASSUME WriteSizesAssumption == WriteSizes \subseteq Nat \ {0}
ASSUME MaxAcceptedAssumption == MaxAccepted \in Nat
ASSUME PipeCapacityAssumption == PipeCapacity \in Nat \ {0}
ASSUME WriteMayFailAssumption == WriteMayFail \in BOOLEAN

VARIABLES
    \* the pipe behind the descriptor
    stream,         \* bytes ::write() has put into it, all of them
    fetched,        \* how many of them the peer has taken out
    writeEndOpen,   \* close() has not closed the descriptor yet
    readEndOpen,    \* the peer has not closed its end
    \* Writer
    wpc, wwait,     \* where the thread is, the condition it sleeps on
    wcancel, werror,
    wbuffer,        \* the numBytesInBuffer bytes of buffer
    totalWritten,   \* local of run()
    \* the client
    wcpc, wcall,    \* where its thread is, the call in progress
    wcwait,         \* the condition it sleeps on
    size,           \* argument of the write() in progress
    triedToStartWriter,
    accepted,       \* bytes that write() has accepted
    written         \* what the last call returned

wpipeVars   == <<stream, fetched, writeEndOpen, readEndOpen>>
wthreadVars == <<wpc, wwait, wcancel, werror, wbuffer, totalWritten>>
wcallVars   == <<wcpc, wcall, wcwait, size, triedToStartWriter>>
wresultVars == <<accepted, written>>
wvars == <<wpipeVars, wthreadVars, wcallVars, wresultVars>>

Conditions == {"none", "bufferEmpty", "bufferNotEmpty", "hasStarted"}
WriterPcs == {"idle", "starting", "loop", "waiting", "check", "inWrite",
              "lockAfterWrite", "lockAfterError", "finished"}
ClientPcs == {"idle", "starting", "called", "waitWritten", "flushing",
              "flushWait", "cancelling", "joining", "closed"}
Calls == {"query", "write", "waitForBytesWritten", "close"}

\* The condition the Writer sleeps on while the buffer is empty.
WriterSleepsOn == "bufferNotEmpty"

\* The conditions that are woken when the buffer has become empty.
EmptiedWakesNobody == {}                    \* fault: no wakeAll()
EmptiedWakes == {"bufferEmpty"}

SmallerOf(a, b) == IF a < b THEN a ELSE b
BufferEmpty == wbuffer = << >>
Woken(w, C) == IF w \in C THEN "none" ELSE w

-----------------------------------------------------------------------------
Init ==
    /\ stream = << >> /\ fetched = 0 /\ writeEndOpen = TRUE /\ readEndOpen = TRUE
    /\ wpc = "idle" /\ wwait = "none" /\ wcancel = FALSE /\ werror = FALSE
    /\ wbuffer = << >> /\ totalWritten = 0
    /\ wcpc = "idle" /\ wcall = "query" /\ wcwait = "none" /\ size = 0
    /\ triedToStartWriter = FALSE
    /\ accepted = 0 /\ written = "none"

-----------------------------------------------------------------------------
(* The peer, at the other end of the pipe *)

PeerRead(n) ==
    /\ readEndOpen
    /\ n \in 1 .. Len(stream) - fetched
    /\ fetched' = fetched + n
    /\ UNCHANGED <<stream, writeEndOpen, readEndOpen, wthreadVars, wcallVars,
                   wresultVars>>

PeerCloseRead ==
    /\ readEndOpen
    /\ readEndOpen' = FALSE
    /\ UNCHANGED <<stream, fetched, writeEndOpen, wthreadVars, wcallVars,
                   wresultVars>>

-----------------------------------------------------------------------------
(* Writer::run() *)

WriterHoldsMutex == wpc \in {"loop", "check"}

WriterStarts ==
    /\ wpc = "starting"
    /\ wcwait' = Woken(wcwait, {"hasStarted"})
    /\ wpc' = "loop"
    /\ UNCHANGED <<wpipeVars, wwait, wcancel, werror, wbuffer, totalWritten,
                   wcpc, wcall, size, triedToStartWriter, wresultVars>>

\* The inner loop: while there is nothing to write, say so and sleep.
WriterLoop ==
    /\ wpc = "loop"
    /\ IF ~wcancel /\ BufferEmpty
         THEN /\ wcwait' = Woken(wcwait, EmptiedWakes)
              /\ wwait' = WriterSleepsOn
              /\ wpc' = "waiting"
         ELSE wpc' = "check" /\ UNCHANGED <<wcwait, wwait>>
    /\ UNCHANGED <<wpipeVars, wcancel, werror, wbuffer, totalWritten, wcpc,
                   wcall, size, triedToStartWriter, wresultVars>>

WriterResumes ==
    /\ wpc = "waiting" /\ wwait = "none"
    /\ wpc' = "loop"
    /\ UNCHANGED <<wpipeVars, wwait, wcancel, werror, wbuffer, totalWritten,
                   wcallVars, wresultVars>>

WriterCheck ==
    /\ wpc = "check" /\ ~wcancel
    /\ totalWritten' = 0
    /\ wpc' = "inWrite"
    /\ UNCHANGED <<wpipeVars, wwait, wcancel, werror, wbuffer, wcallVars,
                   wresultVars>>

\* The next n bytes to write.
ChunkFromStart(n) == SubSeq(wbuffer, 1, n)  \* fault: starts over after a part
Chunk(n) == SubSeq(wbuffer, totalWritten + 1, totalWritten + n)

\* ::write(), without the mutex.
WriterWrite(n) ==
    /\ wpc = "inWrite" /\ readEndOpen
    /\ n \in 1 .. SmallerOf(Len(wbuffer) - totalWritten,
                            PipeCapacity - (Len(stream) - fetched))
    /\ stream' = stream \o Chunk(n)
    /\ totalWritten' = totalWritten + n
    /\ wpc' = "lockAfterWrite"
    /\ UNCHANGED <<fetched, writeEndOpen, readEndOpen, wwait, wcancel, werror,
                   wbuffer, wcallVars, wresultVars>>

WriterWriteFails ==
    /\ wpc = "inWrite"
    /\ WriteMayFail \/ ~readEndOpen
    /\ wpc' = "lockAfterError"
    /\ UNCHANGED <<wpipeVars, wwait, wcancel, werror, wbuffer, totalWritten,
                   wcallVars, wresultVars>>

WriterCommits ==
    /\ wpc = "lockAfterWrite"
    /\ IF totalWritten < Len(wbuffer)
         THEN wpc' = "inWrite" /\ UNCHANGED <<wbuffer, wcwait>>
         ELSE /\ wbuffer' = << >>
              /\ wcwait' = Woken(wcwait, EmptiedWakes)
              /\ wpc' = "loop"
    /\ UNCHANGED <<wpipeVars, wwait, wcancel, werror, totalWritten, wcpc, wcall,
                   size, triedToStartWriter, wresultVars>>

WriterLeavesSilently ==                     \* fault: error is not set
    /\ wpc = "lockAfterError" \/ (wpc = "check" /\ wcancel)
    /\ wbuffer' = << >>
    /\ wcwait' = Woken(wcwait, EmptiedWakes)
    /\ wpc' = "finished"
    /\ UNCHANGED <<wpipeVars, wwait, wcancel, werror, totalWritten, wcpc, wcall,
                   size, triedToStartWriter, wresultVars>>

\* "leave", after a cancel or a failed ::write(): what is buffered is dropped.
WriterLeaves ==
    /\ \/ wpc = "check" /\ wcancel /\ UNCHANGED werror
       \/ wpc = "lockAfterError" /\ werror' = TRUE
    /\ wbuffer' = << >>
    /\ wcwait' = Woken(wcwait, EmptiedWakes)
    /\ wpc' = "finished"
    /\ UNCHANGED <<wpipeVars, wwait, wcancel, totalWritten, wcpc, wcall, size,
                   triedToStartWriter, wresultVars>>

\* What the thread does by itself; nothing makes a ::write() fail that waits.
WriterRuns ==
    \/ WriterStarts \/ WriterLoop \/ WriterResumes \/ WriterCheck
    \/ WriterCommits \/ WriterLeaves
    \/ ~readEndOpen /\ WriterWriteFails
    \/ \E n \in 1 .. WriteBufferSize : WriterWrite(n)

WriterStep == WriterRuns \/ WriterWriteFails

-----------------------------------------------------------------------------
(* The client: calls on the device *)

\* Every call begins with startWriterThread(); the first one starts the thread
\* and waits, for at most a second, until it runs.
ClientCalls(c, n) ==
    /\ wcpc = "idle" /\ ~WriterHoldsMutex
    /\ wcall' = c
    /\ size' = n
    /\ triedToStartWriter' = TRUE
    /\ IF triedToStartWriter
         THEN wcpc' = "called" /\ UNCHANGED <<wpc, wcwait>>
         ELSE /\ wcpc' = "starting"
              /\ wcwait' = "hasStarted"
              /\ wpc' = "starting"
    /\ UNCHANGED <<wpipeVars, wwait, wcancel, werror, wbuffer, totalWritten,
                   wresultVars>>

ClientStarted ==
    /\ wcpc = "starting" /\ ~WriterHoldsMutex
    /\ wcpc' = "called"
    /\ wcwait' = "none"
    /\ UNCHANGED <<wpipeVars, wthreadVars, wcall, size, triedToStartWriter,
                   wresultVars>>

\* bytesToWrite(), writeWouldBlock(): looks, changes nothing.
ClientQuery ==
    /\ wcpc = "called" /\ wcall = "query" /\ ~WriterHoldsMutex
    /\ wcpc' = "idle"
    /\ UNCHANGED <<wpipeVars, wthreadVars, wcall, wcwait, size,
                   triedToStartWriter, wresultVars>>

MayFill == BufferEmpty

\* writeData(): wait for the buffer to be empty, as often as it takes ...
WriteWaits ==
    /\ wcpc = "called" /\ wcall = "write" /\ ~WriterHoldsMutex
    /\ wcwait = "none"
    /\ ~werror /\ ~MayFill
    /\ wcwait' = "bufferEmpty"
    /\ UNCHANGED <<wpipeVars, wthreadVars, wcpc, wcall, size,
                   triedToStartWriter, wresultVars>>

\* ... and fill it: Writer::writeData() takes no more than fits.
WriteReturns ==
    /\ wcpc = "called" /\ wcall = "write" /\ ~WriterHoldsMutex
    /\ wcwait = "none"
    /\ \/ /\ werror
          /\ written' = "error"
          /\ UNCHANGED <<wbuffer, wwait, accepted>>
       \/ /\ ~werror /\ MayFill
          /\ LET n == SmallerOf(size, WriteBufferSize)
             IN  /\ wbuffer' = [k \in 1 .. n |-> accepted + k]
                 /\ accepted' = accepted + n
          /\ wwait' = Woken(wwait, {"bufferNotEmpty"})
          /\ written' = "data"
    /\ wcpc' = "idle"
    /\ UNCHANGED <<wpipeVars, wpc, wcancel, werror, totalWritten, wcall, wcwait,
                   size, triedToStartWriter>>

\* waitForBytesWritten(msecs)
WaitWrittenBlocks ==
    /\ wcpc = "called" /\ wcall = "waitForBytesWritten" /\ ~WriterHoldsMutex
    /\ ~BufferEmpty /\ ~werror
    /\ wcwait' = "bufferEmpty"
    /\ wcpc' = "waitWritten"
    /\ UNCHANGED <<wpipeVars, wthreadVars, wcall, size, triedToStartWriter,
                   wresultVars>>

\* Nothing to wait for, bufferEmptyCondition has been woken, or msecs are over.
WaitWrittenReturns ==
    /\ wcall = "waitForBytesWritten" /\ ~WriterHoldsMutex
    /\ \/ wcpc = "called" /\ (BufferEmpty \/ werror)
       \/ wcpc = "waitWritten"
    /\ written' = IF BufferEmpty \/ werror THEN "flushed" ELSE "timeout"
    /\ wcpc' = "idle"
    /\ wcwait' = "none"
    /\ UNCHANGED <<wpipeVars, wthreadVars, wcall, size, triedToStartWriter,
                   accepted>>

-----------------------------------------------------------------------------
(* close() and stopThreads() *)

\* bytesToWrite(): only a device that was used has something to flush.
NeedsNoFlush == FALSE                               \* fault: close() is hasty
NeedsFlush == triedToStartWriter /\ ~BufferEmpty

CloseBegins ==
    /\ wcpc = "idle" /\ ~WriterHoldsMutex
    /\ wcall' = "close"
    /\ wcpc' = IF NeedsFlush THEN "flushing" ELSE "cancelling"
    /\ UNCHANGED <<wpipeVars, wthreadVars, wcwait, size, triedToStartWriter,
                   wresultVars>>

\* waitForBytesWritten(-1)
CloseFlushes ==
    /\ wcpc = "flushing" /\ ~WriterHoldsMutex
    /\ IF BufferEmpty \/ werror
         THEN wcpc' = "cancelling" /\ UNCHANGED wcwait
         ELSE wcpc' = "flushWait" /\ wcwait' = "bufferEmpty"
    /\ UNCHANGED <<wpipeVars, wthreadVars, wcall, size, triedToStartWriter,
                   wresultVars>>

CloseWoken ==
    /\ wcpc = "flushWait" /\ wcwait = "none" /\ ~WriterHoldsMutex
    /\ wcpc' = "cancelling"
    /\ UNCHANGED <<wpipeVars, wthreadVars, wcall, wcwait, size,
                   triedToStartWriter, wresultVars>>

CloseCancels ==
    /\ wcpc = "cancelling" /\ ~WriterHoldsMutex
    /\ wcancel' = TRUE
    /\ wwait' = Woken(wwait, {"bufferNotEmpty"})
    /\ wcpc' = "joining"
    /\ UNCHANGED <<wpipeVars, wpc, werror, wbuffer, totalWritten, wcall, wcwait,
                   size, triedToStartWriter, wresultVars>>

CloseJoins ==
    /\ wcpc = "joining"
    /\ wpc \in {"idle", "finished"}
    /\ wcpc' = "closed"
    /\ writeEndOpen' = FALSE
    /\ UNCHANGED <<stream, fetched, readEndOpen, wthreadVars, wcall, wcwait,
                   size, triedToStartWriter, wresultVars>>

-----------------------------------------------------------------------------
ClientContinues ==
    \/ ClientStarted \/ ClientQuery \/ WriteWaits \/ WriteReturns
    \/ WaitWrittenBlocks \/ WaitWrittenReturns
    \/ CloseFlushes \/ CloseWoken \/ CloseCancels \/ CloseJoins

ClientBegins ==
    \/ ClientCalls("query", 0)
    \/ ClientCalls("waitForBytesWritten", 0)
    \/ \E n \in WriteSizes :
          /\ accepted + SmallerOf(n, WriteBufferSize) <= MaxAccepted
          /\ ClientCalls("write", n)
    \/ CloseBegins

\* Nothing is left to do, so that any other halt is a deadlock.
Terminated ==
    /\ wcpc = "closed" /\ (~readEndOpen \/ fetched = Len(stream))
    /\ UNCHANGED wvars

PeerStep == PeerCloseRead \/ \E n \in 1 .. PipeCapacity : PeerRead(n)

Next == PeerStep \/ WriterStep \/ ClientContinues \/ ClientBegins \/ Terminated

Spec == Init /\ [][Next]_wvars

\* The writer thread runs, and so does a client with a call to finish.  The peer
\* takes out what is in the pipe, unless it closes its end.
Fairness ==
    /\ WF_wvars(WriterRuns) /\ WF_wvars(ClientContinues)
    /\ WF_wvars(\E n \in 1 .. PipeCapacity : PeerRead(n))

FairSpec == Spec /\ Fairness

-----------------------------------------------------------------------------
(* Properties *)

TypeOK ==
    /\ stream \in Seq(Nat) /\ fetched \in Nat
    /\ writeEndOpen \in BOOLEAN /\ readEndOpen \in BOOLEAN
    /\ wpc \in WriterPcs /\ wwait \in {"none", "bufferNotEmpty"}
    /\ wcancel \in BOOLEAN /\ werror \in BOOLEAN
    /\ wbuffer \in Seq(Nat) /\ totalWritten \in Nat
    /\ wcpc \in ClientPcs /\ wcall \in Calls
    /\ wcwait \in {"none", "bufferEmpty", "hasStarted"}
    /\ size \in Nat /\ triedToStartWriter \in BOOLEAN
    /\ accepted \in Nat
    /\ written \in {"none", "data", "error", "flushed", "timeout"}

\* Bytes of the buffer that ::write() has not put into the pipe yet.
Unwritten == Len(wbuffer)
             - (IF wpc \in {"inWrite", "lockAfterWrite", "lockAfterError"}
                  THEN totalWritten ELSE 0)

\* The pipe gets the bytes the device accepted, in order, each once; and as long
\* as no ::write() has failed, those it has not got are in the buffer.
WrittenInOrder ==
    /\ \A k \in 1 .. Len(stream) : stream[k] = k
    /\ Len(stream) <= accepted
    /\ ~werror => Len(stream) + Unwritten = accepted

\* A device that has been closed without an error has left nothing behind.
ClosedIsFlushed ==
    wcpc = "closed" /\ ~werror => Len(stream) = accepted

\* Q_ASSERT(w->error || w->isRunning()) in writeData(), read without the mutex,
\* and Q_ASSERT(q->bytesToWrite() == 0) in stopThreads(), after one single wait.
AssertionsHold ==
    /\ wcpc = "called" => werror \/ wpc \notin {"idle", "finished"}
    /\ wcpc = "cancelling" => BufferEmpty

\* No wake-up is lost: a writer that sleeps has nothing to do, a client that
\* sleeps until the buffer is empty can count on a writer at work on it.
NobodySleepsForever ==
    /\ wwait = "bufferNotEmpty" => BufferEmpty /\ ~wcancel
    /\ wcwait = "bufferEmpty" =>
          /\ ~BufferEmpty
          /\ wwait = "none" /\ wpc \notin {"idle", "finished"}

\* write() returns, and so does close(), whatever the peer does with its end.
CallsReturn ==
    /\ wcpc = "called" /\ wcall = "write" ~> wcpc = "idle"
    /\ wcall = "close" ~> wcpc = "closed"
=============================================================================
