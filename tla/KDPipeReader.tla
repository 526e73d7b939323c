---------------------------- MODULE KDPipeReader ----------------------------
(***************************************************************************)
(* The reading half of KDPipeIODevice (kleopatra/src/utils/                *)
(* kdpipeiodevice.cpp): the Reader thread, which moves bytes from a file   *)
(* descriptor into a ring buffer, and the client, the thread that owns the *)
(* device and reads from it, together with the pipe behind the descriptor. *)
(*                                                                         *)
(* Both threads work under Reader::mutex.  A section of the client that    *)
(* runs with the mutex held is one action, enabled while the reader does   *)
(* not hold the mutex; the reader's sections are stepped through one       *)
(* statement at a time (rpc).  A thread in QWaitCondition::wait has given  *)
(* the mutex up and sits on a condition (rwait, cwait) until somebody      *)
(* wakes that condition; QWaitCondition hides spurious wake-ups.           *)
(* Byte number k of the stream is the number k, so that a byte that is     *)
(* lost, duplicated or out of order shows.                                 *)
(***************************************************************************)
EXTENDS Integers, Sequences

CONSTANTS
    BufferSize,     \* sizeof buffer; one byte of it stays free
    ReadSizes,      \* the values of maxSize the client calls read() with
    MaxStream,      \* bound: bytes the peer ever writes
    ReadMayFail,    \* whether ::read() may return -1
    Policies        \* how a client may use the device, see below

ASSUME BufferSizeAssumption == BufferSize \in Nat /\ BufferSize >= 2
ASSUME ReadSizesAssumption  == ReadSizes \subseteq Nat \ {0}
ASSUME MaxStreamAssumption  == MaxStream \in Nat
ASSUME ReadMayFailAssumption == ReadMayFail \in BOOLEAN
\* "events": an event loop that reads in the readyRead() slot until nothing is
\*           left; "blocking": a worker thread without an event loop that calls
\*           read() and nothing else; "any": every legal call at every moment.
ASSUME PolicyAssumption == Policies \subseteq {"events", "blocking", "any"}

VARIABLES
    \* the pipe behind the descriptor
    stream,         \* bytes the peer has written, all of them
    fetched,        \* how many of them ::read() has returned
    writeEndOpen,   \* the peer has not closed its end
    \* Reader
    rpc, rret,      \* the thread: where it is, where it goes on after a wait
    rwait,          \* the condition it sleeps on
    cancel, eof, error, eofShortCut, consumerBlocksOnUs,
    rptr, wptr, buffer,
    wasEmpty, numBytes, numRead,    \* locals of run()
    \* the client
    cpc, call,      \* where its thread is, the call in progress
    cwait,          \* the condition it sleeps on
    maxSize,        \* argument of the read() in progress
    triedToStartReader,
    queuedReadyRead, inSlot,        \* queued signals; in emitReadyRead()
    \* what the client has got: every byte, and the last return value
    received, outcome,
    policy          \* how this client uses the device; it never changes

pipeVars   == <<stream, fetched, writeEndOpen>>
threadVars == <<rpc, rret, rwait, wasEmpty, numBytes, numRead>>
flagVars   == <<cancel, eof, error, eofShortCut, consumerBlocksOnUs>>
bufferVars == <<rptr, wptr, buffer>>
callVars   == <<cpc, call, cwait, maxSize, triedToStartReader>>
slotVars   == <<queuedReadyRead, inSlot, policy>>
resultVars == <<received, outcome>>
vars == <<pipeVars, threadVars, flagVars, bufferVars, callVars, slotVars,
          resultVars>>

Conditions == {"none", "waitForCancel", "bufferNotFull", "bufferNotEmpty",
               "hasStarted", "readyReadSent", "blockedConsumerIsDone"}
LockedAt == {"loop", "notify", "eofReturn", "full", "fullRecheck", "check"}
ReaderPcs == {"idle", "starting", "waiting", "inRead", "lockAfterRead",
              "finished"} \cup LockedAt
ClientPcs == {"idle", "starting", "called", "locking", "blocked", "waitReady",
              "closing", "joining", "closed"}

-----------------------------------------------------------------------------
(* The ring buffer *)

BytesInBuffer == (wptr + BufferSize - rptr) % BufferSize
BufferFull    == BytesInBuffer = BufferSize - 1
BufferEmpty   == BytesInBuffer = 0

SmallerOf(a, b) == IF a < b THEN a ELSE b

\* How many bytes readData() may copy without wrapping around.
Contiguous == IF rptr < wptr THEN wptr - rptr ELSE BufferSize - rptr

\* How many bytes run() may read without wrapping around, with one to spare.
RoomUnchecked(r, w) == BufferSize - w   \* fault: ignores the byte kept free
Room(r, w) == SmallerOf((r + BufferSize - w - 1) % BufferSize, BufferSize - w)

Advance(ptr, n) == (ptr + n) % BufferSize

-----------------------------------------------------------------------------
Init ==
    /\ stream = << >> /\ fetched = 0 /\ writeEndOpen = TRUE
    /\ rpc = "idle" /\ rret = "loop" /\ rwait = "none"
    /\ wasEmpty = FALSE /\ numBytes = 0 /\ numRead = 0
    /\ cancel = FALSE /\ eof = FALSE /\ error = FALSE
    /\ eofShortCut = FALSE /\ consumerBlocksOnUs = FALSE
    /\ rptr = 0 /\ wptr = 0 /\ buffer = [i \in 0 .. BufferSize - 1 |-> 0]
    /\ cpc = "idle" /\ call = "none" /\ cwait = "none" /\ maxSize = 0
    /\ triedToStartReader = FALSE
    /\ queuedReadyRead = 0 /\ inSlot = FALSE
    /\ received = << >> /\ outcome = "none"
    /\ policy \in Policies

-----------------------------------------------------------------------------
(* The peer, at the other end of the pipe *)

PeerWrite ==
    /\ writeEndOpen
    /\ Len(stream) < MaxStream
    /\ stream' = Append(stream, Len(stream) + 1)
    /\ UNCHANGED <<fetched, writeEndOpen, threadVars, flagVars, bufferVars,
                   callVars, slotVars, resultVars>>

PeerClose ==
    /\ writeEndOpen
    /\ writeEndOpen' = FALSE
    /\ UNCHANGED <<stream, fetched, threadVars, flagVars, bufferVars,
                   callVars, slotVars, resultVars>>

-----------------------------------------------------------------------------
(* Reader::run() and Reader::notifyReadyRead() *)

ReaderHoldsMutex == rpc \in LockedAt

\* Woken(w, C): where a thread that sleeps on w is after wakeAll() on all of C.
Woken(w, C) == IF w \in C THEN "none" ELSE w

\* Condition::wait(&mutex), to go on at pc when woken.
SleepOn(condition, pc) ==
    /\ rwait' = condition
    /\ rpc' = "waiting"
    /\ rret' = pc

ReaderStarts ==
    /\ rpc = "starting"
    /\ cwait' = Woken(cwait, {"hasStarted"})
    /\ rpc' = "loop"
    /\ UNCHANGED <<pipeVars, rret, rwait, wasEmpty, numBytes, numRead,
                   flagVars, bufferVars, cpc, call, maxSize,
                   triedToStartReader, slotVars, resultVars>>

ReaderResumes ==
    /\ rpc = "waiting"
    /\ rwait = "none"
    /\ rpc' = rret
    /\ UNCHANGED <<pipeVars, rret, rwait, wasEmpty, numBytes, numRead,
                   flagVars, bufferVars, callVars, slotVars, resultVars>>

AnnouncesEndOnce == ~cancel /\ (eof \/ error) /\ ~BufferEmpty   \* fault: not again
AnnouncesEnd == ~cancel /\ (eof \/ error)

AnnouncesSome == ~cancel /\ ~(eof \/ error) /\ ~BufferFull /\ BytesInBuffer > 1 \* fault
AnnouncesData == ~cancel /\ ~(eof \/ error) /\ ~BufferFull /\ ~BufferEmpty

\* The top of the loop: announce end of file, an error, or fresh data.
ReaderLoop ==
    /\ rpc = "loop"
    /\ \/ /\ AnnouncesEnd
          /\ wasEmpty' = BufferEmpty
          /\ rpc' = "notify" /\ rret' = "eofReturn"
       \/ /\ AnnouncesData
          /\ rpc' = "notify" /\ rret' = "full"
          /\ UNCHANGED wasEmpty
       \/ /\ ~AnnouncesEnd /\ ~AnnouncesData
          /\ rpc' = "full"
          /\ UNCHANGED <<rret, wasEmpty>>
    /\ UNCHANGED <<pipeVars, rwait, numBytes, numRead, flagVars, bufferVars,
                   callVars, slotVars, resultVars>>

\* A consumer blocked in readData() is woken and waited for; otherwise
\* readyRead() is queued, and the thread waits until somebody has seen it.
NotifyReadyRead ==
    /\ rpc = "notify"
    /\ IF consumerBlocksOnUs
         THEN /\ cwait' = Woken(cwait, {"bufferNotEmpty"})
              /\ SleepOn("blockedConsumerIsDone", rret)
              /\ UNCHANGED queuedReadyRead
         ELSE /\ queuedReadyRead' = queuedReadyRead + 1
              /\ SleepOn("readyReadSent", rret)
              /\ UNCHANGED cwait
    /\ UNCHANGED <<pipeVars, wasEmpty, numBytes, numRead, flagVars, bufferVars,
                   cpc, call, maxSize, triedToStartReader, inSlot, policy,
                   resultVars>>

ReaderAfterEofNotice ==
    /\ rpc = "eofReturn"
    /\ IF ~cancel /\ wasEmpty
         THEN SleepOn("waitForCancel", "full")
         ELSE rpc' = "full" /\ UNCHANGED <<rret, rwait>>
    /\ UNCHANGED <<pipeVars, wasEmpty, numBytes, numRead, flagVars, bufferVars,
                   callVars, slotVars, resultVars>>

ReaderFullLoop ==
    /\ rpc = "full"
    /\ IF ~cancel /\ ~error /\ BufferFull
         THEN rpc' = "notify" /\ rret' = "fullRecheck"
         ELSE rpc' = "check" /\ UNCHANGED rret
    /\ UNCHANGED <<pipeVars, rwait, wasEmpty, numBytes, numRead, flagVars,
                   bufferVars, callVars, slotVars, resultVars>>

ReaderFullRecheck ==
    /\ rpc = "fullRecheck"
    /\ IF ~cancel /\ BufferFull
         THEN SleepOn("bufferNotFull", "full")
         ELSE rpc' = "full" /\ UNCHANGED <<rret, rwait>>
    /\ UNCHANGED <<pipeVars, wasEmpty, numBytes, numRead, flagVars, bufferVars,
                   callVars, slotVars, resultVars>>

\* Leave on cancel; otherwise choose how much to read, and unlock.
ReaderCheck ==
    /\ rpc = "check"
    /\ \/ /\ cancel
          /\ rpc' = "finished"
          /\ UNCHANGED <<numBytes, rptr, wptr>>
       \/ /\ ~cancel /\ (eof \/ error)
          /\ rpc' = "loop"
          /\ UNCHANGED <<numBytes, rptr, wptr>>
       \/ /\ ~cancel /\ ~eof /\ ~error
          /\ rptr' = IF rptr = wptr THEN 0 ELSE rptr
          /\ wptr' = IF rptr = wptr THEN 0 ELSE wptr
          /\ numBytes' = Room(rptr', wptr')
          /\ rpc' = "inRead"
    /\ UNCHANGED <<pipeVars, rret, rwait, wasEmpty, numRead, flagVars, buffer,
                   callVars, slotVars, resultVars>>

ReadsTo == wptr

\* ::read(), without the mutex: n bytes go straight into the ring buffer.
ReaderRead(n) ==
    /\ rpc = "inRead"
    /\ n \in 1 .. SmallerOf(numBytes, Len(stream) - fetched)
    /\ buffer' = [i \in 0 .. BufferSize - 1 |->
                    IF ReadsTo <= i /\ i < ReadsTo + n
                      THEN stream[fetched + 1 + i - ReadsTo] ELSE buffer[i]]
    /\ fetched' = fetched + n
    /\ numRead' = n
    /\ rpc' = "lockAfterRead"
    /\ UNCHANGED <<stream, writeEndOpen, rret, rwait, wasEmpty, numBytes,
                   flagVars, rptr, wptr, callVars, slotVars, resultVars>>

\* ::read() returns 0 or -1.
ReadsNothing(result) ==
    /\ rpc = "inRead"
    /\ numRead' = result
    /\ rpc' = "lockAfterRead"
    /\ UNCHANGED <<pipeVars, rret, rwait, wasEmpty, numBytes, flagVars,
                   bufferVars, callVars, slotVars, resultVars>>

ReaderReadsEof == ~writeEndOpen /\ fetched = Len(stream) /\ ReadsNothing(0)

ReaderReadFails == ReadMayFail /\ ReadsNothing(-1)

ReaderCommits ==
    /\ rpc = "lockAfterRead"
    /\ error' = (error \/ numRead < 0)
    /\ eof' = (eof \/ numRead = 0)
    /\ wptr' = IF numRead > 0 THEN Advance(wptr, numRead) ELSE wptr
    /\ rpc' = "loop"
    /\ UNCHANGED <<pipeVars, rret, rwait, wasEmpty, numBytes, numRead, cancel,
                   eofShortCut, consumerBlocksOnUs, rptr, buffer, callVars,
                   slotVars, resultVars>>

\* What the thread does by itself; nothing makes a ::read() fail that waits.
ReaderRuns ==
    \/ ReaderStarts \/ ReaderResumes \/ ReaderLoop \/ NotifyReadyRead
    \/ ReaderAfterEofNotice \/ ReaderFullLoop \/ ReaderFullRecheck
    \/ ReaderCheck \/ ReaderReadsEof \/ ReaderCommits
    \/ \E n \in 1 .. BufferSize : ReaderRead(n)

ReaderStep == ReaderRuns \/ ReaderReadFails

-----------------------------------------------------------------------------
(* The client: calls on the device *)

Readable == ~BufferEmpty \/ eof \/ error

Allowed(c) ==
    CASE policy = "any"      -> TRUE
      [] policy = "blocking" -> c = "read" /\ outcome \notin {"eof", "error"}
      [] policy = "events"   ->
            \/ c = "query" /\ ~triedToStartReader
            \/ c = "read" /\ inSlot /\ Readable
                   /\ outcome \notin {"eof", "error"}

\* Every call begins with startReaderThread(); the first one starts the thread
\* and waits, for at most a second, until it runs.
ClientCalls(c, size) ==
    /\ cpc = "idle" /\ ~ReaderHoldsMutex
    /\ Allowed(c)
    /\ call' = c
    /\ maxSize' = size
    /\ triedToStartReader' = TRUE
    /\ IF triedToStartReader
         THEN cpc' = "called" /\ UNCHANGED <<rpc, cwait>>
         ELSE /\ cpc' = "starting"
              /\ cwait' = "hasStarted"
              /\ rpc' = "starting"
    /\ UNCHANGED <<pipeVars, rret, rwait, wasEmpty, numBytes, numRead,
                   flagVars, bufferVars, slotVars, resultVars>>

\* hasStarted.wait() has been woken, or a second is over: the callers ignore which.
ClientStarted ==
    /\ cpc = "starting" /\ ~ReaderHoldsMutex
    /\ cpc' = "called"
    /\ cwait' = "none"
    /\ UNCHANGED <<pipeVars, threadVars, flagVars, bufferVars, call, maxSize,
                   triedToStartReader, slotVars, resultVars>>

\* bytesAvailable(), canReadLine(), readWouldBlock(): looks, changes nothing.
ClientQuery ==
    /\ cpc = "called" /\ call = "query" /\ ~ReaderHoldsMutex
    /\ cpc' = "idle"
    /\ UNCHANGED <<pipeVars, threadVars, flagVars, bufferVars, call, cwait,
                   maxSize, triedToStartReader, slotVars, resultVars>>

AtEndEarly == eofShortCut \/ eof \/ error   \* fault: the buffer is forgotten
AtEnd == BufferEmpty /\ (eofShortCut \/ eof \/ error)

ClientAtEnd ==
    /\ cpc = "called" /\ call = "atEnd" /\ ~ReaderHoldsMutex
    /\ outcome' = IF AtEnd THEN "atEnd" ELSE "notAtEnd"
    /\ cpc' = "idle"
    /\ UNCHANGED <<pipeVars, threadVars, flagVars, bufferVars, call, cwait,
                   maxSize, triedToStartReader, slotVars, received>>

-----------------------------------------------------------------------------
(* readData() *)

ReadShortCut ==
    /\ cpc = "called" /\ call = "read"
    /\ eofShortCut
    /\ outcome' = "eof"
    /\ cpc' = "idle"
    /\ UNCHANGED <<pipeVars, threadVars, flagVars, bufferVars, call, cwait,
                   maxSize, triedToStartReader, slotVars, received>>

\* The two calls of bytesAvailable() that keep the read from blocking.
ReadLimitsSize ==
    /\ cpc = "called" /\ call = "read" /\ ~ReaderHoldsMutex
    /\ ~eofShortCut
    /\ maxSize' = IF BufferEmpty THEN maxSize ELSE SmallerOf(maxSize, BytesInBuffer)
    /\ cpc' = "locking"
    /\ UNCHANGED <<pipeVars, threadVars, flagVars, bufferVars, call, cwait,
                   triedToStartReader, slotVars, resultVars>>

\* What memcpy() copies in Reader::readData().
NumToCopy == SmallerOf(Contiguous, maxSize)
CopiedBytes == [k \in 1 .. NumToCopy |-> buffer[rptr + k - 1]]

\* The end of readData(), with Reader::readData(); woken: the conditions that
\* have been woken before.
TakeBytes(woken) ==
    IF BufferEmpty
      THEN /\ eofShortCut' = TRUE
           /\ outcome' = IF eof THEN "eof" ELSE "error"
           /\ rwait' = Woken(rwait, woken)
           /\ UNCHANGED <<rptr, received>>
      ELSE /\ received' = received \o CopiedBytes
           /\ rptr' = Advance(rptr, NumToCopy)
           \* NumToCopy > 0, so the buffer is not full any more
           /\ rwait' = Woken(rwait, woken \cup {"bufferNotFull"})
           /\ outcome' = "data"
           /\ UNCHANGED eofShortCut

ReadWithoutBlocking ==
    /\ cpc = "locking" /\ ~ReaderHoldsMutex
    /\ Readable
    /\ TakeBytes({"readyReadSent"})
    /\ cpc' = "idle"
    /\ UNCHANGED <<pipeVars, rpc, rret, wasEmpty, numBytes, numRead, cancel,
                   eof, error, consumerBlocksOnUs, wptr, buffer, call, cwait,
                   maxSize, triedToStartReader, slotVars>>

ReadBlocks ==
    /\ cpc = "locking" /\ ~ReaderHoldsMutex
    /\ ~Readable
    /\ rwait' = Woken(rwait, {"readyReadSent"})
    /\ consumerBlocksOnUs' = TRUE
    /\ cwait' = "bufferNotEmpty"
    /\ cpc' = "blocked"
    /\ UNCHANGED <<pipeVars, rpc, rret, wasEmpty, numBytes, numRead, cancel,
                   eof, error, eofShortCut, bufferVars, call, maxSize,
                   triedToStartReader, slotVars, resultVars>>

ReadWoken ==
    /\ cpc = "blocked" /\ cwait = "none" /\ ~ReaderHoldsMutex
    /\ consumerBlocksOnUs' = FALSE
    /\ TakeBytes({"blockedConsumerIsDone"})
    /\ cpc' = "idle"
    /\ UNCHANGED <<pipeVars, rpc, rret, wasEmpty, numBytes, numRead, cancel,
                   eof, error, wptr, buffer, call, cwait, maxSize,
                   triedToStartReader, slotVars>>

-----------------------------------------------------------------------------
(* waitForReadyRead(msecs), with msecs >= 0 *)

WaitReturnsAtOnce ==
    /\ cpc = "called" /\ call = "waitForReadyRead" /\ ~ReaderHoldsMutex
    /\ Readable \/ eofShortCut
    /\ cpc' = "idle"
    /\ UNCHANGED <<pipeVars, threadVars, flagVars, bufferVars, call, cwait,
                   maxSize, triedToStartReader, slotVars, resultVars>>

\* The branch behind Q_ASSERT(false): a release build waits.
WaitBlocks ==
    /\ cpc = "called" /\ call = "waitForReadyRead" /\ ~ReaderHoldsMutex
    /\ ~Readable /\ ~eofShortCut
    /\ cwait' = "bufferNotEmpty"
    /\ cpc' = "waitReady"
    /\ UNCHANGED <<pipeVars, threadVars, flagVars, bufferVars, call, maxSize,
                   triedToStartReader, slotVars, resultVars>>

\* bufferNotEmptyCondition has been woken, or msecs are over.
WaitEnds ==
    /\ cpc = "waitReady" /\ ~ReaderHoldsMutex
    /\ cwait' = "none"
    /\ cpc' = "idle"
    /\ UNCHANGED <<pipeVars, threadVars, flagVars, bufferVars, call, maxSize,
                   triedToStartReader, slotVars, resultVars>>

-----------------------------------------------------------------------------
(* emitReadyRead(): the event loop delivers a queued readyRead() *)

DeliverReadyRead ==
    /\ cpc = "idle" /\ ~inSlot
    /\ policy # "blocking"
    /\ queuedReadyRead > 0
    /\ queuedReadyRead' = queuedReadyRead - 1
    /\ inSlot' = TRUE
    /\ UNCHANGED <<pipeVars, threadVars, flagVars, bufferVars, callVars,
                   policy, resultVars>>

\* The slot may return at any time; that of an "events" client reads on until
\* the buffer is empty, and once more to see the end of the stream.
SlotMayReturn ==
    policy = "events" => ~Readable \/ outcome \in {"eof", "error"}

SlotReturns ==
    /\ cpc = "idle" /\ inSlot /\ ~ReaderHoldsMutex
    /\ SlotMayReturn
    /\ inSlot' = FALSE
    /\ rwait' = Woken(rwait, {"readyReadSent"})
    /\ UNCHANGED <<pipeVars, rpc, rret, wasEmpty, numBytes, numRead, flagVars,
                   bufferVars, callVars, queuedReadyRead, policy,
                   resultVars>>

\* The slot closed the device: there is no reader to wake.
SlotReturnsClosed ==
    /\ cpc = "closed" /\ inSlot
    /\ inSlot' = FALSE
    /\ UNCHANGED <<pipeVars, threadVars, flagVars, bufferVars, callVars,
                   queuedReadyRead, policy, resultVars>>

-----------------------------------------------------------------------------
(* close() and stopThreads() *)

MayClose == policy # "any" => outcome \in {"eof", "error"}

\* The conditions stopThreads() wakes.
StopWakesTooFew == {"waitForCancel", "readyReadSent"}   \* fault
StopWakes == {"waitForCancel", "bufferNotFull", "readyReadSent"}

CloseCancels ==
    /\ cpc = "idle" /\ ~ReaderHoldsMutex
    /\ MayClose
    /\ cancel' = TRUE
    /\ rwait' = Woken(rwait, StopWakes)
    /\ cpc' = "closing"
    /\ UNCHANGED <<pipeVars, rpc, rret, wasEmpty, numBytes, numRead, eof, error,
                   eofShortCut, consumerBlocksOnUs, bufferVars, call, cwait,
                   maxSize, triedToStartReader, slotVars, resultVars>>

CloseWakes ==
    /\ cpc = "closing" /\ ~ReaderHoldsMutex
    /\ rwait' = Woken(rwait, {"readyReadSent"})
    /\ cpc' = "joining"
    /\ UNCHANGED <<pipeVars, rpc, rret, wasEmpty, numBytes, numRead, flagVars,
                   bufferVars, call, cwait, maxSize, triedToStartReader,
                   slotVars, resultVars>>

CloseJoins ==
    /\ cpc = "joining"
    /\ rpc \in {"idle", "finished"}
    /\ cpc' = "closed"
    /\ UNCHANGED <<pipeVars, threadVars, flagVars, bufferVars, call, cwait,
                   maxSize, triedToStartReader, slotVars, resultVars>>

-----------------------------------------------------------------------------
ClientContinues ==
    \/ ClientStarted \/ ClientQuery \/ ClientAtEnd
    \/ ReadShortCut \/ ReadLimitsSize \/ ReadWithoutBlocking \/ ReadBlocks
    \/ ReadWoken \/ WaitReturnsAtOnce \/ WaitBlocks \/ WaitEnds
    \/ CloseWakes \/ CloseJoins \/ SlotReturnsClosed

Calls == {"query", "atEnd", "read", "waitForReadyRead"}

ClientBegins ==
    \/ \E c \in Calls \ {"read"} : ClientCalls(c, 0)
    \/ \E size \in ReadSizes : ClientCalls("read", size)
    \/ DeliverReadyRead \/ SlotReturns \/ CloseCancels

\* Nothing is left to do, so that any other halt is a deadlock.
Terminated ==
    /\ cpc = "closed" /\ ~inSlot /\ ~writeEndOpen
    /\ UNCHANGED vars

Next ==
    \/ PeerWrite \/ PeerClose \/ ReaderStep \/ ClientContinues \/ ClientBegins
    \/ Terminated

Spec == Init /\ [][Next]_vars

\* Both threads run: the reader does its next step when it can, and so does a
\* client with a call to finish.  Nothing is assumed of the peer, and no ::read()
\* that waits for it has to fail.  A client with a policy keeps to it: its event
\* loop runs, or it reads on.
Fairness ==
    /\ WF_vars(ReaderRuns)
    /\ WF_vars(ClientContinues)
    /\ WF_vars(policy # "any" /\ ClientBegins)

FairSpec == Spec /\ Fairness

-----------------------------------------------------------------------------
(* Properties *)

TypeOK ==
    /\ stream \in Seq(Nat) /\ fetched \in Nat /\ writeEndOpen \in BOOLEAN
    /\ rpc \in ReaderPcs /\ rret \in LockedAt /\ rwait \in Conditions
    /\ wasEmpty \in BOOLEAN
    /\ numBytes \in Nat /\ numRead \in Int
    /\ cancel \in BOOLEAN /\ eof \in BOOLEAN /\ error \in BOOLEAN
    /\ eofShortCut \in BOOLEAN /\ consumerBlocksOnUs \in BOOLEAN
    /\ rptr \in 0 .. BufferSize - 1 /\ wptr \in 0 .. BufferSize - 1
    /\ buffer \in [0 .. BufferSize - 1 -> Nat]
    /\ cpc \in ClientPcs /\ call \in Calls \cup {"none"} /\ cwait \in Conditions
    /\ maxSize \in Nat /\ triedToStartReader \in BOOLEAN
    /\ queuedReadyRead \in Nat /\ inSlot \in BOOLEAN
    /\ received \in Seq(Nat)
    /\ outcome \in {"none", "data", "eof", "error", "atEnd", "notAtEnd"}
    /\ policy \in Policies

\* Bytes that are in the buffer already but not yet inside wptr.
InFlight == IF rpc = "lockAfterRead" /\ numRead > 0 THEN numRead ELSE 0

\* What the client has got is the beginning of what the peer wrote, in order,
\* although run() fills the ring buffer without the mutex while readData()
\* empties it, and moves both pointers to 0 now and then.
DeliveredInOrder ==
    /\ Len(received) <= Len(stream)
    /\ \A k \in 1 .. Len(received) : received[k] = stream[k]

\* What has been taken from the descriptor and not been delivered is in the
\* ring buffer, at the place where readData() will find it.
GapIsInBuffer ==
    /\ fetched = Len(received) + BytesInBuffer + InFlight
    /\ \A k \in 0 .. BytesInBuffer + InFlight - 1 :
          buffer[(rptr + k) % BufferSize] = stream[Len(received) + 1 + k]

StreamIsIntact == DeliveredInOrder /\ GapIsInBuffer

\* readData() returning 0, and atEnd(), mean the end of the stream: the peer has
\* closed it and every byte has been delivered (after an error nothing is known).
EndIsTheEnd ==
    outcome \in {"eof", "atEnd"} /\ ~error =>
        ~writeEndOpen /\ Len(received) = Len(stream)

\* No wake-up is lost.  A reader that sleeps can count on somebody to wake it:
\* a queued readyRead() or the slot it runs, a consumer that has been woken, a
\* full buffer that the next readData() drains, or close(); a consumer blocked
\* in readData() can count on a reader that is awake and not gone, and once it
\* is woken it finds bytes, or "EOF or error" as readData() asserts.
NobodySleepsForever ==
    /\ rwait = "readyReadSent" => ~cancel /\ (queuedReadyRead > 0 \/ inSlot)
    /\ rwait = "blockedConsumerIsDone" => cpc = "blocked" /\ cwait = "none"
    /\ rwait = "bufferNotFull" => ~cancel /\ BufferFull
    /\ rwait = "waitForCancel" => ~cancel /\ BufferEmpty /\ (eof \/ error)
    /\ cpc = "blocked" /\ cwait # "none" => rwait = "none" /\ rpc # "finished"
    /\ cpc = "blocked" /\ cwait = "none" => Readable

\* A read() that blocks returns when there is something to return, and close()
\* comes back once the peer has ended the ::read() the thread may be in.
CallsReturn ==
    /\ cpc = "blocked" /\ (Len(stream) > Len(received) \/ ~writeEndOpen)
           ~> cpc # "blocked"
    /\ cpc = "closing" /\ ~writeEndOpen ~> cpc = "closed"

\* "notify the client until the buffer is empty and then once again so he
\* receives eof/error.  After that, wait for him to cancel" (Reader::run()): such
\* a client learns of the end of the stream, and its close() finds the thread
\* ready to go.
ClientFinishes == policy # "any" => (~writeEndOpen \/ error ~> cpc = "closed")
=============================================================================
