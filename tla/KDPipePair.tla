----------------------------- MODULE KDPipePair -----------------------------
(***************************************************************************)
(* A KDPipeIODevice that writes and one that reads, joined by a pipe, as   *)
(* makePairOfConnectedPipes() makes them, each owned by a thread of its    *)
(* own: four threads.  The peer of KDPipeReader is the Writer thread and   *)
(* its close(), the peer of KDPipeWriter is the Reader thread and its      *)
(* close().                                                                *)
(***************************************************************************)
EXTENDS KDPipeReader

CONSTANTS WriteBufferSize, WriteSizes, MaxAccepted, PipeCapacity, WriteMayFail

\* Those of KDPipeWriter: W below is an instance of it.
ASSUME WriteBufferSizeAssumption == WriteBufferSize \in Nat \ {0}
ASSUME WriteSizesAssumption == WriteSizes \subseteq Nat \ {0}
ASSUME MaxAcceptedAssumption == MaxAccepted \in Nat
ASSUME PipeCapacityAssumption == PipeCapacity \in Nat \ {0}
ASSUME WriteMayFailAssumption == WriteMayFail \in BOOLEAN

VARIABLES readEndOpen, wpc, wwait, wcancel, werror, wbuffer, totalWritten,
          wcpc, wcall, wcwait, size, triedToStartWriter, accepted, written

W == INSTANCE KDPipeWriter

writerVars == <<wpc, wwait, wcancel, werror, wbuffer, totalWritten, wcpc, wcall,
                wcwait, size, triedToStartWriter, accepted, written>>
pairVars == <<vars, readEndOpen, writerVars>>

PairInit == Init /\ W!Init

\* A step of the reading device; its close() closes the read end.
ReadingSide(step) ==
    /\ step
    /\ readEndOpen' = (cpc' # "closed")
    /\ UNCHANGED writerVars

\* A step of the writing device.
WritingSide(step) ==
    /\ step
    /\ UNCHANGED <<threadVars, flagVars, bufferVars, callVars, slotVars,
                   resultVars>>

\* Both devices are closed and nothing is left to do.
PairTerminated ==
    /\ cpc = "closed" /\ ~inSlot /\ wcpc = "closed"
    /\ UNCHANGED pairVars

PairNext ==
    \/ ReadingSide(ReaderStep) \/ ReadingSide(ClientContinues)
    \/ ReadingSide(ClientBegins)
    \/ WritingSide(W!WriterStep) \/ WritingSide(W!ClientContinues)
    \/ WritingSide(W!ClientBegins)
    \/ PairTerminated

PairSpec == PairInit /\ [][PairNext]_pairVars

\* All four threads run; the client of the reading device keeps to its policy.
PairFairness ==
    /\ WF_pairVars(ReadingSide(ReaderRuns))
    /\ WF_pairVars(ReadingSide(ClientContinues))
    /\ WF_pairVars(ReadingSide(ClientBegins))
    /\ WF_pairVars(WritingSide(W!WriterRuns))
    /\ WF_pairVars(WritingSide(W!ClientContinues))

PairFairSpec == PairSpec /\ PairFairness

-----------------------------------------------------------------------------
(* Properties *)

Channel == INSTANCE ByteChannel WITH
    sent         <- accepted,
    got          <- received,
    senderOpen   <- writeEndOpen,
    receiverOpen <- cpc # "closed",
    ended        <- eofShortCut,
    failed       <- error \/ werror

\* The pair is a channel for bytes: two buffers, a pipe and four threads, and
\* still nothing is lost, duplicated, reordered or ended too early.
PairIsAChannel == Channel!Spec

\* What was written to one device is delivered by the other.
PairDelivers ==
    /\ \A n \in 1 .. MaxAccepted :
          accepted >= n ~> Len(received) >= n \/ error \/ werror \/ cpc = "closed"
    /\ ~writeEndOpen ~> eofShortCut \/ error \/ werror \/ cpc = "closed"
=============================================================================
