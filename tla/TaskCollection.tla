--------------------------- MODULE TaskCollection ---------------------------
(***************************************************************************)
(* Crypto tasks and the collection that counts them (kleopatra/src/crypto: *)
(* decryptverifytask.cpp, signencryptfilestask.cpp, taskcollection.cpp).   *)
(* A task starts a gpg job, finalizes or cancels its output when the job   *)
(* has ended, and then reports a result; the collection announces done()   *)
(* when all have, and takes that back when a task is restarted.            *)
(*                                                                         *)
(* Task::start(), the gpg jobs and the controllers that start tasks are    *)
(* not in the repository (external).                                       *)
(***************************************************************************)
EXTENDS FileOutput, FiniteSets

CONSTANTS
    Tasks,
    Kind,           \* "decrypt" (and opaque verification), "detached" (no output)
                    \* or "encrypt"
    RestartPolicy   \* "alone": only when all are through; "any"

ASSUME TasksAssumption ==
    /\ IsFiniteSet(Tasks) /\ Kind \in [Tasks -> {"decrypt", "detached", "encrypt"}]
    /\ Writers = {t \in Tasks : Kind[t] # "detached"}

VARIABLES
    state,          \* "idle", "running", "failing" (an error is queued), "asking",
                    \* "through"
    run,            \* the number of the run a task is in, or was in last
    result,         \* of that run
    nCompleted,     \* m_nCompleted
    doneEmitted,    \* m_doneEmitted
    \* history
    told,           \* done() was emitted since a task was last started
    wasted          \* tasks that were restarted after a run that failed

taskVars == <<state, run, result, nCompleted, doneEmitted, told, wasted>>
vars == <<outputVars, taskVars>>

AllTasks == Cardinality(Tasks)

Init ==
    /\ OutputInit
    /\ state = [t \in Tasks |-> "idle"] /\ run = [t \in Tasks |-> 0]
    /\ result = [t \in Tasks |-> "none"]
    /\ nCompleted = 0 /\ doneEmitted = FALSE /\ told = FALSE /\ wasted = {}

-----------------------------------------------------------------------------
(* TaskCollection *)

\* taskResult(): counts, and emits done() with the last one.
TaskResult(t, res) ==
    /\ state' = [state EXCEPT ![t] = "through"]
    /\ result' = [result EXCEPT ![t] = res]
    /\ nCompleted' = nCompleted + 1
    /\ LET done == ~doneEmitted /\ nCompleted + 1 = AllTasks
       IN  doneEmitted' = (doneEmitted \/ done) /\ told' = (told \/ done)

\* taskStarted(): not done any more.
TaskStartedKeepsCount(t) ==                 \* fault: the count stays
    nCompleted' = nCompleted /\ doneEmitted' = FALSE
TaskStarted(t) ==
    /\ nCompleted' = IF doneEmitted THEN nCompleted - 1 ELSE nCompleted
    /\ doneEmitted' = FALSE

\* A start whose doStart() reports an error at once: started() comes first.
ReportedInStart(t) ==
    LET before == IF doneEmitted THEN nCompleted - 1 ELSE nCompleted
    IN  /\ nCompleted' = before + 1
        /\ doneEmitted' = (before + 1 = AllTasks)
        /\ told' = (before + 1 = AllTasks)

-----------------------------------------------------------------------------
(* Starting *)

\* Only a DecryptVerifyResult knows its task, so that it can be restarted.
MayStart(t) ==
    /\ run[t] < MaxRuns
    /\ \/ state[t] = "idle"
       \/ /\ state[t] = "through" /\ Kind[t] # "encrypt"
          /\ RestartPolicy = "any" \/ \A u \in Tasks : state[u] = "through"

\* The run's device: an encryption opens a new output, the others got one that
\* they keep.
OpenDevice(t) ==
    IF Kind[t] = "detached" THEN UNCHANGED <<files, tmpFile, isFinalized, policy, boxes,
                                             permitted, lost>>
    ELSE IF run[t] = 0 THEN CreateOutput(t, 1)
    ELSE WriteAgain(t, run[t] + 1)

Starts(t, s) ==
    /\ run' = [run EXCEPT ![t] = @ + 1]
    /\ state' = [state EXCEPT ![t] = s]
    /\ result' = [result EXCEPT ![t] = IF s = "through" THEN "error" ELSE "none"]
    /\ wasted' = IF run[t] > 0 /\ Kind[t] = "decrypt" /\ result[t] = "error"
                   THEN wasted \cup {t} ELSE wasted

Start(t) ==
    /\ MayStart(t) /\ OpenDevice(t) /\ CallWorks
    /\ Starts(t, "running")
    /\ TaskStarted(t) /\ told' = FALSE

\* doStart() of a decryption or verification: every exception becomes a result.
StartFails(t) ==
    /\ MayStart(t) /\ Kind[t] # "encrypt"
    /\ OpenDevice(t) /\ CallFails
    /\ Starts(t, "through")
    /\ ReportedInStart(t)

\* That of an encryption lets them pass, and Task::start() queues an error.
StartThrows(t) ==
    /\ MayStart(t) /\ Kind[t] = "encrypt" /\ CallFails
    /\ Starts(t, "failing")
    /\ TaskStarted(t) /\ told' = FALSE
    /\ UNCHANGED <<files, tmpFile, isFinalized, policy, boxes, permitted, lost>>

EmitError(t) ==
    /\ state[t] = "failing"
    /\ TaskResult(t, "error")
    /\ UNCHANGED <<outputVars, run, wasted>>

-----------------------------------------------------------------------------
(* slotResult() *)

\* The job has ended with an error, its own or a cancellation.
JobFails(t) ==
    /\ state[t] = "running" /\ failures < MaxFailures
    /\ IF Kind[t] = "detached"
         THEN UNCHANGED <<files, tmpFile, isFinalized, policy, boxes, permitted, lost>>
         ELSE Cancel(t)
    /\ CallFails
    /\ TaskResult(t, "error")
    /\ UNCHANGED <<run, wasted>>

JobEndsUncaught(t) ==                      \* fault: an exception leaves slotResult()
    /\ state[t] = "running" /\ Kind[t] # "detached"
    /\ \/ Finalize(t, "ok") /\ TaskResult(t, "ok")
       \/ /\ Finalize(t, "error") \/ Finalize(t, "asking")
          /\ state' = [state EXCEPT ![t] = "asking"]
          /\ UNCHANGED <<result, nCompleted, doneEmitted, told>>
    /\ UNCHANGED <<run, wasted>>

\* It has worked.  finalize() may throw, or ask and come back later.
JobEnds(t) ==
    /\ state[t] = "running" /\ Kind[t] # "detached"
    /\ \/ Finalize(t, "ok") /\ TaskResult(t, "ok")
       \/ Finalize(t, "error") /\ TaskResult(t, "error")
       \/ /\ Finalize(t, "asking")
          /\ state' = [state EXCEPT ![t] = "asking"]
          /\ UNCHANGED <<result, nCompleted, doneEmitted, told>>
    /\ UNCHANGED <<run, wasted>>

DetachedEnds(t) ==
    /\ state[t] = "running" /\ Kind[t] = "detached"
    /\ TaskResult(t, "ok")
    /\ UNCHANGED <<outputVars, run, wasted>>

\* The box is closed, and slotResult() goes on.
BoxAnswered(t) ==
    /\ state[t] = "asking"
    /\ \E out \in {"ok", "error"} : Answer(t, out) /\ TaskResult(t, out)
    /\ UNCHANGED <<run, wasted>>

-----------------------------------------------------------------------------
Progress(t) ==
    EmitError(t) \/ JobFails(t) \/ JobEnds(t) \/ DetachedEnds(t) \/ BoxAnswered(t)

Next == \E t \in Tasks : Start(t) \/ StartFails(t) \/ StartThrows(t) \/ Progress(t)

Spec == Init /\ [][Next]_vars

\* Every job ends, queued errors are delivered, boxes are answered.
FairSpec == Spec /\ \A t \in Tasks : WF_vars(Progress(t))

-----------------------------------------------------------------------------
(* Properties *)

TypeOK ==
    /\ OutputTypeOK
    /\ state \in [Tasks -> {"idle", "running", "failing", "asking", "through"}]
    /\ run \in [Tasks -> 0 .. MaxRuns]
    /\ result \in [Tasks -> {"none", "ok", "error"}]
    /\ nCompleted \in Int /\ doneEmitted \in BOOLEAN /\ told \in BOOLEAN
    /\ wasted \subseteq Tasks

Through == {t \in Tasks : state[t] = "through"}

\* done() is announced when, and only when, the last of all tasks has reported,
\* and again after every restart, wherever a start or a finalize() fails and
\* however the boxes are nested.
DoneWhenAllThrough == told <=> Through = Tasks

\* Q_ASSERT in allTasksCompleted(): no more tasks are completed than there are.
CountFits == nCompleted <= AllTasks

\* What a task reports is what became of its file: success only if its target
\* holds what this run wrote, or what another task wrote with permission, or was
\* lost to another one; failure only if it does not hold it.  A task that is restarted
\* may report success for what its first run wrote, and after a first run that
\* failed for nothing at all: finalize() has nothing left to do.
Holds(t) ==
    \/ files[Target[t]][1] = t
    \/ files[Target[t]][1] \in Writers /\ Target[t] \in permitted
    \/ \E u \in lost \ {t} : Target[u] = Target[t]
ResultIsTrue ==
    \A t \in Writers :
        /\ result[t] = "ok" => Holds(t) \/ t \in wasted
        /\ result[t] = "error" => files[Target[t]] # <<t, run[t]>>

\* A file that is there is replaced or removed only after the user, or the policy,
\* permitted it, and a file is missing at the end only if rename() failed.
NothingReplacedUnasked ==
    [][\A f \in Files :
          files'[f] # files[f] /\ files[f] # NoFile
            => f \in permitted' /\ (files'[f] = NoFile => \E t \in lost' : Target[t] = f)]_vars

\* Every task that is started reports, and no box waits for one below it.
EveryTaskReports ==
    \A t \in Tasks : state[t] \in {"running", "failing", "asking"} ~> state[t] = "through"
=============================================================================
