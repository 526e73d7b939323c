----------------------------- MODULE FileOutput -----------------------------
(***************************************************************************)
(* Output files (kleopatra/src/utils/output.cpp, class FileOutput): a task *)
(* writes to a temporary file beside its target, and finalize() gives it   *)
(* the target's name, if need be over an older file and after asking.      *)
(* The message box has an event loop of its own, so that further outputs   *)
(* can be finalized while it is open.                                      *)
(*                                                                         *)
(* What a task writes in its run number n is the content <<t, n>>.  An     *)
(* operation ends in "ok", "error" (an exception) or "asking", with the    *)
(* box open.                                                               *)
(***************************************************************************)
EXTENDS Integers, Sequences, SequencesExt

CONSTANTS
    Writers,        \* tasks with an output
    Files,          \* target names
    Target,         \* the file each of them writes
    MaxRuns,        \* bound: how often a task is started
    MaxFailures     \* bound: calls that fail

ASSUME TargetAssumption == Target \in [Writers -> Files]
ASSUME WritersAssumption == {"none", "old"} \cap Writers = {}
ASSUME OutputBoundsAssumption == MaxRuns \in Nat /\ MaxFailures \in Nat

VARIABLES
    files,          \* content of each target
    tmpFile,        \* m_tmpFile of each output: the run that fills it, or 0
    isFinalized,    \* m_isFinalized
    policy,         \* the OverwritePolicy that all outputs share
    boxes,          \* outputs that ask for permission, the topmost box last
    failures,
    \* history
    permitted,      \* files the user, or the policy, gave up
    lost            \* writers that lost their target between remove() and rename()

outputVars == <<files, tmpFile, isFinalized, policy, boxes, failures, permitted, lost>>

NoFile == <<"none", 0>>
Old == <<"old", 0>>
Contents == (Writers \X (1 .. MaxRuns)) \cup {NoFile, Old}

OutputTypeOK ==
    /\ files \in [Files -> Contents]
    /\ tmpFile \in [Writers -> 0 .. MaxRuns]
    /\ isFinalized \in [Writers -> BOOLEAN]
    /\ policy \in {"Ask", "Allow", "Deny"}
    /\ boxes \in Seq(Writers) /\ failures \in 0 .. MaxFailures
    /\ permitted \subseteq Files /\ lost \subseteq Writers

OutputInit ==
    /\ files \in [Files -> {NoFile, Old}]
    /\ tmpFile = [t \in Writers |-> 0]
    /\ isFinalized = [t \in Writers |-> FALSE]
    /\ policy \in {"Ask", "Allow", "Deny"}
    /\ boxes = << >> /\ failures = 0
    /\ permitted = {} /\ lost = {}

\* A call fails that could have worked.
CallFails == failures < MaxFailures /\ failures' = failures + 1
CallWorks == UNCHANGED failures

Exists(t) == files[Target[t]] # NoFile

\* Output::createFromFile(): a new object with an open temporary file.
CreateOutput(t, run) ==
    /\ tmpFile' = [tmpFile EXCEPT ![t] = run]
    /\ isFinalized' = [isFinalized EXCEPT ![t] = FALSE]
    /\ UNCHANGED <<files, policy, boxes, permitted, lost>>

\* A later run writes to the same device, if there still is one.
WriteAgain(t, run) ==
    /\ tmpFile' = [tmpFile EXCEPT ![t] = IF @ = 0 THEN 0 ELSE run]
    /\ UNCHANGED <<files, isFinalized, policy, boxes, permitted, lost>>

Rename(t) ==
    /\ files' = [files EXCEPT ![Target[t]] = <<t, tmpFile[t]>>]
    /\ isFinalized' = [isFinalized EXCEPT ![t] = TRUE]

Throw == UNCHANGED <<files, isFinalized>>

-----------------------------------------------------------------------------
(* The ends of doFinalize().  m_tmpFile is reset before the first rename(), *)
(* and Remover takes the temporary file away, whatever happens.             *)

\* remove() and rename(), once overwriting is permitted.
OverwriteForgetsError(t, out) ==            \* fault: no exception if rename() fails
    /\ permitted' = permitted \cup {Target[t]}
    /\ \/ /\ \/ ~Exists(t) /\ CallWorks
             \/ CallFails
          /\ Throw /\ out = "error" /\ UNCHANGED lost
       \/ /\ Exists(t) /\ CallWorks
          /\ Rename(t) /\ out = "ok" /\ UNCHANGED lost
       \/ /\ Exists(t) /\ CallFails
          /\ files' = [files EXCEPT ![Target[t]] = NoFile]
          /\ lost' = lost \cup {t}
          /\ out = "ok" /\ UNCHANGED isFinalized

Overwrite(t, out) ==
    /\ permitted' = permitted \cup {Target[t]}
    /\ \/ /\ \/ ~Exists(t) /\ CallWorks                     \* remove() fails
             \/ CallFails
          /\ Throw /\ out = "error" /\ UNCHANGED lost
       \/ /\ Exists(t) /\ CallWorks
          /\ Rename(t) /\ out = "ok" /\ UNCHANGED lost
       \/ /\ Exists(t) /\ CallFails                         \* rename() fails
          /\ files' = [files EXCEPT ![Target[t]] = NoFile]
          /\ lost' = lost \cup {t}
          /\ out = "error" /\ UNCHANGED isFinalized

\* rename() does not replace a file that is there.
RenameReplaces(t, out) ==                   \* fault: it does, as rename(2)
    /\ CallWorks /\ Rename(t) /\ out = "ok"
    /\ UNCHANGED <<boxes, permitted, lost>>

RenameAtOnce(t, out) ==
    /\ ~Exists(t) /\ CallWorks
    /\ Rename(t) /\ out = "ok"
    /\ UNCHANGED <<boxes, permitted, lost>>

\* It did not work: the policy says what next, or the user.
RenameFailed(t, out) ==
    \/ /\ policy = "Deny" /\ Throw /\ out = "error"
       /\ \/ Exists(t) /\ CallWorks
          \/ CallFails
       /\ UNCHANGED <<boxes, permitted, lost>>
    \/ /\ policy = "Ask" /\ out = "asking"
       /\ \/ Exists(t) /\ CallWorks
          \/ CallFails
       /\ boxes' = Append(boxes, t)
       /\ UNCHANGED <<files, isFinalized, permitted, lost>>
    \/ /\ policy = "Allow" /\ Exists(t)
       /\ Overwrite(t, out) /\ UNCHANGED boxes
    \/ /\ policy = "Allow" /\ ~Exists(t) /\ CallFails       \* nor does remove()
       /\ Throw /\ out = "error"
       /\ permitted' = permitted \cup {Target[t]}
       /\ UNCHANGED <<boxes, lost>>

DoFinalize(t, out) == RenameAtOnce(t, out) \/ RenameFailed(t, out)

-----------------------------------------------------------------------------
\* finalize(): nothing to do the second time, an exception without a temporary
\* file (kleo_assert(m_tmpFile)).  While the box is open, the name of the
\* temporary file is all that is left of it; the model keeps tmpFile for it.
Finalize(t, out) ==
    /\ UNCHANGED policy
    /\ \/ /\ isFinalized[t] /\ out = "ok"
          /\ UNCHANGED <<files, tmpFile, isFinalized, boxes, failures, permitted, lost>>
       \/ /\ ~isFinalized[t] /\ tmpFile[t] = 0 /\ out = "error"
          /\ UNCHANGED <<files, tmpFile, isFinalized, boxes, failures, permitted, lost>>
       \/ /\ ~isFinalized[t] /\ tmpFile[t] # 0
          /\ DoFinalize(t, out)
          /\ tmpFile' = IF out = "asking" THEN tmpFile ELSE [tmpFile EXCEPT ![t] = 0]

\* The topmost message box is answered.
Answer(t, out) ==
    /\ boxes # << >> /\ t = Last(boxes)
    /\ boxes' = Front(boxes)
    /\ tmpFile' = [tmpFile EXCEPT ![t] = 0]
    /\ \/ /\ out = "error" /\ Throw                         \* Cancel
          /\ UNCHANGED <<policy, failures, permitted, lost>>
       \/ Overwrite(t, out) /\ UNCHANGED policy             \* Overwrite
       \/ Overwrite(t, out) /\ policy' = "Allow"            \* Overwrite All

\* cancel(): the output counts as finalized, the temporary file stays with it.
Cancel(t) ==
    /\ isFinalized' = [isFinalized EXCEPT ![t] = TRUE]
    /\ UNCHANGED <<files, tmpFile, policy, boxes, permitted, lost>>
=============================================================================
