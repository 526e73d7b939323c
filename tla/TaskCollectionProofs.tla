------------------------ MODULE TaskCollectionProofs ------------------------
(***************************************************************************)
(* Proofs about crypto tasks and the collection that counts them: types,   *)
(* and that done() says what it should as long as a task is restarted only *)
(* when all have reported.                                                 *)
(***************************************************************************)
EXTENDS TaskCollection, FiniteSetTheorems, SequenceTheorems, TLAPS

States == {"idle", "running", "failing", "asking", "through"}
Results == {"none", "ok", "error"}

-----------------------------------------------------------------------------
(* Types of the outputs *)

LEMMA Assumptions ==
    /\ Target \in [Writers -> Files] /\ MaxRuns \in Nat /\ MaxFailures \in Nat
    /\ Writers \subseteq Tasks /\ IsFiniteSet(Tasks)
    /\ \A t \in Tasks : Kind[t] # "detached" => t \in Writers
    /\ \A t \in Writers : Kind[t] # "detached"
  BY TargetAssumption, OutputBoundsAssumption, TasksAssumption

LEMMA ContentsWritten ==
    ASSUME OutputTypeOK, NEW t \in Writers, tmpFile[t] # 0
    PROVE  <<t, tmpFile[t]>> \in Contents /\ NoFile \in Contents /\ Target[t] \in Files
<1>1. tmpFile[t] \in 1 .. MaxRuns
  BY Assumptions DEF OutputTypeOK
<1> QED
  BY <1>1, Assumptions DEF Contents

LEMMA RenameTyped ==
    ASSUME OutputTypeOK, NEW t \in Writers, tmpFile[t] # 0, Rename(t)
    PROVE  files' \in [Files -> Contents] /\ isFinalized' \in [Writers -> BOOLEAN]
<1>1. files \in [Files -> Contents] /\ isFinalized \in [Writers -> BOOLEAN]
  BY DEF OutputTypeOK
<1>2. files' \in [Files -> Contents]
  BY <1>1, ContentsWritten DEF Rename
<1>3. isFinalized' \in [Writers -> BOOLEAN]
  BY <1>1 DEF Rename
<1> QED
  BY <1>2, <1>3

LEMMA CallTyped ==
    ASSUME OutputTypeOK, CallWorks \/ CallFails
    PROVE  failures' \in 0 .. MaxFailures
  BY Assumptions DEF CallWorks, CallFails, OutputTypeOK

\* What remains typed when an output is given its name, or is not.
Named(t, out) ==
    /\ files' \in [Files -> Contents] /\ isFinalized' \in [Writers -> BOOLEAN]
    /\ failures' \in 0 .. MaxFailures
    /\ permitted' \subseteq Files /\ lost' \subseteq Writers
    /\ out \in {"ok", "error", "asking"}

LEMMA OverwriteTyped ==
    ASSUME OutputTypeOK, NEW t \in Writers, NEW out, tmpFile[t] # 0, Overwrite(t, out)
    PROVE  Named(t, out) /\ out # "asking"
<1>1. /\ files \in [Files -> Contents] /\ isFinalized \in [Writers -> BOOLEAN]
      /\ lost \subseteq Writers /\ permitted \subseteq Files
  BY DEF OutputTypeOK
<1>2. failures' \in 0 .. MaxFailures
  BY CallTyped DEF Overwrite
<1>3. permitted' \subseteq Files
  BY <1>1, ContentsWritten DEF Overwrite
<1>4. CASE Throw /\ out = "error" /\ UNCHANGED lost
  BY <1>1, <1>2, <1>3, <1>4 DEF Throw, Named
<1>5. CASE Rename(t) /\ out = "ok" /\ UNCHANGED lost
  BY <1>1, <1>2, <1>3, <1>5, RenameTyped DEF Named
<1>6. CASE /\ files' = [files EXCEPT ![Target[t]] = NoFile] /\ lost' = lost \cup {t}
           /\ out = "error" /\ UNCHANGED isFinalized
  <2>1. files' \in [Files -> Contents]
    BY <1>1, <1>6, ContentsWritten
  <2> QED
    BY <1>1, <1>2, <1>3, <1>6, <2>1 DEF Named
<1> QED
  BY <1>4, <1>5, <1>6 DEF Overwrite

LEMMA DoFinalizeTyped ==
    ASSUME OutputTypeOK, NEW t \in Writers, NEW out, tmpFile[t] # 0, DoFinalize(t, out)
    PROVE  /\ Named(t, out)
           /\ IF out = "asking" THEN boxes' = Append(boxes, t) ELSE boxes' = boxes
<1>1. /\ files \in [Files -> Contents] /\ isFinalized \in [Writers -> BOOLEAN]
      /\ lost \subseteq Writers /\ permitted \subseteq Files
  BY DEF OutputTypeOK
<1>2. CASE RenameAtOnce(t, out)
  BY <1>1, <1>2, RenameTyped, CallTyped DEF RenameAtOnce, Named
<1>3. CASE /\ CallWorks \/ CallFails
           /\ Throw /\ out = "error" /\ UNCHANGED <<boxes, permitted, lost>>
  BY <1>1, <1>3, CallTyped DEF Throw, Named
<1>4. CASE /\ CallWorks \/ CallFails
           /\ out = "asking" /\ boxes' = Append(boxes, t)
           /\ UNCHANGED <<files, isFinalized, permitted, lost>>
  BY <1>1, <1>4, CallTyped DEF Named
<1>5. CASE Overwrite(t, out) /\ UNCHANGED boxes
  BY <1>5, OverwriteTyped
<1>6. CASE /\ CallFails /\ Throw /\ out = "error" /\ permitted' = permitted \cup {Target[t]}
           /\ UNCHANGED <<boxes, lost>>
  BY <1>1, <1>6, CallTyped, ContentsWritten DEF Throw, Named
<1> QED
  BY <1>2, <1>3, <1>4, <1>5, <1>6, Zenon DEF DoFinalize, RenameFailed

LEMMA FinalizeTyped ==
    ASSUME OutputTypeOK, NEW t \in Writers, NEW out, Finalize(t, out)
    PROVE  /\ OutputTypeOK' /\ out \in {"ok", "error", "asking"}
           /\ out = "asking" => boxes' = Append(boxes, t) /\ tmpFile' = tmpFile /\ tmpFile[t] # 0
           /\ out # "asking" => boxes' = boxes /\ \A u \in Writers : u # t => tmpFile'[u] = tmpFile[u]
<1>1. tmpFile \in [Writers -> 0 .. MaxRuns] /\ boxes \in Seq(Writers)
      /\ policy' \in {"Ask", "Allow", "Deny"}
  BY DEF OutputTypeOK, Finalize
<1>2. CASE /\ out \in {"ok", "error"}
           /\ UNCHANGED <<files, tmpFile, isFinalized, boxes, failures, permitted, lost>>
  BY <1>1, <1>2 DEF OutputTypeOK
<1>3. CASE /\ tmpFile[t] # 0 /\ DoFinalize(t, out)
           /\ tmpFile' = IF out = "asking" THEN tmpFile ELSE [tmpFile EXCEPT ![t] = 0]
  <2>1. Named(t, out) /\ IF out = "asking" THEN boxes' = Append(boxes, t) ELSE boxes' = boxes
    BY <1>3, DoFinalizeTyped
  <2>2. boxes' \in Seq(Writers)
    <3>1. Append(boxes, t) \in Seq(Writers)
      BY <1>1, AppendProperties
    <3> QED
      BY <1>1, <2>1, <3>1
  <2>3. tmpFile' \in [Writers -> 0 .. MaxRuns]
        /\ \A u \in Writers : u # t => tmpFile'[u] = tmpFile[u]
    BY <1>1, <1>3, Assumptions
  <2> QED
    BY <1>1, <1>3, <2>1, <2>2, <2>3 DEF Named, OutputTypeOK
<1> QED
  BY <1>2, <1>3 DEF Finalize

LEMMA FrontOf ==
    ASSUME NEW S, NEW s \in Seq(S), s # << >>
    PROVE  /\ Len(s) \in Nat \ {0} /\ Last(s) = s[Len(s)] /\ Last(s) \in S
           /\ Front(s) \in Seq(S) /\ Len(Front(s)) = Len(s) - 1
           /\ \A i \in 1 .. Len(Front(s)) : Front(s)[i] = s[i]
<1> DEFINE n == Len(s) - 1
<1>1. Len(s) \in Nat \ {0} /\ n \in Nat /\ \A i \in 1 .. Len(s) : s[i] \in S
  OBVIOUS
<1>2. Last(s) = s[Len(s)] /\ Front(s) = SubSeq(s, 1, n)
  BY DEF Last, Front
<1>3. \A i \in 1 .. n : s[i] \in S
  BY <1>1
<1>4. 1 \in Int /\ n \in Int /\ n - 1 + 1 = n /\ \A i \in 1 .. n : 1 + i - 1 = i
  BY <1>1
<1>5. /\ SubSeq(s, 1, n) \in Seq(S)
      /\ Len(SubSeq(s, 1, n)) = IF 1 <= n THEN n - 1 + 1 ELSE 0
      /\ \A i \in 1 .. n - 1 + 1 : SubSeq(s, 1, n)[i] = s[1 + i - 1]
  <2> HIDE DEF n
  <2> QED
    BY <1>4, <1>3, SubSeqProperties
<1>6. Len(SubSeq(s, 1, n)) = n /\ \A i \in 1 .. n : SubSeq(s, 1, n)[i] = s[i]
  <2> HIDE DEF n
  <2>1. \A i \in 1 .. n : SubSeq(s, 1, n)[i] = s[1 + i - 1]
    BY <1>4, <1>5
  <2>2. \A i \in 1 .. n : SubSeq(s, 1, n)[i] = s[i]
    BY <1>4, <2>1
  <2>3. Len(SubSeq(s, 1, n)) = n
    BY <1>1, <1>4, <1>5
  <2> QED
    BY <2>2, <2>3
<1>7. Last(s) \in S
  BY <1>1, <1>2
<1> QED
  BY <1>1, <1>2, <1>5, <1>6, <1>7

LEMMA AnswerTyped ==
    ASSUME OutputTypeOK, NEW t \in Writers, NEW out, tmpFile[t] # 0, Answer(t, out)
    PROVE  OutputTypeOK' /\ out \in {"ok", "error"}
<1>1. tmpFile' \in [Writers -> 0 .. MaxRuns]
  BY Assumptions DEF Answer, OutputTypeOK
<1>2. boxes' \in Seq(Writers)
  BY FrontOf DEF Answer, OutputTypeOK
<1>3. policy' \in {"Ask", "Allow", "Deny"}
  BY DEF Answer, OutputTypeOK
<1>4. CASE Overwrite(t, out)
  BY <1>1, <1>2, <1>3, <1>4, OverwriteTyped DEF OutputTypeOK, Named
<1>5. CASE out = "error" /\ Throw /\ UNCHANGED <<policy, failures, permitted, lost>>
  BY <1>1, <1>2, <1>3, <1>5 DEF Throw, OutputTypeOK
<1> QED
  BY <1>4, <1>5, Zenon DEF Answer

LEMMA OpenTyped ==
    ASSUME OutputTypeOK, run \in [Tasks -> 0 .. MaxRuns], NEW t \in Tasks, MayStart(t),
           OpenDevice(t), failures' \in 0 .. MaxFailures
    PROVE  OutputTypeOK' /\ boxes' = boxes
<1>1. run[t] + 1 \in 0 .. MaxRuns /\ 1 \in 0 .. MaxRuns
  BY Assumptions DEF MayStart
<1>2. CASE UNCHANGED <<files, tmpFile, isFinalized, policy, boxes, permitted, lost>>
  BY <1>2 DEF OutputTypeOK
<1>3. CASE t \in Writers /\ CreateOutput(t, 1)
  <2>1. tmpFile' \in [Writers -> 0 .. MaxRuns] /\ isFinalized' \in [Writers -> BOOLEAN]
    BY <1>1, <1>3 DEF CreateOutput, OutputTypeOK
  <2> QED
    BY <1>3, <2>1 DEF CreateOutput, OutputTypeOK
<1>4. CASE t \in Writers /\ WriteAgain(t, run[t] + 1)
  <2>1. tmpFile' \in [Writers -> 0 .. MaxRuns]
    BY <1>1, <1>4 DEF WriteAgain, OutputTypeOK
  <2> QED
    BY <1>4, <2>1 DEF WriteAgain, OutputTypeOK
<1> QED
  BY <1>2, <1>3, <1>4, Assumptions, Zenon DEF OpenDevice

-----------------------------------------------------------------------------
(* Types.  An output that asks still has its temporary file, and its task   *)
(* waits for the answer.                                                    *)

Boxes ==
    \A i \in 1 .. Len(boxes) :
        /\ tmpFile[boxes[i]] # 0
        /\ state[boxes[i]] = "asking"
        /\ \A j \in 1 .. Len(boxes) : boxes[i] = boxes[j] => i = j

TypeInv == TypeOK /\ Boxes

\* The types of what a task and the collection keep.
TaskTypeOK ==
    /\ state \in [Tasks -> States] /\ run \in [Tasks -> 0 .. MaxRuns]
    /\ result \in [Tasks -> Results] /\ nCompleted \in Int
    /\ doneEmitted \in BOOLEAN /\ told \in BOOLEAN /\ wasted \subseteq Tasks

LEMMA TypeParts ==
    /\ OutputTypeOK /\ TaskTypeOK => TypeOK
    /\ OutputTypeOK' /\ TaskTypeOK' => TypeOK'
  BY DEF TypeOK, TaskTypeOK, States, Results

LEMMA TypeInit == Init => TypeInv
<1> SUFFICES ASSUME Init PROVE TypeInv
  OBVIOUS
<1>1. files \in [Files -> Contents]
  BY DEF Init, OutputInit, Contents
<1>2. /\ tmpFile \in [Writers -> 0 .. MaxRuns] /\ isFinalized \in [Writers -> BOOLEAN]
      /\ failures \in 0 .. MaxFailures /\ boxes \in Seq(Writers)
  BY Assumptions DEF Init, OutputInit
<1>3. OutputTypeOK
  BY <1>1, <1>2 DEF Init, OutputInit, OutputTypeOK
<1>4. /\ state \in [Tasks -> States] /\ run \in [Tasks -> 0 .. MaxRuns]
      /\ result \in [Tasks -> Results]
  BY Assumptions DEF Init, States, Results
<1>5. TypeOK
  <2>1. nCompleted \in Int /\ doneEmitted \in BOOLEAN /\ told \in BOOLEAN /\ wasted \subseteq Tasks
    <3>1. nCompleted = 0 /\ doneEmitted = FALSE /\ told = FALSE /\ wasted = {}
      BY DEF Init
    <3>2. nCompleted \in Int /\ wasted \subseteq Tasks
      BY <3>1
    <3>3. doneEmitted \in BOOLEAN /\ told \in BOOLEAN
      BY <3>1, Zenon
    <3> QED
      BY <3>2, <3>3
  <2> QED
    BY <1>3, <1>4, <2>1, TypeParts DEF TaskTypeOK
<1>6. Boxes
  BY DEF Init, OutputInit, Boxes
<1> QED
  BY <1>5, <1>6 DEF TypeInv

LEMMA Typed ==
    ASSUME TypeInv
    PROVE  /\ state \in [Tasks -> States] /\ run \in [Tasks -> 0 .. MaxRuns]
           /\ result \in [Tasks -> Results] /\ nCompleted \in Int
           /\ doneEmitted \in BOOLEAN /\ told \in BOOLEAN /\ wasted \subseteq Tasks
           /\ OutputTypeOK /\ boxes \in Seq(Writers) /\ Len(boxes) \in Nat
           /\ tmpFile \in [Writers -> 0 .. MaxRuns]
           /\ \A i \in 1 .. Len(boxes) :
                 /\ boxes[i] \in Writers /\ tmpFile[boxes[i]] # 0 /\ state[boxes[i]] = "asking"
                 /\ \A j \in 1 .. Len(boxes) : boxes[i] = boxes[j] => i = j
<1>1. boxes \in Seq(Writers) /\ tmpFile \in [Writers -> 0 .. MaxRuns]
  BY DEF TypeInv, TypeOK, OutputTypeOK
<1>2. Len(boxes) \in Nat /\ \A i \in 1 .. Len(boxes) : boxes[i] \in Writers
  BY <1>1
<1> QED
  BY <1>1, <1>2 DEF TypeInv, TypeOK, Boxes, States, Results

LEMMA ResultTyped ==
    ASSUME TypeInv, NEW t \in Tasks, NEW res \in {"ok", "error"}, TaskResult(t, res),
           UNCHANGED <<run, wasted>>
    PROVE  /\ TaskTypeOK' /\ state'[t] = "through"
           /\ \A u \in Tasks : u # t => state'[u] = state[u]
<1>1. state' \in [Tasks -> States] /\ state'[t] = "through"
      /\ \A u \in Tasks : u # t => state'[u] = state[u]
  BY Typed DEF TaskResult, States
<1>2. result' \in [Tasks -> Results]
  BY Typed DEF TaskResult, Results
<1>3. nCompleted' \in Int /\ doneEmitted' \in BOOLEAN /\ told' \in BOOLEAN
  BY Typed DEF TaskResult
<1> QED
  BY <1>1, <1>2, <1>3, Typed DEF TaskTypeOK

LEMMA StartsTyped ==
    ASSUME TypeInv, NEW t \in Tasks, NEW s \in States, MayStart(t), Starts(t, s),
           (TaskStarted(t) /\ told' = FALSE) \/ ReportedInStart(t)
    PROVE  /\ TaskTypeOK' /\ state'[t] = s
           /\ state[t] # "asking" /\ \A u \in Tasks : u # t => state'[u] = state[u]
<1>1. state' \in [Tasks -> States] /\ state'[t] = s
      /\ \A u \in Tasks : u # t => state'[u] = state[u]
  BY Typed DEF Starts
<1>2. result' \in [Tasks -> Results]
  BY Typed DEF Starts, Results
<1>3. run' \in [Tasks -> 0 .. MaxRuns]
  <2>1. run[t] + 1 \in 0 .. MaxRuns
    BY Typed, Assumptions DEF MayStart
  <2> QED
    BY <2>1, Typed DEF Starts
<1>4. nCompleted' \in Int
  BY Typed DEF TaskStarted, ReportedInStart
<1>5. doneEmitted' \in BOOLEAN /\ told' \in BOOLEAN
  BY Typed DEF TaskStarted, ReportedInStart
<1>6. wasted' \subseteq Tasks
  BY Typed DEF Starts
<1>7. state[t] # "asking"
  BY DEF MayStart
<1> QED
  BY <1>1, <1>2, <1>3, <1>4, <1>5, <1>6, <1>7 DEF TaskTypeOK

\* Steps of a task that opens no box and closes none.
LEMMA BoxesKept ==
    ASSUME TypeInv, NEW t \in Tasks, state[t] # "asking", boxes' = boxes,
           \A u \in Tasks : u # t => state'[u] = state[u],
           \A u \in Writers : u # t => tmpFile'[u] = tmpFile[u]
    PROVE  Boxes'
<1>1. \A i \in 1 .. Len(boxes) : boxes[i] \in Writers /\ boxes[i] \in Tasks /\ boxes[i] # t
  BY Typed, Assumptions
<1> QED
  BY <1>1, Typed DEF Boxes

LEMMA TypeNext == TypeInv /\ [Next]_vars => TypeInv'
<1> SUFFICES ASSUME TypeInv PROVE [Next]_vars => TypeInv'
  OBVIOUS
<1>1. ASSUME NEW t \in Tasks, Start(t) \/ StartFails(t) PROVE TypeInv'
  <2>1. MayStart(t) /\ OpenDevice(t) /\ (CallWorks \/ CallFails)
    BY <1>1 DEF Start, StartFails
  <2>2. OutputTypeOK' /\ boxes' = boxes
    BY <2>1, CallTyped, OpenTyped, Typed
  <2>3. PICK s \in States : /\ Starts(t, s)
                            /\ (TaskStarted(t) /\ told' = FALSE) \/ ReportedInStart(t)
    BY <1>1 DEF Start, StartFails, States
  <2>4. /\ TaskTypeOK' /\ state[t] # "asking"
        /\ \A u \in Tasks : u # t => state'[u] = state[u]
    BY <2>1, <2>3, StartsTyped
  <2>5. \A u \in Writers : u # t => tmpFile'[u] = tmpFile[u]
    <3>1. CASE UNCHANGED tmpFile
      BY <3>1
    <3>2. CASE CreateOutput(t, 1) \/ WriteAgain(t, run[t] + 1)
      BY <3>2, Typed DEF CreateOutput, WriteAgain
    <3> QED
      BY <2>1, <3>1, <3>2 DEF OpenDevice
  <2>6. Boxes'
    BY <2>2, <2>4, <2>5, BoxesKept
  <2>7. TypeOK'
    BY <2>2, <2>4, TypeParts
  <2> QED
    BY <2>6, <2>7 DEF TypeInv
<1>2. ASSUME NEW t \in Tasks, StartThrows(t) PROVE TypeInv'
  <2>1. /\ MayStart(t) /\ Starts(t, "failing") /\ TaskStarted(t) /\ told' = FALSE /\ CallFails
        /\ UNCHANGED <<files, tmpFile, isFinalized, policy, boxes, permitted, lost>>
    BY <1>2 DEF StartThrows
  <2>2. "failing" \in States
    BY DEF States
  <2>3. TaskTypeOK' /\ state[t] # "asking" /\ \A u \in Tasks : u # t => state'[u] = state[u]
    BY <2>1, <2>2, StartsTyped
  <2>4. OutputTypeOK'
    BY <2>1, CallTyped, Typed DEF OutputTypeOK
  <2>5. Boxes' /\ TypeOK'
    BY <2>1, <2>3, <2>4, BoxesKept, TypeParts
  <2> QED
    BY <2>5 DEF TypeInv
<1>3. ASSUME NEW t \in Tasks, EmitError(t) \/ DetachedEnds(t) PROVE TypeInv'
  <2>1. /\ state[t] # "asking" /\ UNCHANGED <<outputVars, run, wasted>>
        /\ \E res \in {"ok", "error"} : TaskResult(t, res)
    BY <1>3 DEF EmitError, DetachedEnds
  <2>2. TaskTypeOK' /\ \A u \in Tasks : u # t => state'[u] = state[u]
    BY <2>1, ResultTyped
  <2>3. OutputTypeOK'
    BY <2>1, Typed DEF OutputTypeOK, outputVars
  <2>4. Boxes' /\ TypeOK'
    BY <2>1, <2>2, <2>3, BoxesKept, TypeParts DEF outputVars
  <2> QED
    BY <2>4 DEF TypeInv
<1>4. ASSUME NEW t \in Tasks, JobFails(t) PROVE TypeInv'
  <2>1. /\ state[t] # "asking" /\ UNCHANGED <<run, wasted, boxes, tmpFile>>
        /\ TaskResult(t, "error") /\ CallFails
    BY <1>4 DEF JobFails, Cancel
  <2>2. TaskTypeOK' /\ \A u \in Tasks : u # t => state'[u] = state[u]
    BY <2>1, ResultTyped
  <2>3. isFinalized' \in [Writers -> BOOLEAN] /\ UNCHANGED <<files, policy, permitted, lost>>
    BY <1>4, Typed DEF JobFails, Cancel, OutputTypeOK
  <2>4. OutputTypeOK'
    BY <2>1, <2>3, CallTyped, Typed DEF OutputTypeOK
  <2>5. Boxes' /\ TypeOK'
    BY <2>1, <2>2, <2>4, BoxesKept, TypeParts
  <2> QED
    BY <2>5 DEF TypeInv
<1>5. ASSUME NEW t \in Tasks, JobEnds(t) PROVE TypeInv'
  <2>1. t \in Writers /\ state[t] # "asking" /\ UNCHANGED <<run, wasted>>
    BY <1>5, Assumptions DEF JobEnds
  <2>2. CASE \E out \in {"ok", "error"} : Finalize(t, out) /\ TaskResult(t, out)
    <3>1. PICK out \in {"ok", "error"} : Finalize(t, out) /\ TaskResult(t, out)
      BY <2>2
    <3>2. TaskTypeOK' /\ \A u \in Tasks : u # t => state'[u] = state[u]
      BY <2>1, <3>1, ResultTyped
    <3>3. /\ OutputTypeOK' /\ boxes' = boxes
          /\ \A u \in Writers : u # t => tmpFile'[u] = tmpFile[u]
      BY <2>1, <3>1, FinalizeTyped, Typed
    <3>4. Boxes' /\ TypeOK'
      BY <2>1, <3>2, <3>3, BoxesKept, TypeParts
    <3> QED
      BY <3>4 DEF TypeInv
  <2>3. CASE /\ Finalize(t, "asking") /\ state' = [state EXCEPT ![t] = "asking"]
             /\ UNCHANGED <<result, nCompleted, doneEmitted, told>>
    <3>1. OutputTypeOK' /\ boxes' = Append(boxes, t) /\ tmpFile' = tmpFile /\ tmpFile[t] # 0
      BY <2>1, <2>3, FinalizeTyped, Typed
    <3>2. state' \in [Tasks -> States] /\ state'[t] = "asking"
          /\ \A u \in Tasks : u # t => state'[u] = state[u]
      BY <2>3, Typed DEF States
    <3>3. TypeOK'
      <4>1. TaskTypeOK'
        BY <2>1, <2>3, <3>2, Typed DEF TaskTypeOK
      <4> QED
        BY <3>1, <4>1, TypeParts
    <3>4. /\ Len(boxes') = Len(boxes) + 1 /\ boxes'[Len(boxes) + 1] = t
          /\ \A i \in 1 .. Len(boxes) : boxes'[i] = boxes[i] /\ boxes[i] # t
      BY <2>1, <3>1, Typed, AppendProperties
    <3>5. \A i \in 1 .. Len(boxes') : i \in 1 .. Len(boxes) \/ i = Len(boxes) + 1
      BY <3>4, Typed
    <3>6. \A i \in 1 .. Len(boxes) : boxes[i] \in Tasks
      BY Typed, Assumptions
    <3>7. Boxes'
      BY <3>1, <3>2, <3>4, <3>5, <3>6, Typed DEF Boxes
    <3> QED
      BY <3>3, <3>7 DEF TypeInv
  <2> QED
    BY <1>5, <2>2, <2>3 DEF JobEnds
<1>6. ASSUME NEW t \in Tasks, BoxAnswered(t) PROVE TypeInv'
  <2>1. PICK out \in {"ok", "error"} : Answer(t, out) /\ TaskResult(t, out)
    BY <1>6 DEF BoxAnswered
  <2>2. /\ boxes # << >> /\ t = boxes[Len(boxes)] /\ Len(boxes) \in Nat \ {0}
        /\ Len(boxes') = Len(boxes) - 1
        /\ \A i \in 1 .. Len(boxes') : boxes'[i] = boxes[i]
    BY <2>1, FrontOf, Typed DEF Answer
  <2>3. t \in Writers /\ tmpFile[t] # 0
    BY <2>2, Typed
  <2>4. OutputTypeOK'
    BY <2>1, <2>3, AnswerTyped, Typed
  <2>5. TaskTypeOK' /\ \A u \in Tasks : u # t => state'[u] = state[u]
    BY <1>6, <2>1, ResultTyped DEF BoxAnswered
  <2>6. \A i \in 1 .. Len(boxes') : i \in 1 .. Len(boxes) /\ boxes[i] # t /\ boxes[i] \in Tasks
    <3>1. \A i \in 1 .. Len(boxes') : i \in 1 .. Len(boxes) /\ i # Len(boxes)
      BY <2>2
    <3>2. \A i \in 1 .. Len(boxes) : boxes[i] \in Tasks /\ (i # Len(boxes) => boxes[i] # t)
      BY <2>2, Typed, Assumptions
    <3> QED
      BY <3>1, <3>2
  <2>7. \A u \in Writers : u # t => tmpFile'[u] = tmpFile[u]
    BY <2>1, Typed DEF Answer
  <2>8. Boxes'
    <3> SUFFICES ASSUME NEW i \in 1 .. Len(boxes')
                 PROVE  /\ tmpFile'[boxes'[i]] # 0 /\ state'[boxes'[i]] = "asking"
                        /\ \A j \in 1 .. Len(boxes') : boxes'[i] = boxes'[j] => i = j
      BY DEF Boxes
    <3>1. /\ boxes'[i] = boxes[i] /\ i \in 1 .. Len(boxes) /\ boxes[i] # t
          /\ boxes[i] \in Tasks /\ boxes[i] \in Writers
      BY <2>2, <2>6, Typed
    <3>2. tmpFile'[boxes[i]] # 0 /\ state'[boxes[i]] = "asking"
      BY <2>5, <2>7, <3>1, Typed
    <3>3. \A j \in 1 .. Len(boxes') : boxes'[j] = boxes[j] /\ j \in 1 .. Len(boxes)
      BY <2>2, <2>6
    <3> QED
      BY <3>1, <3>2, <3>3, Typed
  <2>9. TypeOK'
    BY <2>4, <2>5, TypeParts
  <2> QED
    BY <2>8, <2>9 DEF TypeInv
<1>7. ASSUME UNCHANGED vars PROVE TypeInv'
  <2>1. OutputTypeOK' /\ TaskTypeOK'
    BY <1>7, Typed DEF vars, outputVars, taskVars, OutputTypeOK, TaskTypeOK
  <2>2. Boxes'
    BY <1>7, Typed DEF vars, outputVars, taskVars, Boxes
  <2> QED
    BY <2>1, <2>2, TypeParts DEF TypeInv
<1> QED
  BY <1>1, <1>2, <1>3, <1>4, <1>5, <1>6, <1>7 DEF Next, Progress

\* Every variable of the tasks and their outputs keeps its type, and a message
\* box belongs to a task that waits for it.
THEOREM TypeCorrect == Spec => [](TypeOK /\ Boxes)
<1> QED
  BY TypeInit, TypeNext, PTL DEF Spec, TypeInv

-----------------------------------------------------------------------------
(* done().  The count is that of the tasks that have reported, as long as a *)
(* task is restarted only when all have: then, and only then, m_doneEmitted *)
(* tells taskStarted() that the task was counted before.                    *)

Counted ==
    /\ nCompleted = Cardinality(Through)
    /\ doneEmitted <=> Through = Tasks
    /\ told <=> Through = Tasks

LEMMA ThroughFinite ==
    /\ IsFiniteSet(Through) /\ Cardinality(Through) \in Nat /\ AllTasks \in Nat
    /\ Cardinality(Through) <= AllTasks
    /\ Cardinality(Through) = AllTasks <=> Through = Tasks
<1>1. Through \subseteq Tasks /\ IsFiniteSet(Tasks)
  BY Assumptions DEF Through
<1>2. IsFiniteSet(Through) /\ Cardinality(Through) <= Cardinality(Tasks)
      /\ (Cardinality(Through) = Cardinality(Tasks) => Through = Tasks)
  BY <1>1, FS_Subset
<1>3. Cardinality(Through) \in Nat /\ Cardinality(Tasks) \in Nat
  BY <1>1, <1>2, FS_CardinalityType
<1> QED
  BY <1>2, <1>3 DEF AllTasks

\* A task reports that had not.
LEMMA CountsOne ==
    ASSUME Counted, TypeInv, NEW t \in Tasks, state[t] # "through",
           state' = [state EXCEPT ![t] = "through"]
    PROVE  /\ Cardinality(Through') = Cardinality(Through) + 1
           /\ Cardinality(Through') = AllTasks <=> Through' = Tasks
           /\ ~doneEmitted /\ ~told
<1>1. Through' = Through \cup {t} /\ t \notin Through
  BY Typed DEF Through
<1>2. Cardinality(Through') = Cardinality(Through) + 1
  BY <1>1, ThroughFinite, FS_AddElement
<1>3. Through' \subseteq Tasks /\ IsFiniteSet(Tasks)
  BY <1>1, Assumptions DEF Through
<1>4. Cardinality(Through') = Cardinality(Tasks) => Through' = Tasks
  BY <1>3, FS_Subset
<1> QED
  BY <1>1, <1>2, <1>4 DEF Counted, AllTasks

LEMMA ResultCounted ==
    ASSUME Counted, TypeInv, NEW t \in Tasks, state[t] # "through", NEW res, TaskResult(t, res)
    PROVE  Counted'
<1>1. state' = [state EXCEPT ![t] = "through"] /\ nCompleted' = nCompleted + 1
  BY DEF TaskResult
<1>2. /\ Cardinality(Through') = Cardinality(Through) + 1
      /\ Cardinality(Through') = AllTasks <=> Through' = Tasks
      /\ ~doneEmitted /\ ~told
  BY <1>1, CountsOne
<1>3. nCompleted = Cardinality(Through)
  BY DEF Counted
<1>4. (doneEmitted' <=> nCompleted + 1 = AllTasks) /\ (told' <=> nCompleted + 1 = AllTasks)
  BY <1>2, Typed DEF TaskResult
<1> QED
  BY <1>1, <1>2, <1>3, <1>4 DEF Counted

LEMMA Starting ==
    ASSUME Counted, TypeInv, RestartPolicy = "alone", NEW t \in Tasks, MayStart(t)
    PROVE  LET before == IF doneEmitted THEN nCompleted - 1 ELSE nCompleted
           IN  before = Cardinality(Through \ {t}) /\ Through \ {t} # Tasks
<1>1. CASE state[t] = "idle"
  <2>1. t \notin Through
    BY <1>1 DEF Through
  <2>2. Through \ {t} = Through /\ Through # Tasks
    BY <2>1
  <2> QED
    BY <2>2 DEF Counted
<1>2. CASE state[t] = "through" /\ \A u \in Tasks : state[u] = "through"
  <2>1. Through = Tasks /\ t \in Through
    BY <1>2 DEF Through
  <2>2. Cardinality(Through \ {t}) = Cardinality(Through) - 1
    BY <2>1, ThroughFinite, FS_RemoveElement
  <2> QED
    BY <2>1, <2>2 DEF Counted
<1> QED
  BY <1>1, <1>2 DEF MayStart

LEMMA StartedCounted ==
    ASSUME Counted, TypeInv, RestartPolicy = "alone", NEW t \in Tasks, MayStart(t),
           NEW s \in States \ {"through"}, Starts(t, s), TaskStarted(t), told' = FALSE
    PROVE  Counted'
<1>1. Through' = Through \ {t}
  BY Typed DEF Starts, Through
<1>2. nCompleted' = Cardinality(Through') /\ Through' # Tasks
  BY <1>1, Starting DEF TaskStarted
<1> QED
  BY <1>2 DEF TaskStarted, Counted

LEMMA FailedCounted ==
    ASSUME Counted, TypeInv, RestartPolicy = "alone", NEW t \in Tasks, MayStart(t),
           Starts(t, "through"), ReportedInStart(t)
    PROVE  Counted'
<1> DEFINE rest == Through \ {t}
<1>1. Through' = rest \cup {t} /\ t \notin rest /\ IsFiniteSet(rest)
  BY Typed, ThroughFinite, FS_Subset DEF Starts, Through
<1>2. Cardinality(Through') = Cardinality(rest) + 1
  BY <1>1, FS_AddElement
<1>3. Through' \subseteq Tasks /\ IsFiniteSet(Tasks)
  BY Assumptions DEF Through
<1>4. Cardinality(Through') = AllTasks <=> Through' = Tasks
  BY <1>3, FS_Subset DEF AllTasks
<1>5. /\ nCompleted' = Cardinality(rest) + 1
      /\ doneEmitted' <=> Cardinality(rest) + 1 = AllTasks
      /\ told' <=> Cardinality(rest) + 1 = AllTasks
  BY Starting DEF ReportedInStart
<1> QED
  BY <1>2, <1>4, <1>5 DEF Counted

LEMMA CountedNext ==
    ASSUME RestartPolicy = "alone"
    PROVE  TypeInv /\ Counted /\ [Next]_vars => Counted'
<1> SUFFICES ASSUME TypeInv, Counted PROVE [Next]_vars => Counted'
  OBVIOUS
<1>1. ASSUME NEW t \in Tasks, Start(t) PROVE Counted'
  BY <1>1, StartedCounted DEF Start, States
<1>2. ASSUME NEW t \in Tasks, StartFails(t) PROVE Counted'
  BY <1>2, FailedCounted DEF StartFails
<1>3. ASSUME NEW t \in Tasks, StartThrows(t) PROVE Counted'
  BY <1>3, StartedCounted DEF StartThrows, States
<1>4. ASSUME NEW t \in Tasks, Progress(t) PROVE Counted'
  <2>1. CASE \E res : state[t] # "through" /\ TaskResult(t, res)
    BY <2>1, ResultCounted
  <2>2. CASE /\ state[t] = "running" /\ state' = [state EXCEPT ![t] = "asking"]
             /\ UNCHANGED <<result, nCompleted, doneEmitted, told>>
    <3>1. Through' = Through
      BY <2>2, Typed DEF Through
    <3> QED
      BY <2>2, <3>1 DEF Counted
  <2>3. CASE EmitError(t) \/ JobFails(t) \/ DetachedEnds(t) \/ BoxAnswered(t)
    BY <2>1, <2>3 DEF EmitError, JobFails, DetachedEnds, BoxAnswered
  <2>4. CASE JobEnds(t)
    BY <2>1, <2>2, <2>4 DEF JobEnds
  <2> QED
    BY <1>4, <2>3, <2>4 DEF Progress
<1>5. ASSUME UNCHANGED vars PROVE Counted'
  BY <1>5 DEF vars, taskVars, Counted, Through
<1> QED
  BY <1>1, <1>2, <1>3, <1>4, <1>5 DEF Next

\* done() is announced when, and only when, all tasks have reported, and no more
\* are counted than there are (taskResult() and taskStarted()), provided that a
\* task is restarted only when all have.
THEOREM DoneIsRight ==
    ASSUME RestartPolicy = "alone", Tasks # {}
    PROVE  Spec => [](DoneWhenAllThrough /\ CountFits)
<1>1. Init => TypeInv /\ Counted
  <2> SUFFICES ASSUME Init PROVE Counted
    BY TypeInit
  <2>1. Through = {}
    BY DEF Init, Through
  <2>2. nCompleted = 0 /\ doneEmitted = FALSE /\ told = FALSE
    BY DEF Init
  <2> QED
    BY <2>1, <2>2, FS_EmptySet DEF Counted
<1>2. Counted => DoneWhenAllThrough /\ CountFits
  BY ThroughFinite DEF Counted, DoneWhenAllThrough, CountFits
<1>3. TypeInv /\ Counted /\ [Next]_vars => TypeInv' /\ Counted'
  BY TypeNext, CountedNext
<1> QED
  BY <1>1, <1>2, <1>3, PTL DEF Spec

-----------------------------------------------------------------------------
(* What a step does to the files: a task gives its temporary file the name  *)
(* of its target, or loses the target, or leaves all as it is.              *)

Grow == permitted \subseteq permitted' /\ lost \subseteq lost'

Wrote(t) ==
    /\ Grow /\ tmpFile[t] # 0
    /\ files' = [files EXCEPT ![Target[t]] = <<t, tmpFile[t]>>]
    /\ isFinalized' = [isFinalized EXCEPT ![t] = TRUE]
    /\ files[Target[t]] = NoFile \/ Target[t] \in permitted'

Failed(t) ==
    /\ Grow /\ UNCHANGED isFinalized
    /\ \/ files' = files
       \/ /\ files' = [files EXCEPT ![Target[t]] = NoFile]
          /\ Target[t] \in permitted' /\ t \in lost'

LEMMA OverwriteWrites ==
    ASSUME NEW t \in Writers, NEW out, tmpFile[t] # 0, Overwrite(t, out)
    PROVE  (out = "ok" /\ Wrote(t)) \/ (out = "error" /\ Failed(t))
<1>1. CASE Throw /\ out = "error" /\ UNCHANGED lost
  BY <1>1 DEF Overwrite, Throw, Failed, Grow
<1>2. CASE Rename(t) /\ out = "ok" /\ UNCHANGED lost
  <2>1. Grow /\ Target[t] \in permitted'
    BY <1>2 DEF Overwrite, Grow
  <2> QED
    BY <1>2, <2>1, Zenon DEF Rename, Wrote
<1>3. CASE /\ files' = [files EXCEPT ![Target[t]] = NoFile] /\ lost' = lost \cup {t}
           /\ out = "error" /\ UNCHANGED isFinalized
  BY <1>3 DEF Overwrite, Failed, Grow
<1> QED
  BY <1>1, <1>2, <1>3 DEF Overwrite

LEMMA FinalizeWrites ==
    ASSUME NEW t \in Writers, NEW out, Finalize(t, out)
    PROVE  \/ out = "ok" /\ Wrote(t)
           \/ out = "ok" /\ isFinalized[t] /\ UNCHANGED <<files, isFinalized, permitted, lost>>
           \/ out \in {"error", "asking"} /\ Failed(t)
<1>1. CASE out = "error" /\ UNCHANGED <<files, tmpFile, isFinalized, boxes, failures, permitted, lost>>
  BY <1>1 DEF Failed, Grow
<1>2. CASE tmpFile[t] # 0 /\ RenameAtOnce(t, out)
  BY <1>2 DEF RenameAtOnce, Rename, Exists, Wrote, Grow
<1>3. CASE tmpFile[t] # 0 /\ RenameFailed(t, out)
  <2>1. CASE Overwrite(t, out)
    BY <1>3, <2>1, OverwriteWrites
  <2>2. CASE out \in {"error", "asking"} /\ UNCHANGED <<files, isFinalized, lost>> /\ Grow
    BY <2>2 DEF Failed
  <2> QED
    BY <1>3, <2>1, <2>2 DEF RenameFailed, Throw, Grow
<1> QED
  BY <1>1, <1>2, <1>3 DEF Finalize, DoFinalize

LEMMA AnswerWrites ==
    ASSUME NEW t \in Writers, NEW out, tmpFile[t] # 0, Answer(t, out)
    PROVE  (out = "ok" /\ Wrote(t)) \/ (out = "error" /\ Failed(t))
<1>1. CASE out = "error" /\ Throw /\ UNCHANGED <<policy, failures, permitted, lost>>
  BY <1>1 DEF Throw, Failed, Grow
<1> QED
  BY <1>1, OverwriteWrites DEF Answer

\* Every step, by what it does to the files and to the task.
Still == UNCHANGED <<files, permitted, lost>>

Ends(t) ==
    /\ state[t] \in {"running", "asking"} /\ UNCHANGED <<run, wasted>>
    /\ \A u \in Writers : u # t => tmpFile'[u] = tmpFile[u]
    /\ tmpFile'[t] \in {0, tmpFile[t]}
    /\ \/ TaskResult(t, "ok") /\ Wrote(t)
       \/ TaskResult(t, "ok") /\ isFinalized[t] /\ Still /\ UNCHANGED isFinalized
       \/ TaskResult(t, "error") /\ Failed(t)
       \/ /\ Failed(t) /\ ~isFinalized[t] /\ state' = [state EXCEPT ![t] = "asking"]
          /\ UNCHANGED <<result, nCompleted, doneEmitted, told>>

LEMMA Steps ==
    ASSUME TypeInv, [Next]_vars
    PROVE  \/ UNCHANGED vars
           \/ \E t \in Tasks : Still /\ (Start(t) \/ StartFails(t) \/ StartThrows(t))
           \/ \E t \in Tasks : /\ Still /\ UNCHANGED tmpFile
                                /\ (EmitError(t) \/ DetachedEnds(t) \/ JobFails(t))
           \/ \E t \in Writers : Ends(t)
<1>1. ASSUME NEW t \in Tasks, Start(t) \/ StartFails(t) \/ StartThrows(t) PROVE Still
  BY <1>1 DEF Start, StartFails, StartThrows, OpenDevice, CreateOutput, WriteAgain, Still
<1>2. ASSUME NEW t \in Tasks, EmitError(t) \/ DetachedEnds(t) \/ JobFails(t)
      PROVE  Still /\ UNCHANGED tmpFile
  BY <1>2 DEF EmitError, DetachedEnds, JobFails, Cancel, outputVars, Still
<1>3. ASSUME NEW t \in Tasks, JobEnds(t)
      PROVE  t \in Writers /\ Ends(t)
  <2>1. t \in Writers /\ state[t] = "running" /\ UNCHANGED <<run, wasted>>
    BY <1>3, Assumptions DEF JobEnds
  <2>2. ASSUME NEW out, Finalize(t, out)
        PROVE  /\ \A u \in Writers : u # t => tmpFile'[u] = tmpFile[u]
               /\ tmpFile'[t] \in {0, tmpFile[t]}
    BY <2>1, <2>2, Typed DEF Finalize
  <2>3. CASE Finalize(t, "ok") /\ TaskResult(t, "ok")
    BY <2>1, <2>2, <2>3, FinalizeWrites DEF Still, Ends
  <2>4. CASE Finalize(t, "error") /\ TaskResult(t, "error")
    BY <2>1, <2>2, <2>4, FinalizeWrites DEF Ends
  <2>5. CASE /\ Finalize(t, "asking") /\ state' = [state EXCEPT ![t] = "asking"]
             /\ UNCHANGED <<result, nCompleted, doneEmitted, told>>
    <3>1. ~isFinalized[t]
      BY <2>5 DEF Finalize
    <3> QED
      BY <2>1, <2>2, <2>5, <3>1, FinalizeWrites DEF Ends
  <2> QED
    BY <1>3, <2>3, <2>4, <2>5 DEF JobEnds
<1>4. ASSUME NEW t \in Tasks, BoxAnswered(t)
      PROVE  t \in Writers /\ Ends(t)
  <2>1. PICK out \in {"ok", "error"} : Answer(t, out) /\ TaskResult(t, out)
    BY <1>4 DEF BoxAnswered
  <2>2. t \in Writers /\ tmpFile[t] # 0
    BY <2>1, FrontOf, Typed DEF Answer
  <2>3. tmpFile' = [tmpFile EXCEPT ![t] = 0]
    BY <2>1 DEF Answer
  <2> QED
    BY <1>4, <2>1, <2>2, <2>3, AnswerWrites, Typed DEF BoxAnswered, Ends
<1> QED
  BY <1>1, <1>2, <1>3, <1>4 DEF Next, Progress

LEMMA ReplacedStep ==
    ASSUME TypeInv, [Next]_vars, NEW f \in Files, files'[f] # files[f], files[f] # NoFile
    PROVE  f \in permitted' /\ (files'[f] = NoFile => \E t \in lost' : Target[t] = f)
<1>1. files \in [Files -> Contents]
  BY Typed DEF OutputTypeOK
<1>2. ~Still /\ ~UNCHANGED vars
  BY DEF Still, vars, outputVars
<1>3. PICK t \in Writers : Wrote(t) \/ Failed(t)
  <2>1. PICK t \in Writers : Ends(t)
    BY <1>2, Steps
  <2> QED
    BY <1>2, <2>1 DEF Ends
<1>4. CASE Wrote(t)
  <2>1. f = Target[t] /\ files'[f] = <<t, tmpFile[t]>> /\ f \in permitted' /\ tmpFile[t] # 0
    BY <1>1, <1>4 DEF Wrote
  <2>2. files'[f] # NoFile
    BY <2>1 DEF NoFile
  <2> QED
    BY <2>1, <2>2
<1>5. CASE Failed(t)
  BY <1>1, <1>5 DEF Failed
<1> QED
  BY <1>3, <1>4, <1>5

\* No file that is there is replaced without permission, and none is gone but by
\* a rename() that failed after the old one was removed (finalize()).
THEOREM NeverReplacedUnasked == Spec => NothingReplacedUnasked
<1>1. TypeInv /\ [Next]_vars
        => [\A f \in Files :
              files'[f] # files[f] /\ files[f] # NoFile
                => f \in permitted' /\ (files'[f] = NoFile => \E t \in lost' : Target[t] = f)]_vars
  BY ReplacedStep
<1> QED
  BY <1>1, TypeInit, TypeNext, PTL DEF Spec, NothingReplacedUnasked

-----------------------------------------------------------------------------
(* Results.  A target holds nothing a task has not written yet, a run that  *)
(* has not succeeded has left nothing there, and an output that is          *)
(* finalized without an error has.                                          *)

Past(t) == files[Target[t]][1] = t => files[Target[t]][2] <= run[t]
Fresh(t) == state[t] # "through" \/ result[t] = "error" => files[Target[t]] # <<t, run[t]>>
Final(t) ==
    isFinalized[t] => \/ Holds(t) \/ t \in wasted
                      \/ state[t] = "through" /\ result[t] = "error"
Reported(t) ==
    /\ tmpFile[t] <= run[t]
    /\ result[t] = "ok" => Holds(t) \/ t \in wasted
    /\ result[t] # "none" => state[t] = "through"
    /\ state[t] # "idle" => run[t] > 0

ResultsInv == \A t \in Writers : Past(t) /\ Fresh(t) /\ Final(t) /\ Reported(t)

\* What the task itself does not touch.
LEMMA HoldsKept ==
    ASSUME TypeInv, NEW t \in Writers, Holds(t), NEW u \in Writers, u # t, Wrote(u) \/ Failed(u)
    PROVE  Holds(t)'
<1>1. files \in [Files -> Contents] /\ Target[t] \in Files /\ Target[u] \in Files
  BY Typed, Assumptions DEF OutputTypeOK
<1>2. Grow
  BY DEF Wrote, Failed
<1>3. CASE \E w \in lost \ {t} : Target[w] = Target[t]
  BY <1>2, <1>3 DEF Grow, Holds
<1>4. CASE files'[Target[t]] = files[Target[t]]
  BY <1>2, <1>4 DEF Grow, Holds
<1>5. CASE /\ Target[u] = Target[t] /\ files'[Target[t]] = <<u, tmpFile[u]>>
           /\ Target[t] \in permitted'
  BY <1>5 DEF Holds
<1>6. CASE /\ Target[u] = Target[t] /\ files[Target[t]] = NoFile
           /\ files'[Target[t]] = <<u, tmpFile[u]>>
  BY <1>3, <1>6, WritersAssumption DEF Holds, NoFile
<1>7. CASE Target[u] = Target[t] /\ u \in lost'
  BY <1>7 DEF Holds
<1> QED
  BY <1>1, <1>4, <1>5, <1>6, <1>7 DEF Wrote, Failed

\* A step of another task.
LEMMA OthersKept ==
    ASSUME TypeInv, ResultsInv, NEW t \in Writers, NEW u \in Tasks, u # t,
           Still \/ (u \in Writers /\ (Wrote(u) \/ Failed(u))),
           tmpFile'[t] = tmpFile[t], isFinalized'[t] = isFinalized[t],
           run'[t] = run[t], state'[t] = state[t], result'[t] = result[t], wasted \subseteq wasted'
    PROVE  Past(t)' /\ Fresh(t)' /\ Final(t)' /\ Reported(t)'
<1>1. Past(t) /\ Fresh(t) /\ Final(t) /\ Reported(t)
  BY DEF ResultsInv
<1>2. Holds(t) => Holds(t)'
  <2>1. Still /\ Holds(t) => Holds(t)'
    BY DEF Still, Holds
  <2> QED
    BY <2>1, HoldsKept
<1>3. \/ files'[Target[t]] = files[Target[t]]
      \/ files'[Target[t]] = NoFile
      \/ files'[Target[t]] = <<u, tmpFile[u]>>
  <2>1. files \in [Files -> Contents] /\ Target[t] \in Files
    BY Typed, Assumptions DEF OutputTypeOK
  <2> QED
    BY <2>1 DEF Still, Wrote, Failed
<1>4. NoFile[1] # t
  BY WritersAssumption DEF NoFile
<1>5. Past(t)'
  BY <1>1, <1>3, <1>4 DEF Past
<1>6. Fresh(t)'
  BY <1>1, <1>3, <1>4 DEF Fresh
<1>7. Final(t)' /\ Reported(t)'
  BY <1>1, <1>2 DEF Final, Reported
<1> QED
  BY <1>5, <1>6, <1>7

LEMMA StartResults ==
    ASSUME TypeInv, ResultsInv, NEW t \in Tasks, Still,
           Start(t) \/ StartFails(t) \/ StartThrows(t)
    PROVE  ResultsInv'
<1>1. /\ MayStart(t)
      /\ \E s \in {"running", "through", "failing"} : Starts(t, s)
      /\ OpenDevice(t) \/ UNCHANGED <<tmpFile, isFinalized>>
  BY DEF Start, StartFails, StartThrows
<1>2. PICK s \in {"running", "through", "failing"} : Starts(t, s)
  BY <1>1
<1>3. /\ run'[t] = run[t] + 1 /\ state'[t] = s /\ run[t] \in Nat
      /\ result'[t] = IF s = "through" THEN "error" ELSE "none"
      /\ \A u \in Tasks : u # t => run'[u] = run[u] /\ state'[u] = state[u] /\ result'[u] = result[u]
      /\ wasted \subseteq wasted'
      /\ wasted' = IF run[t] > 0 /\ Kind[t] = "decrypt" /\ result[t] = "error"
                     THEN wasted \cup {t} ELSE wasted
  BY <1>2, Typed, Assumptions DEF Starts
<1>4. /\ \A u \in Writers : u # t => tmpFile'[u] = tmpFile[u] /\ isFinalized'[u] = isFinalized[u]
      /\ t \in Writers => /\ tmpFile'[t] <= run[t] + 1
                          /\ isFinalized'[t] => isFinalized[t]
  <2>1. tmpFile \in [Writers -> 0 .. MaxRuns] /\ isFinalized \in [Writers -> BOOLEAN]
    BY Typed DEF OutputTypeOK
  <2>2. t \in Writers => tmpFile[t] <= run[t] /\ tmpFile[t] \in Nat
    BY <2>1 DEF ResultsInv, Reported
  <2>3. CASE UNCHANGED <<tmpFile, isFinalized>>
    BY <1>3, <2>2, <2>3
  <2>4. CASE CreateOutput(t, 1)
    BY <1>3, <2>1, <2>4 DEF CreateOutput
  <2>5. CASE WriteAgain(t, run[t] + 1)
    BY <1>3, <2>1, <2>5 DEF WriteAgain
  <2> QED
    BY <1>1, <2>3, <2>4, <2>5 DEF OpenDevice
<1>5. ASSUME NEW u \in Writers, u # t PROVE Past(u)' /\ Fresh(u)' /\ Final(u)' /\ Reported(u)'
  BY <1>3, <1>4, <1>5, OthersKept, Assumptions
<1>6. ASSUME t \in Writers PROVE Past(t)' /\ Fresh(t)' /\ Final(t)' /\ Reported(t)'
  <2>1. Past(t) /\ Final(t) /\ Reported(t)
    BY <1>6 DEF ResultsInv
  <2>2. files \in [Files -> Contents] /\ Target[t] \in Files /\ files' = files
    BY <1>6, Typed, Assumptions DEF OutputTypeOK, Still
  <2>3. Past(t)' /\ Fresh(t)'
    <3>1. files[Target[t]][1] = t => files[Target[t]][2] \in Int
      BY <1>6, <2>2, WritersAssumption DEF Contents, NoFile, Old
    <3>2. Past(t)'
      BY <1>3, <2>1, <2>2, <3>1 DEF Past
    <3>3. files[Target[t]] # <<t, run[t] + 1>>
      BY <1>3, <2>1, <3>1 DEF Past
    <3> QED
      BY <1>3, <2>2, <3>2, <3>3 DEF Fresh
  <2>4. Holds(t) => Holds(t)'
    BY DEF Still, Holds
  <2>5. Final(t)'
    <3>1. CASE s = "through"
      BY <1>3, <3>1 DEF Final
    <3>2. CASE state[t] = "through" /\ result[t] = "error" /\ isFinalized[t]
      <4>1. CASE run[t] > 0
        <5>1. Kind[t] = "decrypt"
          BY <1>1, <1>6, <3>2, Assumptions, TasksAssumption DEF MayStart
        <5> QED
          BY <1>3, <3>2, <4>1, <5>1 DEF Final
      <4>2. CASE run[t] = 0
        BY <2>1, <3>2, <4>2 DEF Reported
      <4> QED
        BY <1>3, <4>1, <4>2
    <3> QED
      BY <1>3, <1>4, <1>6, <2>1, <2>4, <3>1, <3>2 DEF Final
  <2>6. Reported(t)'
    BY <1>3, <1>4, <1>6, <2>1, <2>4 DEF Reported
  <2> QED
    BY <2>3, <2>5, <2>6
<1> QED
  BY <1>5, <1>6 DEF ResultsInv

LEMMA ResultValues ==
    ASSUME TypeInv, NEW t \in Tasks, NEW res, TaskResult(t, res)
    PROVE  /\ state'[t] = "through" /\ result'[t] = res
           /\ \A u \in Tasks : u # t => state'[u] = state[u] /\ result'[u] = result[u]
  BY Typed DEF TaskResult

\* The job or its start has failed, or there is no output.
LEMMA QuietResults ==
    ASSUME TypeInv, ResultsInv, NEW t \in Tasks, Still, UNCHANGED tmpFile,
           EmitError(t) \/ DetachedEnds(t) \/ JobFails(t)
    PROVE  ResultsInv'
<1>1. /\ UNCHANGED <<run, wasted>> /\ state[t] # "through" /\ state[t] # "idle"
      /\ TaskResult(t, "error") \/ (t \notin Writers /\ TaskResult(t, "ok"))
  BY Assumptions DEF EmitError, DetachedEnds, JobFails
<1>2. \A u \in Writers : u # t => isFinalized'[u] = isFinalized[u]
  BY Typed DEF EmitError, DetachedEnds, JobFails, Cancel, outputVars, OutputTypeOK
<1>3. ASSUME NEW u \in Writers, u # t PROVE Past(u)' /\ Fresh(u)' /\ Final(u)' /\ Reported(u)'
  <2>1. state'[u] = state[u] /\ result'[u] = result[u]
    BY <1>1, <1>3, ResultValues, Assumptions
  <2> QED
    BY <1>1, <1>2, <1>3, <2>1, OthersKept
<1>4. ASSUME t \in Writers PROVE Past(t)' /\ Fresh(t)' /\ Final(t)' /\ Reported(t)'
  <2>1. state'[t] = "through" /\ result'[t] = "error"
    BY <1>1, <1>4, ResultValues
  <2>2. Past(t) /\ Fresh(t) /\ Reported(t)
    BY <1>4 DEF ResultsInv
  <2> QED
    BY <1>1, <2>1, <2>2 DEF Past, Fresh, Final, Reported, Still
<1> QED
  BY <1>3, <1>4 DEF ResultsInv

\* The job has ended, or the box is closed.
LEMMA EndResults ==
    ASSUME TypeInv, ResultsInv, NEW t \in Writers, Ends(t)
    PROVE  ResultsInv'
<1>1. /\ t \in Tasks /\ state[t] \in {"running", "asking"} /\ UNCHANGED <<run, wasted>>
      /\ Past(t) /\ Fresh(t) /\ Final(t) /\ Reported(t)
      /\ tmpFile'[t] \in {0, tmpFile[t]} /\ run[t] \in Nat /\ tmpFile[t] \in Nat
      /\ files \in [Files -> Contents] /\ Target[t] \in Files
      /\ isFinalized \in [Writers -> BOOLEAN]
  BY Typed, Assumptions DEF Ends, ResultsInv, OutputTypeOK
<1>a. tmpFile'[t] <= run'[t] /\ run'[t] > 0
  BY <1>1 DEF Reported
<1>2. \A u \in Writers : u # t =>
         /\ tmpFile'[u] = tmpFile[u] /\ isFinalized'[u] = isFinalized[u]
         /\ state'[u] = state[u] /\ result'[u] = result[u]
  <2>1. \A u \in Writers : u # t => isFinalized'[u] = isFinalized[u]
    BY <1>1 DEF Ends, Wrote, Failed
  <2>2. \A u \in Writers : u # t => state'[u] = state[u] /\ result'[u] = result[u]
    <3>1. CASE TaskResult(t, "ok") \/ TaskResult(t, "error")
      BY <1>1, <3>1, ResultValues, Assumptions
    <3>2. CASE state' = [state EXCEPT ![t] = "asking"] /\ UNCHANGED result
      BY <3>2, Typed, Assumptions
    <3> QED
      BY <3>1, <3>2 DEF Ends
  <2> QED
    BY <2>1, <2>2 DEF Ends
<1>3. ASSUME NEW u \in Writers, u # t PROVE Past(u)' /\ Fresh(u)' /\ Final(u)' /\ Reported(u)'
  <2>1. u \in Tasks /\ run'[u] = run[u] /\ wasted \subseteq wasted'
    BY <1>1, Assumptions
  <2>2. Still \/ Wrote(t) \/ Failed(t)
    BY DEF Ends
  <2> QED
    BY <1>1, <1>2, <1>3, <2>1, <2>2, OthersKept
<1>4. CASE TaskResult(t, "ok") /\ Wrote(t)
  <2>1. state'[t] = "through" /\ result'[t] = "ok"
    BY <1>1, <1>4, ResultValues
  <2>2. files'[Target[t]] = <<t, tmpFile[t]>>
    BY <1>1, <1>4 DEF Wrote
  <2>3. Holds(t)'
    BY <2>2 DEF Holds
  <2>4. Past(t)' /\ Fresh(t)' /\ Final(t)' /\ Reported(t)'
    BY <1>1, <1>a, <2>1, <2>2, <2>3 DEF Past, Fresh, Final, Reported
  <2> QED
    BY <1>3, <2>4 DEF ResultsInv
<1>5. CASE TaskResult(t, "ok") /\ isFinalized[t] /\ Still /\ UNCHANGED isFinalized
  <2>1. state'[t] = "through" /\ result'[t] = "ok"
    BY <1>1, <1>5, ResultValues
  <2>2. Holds(t) \/ t \in wasted
    BY <1>1, <1>5 DEF Final
  <2>3. Holds(t) => Holds(t)'
    BY <1>5 DEF Still, Holds
  <2>4. files' = files
    BY <1>5 DEF Still
  <2>5. Past(t)' /\ Fresh(t)' /\ Final(t)' /\ Reported(t)'
    BY <1>1, <1>a, <2>1, <2>2, <2>3, <2>4 DEF Past, Fresh, Final, Reported
  <2> QED
    BY <1>3, <2>5 DEF ResultsInv
<1>6. ASSUME Failed(t), state'[t] # "idle",
             \/ state'[t] = "through" /\ result'[t] = "error"
             \/ state'[t] = "asking" /\ result'[t] = result[t] /\ ~isFinalized[t]
      PROVE  ResultsInv'
  <2>1. files' = files \/ files'[Target[t]] = NoFile
    BY <1>1, <1>6 DEF Failed
  <2>2. NoFile[1] # t /\ NoFile # <<t, run[t]>>
    BY WritersAssumption DEF NoFile
  <2>3. Past(t)' /\ Fresh(t)'
    BY <1>1, <2>1, <2>2 DEF Past, Fresh
  <2>4. isFinalized' = isFinalized
    BY <1>6 DEF Failed
  <2>5. Final(t)'
    BY <1>6, <2>4 DEF Final
  <2>6. Reported(t)'
    BY <1>1, <1>a, <1>6 DEF Reported
  <2> QED
    BY <1>3, <2>3, <2>5, <2>6 DEF ResultsInv
<1>7. CASE TaskResult(t, "error") /\ Failed(t)
  BY <1>1, <1>6, <1>7, ResultValues
<1>8. CASE /\ Failed(t) /\ ~isFinalized[t] /\ state' = [state EXCEPT ![t] = "asking"]
           /\ UNCHANGED result
  <2>1. state'[t] = "asking" /\ result'[t] = result[t]
    BY <1>1, <1>8, Typed
  <2> QED
    BY <1>6, <1>8, <2>1
<1> QED
  BY <1>4, <1>5, <1>7, <1>8 DEF Ends

LEMMA ResultsInit == Init => ResultsInv
<1> SUFFICES ASSUME Init, NEW t \in Writers
             PROVE  Past(t) /\ Fresh(t) /\ Final(t) /\ Reported(t)
  BY DEF ResultsInv
<1>1. /\ t \in Tasks /\ Target[t] \in Files /\ t \notin {"none", "old"}
      /\ files \in [Files -> {NoFile, Old}] /\ run[t] = 0 /\ state[t] = "idle"
      /\ result[t] = "none" /\ tmpFile[t] = 0 /\ isFinalized[t] = FALSE
  BY Assumptions, WritersAssumption DEF Init, OutputInit
<1>2. files[Target[t]][1] # t /\ files[Target[t]] # <<t, run[t]>>
  BY <1>1 DEF NoFile, Old
<1> QED
  BY <1>1, <1>2 DEF Past, Fresh, Final, Reported

LEMMA ResultsNext == TypeInv /\ ResultsInv /\ [Next]_vars => ResultsInv'
<1> SUFFICES ASSUME TypeInv, ResultsInv PROVE [Next]_vars => ResultsInv'
  OBVIOUS
<1>1. CASE UNCHANGED vars
  BY <1>1 DEF vars, outputVars, taskVars, ResultsInv, Past, Fresh, Final, Reported, Holds
<1> QED
  BY <1>1, Steps, StartResults, QuietResults, EndResults

\* A task reports success only if its target holds what it wrote, or was given up
\* to another task or lost to one, and failure only if it does not: whatever
\* fails, and however the message boxes are nested.  A task that is started again
\* after a failure is excepted (slotResult() and finalize()).
THEOREM ResultsAreTrue == Spec => []ResultIsTrue
<1>1. TypeInv /\ ResultsInv => ResultIsTrue
  <2> SUFFICES ASSUME TypeInv, ResultsInv, NEW t \in Writers
               PROVE  /\ result[t] = "ok" => Holds(t) \/ t \in wasted
                      /\ result[t] = "error" => files[Target[t]] # <<t, run[t]>>
    BY DEF ResultIsTrue
  <2> QED
    BY DEF ResultsInv, Fresh, Reported
<1> QED
  BY <1>1, TypeInit, TypeNext, ResultsInit, ResultsNext, PTL DEF Spec
=============================================================================
