-------------------------- MODULE AutomationProofs --------------------------
(***************************************************************************)
(* Invariants of AutomationPipeline proved for every number of matches,    *)
(* tasks, retries, worker slots and crashes.                               *)
(*                                                                         *)
(* The argument.  Artifact columns are only ever overwritten by other      *)
(* artifacts, so what a task saw filled stays filled whatever concurrent   *)
(* tasks write.  Each label of the pipeline therefore carries the facts    *)
(* that the steps before it established (Progress); only the last label    *)
(* can write the status "completed" (Closed).                              *)
(*                                                                         *)
(* The second half assumes one worker slot: SInv, what a row then tells of *)
(* its attempts, and the refinement of RunLifecycle.                       *)
(***************************************************************************)
EXTENDS AutomationRefinement, FiniteSetTheorems, TLAPS

\* Labels reached only after the row names a job, a prediction, a report.
WithJob        == {"enter_prediction", "predict", "enter_report", "report",
                   "enter_poster", "poster", "load_final", "complete"}
WithPrediction == {"enter_report", "report", "enter_poster", "poster",
                   "load_final", "complete"}
WithReport     == {"enter_poster", "poster", "load_final", "complete"}
WithPoster     == {"load_final", "complete"}

\* What task t has established about its match when it stands at its label.
Progress(t) ==
  /\ pc[t] # "idle" => match[t] \in Matches
  /\ pc[t] \in AtWork => run[match[t]] # Nil
  /\ pc[t] \in WithJob => product[match[t]].job # Nil
  /\ pc[t] \in WithPrediction => product[match[t]].prediction # Nil
  /\ pc[t] \in WithReport => product[match[t]].report # Nil
  /\ pc[t] \in WithPoster => product[match[t]].poster # Nil
  /\ pc[t] = "complete" => held[t] # Nil
  /\ pc[t] = "fail" => seen[t] \in Rows

\* A poster in the row is one whose prediction was archived with it.
Closed(m) ==
  /\ product[m].poster # Nil => product[m].poster \in archived
  /\ Completed(m) => /\ product[m].job # Nil
                     /\ product[m].prediction # Nil
                     /\ product[m].report # Nil
                     /\ product[m].poster # Nil

\* An archived attempt was its task's last one.
Archived(a) ==
  /\ pc[a[1]] \in WithPoster \cup {"ok", "lost"}
  /\ a = <<a[1], tries[a[1]]>>

IInv ==
  /\ TypeOK
  /\ \A t \in Tasks : Progress(t)
  /\ \A m \in Matches : Closed(m)
  /\ \A a \in archived : Archived(a)

-----------------------------------------------------------------------------
\* The UPDATE of a flush leaves a well-formed row, and its status is one of the
\* two the flush chose from.
LEMMA FlushRow ==
  ASSUME NEW old, NEW cur \in Rows, NEW new \in Rows
  PROVE  /\ Flush(old, cur, new) \in Rows
         /\ Flush(old, cur, new).status \in {cur.status, new.status}
BY DEF Flush, Rows

\* A step that keeps every row a row, and changes a row's status at most to the
\* one given.
RowsKept(status) ==
  /\ run' \in [Matches -> Rows \cup {Nil}]
  /\ \A m \in Matches : run'[m] = Nil <=> run[m] = Nil
  /\ \A m \in Matches :
       run[m] # Nil => run'[m].status \in {run[m].status, status}

\* _update touches one existing row: no row appears or vanishes, and a row's
\* status stays what it was or becomes the one assigned.
LEMMA UpdateRow ==
  ASSUME TypeOK, NEW t \in Tasks,
         match[t] \in Matches, run[match[t]] # Nil,
         NEW status \in {"pending", "running", "completed", "failed"},
         NEW step \in StepNames,
         NEW failedStep \in StepNames \cup {Nil},
         Update(t, status, step, failedStep)
  PROVE  RowsKept(status)
<1> DEFINE new == Assigned(t, status, step, failedStep)
           row == Flush(seen[t], run[match[t]], new)
<1>1. new \in Rows
  BY DEF TypeOK, Assigned, Rows
<1>2. run[match[t]] \in Rows
  BY DEF TypeOK
<1>3. row \in Rows /\ row.status \in {run[match[t]].status, status}
  <2>1. row \in Rows /\ row.status \in {run[match[t]].status, new.status}
    BY <1>1, <1>2, FlushRow
  <2>2. new.status = status
    BY DEF Assigned
  <2> QED BY <2>1, <2>2
<1>4. run' = [run EXCEPT ![match[t]] = row]
  BY DEF Update
<1>5. Nil \notin Rows
  BY AutomationAssumption
<1> QED
  BY <1>3, <1>4, <1>5 DEF TypeOK, RowsKept

\* What an execution creates is named by its attempt, which is not NULL.
LEMMA AttemptNotNil ==
  ASSUME TypeOK, NEW t \in Tasks
  PROVE  Attempt(t) \in Attempts /\ Attempt(t) # Nil
<1>1. Attempt(t) \in Attempts
  BY DEF TypeOK, Attempt, Attempts
<1> QED
  BY <1>1, AutomationAssumption

-----------------------------------------------------------------------------
LEMMA InitInv == Init => IInv
<1> SUFFICES ASSUME Init PROVE IInv
  OBVIOUS
<1>1. TypeOK
  <2>1. "idle" \in PCs /\ 0 \in 0..MaxRetries
    BY AutomationAssumption DEF PCs
  <2>2. NoProduct \in [job: Attempts \cup {Nil}, prediction: Attempts \cup {Nil},
                       report: Attempts \cup {Nil}, poster: Attempts \cup {Nil}]
    BY DEF NoProduct
  <2> QED
    BY <2>1, <2>2 DEF Init, TypeOK
<1>2. \A t \in Tasks : Progress(t)
  BY DEF Init, Progress, AtWork, InPipeline, WithJob, WithPrediction,
         WithReport, WithPoster
<1>3. \A m \in Matches : Closed(m)
  BY DEF Init, Closed, Completed, NoProduct
<1>4. \A a \in archived : Archived(a)
  BY DEF Init
<1> QED
  BY <1>1, <1>2, <1>3, <1>4 DEF IInv

-----------------------------------------------------------------------------
\* Every label an action moves to is one of the labels.
LEMMA Labels ==
  {"idle", "queued", "beat", "lookup", "insert", "context", "load_job",
   "add_job", "enter_prediction", "predict", "enter_report", "report",
   "enter_poster", "poster", "load_final", "complete", "rescue", "fail",
   "ok", "dead", "lost"} \subseteq PCs
BY DEF PCs, Executing, InPipeline, Ended

LEMMA NewRowType == NewRow \in Rows /\ NewRow # Nil /\ NewRow.status # "completed"
<1>1. NewRow \in Rows
  <2>1. 0 \in 0..MaxRetries
    BY AutomationAssumption
  <2> QED
    BY <2>1 DEF NewRow, Rows, StepNames
<1>2. NewRow.status # "completed"
  BY DEF NewRow
<1> QED
  BY <1>1, <1>2, AutomationAssumption

\* What a task at a label with a row knows of that row.
LEMMA OwnRow ==
  ASSUME IInv, NEW t \in Tasks, pc[t] \in AtWork
  PROVE  match[t] \in Matches /\ run[match[t]] # Nil /\ run[match[t]] \in Rows
BY DEF IInv, Progress, AtWork, InPipeline, TypeOK

\* The three ways in which the pipeline writes the row.  A run can only become
\* completed through Complete.
LEMMA EnterKeepsRows ==
  ASSUME IInv, NEW t \in Tasks, pc[t] \in AtWork,
         NEW step \in PipelineSteps, Update(t, "running", step, Nil)
  PROVE  RowsKept("running")
BY OwnRow, UpdateRow DEF IInv, StepNames

LEMMA CompleteKeepsRows ==
  ASSUME IInv, NEW t \in Tasks, Complete(t)
  PROVE  RowsKept("completed")
BY OwnRow, UpdateRow DEF IInv, Complete, AtWork, InPipeline, StepNames

LEMMA FailKeepsRows ==
  ASSUME IInv, NEW t \in Tasks, Fail(t)
  PROVE  RowsKept("failed")
<1>1. seen[t].step \in StepNames
  BY DEF Fail, IInv, Progress, Rows
<1> QED
  BY <1>1, OwnRow, UpdateRow DEF IInv, Fail, AtWork, StepNames

-----------------------------------------------------------------------------
\* The type invariant is inductive relative to IInv.
LEMMA TypeStep == IInv /\ [Next]_vars => TypeOK'
<1> SUFFICES ASSUME IInv, [Next]_vars PROVE TypeOK'
  OBVIOUS
<1> USE Labels
<1> USE DEF rowVars, taskVars, Elsewhere, Goto, Load, Expire
<1>0. TypeOK
  BY DEF IInv
<1>1. CASE Scan
  BY <1>0, <1>1 DEF TypeOK, Scan
<1>2. CASE ScanLost
  BY <1>0, <1>2 DEF TypeOK, ScanLost
<1>3. ASSUME NEW x \in Matches, NEW t \in Tasks, Enqueue(x, t) PROVE TypeOK'
  BY <1>0, <1>3 DEF TypeOK, Enqueue
<1>4. ASSUME NEW t \in Tasks, Start(t) PROVE TypeOK'
  BY <1>0, <1>4 DEF TypeOK, Start
<1>5. ASSUME NEW t \in Tasks, Beat(t) PROVE TypeOK'
  BY <1>0, <1>5 DEF TypeOK, Beat
<1>6. ASSUME NEW t \in Tasks, Lookup(t) PROVE TypeOK'
  <2>1. match[t] \in Matches
    BY <1>6 DEF IInv, Progress, Lookup
  <2> QED
    BY <1>0, <1>6, <2>1 DEF TypeOK, Lookup
<1>7. ASSUME NEW t \in Tasks, Insert(t) PROVE TypeOK'
  BY <1>0, <1>7, NewRowType DEF TypeOK, Insert
<1>8. ASSUME NEW t \in Tasks, pc[t] \in AtWork, NEW next \in PCs,
             NEW step \in PipelineSteps, Update(t, "running", step, Nil),
             Expire(t), Goto(t, next),
             UNCHANGED <<product, analysisJob, archived, Elsewhere, held, err>>
      PROVE TypeOK'
  BY <1>0, <1>8, EnterKeepsRows DEF TypeOK, RowsKept
<1>9. ASSUME NEW t \in Tasks,
             EnterJob(t) \/ EnterPrediction(t) \/ EnterReport(t) \/ EnterPoster(t)
      PROVE TypeOK'
  BY <1>8, <1>9 DEF EnterJob, EnterPrediction, EnterReport, EnterPoster,
     EnterStep, AtWork, InPipeline, PipelineSteps
<1>10. ASSUME NEW t \in Tasks, LoadJob(t) \/ LoadFinal(t) \/ Rescue(t)
       PROVE TypeOK'
  <2>1. match[t] \in Matches /\ run[match[t]] \in Rows
    BY <1>10, OwnRow DEF LoadJob, LoadFinal, Rescue, AtWork, InPipeline
  <2> QED
    BY <1>0, <1>10, <2>1 DEF TypeOK, LoadJob, LoadFinal, Rescue
<1>11. ASSUME NEW t \in Tasks, AddJob(t) \/ Predict(t) \/ Report(t) \/ Poster(t)
       PROVE TypeOK'
  <2>1. Attempt(t) \in Attempts
    BY <1>0, AttemptNotNil
  <2>2. CASE AddJob(t)
    BY <1>0, <2>1, <2>2 DEF TypeOK, AddJob
  <2>3. CASE Predict(t)
    BY <1>0, <2>1, <2>3 DEF TypeOK, Predict
  <2>4. CASE Report(t)
    BY <1>0, <2>1, <2>4 DEF TypeOK, Report
  <2>5. CASE Poster(t)
    BY <1>0, <2>1, <2>5 DEF TypeOK, Poster
  <2> QED
    BY <1>11, <2>2, <2>3, <2>4, <2>5
<1>12. ASSUME NEW t \in Tasks, StepRaises(t) PROVE TypeOK'
  BY <1>0, <1>12 DEF TypeOK, StepRaises, Raise, ErrorKinds
<1>13. ASSUME NEW t \in Tasks, Complete(t) PROVE TypeOK'
  <2>1. held[t] \in Attempts
    BY <1>0, <1>13 DEF TypeOK, IInv, Progress, Complete
  <2> QED
    BY <1>0, <1>13, <2>1, CompleteKeepsRows DEF TypeOK, RowsKept, Complete
<1>14. ASSUME NEW t \in Tasks, Fail(t) PROVE TypeOK'
  <2>1. tries' \in [Tasks -> 0..MaxRetries]
    BY <1>0, <1>14, AutomationAssumption DEF TypeOK, Fail
  <2> QED
    BY <1>0, <1>14, <2>1, FailKeepsRows DEF TypeOK, RowsKept, Fail
<1>15. ASSUME NEW t \in Tasks, Crash(t) PROVE TypeOK'
  BY <1>0, <1>15 DEF TypeOK, Crash
<1>16. CASE UNCHANGED vars
  BY <1>0, <1>16 DEF TypeOK, vars
<1> QED
  BY <1>1, <1>2, <1>3, <1>4, <1>5, <1>6, <1>7, <1>9, <1>10, <1>11, <1>12,
     <1>13, <1>14, <1>15, <1>16 DEF Next, Step

-----------------------------------------------------------------------------
\* No step removes a row or empties an artifact column.
Kept ==
  \A m \in Matches :
    /\ run[m] # Nil => run'[m] # Nil
    /\ product[m].job # Nil => product'[m].job # Nil
    /\ product[m].prediction # Nil => product'[m].prediction # Nil
    /\ product[m].report # Nil => product'[m].report # Nil
    /\ product[m].poster # Nil => product'[m].poster # Nil

LEMMA KeptStep == IInv /\ [Next]_vars => Kept
<1> SUFFICES ASSUME IInv, [Next]_vars PROVE Kept
  OBVIOUS
<1> USE DEF rowVars, taskVars, Elsewhere
<1>0. TypeOK
  BY DEF IInv
<1>1. CASE UNCHANGED <<run, product>>
  BY <1>1 DEF Kept
<1>2. ASSUME NEW t \in Tasks, Insert(t) PROVE Kept
  BY <1>0, <1>2, NewRowType DEF Kept, Insert, TypeOK
<1>3. ASSUME NEW status, RowsKept(status), UNCHANGED product PROVE Kept
  BY <1>3 DEF RowsKept, Kept
<1>4. ASSUME NEW t \in Tasks,
             EnterJob(t) \/ EnterPrediction(t) \/ EnterReport(t) \/ EnterPoster(t)
      PROVE Kept
  BY <1>3, <1>4, EnterKeepsRows DEF EnterJob, EnterPrediction, EnterReport,
     EnterPoster, EnterStep, AtWork, InPipeline, PipelineSteps
<1>5. ASSUME NEW t \in Tasks, Complete(t) PROVE Kept
  BY <1>3, <1>5, CompleteKeepsRows DEF Complete
<1>6. ASSUME NEW t \in Tasks, Fail(t) PROVE Kept
  BY <1>3, <1>6, FailKeepsRows DEF Fail
<1>7. ASSUME NEW t \in Tasks, AddJob(t) \/ Predict(t) \/ Report(t) \/ Poster(t)
      PROVE Kept
  <2>1. Attempt(t) # Nil
    BY <1>0, AttemptNotNil
  <2> QED
    BY <1>0, <1>7, <2>1 DEF Kept, TypeOK, AddJob, Predict, Report, Poster
<1> QED
  BY <1>1, <1>2, <1>4, <1>5, <1>6, <1>7 DEF Next, Step, vars, Scan, ScanLost,
     Enqueue, Start, Beat, Lookup, LoadJob, LoadFinal, StepRaises, Raise, Rescue,
     Crash

\* A task that does not move keeps what it has established.
LEMMA OthersProgress ==
  ASSUME Kept, NEW u \in Tasks, Progress(u),
         UNCHANGED <<pc[u], match[u], held[u], seen[u]>>
  PROVE  Progress(u)'
BY DEF Kept, Progress, AtWork, InPipeline, WithJob, WithPrediction, WithReport,
       WithPoster

\* A step of t leaves the others alone.
OnlyMoves(t) ==
  \A u \in Tasks \ {t} : UNCHANGED <<pc[u], match[u], held[u], seen[u]>>

LEMMA ProgressStep == IInv /\ [Next]_vars => \A u \in Tasks : Progress(u)'
<1> SUFFICES ASSUME IInv, [Next]_vars PROVE \A u \in Tasks : Progress(u)'
  OBVIOUS
<1> USE DEF rowVars, taskVars, Elsewhere, Goto, Load, Expire
<1>0. TypeOK /\ Kept /\ (\A u \in Tasks : Progress(u))
  BY KeptStep DEF IInv
<1>1. CASE UNCHANGED <<pc, match, held, seen>>
  BY <1>0, <1>1, OthersProgress
<1>2. ASSUME NEW t \in Tasks, OnlyMoves(t), Progress(t)'
      PROVE \A u \in Tasks : Progress(u)'
  BY <1>0, <1>2, OthersProgress DEF OnlyMoves
<1> USE DEF Progress, OnlyMoves, AtWork, InPipeline, WithJob, WithPrediction,
            WithReport, WithPoster
<1>3. ASSUME NEW x \in Matches, NEW t \in Tasks, Enqueue(x, t)
      PROVE OnlyMoves(t) /\ Progress(t)'
  BY <1>0, <1>3 DEF TypeOK, Enqueue
<1>4. ASSUME NEW t \in Tasks, Start(t) \/ Beat(t) PROVE OnlyMoves(t) /\ Progress(t)'
  BY <1>0, <1>4 DEF TypeOK, Start, Beat
<1>5. ASSUME NEW t \in Tasks, Lookup(t) \/ Insert(t) PROVE OnlyMoves(t) /\ Progress(t)'
  BY <1>0, <1>5, NewRowType DEF TypeOK, Lookup, Insert
<1>6. ASSUME NEW t \in Tasks,
             EnterJob(t) \/ EnterPrediction(t) \/ EnterReport(t) \/ EnterPoster(t)
      PROVE OnlyMoves(t) /\ Progress(t)'
  BY <1>0, <1>6 DEF TypeOK, Kept, EnterJob, EnterPrediction, EnterReport,
     EnterPoster, EnterStep
<1>7. ASSUME NEW t \in Tasks, LoadJob(t) \/ LoadFinal(t)
      PROVE OnlyMoves(t) /\ Progress(t)'
  BY <1>0, <1>7 DEF TypeOK, LoadJob, LoadFinal
<1>8. ASSUME NEW t \in Tasks, AddJob(t) \/ Predict(t) \/ Report(t) \/ Poster(t)
      PROVE OnlyMoves(t) /\ Progress(t)'
  <2>1. Attempt(t) # Nil
    BY <1>0, AttemptNotNil
  <2> QED
    BY <1>0, <1>8, <2>1 DEF TypeOK, Kept, AddJob, Predict, Report, Poster
<1>9. ASSUME NEW t \in Tasks, StepRaises(t) PROVE OnlyMoves(t) /\ Progress(t)'
  BY <1>0, <1>9 DEF TypeOK, StepRaises, Raise
<1>10. ASSUME NEW t \in Tasks, Rescue(t) PROVE OnlyMoves(t) /\ Progress(t)'
  BY <1>0, <1>10, OwnRow DEF TypeOK, Rescue
<1>11. ASSUME NEW t \in Tasks, Complete(t) \/ Fail(t) PROVE OnlyMoves(t) /\ Progress(t)'
  BY <1>0, <1>11 DEF TypeOK, Complete, Fail
<1>12. ASSUME NEW t \in Tasks, Crash(t) PROVE OnlyMoves(t) /\ Progress(t)'
  BY <1>0, <1>12 DEF TypeOK, Crash, Executing
<1> HIDE DEF Progress, OnlyMoves
<1> QED
  BY <1>1, <1>2, <1>3, <1>4, <1>5, <1>6, <1>7, <1>8, <1>9, <1>10, <1>11, <1>12
     DEF Next, Step, vars, Scan, ScanLost

-----------------------------------------------------------------------------
\* A row becomes completed only by the step Complete of a task that stands at
\* the last label, and posters and archive entries are written together.
LEMMA ClosedStep == IInv /\ [Next]_vars => \A m \in Matches : Closed(m)'
<1> SUFFICES ASSUME IInv, [Next]_vars PROVE \A m \in Matches : Closed(m)'
  OBVIOUS
<1> USE DEF rowVars, taskVars, Elsewhere
<1>0. TypeOK /\ Kept /\ (\A m \in Matches : Closed(m))
  BY KeptStep DEF IInv
<1>1. ASSUME UNCHANGED <<product, archived>>,
             \A m \in Matches : Completed(m)' => Completed(m)
      PROVE \A m \in Matches : Closed(m)'
  BY <1>0, <1>1 DEF Closed
<1>2. CASE UNCHANGED <<run, product, archived>>
  BY <1>1, <1>2 DEF Completed
<1>3. ASSUME NEW t \in Tasks, Insert(t) PROVE \A m \in Matches : Closed(m)'
  <2>1. \A m \in Matches : Completed(m)' => Completed(m)
    BY <1>0, <1>3, NewRowType DEF TypeOK, Completed, Insert
  <2> QED
    BY <1>1, <1>3, <2>1 DEF Insert
<1>4. ASSUME NEW status, status # "completed", RowsKept(status),
             UNCHANGED <<product, archived>>
      PROVE \A m \in Matches : Closed(m)'
  BY <1>1, <1>4 DEF RowsKept, Completed
<1>5. ASSUME NEW t \in Tasks,
             EnterJob(t) \/ EnterPrediction(t) \/ EnterReport(t) \/ EnterPoster(t)
      PROVE \A m \in Matches : Closed(m)'
  BY <1>4, <1>5, EnterKeepsRows DEF EnterJob, EnterPrediction, EnterReport,
     EnterPoster, EnterStep, AtWork, InPipeline, PipelineSteps
<1>6. ASSUME NEW t \in Tasks, Fail(t) PROVE \A m \in Matches : Closed(m)'
  BY <1>4, <1>6, FailKeepsRows DEF Fail
<1>7. ASSUME NEW t \in Tasks, AddJob(t) \/ Predict(t) \/ Report(t) \/ Poster(t)
      PROVE \A m \in Matches : Closed(m)'
  BY <1>0, <1>7 DEF TypeOK, Kept, Closed, Completed, AddJob, Predict, Report, Poster
<1>8. ASSUME NEW t \in Tasks, Complete(t) PROVE \A m \in Matches : Closed(m)'
  <2>1. \A m \in Matches : Completed(m)' => Completed(m) \/ m = match[t]
    BY <1>8, <1>0, OwnRow
       DEF Complete, Update, Completed, TypeOK, AtWork, InPipeline
  <2>2. LET p == product[match[t]] IN
        p.job # Nil /\ p.prediction # Nil /\ p.report # Nil /\ p.poster # Nil
    BY <1>8 DEF IInv, Progress, Complete, WithJob, WithPrediction, WithReport,
       WithPoster
  <2> QED
    BY <1>0, <1>8, <2>1, <2>2 DEF Complete, Closed
<1> QED
  BY <1>2, <1>3, <1>5, <1>6, <1>7, <1>8 DEF Next, Step, vars, Scan, ScanLost,
     Enqueue, Start, Beat, Lookup, LoadJob, LoadFinal, StepRaises, Raise, Rescue,
     Crash

\* Once archived, an attempt's task never leaves the labels that follow the
\* archive, and its retry counter stands still.
LEMMA ArchivedStep == IInv /\ [Next]_vars => \A a \in archived' : Archived(a)'
<1> SUFFICES ASSUME IInv, [Next]_vars, NEW a \in archived' PROVE Archived(a)'
  OBVIOUS
<1> USE DEF rowVars, taskVars, Elsewhere, Goto
<1>0. TypeOK /\ (\A b \in archived : Archived(b) /\ b \in Attempts)
  BY DEF IInv, TypeOK
<1>1. CASE UNCHANGED <<archived, pc, tries>>
  BY <1>0, <1>1 DEF Archived
<1>2. ASSUME NEW x \in Matches, NEW t \in Tasks, Enqueue(x, t) PROVE Archived(a)'
  BY <1>0, <1>2 DEF TypeOK, Archived, Attempts, WithPoster, Enqueue
<1>3. ASSUME NEW t \in Tasks,
             Start(t) \/ Beat(t) \/ Lookup(t) \/ Insert(t) \/ LoadJob(t) \/ AddJob(t)
      PROVE Archived(a)'
  BY <1>0, <1>3 DEF TypeOK, Archived, Attempts, WithPoster, Start, Beat, Lookup,
     Insert, LoadJob, AddJob
<1>4. ASSUME NEW t \in Tasks, EnterJob(t) \/ EnterPrediction(t) \/ Predict(t)
                                \/ EnterReport(t) \/ Report(t) \/ EnterPoster(t)
      PROVE Archived(a)'
  BY <1>0, <1>4 DEF TypeOK, Archived, Attempts, WithPoster, EnterJob, EnterPrediction,
     Predict, EnterReport, Report, EnterPoster, EnterStep
<1>5. ASSUME NEW t \in Tasks, Poster(t) PROVE Archived(a)'
  BY <1>0, <1>5 DEF TypeOK, Archived, Attempts, Attempt, WithPoster, Poster
<1>6. ASSUME NEW t \in Tasks, LoadFinal(t) \/ Complete(t) \/ Crash(t)
      PROVE Archived(a)'
  BY <1>0, <1>6 DEF TypeOK, Archived, Attempts, WithPoster, LoadFinal, Complete, Crash
<1>7. ASSUME NEW t \in Tasks, StepRaises(t) \/ Rescue(t) \/ Fail(t)
      PROVE Archived(a)'
  BY <1>0, <1>7 DEF TypeOK, Archived, Attempts, WithPoster, StepRaises, Raise, Rescue,
     Fail
<1> QED
  BY <1>1, <1>2, <1>3, <1>4, <1>5, <1>6, <1>7 DEF Next, Step, vars, Scan, ScanLost

LEMMA StepInv == IInv /\ [Next]_vars => IInv'
BY TypeStep, ProgressStep, ClosedStep, ArchivedStep DEF IInv

-----------------------------------------------------------------------------
\* IInv is an invariant: every execution's label carries the facts its earlier
\* steps established, whatever the other workers do.
THEOREM InductiveInvariant == Spec => []IInv
BY InitInv, StepInv, PTL DEF Spec

\* Type correctness of AutomationPipeline.
THEOREM TypeCorrect == Spec => []TypeOK
<1>1. IInv => TypeOK
  BY DEF IInv
<1> QED
  BY <1>1, InductiveInvariant, PTL

\* No interleaving of any number of tasks completes an automation run that
\* lacks its job, prediction, report or archived poster.
THEOREM CompletedRunsAreWhole == Spec => []CompletedHasArtifacts
<1>1. IInv => CompletedHasArtifacts
  BY DEF IInv, Closed, CompletedHasArtifacts
<1> QED
  BY <1>1, InductiveInvariant, PTL

\* However often a message is retried, at most one of its attempts archives a
\* prediction.
THEOREM ArchivesOncePerTask == Spec => []OneArchivePerTask
<1>1. IInv => OneArchivePerTask
  BY DEF IInv, Archived, OneArchivePerTask
<1> QED
  BY <1>1, InductiveInvariant, PTL

-----------------------------------------------------------------------------
(***************************************************************************)
(* One worker slot.  At most one task executes, so the row a task loaded   *)
(* is the row it writes, column by column, and an attempt that has not     *)
(* made an artifact yet finds none of its own in the row: the attempts     *)
(* named by rows are the past ones of their tasks (Traced).  The label of  *)
(* the task under way then tells what its row says (Stands), and a row     *)
(* nobody works on tells how its last attempt ended (Settled).             *)
(***************************************************************************)

Handling    == {"rescue", "fail"}
PastContext == InPipeline \ {"context"}

OwnsRow(t) == run[match[t]].task = t /\ run[match[t]].tries = tries[t]

StepOf(label) ==
  CASE label \in {"load_job", "add_job", "enter_prediction"} -> "create_analysis_job"
    [] label \in {"predict", "enter_report"} -> "prediction"
    [] label \in {"report", "enter_poster"} -> "report"
    [] OTHER -> "poster"

Stands(t) ==
  LET r == run[match[t]]
      p == product[match[t]]
      a == Attempt(t)
  IN  /\ pc[t] = "context" => ~OwnsRow(t)
      /\ pc[t] \in PastContext =>
           OwnsRow(t) /\ r.step = StepOf(pc[t]) /\ r.failedStep = Nil
      /\ pc[t] \in WithPrediction => p.prediction = a
      /\ pc[t] \in WithReport => p.report = a
      /\ pc[t] \in WithPoster => p.poster = a
      /\ pc[t] \in Handling =>
           /\ OwnsRow(t) => r.step \in {"prediction", "report", "poster"}
           /\ p.prediction = a <=> OwnsRow(t) /\ r.step \in {"report", "poster"}
           /\ p.report = a <=> OwnsRow(t) /\ r.step = "poster"
      /\ pc[t] = "complete" => held[t] = p.job
      /\ seen[t] = Expired \/ (pc[t] \in AtWork /\ seen[t] = r)
      /\ pc[t] = "fail" => seen[t] = r

\* Attempt a is an earlier one of its task, or the task has come to one of the
\* labels in it.
Reached(a, labels) ==
  \/ a[2] < tries[a[1]]
  \/ a[2] = tries[a[1]] /\ pc[a[1]] \in labels

RunLabels        == PastContext \cup Handling \cup Ended
JobLabels        == WithJob \cup Handling \cup Ended
PredictionLabels == WithPrediction \cup Handling \cup Ended
ReportLabels     == WithReport \cup Handling \cup Ended
PosterLabels     == WithPoster \cup {"ok", "lost"}

Traced(m) ==
  /\ (run[m] # Nil /\ run[m].task # Nil) => Reached(<<run[m].task, run[m].tries>>, RunLabels)
  /\ product[m].job # Nil => Reached(product[m].job, JobLabels)
  /\ product[m].prediction # Nil => Reached(product[m].prediction, PredictionLabels)
  /\ product[m].report # Nil => Reached(product[m].report, ReportLabels)
  /\ product[m].poster # Nil => Reached(product[m].poster, PosterLabels)

\* What a row shows of the attempt it names, once that has ended.
CompletedWell(r, p) ==
  LET a == <<r.task, r.tries>>
  IN  /\ r.failedStep = Nil /\ analysisJob[p.job] = "completed"
      /\ p.prediction = a /\ p.report = a /\ p.poster = a

FailedWell(r, p) ==
  LET a == <<r.task, r.tries>>
  IN  /\ r.failedStep # Nil /\ p.poster # a
      /\ p.prediction = a <=> r.failedStep \in {"report", "poster"}
      /\ p.report = a <=> r.failedStep = "poster"

Settled(m) ==
  run[m] # Nil =>
    /\ run[m].status = StatusWith(run[m].step)
    /\ run[m].status = "completed" => CompletedWell(run[m], product[m])
    /\ (NoWorkerLost /\ run[m].status = "failed") => FailedWell(run[m], product[m])
    /\ (NoWorkerLost /\ run[m].step \in PipelineSteps) =>
         \E t \in Workers : match[t] = m /\ OwnsRow(t)

OneBusy == \A t, u \in Busy : t = u

SInv ==
  /\ IInv /\ OneBusy
  /\ \A t \in Tasks : Stands(t)
  /\ \A m \in Matches : Traced(m) /\ Settled(m)

-----------------------------------------------------------------------------
LEMMA OneBusyStep ==
  ASSUME IInv, OneBusy, [Next]_vars, Slots = 1
  PROVE  OneBusy'
<1> USE DEF Busy, Executing, InPipeline
<1>0. pc \in [Tasks -> PCs]
  BY DEF IInv, TypeOK
<1>1. ASSUME NEW t \in Tasks, Start(t) PROVE OneBusy'
  <2>1. IsFiniteSet(Busy)
    BY FS_Subset, AutomationAssumption
  <2>2. Cardinality(Busy) = 0
    <3>1. Cardinality(Busy) < 1
      BY <1>1 DEF Start
    <3> QED
      BY <2>1, <3>1, FS_CardinalityType
  <2>3. Busy = {}
    <3> HIDE DEF Busy
    <3> QED
      BY <2>1, <2>2, FS_EmptySet
  <2> QED
    BY <1>0, <1>1, <2>3 DEF OneBusy, Start, Goto
<1>2. ASSUME Busy' \subseteq Busy PROVE OneBusy'
  BY <1>2 DEF OneBusy
<1>3. ASSUME NEW t \in Tasks, Step(t) PROVE Busy' \subseteq Busy
  BY <1>0, <1>3
  DEF Step, Beat, Lookup, Insert, EnterJob, LoadJob, AddJob, EnterPrediction, Predict,
      EnterReport, Report, EnterPoster, Poster, EnterStep, LoadFinal, Complete, StepRaises,
      Raise, Rescue, Fail, Goto
<1>4. CASE \E t \in Tasks : (\E m \in Matches : Enqueue(m, t)) \/ Crash(t)
  BY <1>0, <1>2, <1>4 DEF Enqueue, Crash, Goto
<1>5. CASE Scan \/ ScanLost \/ UNCHANGED vars
  BY <1>2, <1>5 DEF Scan, ScanLost, vars, taskVars
<1> QED
  BY <1>1, <1>2, <1>3, <1>4, <1>5 DEF Next

\* What is assigned is what the row becomes: nothing has changed since the session
\* loaded it, or everything is written.
LEMMA FlushIsNew ==
  ASSUME NEW cur \in Rows, NEW old \in {Expired, cur}, NEW new \in Rows
  PROVE  Flush(old, cur, new) = new
<1>1. /\ new.status \notin {Unloaded} /\ new.step \notin {Unloaded}
      /\ new.task \notin {Unloaded} /\ new.tries \notin {Unloaded}
      /\ new.failedStep \notin {Unloaded}
  BY AutomationAssumption DEF Rows, StepNames
<1>2. new = [status |-> new.status, step |-> new.step, task |-> new.task,
             tries |-> new.tries, failedStep |-> new.failedStep]
  BY DEF Rows
<1>3. CASE old = Expired
  BY <1>1, <1>2, <1>3 DEF Flush, Expired
<1>4. CASE old = cur
  BY <1>2, <1>4 DEF Flush
<1> QED
  BY <1>3, <1>4

LEMMA UpdateAssigns ==
  ASSUME SInv, NEW t \in Tasks, pc[t] \in AtWork,
         NEW status \in {"pending", "running", "completed", "failed"},
         NEW step \in StepNames, NEW failedStep \in StepNames \cup {Nil},
         Update(t, status, step, failedStep)
  PROVE  /\ match[t] \in Matches /\ run[match[t]] \in Rows
         /\ Assigned(t, status, step, failedStep) \in Rows
         /\ run' = [run EXCEPT ![match[t]] = Assigned(t, status, step, failedStep)]
<1> DEFINE new == Assigned(t, status, step, failedStep)
<1>1. match[t] \in Matches /\ run[match[t]] \in Rows
  BY OwnRow DEF SInv
<1>2. new \in Rows
  BY DEF SInv, IInv, TypeOK, Assigned, Rows
<1>3. seen[t] \in {Expired, run[match[t]]}
  BY DEF SInv, Stands
<1> HIDE DEF new
<1>4. Flush(seen[t], run[match[t]], new) = new
  BY <1>1, <1>2, <1>3, FlushIsNew
<1> QED
  BY <1>1, <1>2, <1>4 DEF Update, new, SInv, IInv, TypeOK

\* No task returns to a label before those it has come to, except with its next try.
LEMMA ReachedStays ==
  ASSUME IInv, [Next]_vars, NEW a \in Attempts,
         NEW labels \in {RunLabels, JobLabels, PredictionLabels, ReportLabels, PosterLabels},
         Reached(a, labels)
  PROVE  Reached(a, labels)'
<1> USE DEF RunLabels, JobLabels, PredictionLabels, ReportLabels, PosterLabels, PastContext,
            InPipeline, Handling, Ended, WithJob, WithPrediction, WithReport, WithPoster
<1>0. /\ pc \in [Tasks -> PCs] /\ tries \in [Tasks -> 0..MaxRetries]
      /\ a[1] \in Tasks /\ a[2] \in 0..MaxRetries
  BY DEF IInv, TypeOK, Attempts
<1>1. CASE UNCHANGED <<pc, tries>>
  BY <1>1 DEF Reached
<1>2. ASSUME NEW t \in Tasks, Step(t) PROVE Reached(a, labels)'
  <2>1. CASE Beat(t) \/ Lookup(t) \/ Insert(t)
    BY <1>0, <2>1 DEF Reached, Beat, Lookup, Insert, Goto, Elsewhere
  <2>2. CASE EnterJob(t) \/ LoadJob(t) \/ AddJob(t)
    BY <1>0, <2>2 DEF Reached, EnterJob, LoadJob, AddJob, Goto, Elsewhere
  <2>3. CASE EnterPrediction(t) \/ Predict(t) \/ EnterReport(t) \/ Report(t)
    BY <1>0, <2>3 DEF Reached, EnterPrediction, Predict, EnterReport, Report, EnterStep, Goto,
                      Elsewhere
  <2>4. CASE EnterPoster(t) \/ Poster(t) \/ LoadFinal(t) \/ Complete(t)
    BY <1>0, <2>4 DEF Reached, EnterPoster, Poster, LoadFinal, Complete, EnterStep, Goto,
                      Elsewhere
  <2>5. CASE StepRaises(t) \/ Rescue(t)
    BY <1>0, <2>5 DEF Reached, StepRaises, Raise, Rescue, Goto, Elsewhere
  <2>6. CASE Fail(t)
    BY <1>0, <2>6, AutomationAssumption DEF Reached, Fail, Goto
  <2> QED
    BY <1>2, <2>1, <2>2, <2>3, <2>4, <2>5, <2>6 DEF Step
<1>3. CASE \E t \in Tasks : (\E m \in Matches : Enqueue(m, t)) \/ Start(t) \/ Crash(t)
  BY <1>0, <1>3 DEF Reached, Enqueue, Start, Crash, Goto, Elsewhere, Executing
<1> QED
  BY <1>1, <1>2, <1>3 DEF Next, Scan, ScanLost, vars, taskVars

-----------------------------------------------------------------------------
\* The attempts named by rows.

LEMMA TracedKept ==
  ASSUME SInv, [Next]_vars, NEW m \in Matches,
         \/ run'[m] = run[m]
         \/ run'[m] # Nil => \/ run'[m].task = Nil
                             \/ Reached(<<run[m].task, run[m].tries>>, RunLabels)',
         \/ product'[m].job = product[m].job
         \/ Reached(product[m].job, JobLabels)',
         \/ product'[m].prediction = product[m].prediction
         \/ Reached(product[m].prediction, PredictionLabels)',
         \/ product'[m].report = product[m].report
         \/ Reached(product[m].report, ReportLabels)',
         \/ product'[m].poster = product[m].poster
         \/ Reached(product[m].poster, PosterLabels)'
  PROVE  Traced(m)'
<1> PICK r, p : r = run[m] /\ p = product[m]
  OBVIOUS
<1>1. /\ r = Nil \/ r \in Rows
      /\ p.job \in Attempts \cup {Nil} /\ p.prediction \in Attempts \cup {Nil}
      /\ p.report \in Attempts \cup {Nil} /\ p.poster \in Attempts \cup {Nil}
  BY DEF SInv, IInv, TypeOK
<1>2. (r # Nil /\ r.task # Nil) => <<r.task, r.tries>> \in Attempts
  BY <1>1 DEF Rows, Attempts
<1>3. \A a \in Attempts :
        \A labels \in {RunLabels, JobLabels, PredictionLabels, ReportLabels, PosterLabels} :
          Reached(a, labels) => Reached(a, labels)'
  BY ReachedStays DEF SInv
<1>4. /\ (r # Nil /\ r.task # Nil) => Reached(<<r.task, r.tries>>, RunLabels)'
      /\ p.job # Nil => Reached(p.job, JobLabels)'
      /\ p.prediction # Nil => Reached(p.prediction, PredictionLabels)'
      /\ p.report # Nil => Reached(p.report, ReportLabels)'
      /\ p.poster # Nil => Reached(p.poster, PosterLabels)'
  BY <1>1, <1>2, <1>3 DEF SInv, Traced
<1> QED
  BY <1>4 DEF Traced, Reached

LEMMA TracedStep ==
  ASSUME SInv, [Next]_vars
  PROVE  \A m \in Matches : Traced(m)'
<1> USE DEF rowVars, taskVars, Elsewhere, Goto
<1>0. TypeOK /\ IInv
  BY DEF SInv, IInv
<1> SUFFICES ASSUME NEW m \in Matches PROVE Traced(m)'
  OBVIOUS
<1>1. CASE UNCHANGED <<run, product>>
  BY <1>1, TracedKept
<1>2. ASSUME NEW t \in Tasks, Insert(t) PROVE Traced(m)'
  <2>1. run'[m] = run[m] \/ run'[m] = NewRow
    BY <1>0, <1>2 DEF Insert, TypeOK
  <2>2. NewRow.task = Nil /\ product' = product
    BY <1>2 DEF NewRow, Insert
  <2> QED
    BY <2>1, <2>2, TracedKept
<1>3. ASSUME NEW t \in Tasks, pc[t] \in AtWork, NEW status \in {"running", "completed", "failed"},
             NEW step \in StepNames, NEW failedStep \in StepNames \cup {Nil},
             Update(t, status, step, failedStep), UNCHANGED product,
             tries'[t] = tries[t] + 1 \/ (tries'[t] = tries[t] /\ pc'[t] \in RunLabels)
      PROVE  Traced(m)'
  <2>1. run' = [run EXCEPT ![match[t]] = Assigned(t, status, step, failedStep)]
    BY <1>3, UpdateAssigns
  <2>2. run'[m] # run[m] => run'[m].task = t /\ run'[m].tries = tries[t]
    BY <1>0, <2>1 DEF TypeOK, Assigned
  <2>3. tries[t] \in Nat
    BY <1>0, AutomationAssumption DEF TypeOK
  <2> QED
    BY <1>3, <2>2, <2>3, TracedKept DEF Reached
<1>4. ASSUME NEW t \in Tasks,
             EnterJob(t) \/ EnterPrediction(t) \/ EnterReport(t) \/ EnterPoster(t)
      PROVE  Traced(m)'
  <2>1. PICK step \in PipelineSteps :
          /\ pc[t] \in AtWork /\ Update(t, "running", step, Nil) /\ UNCHANGED product
          /\ tries' = tries /\ pc'[t] \in RunLabels
    BY <1>0, <1>4 DEF EnterJob, EnterPrediction, EnterReport, EnterPoster, EnterStep,
       PipelineSteps, AtWork, InPipeline, TypeOK, RunLabels, PastContext
  <2> QED
    BY <1>3, <2>1 DEF StepNames
<1>5. ASSUME NEW t \in Tasks, Complete(t) PROVE Traced(m)'
  <2>1. pc[t] \in AtWork /\ tries' = tries /\ pc'[t] \in RunLabels
    BY <1>0, <1>5 DEF Complete, AtWork, InPipeline, TypeOK, RunLabels, Ended
  <2> QED
    BY <1>3, <1>5, <2>1 DEF Complete, StepNames
<1>6. ASSUME NEW t \in Tasks, Fail(t) PROVE Traced(m)'
  <2>1. /\ pc[t] \in AtWork
        /\ tries'[t] = tries[t] + 1 \/ (tries'[t] = tries[t] /\ pc'[t] \in RunLabels)
    BY <1>0, <1>6 DEF Fail, AtWork, TypeOK, RunLabels, Ended
  <2>2. seen[t].step \in StepNames
    BY <1>0, <1>6 DEF Fail, IInv, Progress, Rows
  <2> QED
    BY <1>3, <1>6, <2>1, <2>2 DEF Fail, StepNames
<1>7. ASSUME NEW t \in Tasks, AddJob(t) \/ Predict(t) \/ Report(t) \/ Poster(t)
      PROVE  Traced(m)'
  <2> DEFINE a == Attempt(t)
  <2>1. /\ UNCHANGED <<run, tries>>
        /\ product[m] \in [job: Attempts \cup {Nil}, prediction: Attempts \cup {Nil},
                           report: Attempts \cup {Nil}, poster: Attempts \cup {Nil}]
    BY <1>0, <1>7 DEF AddJob, Predict, Report, Poster, TypeOK
  <2>2. \/ /\ product'[m] = [product[m] EXCEPT !.job = a] /\ pc'[t] \in JobLabels
        \/ /\ product'[m] = [product[m] EXCEPT !.prediction = a] /\ pc'[t] \in PredictionLabels
        \/ /\ product'[m] = [product[m] EXCEPT !.report = a] /\ pc'[t] \in ReportLabels
        \/ /\ product'[m] = [product[m] EXCEPT !.poster = a] /\ pc'[t] \in PosterLabels
        \/ product'[m] = product[m]
    <3> USE DEF TypeOK
    <3>1. CASE AddJob(t)
      BY <1>0, <3>1 DEF AddJob, JobLabels, WithJob
    <3>2. CASE Predict(t)
      BY <1>0, <3>2 DEF Predict, PredictionLabels, WithPrediction
    <3>3. CASE Report(t)
      BY <1>0, <3>3 DEF Report, ReportLabels, WithReport
    <3>4. CASE Poster(t)
      BY <1>0, <3>4 DEF Poster, PosterLabels, WithPoster
    <3> QED
      BY <1>7, <3>1, <3>2, <3>3, <3>4
  <2>3. a[1] = t /\ a[2] = tries'[t]
    BY <2>1 DEF Attempt
  <2> HIDE DEF a
  <2> QED
    BY <2>1, <2>2, <2>3, TracedKept DEF Reached
<1> QED
  BY <1>1, <1>2, <1>4, <1>5, <1>6, <1>7 DEF Next, Step, vars, Scan, ScanLost,
     Enqueue, Start, Beat, Lookup, LoadJob, LoadFinal, StepRaises, Raise, Rescue, Crash

-----------------------------------------------------------------------------
\* Where tasks stand.

\* A row names no attempt, and no artifact of one, that is still to come.
LEMMA NotYet ==
  ASSUME SInv, NEW t \in Tasks, match[t] \in Matches
  PROVE  /\ (run[match[t]] # Nil /\ pc[t] \notin RunLabels) => ~OwnsRow(t)
         /\ pc[t] \notin JobLabels => product[match[t]].job # Attempt(t)
         /\ pc[t] \notin PredictionLabels => product[match[t]].prediction # Attempt(t)
         /\ pc[t] \notin ReportLabels => product[match[t]].report # Attempt(t)
         /\ pc[t] \notin PosterLabels => product[match[t]].poster # Attempt(t)
<1>1. Traced(match[t]) /\ tries[t] \in Nat /\ t # Nil /\ Attempt(t) # Nil
  BY AttemptNotNil, AutomationAssumption DEF SInv, IInv, TypeOK
<1> QED
  BY <1>1 DEF Traced, Reached, OwnsRow, Attempt

LEMMA StandsIdle ==
  ASSUME NEW t \in Tasks, pc'[t] \notin AtWork, seen'[t] = Expired
  PROVE  Stands(t)'
BY DEF Stands, AtWork, InPipeline, PastContext, Handling, WithPrediction, WithReport,
       WithPoster

LEMMA OthersStand ==
  ASSUME SInv, NEW t \in Busy, NEW u \in Tasks \ {t}, pc'[u] = pc[u], seen'[u] = seen[u]
  PROVE  Stands(u)'
<1>1. pc[u] \notin AtWork
  BY DEF SInv, OneBusy, Busy, Executing, AtWork
<1>2. seen[u] = Expired
  BY <1>1 DEF SInv, Stands
<1> QED
  BY <1>1, <1>2, StandsIdle

LEMMA StandsKept ==
  ASSUME NEW u \in Tasks, Stands(u), UNCHANGED <<run, product>>, pc'[u] = pc[u],
         match'[u] = match[u], tries'[u] = tries[u], seen'[u] = seen[u], held'[u] = held[u]
  PROVE  Stands(u)'
BY DEF Stands, OwnsRow, Attempt

LEMMA EnterStands ==
  ASSUME SInv, NEW t \in Tasks, pc[t] \in AtWork, NEW step \in PipelineSteps,
         Update(t, "running", step, Nil), pc'[t] \in PastContext \ {"complete"},
         StepOf(pc'[t]) = step, pc'[t] \in WithPrediction => pc[t] \in WithPrediction,
         pc'[t] \in WithReport => pc[t] \in WithReport, pc'[t] \notin WithPoster,
         Expire(t), UNCHANGED <<product, match, tries>>
  PROVE  Stands(t)'
<1> DEFINE m == match[t]
           new == Assigned(t, "running", step, Nil)
<1>1. m \in Matches /\ run' = [run EXCEPT ![m] = new]
  BY UpdateAssigns DEF StepNames
<1>2. run'[m] = new
  BY <1>1 DEF SInv, IInv, TypeOK
<1>3. new.task = t /\ new.tries = tries[t] /\ new.step = step /\ new.failedStep = Nil
  BY DEF Assigned
<1>4. seen'[t] = Expired
  BY DEF Expire, SInv, IInv, TypeOK
<1> HIDE DEF new
<1>5. OwnsRow(t)' /\ run'[m].step = step /\ run'[m].failedStep = Nil
  BY <1>2, <1>3 DEF OwnsRow
<1> QED
  BY <1>4, <1>5 DEF Stands, SInv, PastContext, Handling, Attempt, InPipeline

LEMMA StandsOwn ==
  ASSUME SInv, [Next]_vars, NEW t \in Tasks, Step(t)
  PROVE  Stands(t)'
<1> USE DEF rowVars, taskVars, Elsewhere, Goto, Expire, Load
<1>0. TypeOK /\ IInv /\ Stands(t) /\ match[t] \in Matches
  <2>1. pc[t] # "idle"
    BY DEF Step, Beat, Lookup, Insert, EnterJob, LoadJob, AddJob, EnterPrediction, Predict,
       EnterReport, Report, EnterPoster, Poster, EnterStep, LoadFinal, Complete, StepRaises,
       Raise, Rescue, Fail
  <2> QED
    BY <2>1 DEF SInv, IInv, Progress
<1> DEFINE m == match[t]
<1> USE DEF RunLabels, PredictionLabels, ReportLabels, PosterLabels, PastContext, InPipeline,
            Handling, Ended, WithPrediction, WithReport, WithPoster, AtWork
<1>1. CASE Beat(t)
  BY <1>0, <1>1, StandsIdle DEF Beat, Stands, TypeOK
<1>2. CASE Lookup(t)
  <2>1. CASE run[m] = Nil
    BY <1>0, <1>2, <2>1, StandsIdle DEF Lookup, Stands, TypeOK
  <2>2. CASE run[m] # Nil
    <3>1. ~OwnsRow(t)
      BY <1>0, <1>2, <2>2, NotYet DEF Lookup
    <3>2. pc'[t] = "context" /\ seen'[t] = run[m] /\ UNCHANGED <<run, product, match, tries>>
      BY <1>0, <1>2, <2>2 DEF Lookup, TypeOK
    <3> QED
      BY <3>1, <3>2 DEF Stands, OwnsRow
  <2> QED
    BY <2>1, <2>2
<1>3. CASE Insert(t)
  <2>1. seen[t] = Expired
    BY <1>0, <1>3 DEF Insert, Stands
  <2>2. CASE run[m] = Nil
    <3>1. pc'[t] = "context" /\ run'[m] = NewRow /\ UNCHANGED <<product, match, tries, seen>>
      BY <1>0, <1>3, <2>2 DEF Insert, TypeOK
    <3>2. NewRow.task # t
      BY AutomationAssumption DEF NewRow
    <3> QED
      BY <2>1, <3>1, <3>2 DEF Stands, OwnsRow
  <2>3. CASE run[m] # Nil
    BY <1>0, <1>3, <2>1, <2>3, StandsIdle DEF Insert, TypeOK
  <2> QED
    BY <2>2, <2>3
<1>4. CASE EnterJob(t) \/ EnterPrediction(t) \/ EnterReport(t) \/ EnterPoster(t)
  BY <1>0, <1>4, EnterStands DEF EnterJob, EnterPrediction, EnterReport, EnterPoster, EnterStep,
     PipelineSteps, StepOf, TypeOK
<1>5. CASE LoadJob(t) \/ LoadFinal(t)
  <2>1. /\ seen'[t] = run[m] /\ UNCHANGED <<run, product, match, tries>>
        /\ \/ pc[t] = "load_job" /\ pc'[t] \in {"add_job", "enter_prediction"}
           \/ pc[t] = "load_final" /\ pc'[t] = "complete" /\ held'[t] = product[m].job
    BY <1>0, <1>5 DEF LoadJob, LoadFinal, TypeOK
  <2> QED
    BY <1>0, <2>1 DEF Stands, OwnsRow, Attempt, StepOf
<1>6. CASE AddJob(t) \/ Predict(t) \/ Report(t) \/ Poster(t)
  <2>1. UNCHANGED <<run, match, tries>> /\ seen'[t] \in {seen[t], Expired}
    BY <1>0, <1>6 DEF AddJob, Predict, Report, Poster, TypeOK
  <2>2. \/ /\ pc[t] = "add_job" /\ pc'[t] = "enter_prediction"
        \/ /\ pc[t] = "predict" /\ pc'[t] = "enter_report"
           /\ product'[m].prediction = Attempt(t)
        \/ /\ pc[t] = "report" /\ pc'[t] = "enter_poster"
           /\ product'[m].prediction = product[m].prediction /\ product'[m].report = Attempt(t)
        \/ /\ pc[t] = "poster" /\ pc'[t] = "load_final"
           /\ product'[m].prediction = product[m].prediction
           /\ product'[m].report = product[m].report /\ product'[m].poster = Attempt(t)
    BY <1>0, <1>6 DEF AddJob, Predict, Report, Poster, TypeOK
  <2> QED
    BY <1>0, <2>1, <2>2 DEF Stands, OwnsRow, Attempt, StepOf
<1>7. CASE StepRaises(t)
  <2>1. /\ UNCHANGED <<run, product, match, tries, seen>> /\ pc'[t] = "rescue"
        /\ pc[t] \in {"context", "predict", "report", "poster"}
    BY <1>0, <1>7 DEF StepRaises, Raise, TypeOK
  <2>2. run[m] # Nil
    BY <1>0, <2>1 DEF IInv, Progress
  <2> QED
    BY <1>0, <2>1, <2>2, NotYet DEF Stands, OwnsRow, Attempt, StepOf
<1>8. CASE Rescue(t)
  <2>1. /\ UNCHANGED <<run, product, match, tries>> /\ pc'[t] = "fail" /\ pc[t] = "rescue"
        /\ seen'[t] = run[m]
    BY <1>0, <1>8 DEF Rescue, TypeOK
  <2> QED
    BY <1>0, <2>1 DEF Stands, OwnsRow, Attempt
<1>9. CASE Complete(t) \/ Fail(t)
  BY <1>0, <1>9, StandsIdle DEF Complete, Fail, TypeOK
<1> QED
  BY <1>1, <1>2, <1>3, <1>4, <1>5, <1>6, <1>7, <1>8, <1>9 DEF Step

\* A step of t is taken by the one task that executes and moves that alone.
LEMMA StepMoves ==
  ASSUME IInv, NEW t \in Tasks, Step(t) \/ Crash(t)
  PROVE  t \in Busy /\ \A u \in Tasks \ {t} : pc'[u] = pc[u] /\ seen'[u] = seen[u]
<1>1. pc \in [Tasks -> PCs] /\ seen \in [Tasks -> Rows \cup {Expired}]
  BY DEF IInv, TypeOK
<1> QED
  BY <1>1 DEF Step, Beat, Lookup, Insert, EnterJob, LoadJob, AddJob, EnterPrediction, Predict,
     EnterReport, Report, EnterPoster, Poster, EnterStep, LoadFinal, Complete, StepRaises,
     Raise, Rescue, Fail, Crash, Goto, Load, Expire, Busy, Executing, InPipeline

LEMMA StandsStep ==
  ASSUME SInv, [Next]_vars
  PROVE  \A u \in Tasks : Stands(u)'
<1> USE DEF rowVars, taskVars, Elsewhere, Goto, Expire
<1>0. TypeOK /\ IInv /\ \A u \in Tasks : Stands(u)
  BY DEF SInv, IInv
<1>1. CASE Scan \/ ScanLost \/ UNCHANGED vars
  BY <1>0, <1>1, StandsKept DEF Scan, ScanLost, vars
<1>2. ASSUME NEW x \in Matches, NEW t \in Tasks, Enqueue(x, t), NEW u \in Tasks
      PROVE  Stands(u)'
  <2>1. CASE u = t
    BY <1>0, <1>2, <2>1, StandsIdle
    DEF Enqueue, Stands, TypeOK, AtWork, InPipeline
  <2>2. CASE u # t
    BY <1>0, <1>2, <2>2, StandsKept DEF Enqueue, TypeOK
  <2> QED
    BY <2>1, <2>2
<1>3. ASSUME NEW t \in Tasks, Start(t), NEW u \in Tasks
      PROVE  Stands(u)'
  <2>1. CASE u = t
    BY <1>0, <1>3, <2>1, StandsIdle DEF Start, Stands, TypeOK, AtWork, InPipeline
  <2>2. CASE u # t
    BY <1>0, <1>3, <2>2, StandsKept DEF Start, TypeOK
  <2> QED
    BY <2>1, <2>2
<1>4. ASSUME NEW t \in Tasks, Step(t), NEW u \in Tasks
      PROVE  Stands(u)'
  BY <1>0, <1>4, StandsOwn, StepMoves, OthersStand
<1>5. ASSUME NEW t \in Tasks, Crash(t), NEW u \in Tasks
      PROVE  Stands(u)'
  <2>1. CASE u = t
    BY <1>0, <1>5, <2>1, StandsIdle DEF Crash, TypeOK, AtWork, InPipeline
  <2>2. CASE u # t
    BY <1>0, <1>5, <2>2, StepMoves, OthersStand
  <2> QED
    BY <2>1, <2>2
<1> QED
  BY <1>1, <1>2, <1>3, <1>4, <1>5 DEF Next

-----------------------------------------------------------------------------
\* What rows show.

LEMMA SettledKept ==
  ASSUME SInv, NEW m \in Matches, run'[m] = run[m], product'[m] = product[m],
         analysisJob[product[m].job] = "completed" => analysisJob'[product[m].job] = "completed",
         NoWorkerLost' => NoWorkerLost /\ \A t \in Workers :
           match[t] = m => t \in Workers' /\ match'[t] = m /\ tries'[t] = tries[t]
  PROVE  Settled(m)'
<1> PICK r, p : r = run[m] /\ p = product[m]
  OBVIOUS
<1>1. Settled(m)
  BY DEF SInv
<1>2. r # Nil => /\ r.status = StatusWith(r.step)
                 /\ r.status = "completed" => CompletedWell(r, p)
                 /\ (NoWorkerLost /\ r.status = "failed") => FailedWell(r, p)
                 /\ (NoWorkerLost /\ r.step \in PipelineSteps) =>
                      \E t \in Workers : match[t] = m /\ r.task = t /\ r.tries = tries[t]
  BY <1>1 DEF Settled, OwnsRow
<1>3. CompletedWell(r, p) => CompletedWell(r, p)'
  BY DEF CompletedWell
<1>4. FailedWell(r, p)' <=> FailedWell(r, p)
  BY DEF FailedWell
<1>5. r # Nil => /\ r.status = StatusWith(r.step)
                 /\ r.status = "completed" => CompletedWell(r, p)'
                 /\ (NoWorkerLost' /\ r.status = "failed") => FailedWell(r, p)'
                 /\ (NoWorkerLost' /\ r.step \in PipelineSteps) =>
                      \E t \in Workers' : match'[t] = m /\ r.task = t /\ r.tries = tries'[t]
  BY <1>2, <1>3, <1>4
<1> QED
  BY <1>5 DEF Settled, OwnsRow, CompletedWell, FailedWell

\* Nobody works on the row of a match but the task that works on it.
LEMMA SettledElsewhere ==
  ASSUME SInv, NEW t \in Busy, NEW m \in Matches, m # match[t],
         run'[m] = run[m], product'[m] = product[m],
         analysisJob[product[m].job] = "completed" => analysisJob'[product[m].job] = "completed",
         NoWorkerLost' => NoWorkerLost
  PROVE  Settled(m)'
<1>1. \A u \in Workers : u = t
  BY DEF SInv, OneBusy, Busy, Workers, AtWork, Executing
<1> QED
  BY <1>1, SettledKept

LEMMA LostStaysLost ==
  ASSUME IInv, [Next]_vars, NoWorkerLost'
  PROVE  NoWorkerLost
<1>1. ASSUME NEW t \in Tasks, pc[t] = "lost" PROVE pc'[t] = "lost"
  <2>1. pc \in [Tasks -> PCs]
    BY DEF IInv, TypeOK
  <2>2. \A u \in Tasks : Step(u) \/ Crash(u) => (u \in Busy /\ pc'[t] = pc[t]) \/ u = t
    BY StepMoves
  <2>3. t \notin Busy
    BY <1>1 DEF Busy, Executing, InPipeline
  <2> QED
    BY <1>1, <2>1, <2>2, <2>3, StepMoves
    DEF Next, Scan, ScanLost, Enqueue, Start, Goto, vars, taskVars
<1> QED
  BY <1>1 DEF NoWorkerLost

LEMMA EnterSettles ==
  ASSUME SInv, [Next]_vars, NEW t \in Tasks, pc[t] \in AtWork, NEW step \in PipelineSteps,
         Update(t, "running", step, Nil), pc'[t] \in AtWork,
         UNCHANGED <<product, analysisJob, match, tries>>
  PROVE  \A m \in Matches : Settled(m)'
<1> DEFINE new == Assigned(t, "running", step, Nil)
<1>1. match[t] \in Matches /\ new \in Rows /\ run' = [run EXCEPT ![match[t]] = new]
  BY UpdateAssigns DEF StepNames
<1>2. new.task = t /\ new.tries = tries[t] /\ new.step = step /\ new.status = "running"
  BY DEF Assigned
<1> HIDE DEF new
<1> SUFFICES ASSUME NEW m \in Matches PROVE Settled(m)'
  OBVIOUS
<1>3. CASE m = match[t]
  <2>1. run'[m] = new
    BY <1>1, <1>3 DEF SInv, IInv, TypeOK
  <2>2. t \in Workers' /\ match'[t] = m /\ OwnsRow(t)'
    BY <1>2, <1>3, <2>1 DEF Workers, OwnsRow
  <2>3. new.status = StatusWith(new.step)
    BY <1>2 DEF StatusWith, PipelineSteps
  <2> QED
    BY <1>2, <2>1, <2>2, <2>3 DEF Settled
<1>4. CASE m # match[t]
  BY <1>1, <1>4, SettledElsewhere, LostStaysLost
  DEF SInv, IInv, TypeOK, Busy, Executing, AtWork
<1> QED
  BY <1>3, <1>4

\* While an attempt makes its artifacts its row is a running one.
LEMMA MakeSettles ==
  ASSUME SInv, [Next]_vars, NEW t \in Tasks,
         AddJob(t) \/ Predict(t) \/ Report(t) \/ Poster(t)
  PROVE  \A m \in Matches : Settled(m)'
<1> USE DEF rowVars, taskVars, Elsewhere, Goto
<1>0. TypeOK /\ Stands(t) /\ IInv /\ t \in Busy
  BY StepMoves DEF SInv, IInv, Step
<1>1. /\ pc[t] \in PastContext /\ pc'[t] \in PastContext /\ UNCHANGED <<run, match, tries>>
      /\ \A m \in Matches \ {match[t]} : product'[m] = product[m]
      /\ match[t] \in Matches
  BY <1>0 DEF AddJob, Predict, Report, Poster, PastContext, InPipeline, TypeOK, IInv, Progress
<1> SUFFICES ASSUME NEW m \in Matches PROVE Settled(m)'
  OBVIOUS
<1>2. CASE m = match[t]
  <2>1. OwnsRow(t) /\ run[m].step \in PipelineSteps /\ run[m] # Nil
    BY <1>0, <1>1, <1>2
    DEF Stands, StepOf, PipelineSteps, IInv, Progress, PastContext, AtWork
  <2>2. run[m].status = StatusWith(run[m].step) /\ StatusWith(run[m].step) = "running"
    BY <2>1 DEF SInv, Settled, StatusWith, PipelineSteps
  <2>3. t \in Workers' /\ match'[t] = m /\ OwnsRow(t)'
    BY <1>1, <1>2, <2>1 DEF Workers, OwnsRow, AtWork, PastContext
  <2> QED
    BY <1>1, <2>2, <2>3 DEF Settled
<1>3. CASE m # match[t]
  <2>1. analysisJob[product[m].job] = "completed" => analysisJob'[product[m].job] = "completed"
    <3>1. CASE AddJob(t)
      <4>1. Traced(m) /\ product[m].job \in Attempts \cup {Nil}
        BY <1>0 DEF SInv, TypeOK
      <4>2. product[m].job # Attempt(t)
        BY <1>0, <3>1, <4>1, AttemptNotNil
        DEF Traced, Reached, Attempt, AddJob, JobLabels, WithJob, Handling, Ended, TypeOK
      <4> QED
        BY <1>0, <3>1, <4>1, <4>2 DEF AddJob, TypeOK
    <3>2. CASE ~AddJob(t)
      BY <3>2 DEF Predict, Report, Poster
    <3> QED
      BY <3>1, <3>2
  <2> QED
    BY <1>0, <1>1, <1>3, <2>1, SettledElsewhere, LostStaysLost
<1> QED
  BY <1>2, <1>3

LEMMA CompleteSettles ==
  ASSUME SInv, [Next]_vars, NEW t \in Tasks, Complete(t)
  PROVE  \A m \in Matches : Settled(m)'
<1> PICK new : new = Assigned(t, "completed", "completed", Nil)
  OBVIOUS
<1>0. TypeOK /\ Stands(t) /\ IInv /\ t \in Busy /\ pc[t] = "complete"
  BY StepMoves DEF SInv, IInv, Step, Complete
<1>1. match[t] \in Matches /\ new \in Rows /\ run' = [run EXCEPT ![match[t]] = new]
  BY <1>0, UpdateAssigns DEF StepNames, Complete, AtWork, InPipeline
<1>2. /\ new.task = t /\ new.tries = tries[t] /\ new.step = "completed"
      /\ new.status = "completed" /\ new.failedStep = Nil
  BY DEF Assigned
<1>3. /\ analysisJob' = [analysisJob EXCEPT ![held[t]] = "completed"]
      /\ UNCHANGED product
  BY DEF Complete
<1> SUFFICES ASSUME NEW m \in Matches PROVE Settled(m)'
  OBVIOUS
<1>4. CASE m = match[t]
  <2> PICK p : p = product[m]
    OBVIOUS
  <2>1. run'[m] = new
    BY <1>0, <1>1, <1>4 DEF TypeOK
  <2>2. /\ held[t] = p.job /\ held[t] \in Attempts
        /\ p.prediction = Attempt(t) /\ p.report = Attempt(t) /\ p.poster = Attempt(t)
    BY <1>0, <1>4 DEF Stands, WithPrediction, WithReport, WithPoster, IInv, Progress, TypeOK
  <2>3. analysisJob'[p.job] = "completed"
    BY <1>0, <1>3, <2>2 DEF TypeOK
  <2>4. CompletedWell(new, p)'
    BY <1>2, <2>2, <2>3 DEF CompletedWell, Attempt
  <2>5. new.status = StatusWith(new.step) /\ new.step \notin PipelineSteps
    BY <1>2 DEF StatusWith, PipelineSteps
  <2> QED
    BY <1>2, <1>3, <2>1, <2>4, <2>5 DEF Settled, CompletedWell
<1>5. CASE m # match[t]
  BY <1>0, <1>1, <1>3, <1>5, SettledElsewhere, LostStaysLost DEF TypeOK
<1> QED
  BY <1>4, <1>5

LEMMA FailSettles ==
  ASSUME SInv, [Next]_vars, NEW t \in Tasks, Fail(t)
  PROVE  \A m \in Matches : Settled(m)'
<1> PICK step : step = seen[t].step
  OBVIOUS
<1> PICK new : new = Assigned(t, "failed", "failed", step)
  OBVIOUS
<1>0. TypeOK /\ Stands(t) /\ IInv /\ t \in Busy /\ pc[t] = "fail"
  BY StepMoves DEF SInv, IInv, Step, Fail
<1>1. /\ match[t] \in Matches /\ run[match[t]] \in Rows /\ run[match[t]] # Nil
      /\ step = run[match[t]].step /\ step \in StepNames
  BY <1>0, OwnRow DEF Stands, Rows, AtWork
<1>2. new \in Rows /\ run' = [run EXCEPT ![match[t]] = new]
  BY <1>0, <1>1, UpdateAssigns DEF StepNames, Fail, AtWork
<1>3. /\ new.task = t /\ new.tries = tries[t] /\ new.step = "failed"
      /\ new.status = "failed" /\ new.failedStep = step
  BY DEF Assigned
<1>4. UNCHANGED <<product, analysisJob>>
  BY DEF Fail
<1> SUFFICES ASSUME NEW m \in Matches PROVE Settled(m)'
  OBVIOUS
<1>5. CASE m = match[t]
  <2> PICK p : p = product[m]
    OBVIOUS
  <2>1. run'[m] = new
    BY <1>0, <1>2, <1>5 DEF TypeOK
  <2>2. /\ OwnsRow(t) => step \in {"prediction", "report", "poster"}
        /\ p.prediction = Attempt(t) <=> OwnsRow(t) /\ step \in {"report", "poster"}
        /\ p.report = Attempt(t) <=> OwnsRow(t) /\ step = "poster"
    BY <1>0, <1>1, <1>5 DEF Stands, Handling
  <2>3. p.poster # Attempt(t)
    BY <1>0, <1>1, <1>5, NotYet DEF PosterLabels, WithPoster
  <2>4. NoWorkerLost /\ step \in PipelineSteps => OwnsRow(t)
    <3>1. \A u \in Workers : u = t
      BY <1>0 DEF SInv, OneBusy, Busy, Workers, AtWork, Executing
    <3> QED
      BY <1>1, <1>5, <3>1 DEF SInv, Settled
  <2>5. NoWorkerLost => FailedWell(new, p)
    BY <1>1, <1>3, <2>2, <2>3, <2>4, AutomationAssumption
    DEF FailedWell, Attempt, PipelineSteps
  <2>6. (NoWorkerLost => FailedWell(new, p))'
    BY <1>0, <2>5, LostStaysLost DEF FailedWell
  <2>7. new.status = StatusWith(new.step) /\ new.step \notin PipelineSteps
    BY <1>3 DEF StatusWith, PipelineSteps
  <2> QED
    BY <1>3, <1>4, <2>1, <2>6, <2>7 DEF Settled, FailedWell
<1>6. CASE m # match[t]
  BY <1>0, <1>2, <1>4, <1>6, SettledElsewhere, LostStaysLost DEF TypeOK
<1> QED
  BY <1>5, <1>6

LEMMA SettledStep ==
  ASSUME SInv, [Next]_vars
  PROVE  \A m \in Matches : Settled(m)'
<1> USE DEF rowVars, taskVars, Elsewhere, Goto
<1>0. TypeOK /\ IInv
  BY DEF SInv, IInv
<1>1. ASSUME UNCHANGED <<run, product, analysisJob>>,
             NoWorkerLost' => \A t \in Workers :
               t \in Workers' /\ match'[t] = match[t] /\ tries'[t] = tries[t]
      PROVE  \A m \in Matches : Settled(m)'
  BY <1>0, <1>1, SettledKept, LostStaysLost
<1>2. CASE Scan \/ ScanLost \/ UNCHANGED vars
  BY <1>1, <1>2 DEF Scan, ScanLost, vars, Workers
<1>3. CASE \E t \in Tasks : (\E m \in Matches : Enqueue(m, t)) \/ Start(t)
  BY <1>0, <1>1, <1>3 DEF Enqueue, Start, Workers, AtWork, InPipeline, TypeOK
<1>4. ASSUME NEW t \in Tasks, Crash(t) PROVE \A m \in Matches : Settled(m)'
  <2>1. ~NoWorkerLost'
    BY <1>0, <1>4 DEF Crash, NoWorkerLost, TypeOK
  <2> QED
    BY <1>1, <1>4, <2>1 DEF Crash
<1>5. ASSUME NEW t \in Tasks,
             \/ Beat(t) \/ Lookup(t) \/ LoadJob(t) \/ LoadFinal(t) \/ StepRaises(t)
             \/ Rescue(t)
      PROVE  \A m \in Matches : Settled(m)'
  <2>1. UNCHANGED <<run, product, analysisJob, match, tries>>
    BY <1>5 DEF Beat, Lookup, LoadJob, LoadFinal, StepRaises, Raise, Rescue
  <2>2. \A u \in Workers : u \in Workers'
    BY <1>0, <1>5 DEF Beat, Lookup, LoadJob, LoadFinal, StepRaises, Raise, Rescue, Workers,
       AtWork, InPipeline, TypeOK
  <2> QED
    BY <1>1, <2>1, <2>2
<1>6. ASSUME NEW t \in Tasks, Insert(t) PROVE \A m \in Matches : Settled(m)'
  <2>1. /\ UNCHANGED <<product, analysisJob, match, tries>>
        /\ \A u \in Workers : u \in Workers'
    BY <1>0, <1>6 DEF Insert, Workers, AtWork, InPipeline, TypeOK
  <2>2. CASE run' = run
    BY <1>1, <2>1, <2>2
  <2>3. CASE run[match[t]] = Nil /\ run' = [run EXCEPT ![match[t]] = NewRow]
    <3>1. NewRow.status = "pending" /\ NewRow.step = "discovered"
      BY DEF NewRow
    <3>2. NewRow.status = StatusWith(NewRow.step) /\ NewRow.step \notin PipelineSteps
      BY <3>1 DEF StatusWith, PipelineSteps
    <3> SUFFICES ASSUME NEW m \in Matches PROVE Settled(m)'
      OBVIOUS
    <3>3. CASE run'[m] = run[m]
      BY <1>0, <2>1, <3>3, SettledKept, LostStaysLost
    <3>4. CASE run'[m] = NewRow
      BY <3>1, <3>2, <3>4 DEF Settled
    <3> QED
      BY <1>0, <2>3, <3>3, <3>4 DEF TypeOK
  <2> QED
    BY <1>6, <2>2, <2>3 DEF Insert
<1>7. ASSUME NEW t \in Tasks,
             EnterJob(t) \/ EnterPrediction(t) \/ EnterReport(t) \/ EnterPoster(t)
      PROVE  \A m \in Matches : Settled(m)'
  <2>1. PICK step \in PipelineSteps :
          /\ pc[t] \in AtWork /\ Update(t, "running", step, Nil) /\ pc'[t] \in AtWork
          /\ UNCHANGED <<product, analysisJob, match, tries>>
    BY <1>0, <1>7 DEF EnterJob, EnterPrediction, EnterReport, EnterPoster, EnterStep,
       PipelineSteps, AtWork, InPipeline, TypeOK
  <2> QED
    BY <2>1, EnterSettles
<1> QED
  BY <1>2, <1>3, <1>4, <1>5, <1>6, <1>7, MakeSettles, CompleteSettles, FailSettles
  DEF Next, Step

LEMMA SerialInit ==
  ASSUME Init
  PROVE  SInv
<1>1. IInv
  BY InitInv
<1>2. OneBusy /\ \A t \in Tasks : Stands(t)
  BY DEF Init, OneBusy, Busy, Executing, InPipeline, Stands, AtWork, PastContext, Handling,
     WithPrediction, WithReport, WithPoster
<1>3. \A m \in Matches : Traced(m) /\ Settled(m)
  BY DEF Init, Traced, Settled, NoProduct
<1> QED
  BY <1>1, <1>2, <1>3 DEF SInv

\* SInv is inductive as soon as no two tasks execute at once.
THEOREM SerialInvariant ==
  ASSUME Slots = 1
  PROVE  Spec => []SInv
<1>1. SInv /\ [Next]_vars => SInv'
  BY StepInv, OneBusyStep, StandsStep, TracedStep, SettledStep DEF SInv
<1> QED
  BY <1>1, SerialInit, PTL DEF Spec

\* One task at a time: the prediction, the report and the poster of a completed run
\* are all of the attempt its row names.
THEOREM CompletedRunsAreOneAttempts ==
  ASSUME Slots = 1
  PROVE  Spec => []CompletedFromOneAttempt
<1>1. SInv => CompletedFromOneAttempt
  BY DEF SInv, Settled, CompletedWell, Completed, CompletedFromOneAttempt
<1> QED
  BY <1>1, SerialInvariant, PTL

\* One task at a time: a completed run shows no earlier failure, and its analysis
\* job is completed.
THEOREM CompletedRunsAreClean ==
  ASSUME Slots = 1
  PROVE  Spec => []CompletedIsClean
<1>1. SInv => CompletedIsClean
  BY DEF SInv, Settled, CompletedWell, Completed, CompletedIsClean
<1> QED
  BY <1>1, SerialInvariant, PTL

\* One task at a time and no worker killed: the failed step of a failed run tells
\* which artifacts in the row are of the attempt that failed.
THEOREM FailuresTellProgress ==
  ASSUME Slots = 1
  PROVE  Spec => []FailureTellsProgress
<1>1. SInv => FailureTellsProgress
  BY DEF SInv, Settled, FailedWell, FailureTellsProgress
<1> QED
  BY <1>1, SerialInvariant, PTL

-----------------------------------------------------------------------------
(***************************************************************************)
(* The refinement.  While a task works, RunLifecycle's variables are read  *)
(* off its label and its row (WorkMaps); while none does, its attempt is   *)
(* none.  Every step of a task is then one operation of RunLifecycle or    *)
(* changes nothing that RunLifecycle sees.                                 *)
(***************************************************************************)

Artifacts == {"prediction", "report", "poster"}

LEMMA WorkMaps ==
  SInv => \A t \in Workers :
            /\ Workers = {t} /\ match[t] \in Matches /\ Active = match[t]
            /\ Entered = IF OwnsRow(t) THEN run[match[t]].step ELSE Nil
            /\ Made = {a \in Artifacts : product[match[t]][a] = Attempt(t)}
<1> SUFFICES ASSUME SInv, NEW t \in Workers
             PROVE  /\ Workers = {t} /\ match[t] \in Matches /\ Active = match[t]
                    /\ Entered = IF OwnsRow(t) THEN run[match[t]].step ELSE Nil
                    /\ Made = {a \in Artifacts : product[match[t]][a] = Attempt(t)}
  OBVIOUS
<1>1. Workers = {t}
  BY DEF SInv, OneBusy, Busy, Workers, AtWork, Executing
<1>2. Worker = t
  BY <1>1 DEF Worker
<1>3. match[t] \in Matches
  BY OwnRow DEF SInv, Workers
<1>4. Active = match[t]
  BY <1>1, <1>2 DEF Active
<1> QED
  BY <1>1, <1>2, <1>3, <1>4 DEF Entered, Made, OwnsRow, Artifacts

LEMMA WorkMapsNext ==
  SInv' => (\A t \in Workers :
              /\ Workers = {t} /\ match[t] \in Matches /\ Active = match[t]
              /\ Entered = IF OwnsRow(t) THEN run[match[t]].step ELSE Nil
              /\ Made = {a \in Artifacts : product[match[t]][a] = Attempt(t)})'
BY WorkMaps, PTL

LEMMA IdleMaps == Workers = {} => Active = Nil /\ Entered = Nil /\ Made = {}
BY DEF Active, Entered, Made

LEMMA IdleMapsNext == Workers' = {} => Active' = Nil /\ Entered' = Nil /\ Made' = {}
BY DEF Active, Entered, Made

\* A row shows its step: none is seen torn.
LEMMA PhaseShown ==
  SInv => \A m \in Matches : PhaseOf(m) = IF run[m] = Nil THEN "none" ELSE run[m].step
BY DEF SInv, Settled, PhaseOf

LEMMA PhaseShownNext ==
  SInv' => (\A m \in Matches : PhaseOf(m) = IF run[m] = Nil THEN "none" ELSE run[m].step)'
BY PhaseShown, PTL

\* The only task of a busy slot is the only one that can be at work.
LEMMA OnlyWorker ==
  ASSUME SInv, NEW t \in Busy
  PROVE  Workers \subseteq {t}
BY DEF SInv, OneBusy, Busy, Workers, AtWork, Executing

LEMMA StepStutters ==
  ASSUME SInv, SInv', UNCHANGED <<run, product>>, Workers' = Workers,
         \A t \in Workers : match'[t] = match[t] /\ tries'[t] = tries[t]
  PROVE  UNCHANGED Lifecycle!lifecycleVars
<1>1. UNCHANGED <<[m \in Matches |-> PhaseOf(m)], [m \in Matches |-> FailedAt(m)], Named>>
  BY DEF PhaseOf, FailedAt, Named
<1>2. UNCHANGED <<Active, Entered, Made>>
  <2>1. CASE Workers = {}
    BY <2>1, IdleMaps, IdleMapsNext
  <2>2. ASSUME NEW t \in Workers PROVE UNCHANGED <<Active, Entered, Made>>
    <3>1. /\ Active = match[t]
          /\ Entered = IF OwnsRow(t) THEN run[match[t]].step ELSE Nil
          /\ Made = {a \in Artifacts : product[match[t]][a] = Attempt(t)}
      BY WorkMaps
    <3>2. /\ Active' = match'[t]
          /\ Entered' = IF OwnsRow(t)' THEN run'[match'[t]].step ELSE Nil
          /\ Made' = {a \in Artifacts : product'[match'[t]][a] = Attempt(t)'}
      BY WorkMapsNext
    <3>3. Attempt(t)' = Attempt(t) /\ (OwnsRow(t)' <=> OwnsRow(t))
      BY DEF Attempt, OwnsRow
    <3> QED
      BY <3>1, <3>2, <3>3
  <2> QED
    BY <2>1, <2>2
<1> QED
  BY <1>1, <1>2 DEF Lifecycle!lifecycleVars

LEMMA TakeMaps ==
  ASSUME SInv, SInv', NEW t \in Tasks, pc[t] \in {"lookup", "insert"},
         pc' = [pc EXCEPT ![t] = "context"], UNCHANGED <<product, match, tries>>,
         \/ run[match[t]] # Nil /\ run' = run
         \/ run[match[t]] = Nil /\ run' = [run EXCEPT ![match[t]] = NewRow]
  PROVE  Lifecycle!Take(match[t])
<1> PICK m : m = match[t]
  OBVIOUS
<1>0. /\ TypeOK /\ t \in Busy /\ t \in Workers' /\ m \in Matches /\ Workers = {}
  BY OnlyWorker
  DEF SInv, IInv, TypeOK, Progress, Busy, Executing, Workers, AtWork, InPipeline
<1>1. Active = Nil /\ Entered = Nil /\ Made = {}
  BY <1>0, IdleMaps
<1>2. Active' = m /\ Entered' = Nil /\ Made' = {}
  <2>1. ~OwnsRow(t)'
    BY <1>0 DEF SInv, TypeOK, Stands
  <2>2. \A a \in Artifacts : product[m][a] # Attempt(t)
    BY <1>0, NotYet
    DEF Artifacts, PredictionLabels, ReportLabels, PosterLabels, WithPrediction, WithReport,
        WithPoster, Handling, Ended
  <2>3. Attempt(t)' = Attempt(t)
    BY DEF Attempt
  <2> QED
    BY <1>0, <2>1, <2>2, <2>3, WorkMapsNext
<1>3. [x \in Matches |-> PhaseOf(x)]' =
        [[x \in Matches |-> PhaseOf(x)] EXCEPT ![m] = IF @ = "none" THEN "discovered" ELSE @]
  <2>1. \A x \in Matches : PhaseOf(x) = IF run[x] = Nil THEN "none" ELSE run[x].step
    BY PhaseShown
  <2>2. \A x \in Matches : PhaseOf(x)' = IF run'[x] = Nil THEN "none" ELSE run'[x].step
    BY PhaseShownNext
  <2>3. \A x \in Matches : run[x] # Nil => run[x].step # "none"
    BY <1>0 DEF TypeOK, Rows, StepNames, PipelineSteps
  <2>4. NewRow.step = "discovered" /\ NewRow # Nil
    BY NewRowType DEF NewRow
  <2>5. \A x \in Matches : PhaseOf(x)' =
          IF x = m /\ PhaseOf(x) = "none" THEN "discovered" ELSE PhaseOf(x)
    BY <1>0, <2>1, <2>2, <2>3, <2>4 DEF TypeOK
  <2> QED
    BY <1>0, <2>5
<1>4. UNCHANGED <<[x \in Matches |-> FailedAt(x)], Named>>
  <2>1. NewRow.failedStep = Nil
    BY DEF NewRow
  <2>2. \A x \in Matches : FailedAt(x)' = FailedAt(x)
    BY <1>0, <2>1, NewRowType DEF FailedAt, TypeOK
  <2> QED
    BY <2>2 DEF Named
<1> QED
  BY <1>1, <1>2, <1>3, <1>4 DEF Lifecycle!Take

LEMMA EnterMaps ==
  ASSUME SInv, SInv', NEW t \in Tasks, pc[t] \in AtWork, pc'[t] \in AtWork,
         UNCHANGED <<product, match, tries>>,
         NEW step \in PipelineSteps, Update(t, "running", step, Nil),
         NEW before, Entered = before, NEW done \in BOOLEAN, done
  PROVE  Lifecycle!Enter(match[t], before, done, step)
<1> PICK m : m = match[t]
  OBVIOUS
<1> PICK new : new = Assigned(t, "running", step, Nil)
  OBVIOUS
<1>0. TypeOK /\ m \in Matches /\ t \in Workers /\ t \in Workers'
  BY OwnRow DEF SInv, IInv, Workers
<1>1. run' = [run EXCEPT ![m] = new] /\ new # Nil
  BY UpdateAssigns, AutomationAssumption DEF StepNames
<1>2. new.task = t /\ new.tries = tries[t] /\ new.step = step /\ new.failedStep = Nil
  BY DEF Assigned
<1>3. Active = m /\ Made = {a \in Artifacts : product[m][a] = Attempt(t)}
  BY <1>0, WorkMaps
<1>4. Active' = m /\ Entered' = step /\ Made' = Made
  <2>1. Attempt(t)' = Attempt(t)
    BY DEF Attempt
  <2>2. OwnsRow(t)' /\ run'[m].step = step
    BY <1>0, <1>1, <1>2 DEF OwnsRow, TypeOK
  <2> QED
    BY <1>0, <1>3, <2>1, <2>2, WorkMapsNext
<1>5. [x \in Matches |-> PhaseOf(x)]' = [[x \in Matches |-> PhaseOf(x)] EXCEPT ![m] = step]
  <2>1. \A x \in Matches : PhaseOf(x) = IF run[x] = Nil THEN "none" ELSE run[x].step
    BY PhaseShown
  <2>2. \A x \in Matches : PhaseOf(x)' = IF run'[x] = Nil THEN "none" ELSE run'[x].step
    BY PhaseShownNext
  <2>3. \A x \in Matches : PhaseOf(x)' = IF x = m THEN step ELSE PhaseOf(x)
    BY <1>0, <1>1, <1>2, <2>1, <2>2 DEF TypeOK
  <2> QED
    BY <1>0, <2>3
<1>6. [x \in Matches |-> FailedAt(x)]' = [[x \in Matches |-> FailedAt(x)] EXCEPT ![m] = Nil]
  <2>1. \A x \in Matches : FailedAt(x)' = IF x = m THEN Nil ELSE FailedAt(x)
    BY <1>0, <1>1, <1>2 DEF FailedAt, TypeOK
  <2> QED
    BY <1>0, <2>1
<1>7. Named' = Named
  BY DEF Named
<1> QED
  BY <1>3, <1>4, <1>5, <1>6, <1>7 DEF Lifecycle!Enter

\* An attempt at the label of a step has entered that step, and a step that makes
\* something leaves the row as it was.
LEMMA MakingMaps ==
  ASSUME SInv, SInv', NEW t \in Tasks, pc[t] \in PastContext, pc'[t] \in PastContext,
         UNCHANGED <<run, match, tries>>
  PROVE  /\ t \in Workers /\ match[t] \in Matches
         /\ UNCHANGED <<[x \in Matches |-> PhaseOf(x)], [x \in Matches |-> FailedAt(x)]>>
         /\ Active = match[t] /\ Active' = match[t]
         /\ Entered = StepOf(pc[t]) /\ Entered' = Entered
         /\ Made = {a \in Artifacts : product[match[t]][a] = Attempt(t)}
         /\ Made' = {a \in Artifacts : product'[match[t]][a] = Attempt(t)}
<1>0. t \in Workers /\ t \in Workers'
  BY DEF Workers, AtWork, PastContext
<1>1. OwnsRow(t) /\ run[match[t]].step = StepOf(pc[t]) /\ OwnsRow(t)'
  BY DEF SInv, Stands, OwnsRow
<1>2. Attempt(t)' = Attempt(t)
  BY DEF Attempt
<1>3. UNCHANGED <<[x \in Matches |-> PhaseOf(x)], [x \in Matches |-> FailedAt(x)]>>
  BY DEF PhaseOf, FailedAt
<1> QED
  BY <1>0, <1>1, <1>2, <1>3, WorkMaps, WorkMapsNext

LEMMA MakeMaps ==
  ASSUME SInv, SInv', NEW t \in Tasks, AddJob(t) \/ Predict(t) \/ Report(t) \/ Poster(t)
  PROVE  Lifecycle!CreateJob(match[t]) \/ Lifecycle!Make(match[t])
<1> USE DEF rowVars, taskVars, Elsewhere, Goto
<1> PICK m : m = match[t]
  OBVIOUS
<1>0. TypeOK /\ pc[t] \in PastContext /\ pc'[t] \in PastContext
      /\ UNCHANGED <<run, match, tries>>
  BY DEF AddJob, Predict, Report, Poster, PastContext, InPipeline, SInv, IInv, TypeOK
<1>1. /\ t \in Workers /\ m \in Matches
      /\ UNCHANGED <<[x \in Matches |-> PhaseOf(x)], [x \in Matches |-> FailedAt(x)]>>
      /\ Active = m /\ Active' = m /\ Entered = StepOf(pc[t]) /\ Entered' = Entered
      /\ Made = {a \in Artifacts : product[m][a] = Attempt(t)}
      /\ Made' = {a \in Artifacts : product'[m][a] = Attempt(t)}
  BY <1>0, MakingMaps
<1>2. CASE AddJob(t)
  <2>1. product' = [product EXCEPT ![m].job = Attempt(t)] /\ Attempt(t) # Nil
    BY <1>0, <1>2, AttemptNotNil DEF AddJob
  <2>2. Named' = Named \cup {m}
    BY <1>0, <1>1, <2>1 DEF Named, TypeOK
  <2>3. Made' = Made
    BY <1>0, <1>1, <2>1 DEF Artifacts, TypeOK
  <2>4. Entered = "create_analysis_job"
    BY <1>1, <1>2 DEF AddJob, StepOf
  <2> QED
    BY <1>1, <2>2, <2>3, <2>4 DEF Lifecycle!CreateJob
<1>3. CASE ~AddJob(t)
  <2>1. PICK s \in Artifacts :
          /\ Entered = s
          /\ product' = [product EXCEPT ![m] = [@ EXCEPT ![s] = Attempt(t)]]
    <3>1. CASE Predict(t)
      BY <1>1, <3>1 DEF Predict, StepOf, Artifacts
    <3>2. CASE Report(t)
      BY <1>1, <3>2 DEF Report, StepOf, Artifacts
    <3>3. CASE Poster(t)
      BY <1>1, <3>3 DEF Poster, StepOf, Artifacts
    <3> QED
      BY <1>3, <3>1, <3>2, <3>3
  <2>2. product[m] \in [job: Attempts \cup {Nil}, prediction: Attempts \cup {Nil},
                        report: Attempts \cup {Nil}, poster: Attempts \cup {Nil}]
    BY <1>0, <1>1 DEF TypeOK
  <2>3. \A a \in Artifacts : product'[m][a] = IF a = s THEN Attempt(t) ELSE product[m][a]
    BY <1>0, <1>1, <2>1, <2>2 DEF TypeOK, Artifacts
  <2>4. Made' = Made \cup {s}
    BY <1>1, <2>1, <2>3
  <2>5. Named' = Named
    <3>1. \A x \in Matches : product'[x].job = product[x].job
      BY <1>0, <1>1, <2>1, <2>2 DEF TypeOK, Artifacts
    <3> QED
      BY <3>1 DEF Named
  <2> QED
    BY <1>1, <2>1, <2>4, <2>5 DEF Lifecycle!Make, Lifecycle!Artifacts, Artifacts
<1> QED
  BY <1>2, <1>3

\* With its task, an attempt goes out of RunLifecycle's sight.
LEMMA LeaveMaps ==
  ASSUME SInv, NEW t \in Busy, pc' = [pc EXCEPT ![t] = "lost"] \/ pc' = [pc EXCEPT ![t] = "ok"]
           \/ pc' = [pc EXCEPT ![t] = "dead"] \/ pc' = [pc EXCEPT ![t] = "queued"]
  PROVE  Lifecycle!Release
<1>1. Workers \subseteq {t}
  BY OnlyWorker
<1>2. Workers' = {}
  BY <1>1 DEF Workers, AtWork, InPipeline, SInv, IInv, TypeOK, Busy
<1> QED
  BY <1>2, IdleMapsNext DEF Lifecycle!Release

LEMMA CompleteMaps ==
  ASSUME SInv, SInv', [Next]_vars, NEW t \in Tasks, Complete(t)
  PROVE  Lifecycle!Complete(match[t])
<1> PICK m : m = match[t]
  OBVIOUS
<1> PICK new : new = Assigned(t, "completed", "completed", Nil)
  OBVIOUS
<1>0. /\ TypeOK /\ pc[t] = "complete" /\ t \in Workers /\ t \in Busy /\ m \in Matches
      /\ Stands(t)
  BY OwnRow DEF Complete, SInv, IInv, Workers, Busy, Executing, AtWork, InPipeline
<1>1. run' = [run EXCEPT ![m] = new] /\ new # Nil
  BY <1>0, UpdateAssigns, AutomationAssumption DEF Complete, StepNames, AtWork, InPipeline
<1>2. new.step = "completed" /\ new.failedStep = Nil
  BY DEF Assigned
<1>3. Active = m /\ Made = Artifacts
  BY <1>0, WorkMaps DEF Stands, WithPrediction, WithReport, WithPoster, Artifacts
<1>4. Lifecycle!Release
  BY <1>0, LeaveMaps DEF Complete, Goto
<1>5. [x \in Matches |-> PhaseOf(x)]' =
        [[x \in Matches |-> PhaseOf(x)] EXCEPT ![m] = "completed"]
  <2>1. \A x \in Matches : PhaseOf(x) = IF run[x] = Nil THEN "none" ELSE run[x].step
    BY PhaseShown
  <2>2. \A x \in Matches : PhaseOf(x)' = IF run'[x] = Nil THEN "none" ELSE run'[x].step
    BY PhaseShownNext
  <2>3. \A x \in Matches : PhaseOf(x)' = IF x = m THEN "completed" ELSE PhaseOf(x)
    BY <1>0, <1>1, <1>2, <2>1, <2>2 DEF TypeOK
  <2> QED
    BY <1>0, <2>3
<1>6. UNCHANGED <<[x \in Matches |-> FailedAt(x)], Named>>
  <2>1. run[m].failedStep = Nil /\ run[m] # Nil
    BY <1>0, OwnRow DEF Stands, PastContext, InPipeline, SInv, AtWork
  <2>2. \A x \in Matches : FailedAt(x)' = FailedAt(x)
    BY <1>0, <1>1, <1>2, <2>1 DEF FailedAt, TypeOK
  <2>3. product' = product
    BY DEF Complete
  <2> QED
    BY <2>2, <2>3 DEF Named
<1> QED
  BY <1>3, <1>4, <1>5, <1>6 DEF Lifecycle!Complete, Lifecycle!Artifacts, Artifacts

LEMMA FailMaps ==
  ASSUME SInv, SInv', [Next]_vars, NEW t \in Tasks, Fail(t)
  PROVE  Lifecycle!Fail(match[t])
<1> PICK m : m = match[t]
  OBVIOUS
<1> PICK step : step = seen[t].step
  OBVIOUS
<1> PICK new : new = Assigned(t, "failed", "failed", step)
  OBVIOUS
<1>0. /\ TypeOK /\ pc[t] = "fail" /\ t \in Workers /\ t \in Busy /\ m \in Matches
      /\ Stands(t) /\ run[m] # Nil /\ run[m] \in Rows
  BY OwnRow DEF Fail, SInv, IInv, Workers, Busy, Executing, AtWork
<1>1. step = run[m].step /\ step \in StepNames
  BY <1>0 DEF Stands, Rows
<1>2. run' = [run EXCEPT ![m] = new] /\ new # Nil
  BY <1>0, <1>1, UpdateAssigns, AutomationAssumption DEF Fail, StepNames, AtWork
<1>3. new.step = "failed" /\ new.failedStep = step
  BY DEF Assigned
<1>4. Active = m /\ "poster" \notin Made
  <2>1. product[m].poster # Attempt(t)
    BY <1>0, NotYet DEF PosterLabels, WithPoster
  <2> QED
    BY <1>0, <2>1, WorkMaps
<1>5. Lifecycle!Release
  <2>1. pc' = [pc EXCEPT ![t] = "queued"] \/ pc' = [pc EXCEPT ![t] = "dead"]
    BY DEF Fail, Goto
  <2> QED
    BY <1>0, <2>1, LeaveMaps
<1>6. PhaseOf(m) = step
  BY <1>0, <1>1, PhaseShown
<1>7. [x \in Matches |-> PhaseOf(x)]' =
        [[x \in Matches |-> PhaseOf(x)] EXCEPT ![m] = "failed"]
  <2>1. \A x \in Matches : PhaseOf(x) = IF run[x] = Nil THEN "none" ELSE run[x].step
    BY PhaseShown
  <2>2. \A x \in Matches : PhaseOf(x)' = IF run'[x] = Nil THEN "none" ELSE run'[x].step
    BY PhaseShownNext
  <2>3. \A x \in Matches : PhaseOf(x)' = IF x = m THEN "failed" ELSE PhaseOf(x)
    BY <1>0, <1>2, <1>3, <2>1, <2>2 DEF TypeOK
  <2> QED
    BY <1>0, <2>3
<1>8. [x \in Matches |-> FailedAt(x)]' =
        [[x \in Matches |-> FailedAt(x)] EXCEPT ![m] = [x \in Matches |-> PhaseOf(x)][m]]
  <2>1. \A x \in Matches : FailedAt(x)' = IF x = m THEN step ELSE FailedAt(x)
    BY <1>0, <1>2, <1>3 DEF FailedAt, TypeOK
  <2> QED
    BY <1>0, <1>6, <2>1
<1>9. Named' = Named
  BY DEF Fail, Named
<1> QED
  BY <1>0, <1>4, <1>5, <1>7, <1>8, <1>9 DEF Lifecycle!Fail

LEMMA EnterAnyMaps ==
  ASSUME SInv, SInv', NEW t \in Tasks,
         EnterJob(t) \/ EnterPrediction(t) \/ EnterReport(t) \/ EnterPoster(t)
  PROVE  Lifecycle!EnterAny(match[t])
<1> USE DEF Elsewhere, Goto
<1> PICK m : m = match[t]
  OBVIOUS
<1>0. /\ TypeOK /\ pc[t] \in AtWork /\ pc'[t] \in AtWork
      /\ UNCHANGED <<product, match, tries>> /\ t \in Workers
  BY DEF EnterJob, EnterPrediction, EnterReport, EnterPoster, EnterStep, AtWork, InPipeline,
     SInv, IInv, TypeOK, Workers
<1>1. /\ Stands(t) /\ Progress(t)
      /\ Entered = IF OwnsRow(t) THEN run[m].step ELSE Nil
      /\ Made = {a \in Artifacts : product[m][a] = Attempt(t)} /\ m \in Matches
  BY <1>0, WorkMaps DEF SInv, IInv
<1>2. CASE EnterJob(t)
  <2>1. Entered = Nil
    BY <1>1, <1>2 DEF EnterJob, Stands
  <2>2. Update(t, "running", "create_analysis_job", Nil)
    BY <1>2 DEF EnterJob
  <2>3. Lifecycle!Enter(m, Nil, TRUE, "create_analysis_job")
    BY <1>0, <2>1, <2>2, EnterMaps DEF PipelineSteps
  <2> QED
    BY <2>3 DEF Lifecycle!EnterAny
<1>3. CASE EnterPrediction(t)
  <2>1. Entered = "create_analysis_job" /\ m \in Named
    BY <1>1, <1>3
    DEF EnterPrediction, EnterStep, Stands, StepOf, PastContext, InPipeline, Progress, WithJob,
        Named
  <2>2. Update(t, "running", "prediction", Nil)
    BY <1>3 DEF EnterPrediction, EnterStep
  <2>3. Lifecycle!Enter(m, "create_analysis_job", m \in Named, "prediction")
    BY <1>0, <2>1, <2>2, EnterMaps DEF PipelineSteps
  <2> QED
    BY <2>3 DEF Lifecycle!EnterAny
<1>4. CASE EnterReport(t)
  <2>1. Entered = "prediction" /\ "prediction" \in Made
    BY <1>1, <1>4
    DEF EnterReport, EnterStep, Stands, StepOf, PastContext, InPipeline, WithPrediction,
        Artifacts
  <2>2. Update(t, "running", "report", Nil)
    BY <1>4 DEF EnterReport, EnterStep
  <2>3. Lifecycle!Enter(m, "prediction", "prediction" \in Made, "report")
    BY <1>0, <2>1, <2>2, EnterMaps DEF PipelineSteps
  <2> QED
    BY <2>3 DEF Lifecycle!EnterAny
<1>5. CASE EnterPoster(t)
  <2>1. Entered = "report" /\ "report" \in Made
    BY <1>1, <1>5
    DEF EnterPoster, EnterStep, Stands, StepOf, PastContext, InPipeline, WithReport, Artifacts
  <2>2. Update(t, "running", "poster", Nil)
    BY <1>5 DEF EnterPoster, EnterStep
  <2>3. Lifecycle!Enter(m, "report", "report" \in Made, "poster")
    BY <1>0, <2>1, <2>2, EnterMaps DEF PipelineSteps
  <2> QED
    BY <2>3 DEF Lifecycle!EnterAny
<1> QED
  BY <1>2, <1>3, <1>4, <1>5

LEMMA StepMaps ==
  ASSUME SInv, SInv', [Next]_vars
  PROVE  [Lifecycle!LifecycleNext]_(Lifecycle!lifecycleVars)
<1> USE DEF rowVars, taskVars, Elsewhere, Goto
<1>0. TypeOK /\ IInv
  BY DEF SInv, IInv
<1>1. CASE Scan \/ ScanLost \/ UNCHANGED vars
  <2>1. UNCHANGED <<run, product, pc, match, tries>>
    BY <1>1 DEF Scan, ScanLost, vars
  <2> QED
    BY <2>1, StepStutters DEF Workers
<1>2. CASE \E t \in Tasks : (\E m \in Matches : Enqueue(m, t)) \/ Start(t) \/ Beat(t)
  <2>1. /\ UNCHANGED <<run, product>> /\ Workers' = Workers
        /\ \A t \in Workers : match'[t] = match[t] /\ tries'[t] = tries[t]
    BY <1>0, <1>2 DEF Enqueue, Start, Beat, Workers, AtWork, InPipeline, TypeOK
  <2> QED
    BY <2>1, StepStutters
<1>3. ASSUME NEW t \in Tasks, LoadJob(t) \/ LoadFinal(t) \/ StepRaises(t) \/ Rescue(t)
      PROVE  UNCHANGED Lifecycle!lifecycleVars
  <2>1. UNCHANGED <<run, product, match, tries>> /\ Workers' = Workers
    BY <1>0, <1>3 DEF LoadJob, LoadFinal, StepRaises, Raise, Rescue, Workers, AtWork,
       InPipeline, TypeOK
  <2> QED
    BY <2>1, StepStutters
<1>4. ASSUME NEW t \in Tasks, Lookup(t) \/ Insert(t)
      PROVE  Lifecycle!Take(match[t]) \/ UNCHANGED Lifecycle!lifecycleVars
  <2>1. UNCHANGED <<product, match, tries>> /\ pc[t] \in {"lookup", "insert"}
    BY <1>4 DEF Lookup, Insert
  <2>2. CASE pc' = [pc EXCEPT ![t] = "context"]
    <3>1. \/ run[match[t]] # Nil /\ run' = run
          \/ run[match[t]] = Nil /\ run' = [run EXCEPT ![match[t]] = NewRow]
      BY <1>0, <1>4, <2>1, <2>2 DEF Lookup, Insert, TypeOK
    <3> QED
      BY <2>1, <2>2, <3>1, TakeMaps
  <2>3. CASE pc' = [pc EXCEPT ![t] = "insert"] \/ pc' = [pc EXCEPT ![t] = "dead"]
    <3>1. run' = run /\ Workers' = Workers
      BY <1>0, <1>4, <2>1, <2>3 DEF Lookup, Insert, TypeOK, Workers, AtWork, InPipeline
    <3> QED
      BY <2>1, <3>1, StepStutters
  <2> QED
    BY <1>4, <2>2, <2>3 DEF Lookup, Insert
<1>5. ASSUME NEW t \in Tasks, Crash(t) PROVE Lifecycle!Abandon
  <2>1. Lifecycle!Release
    BY <1>5, LeaveMaps, StepMoves DEF SInv, Crash
  <2>2. UNCHANGED <<[m \in Matches |-> PhaseOf(m)], [m \in Matches |-> FailedAt(m)], Named>>
    BY <1>5 DEF Crash, PhaseOf, FailedAt, Named
  <2> QED
    BY <2>1, <2>2 DEF Lifecycle!Abandon
<1>6. ASSUME NEW t \in Tasks, Step(t), match[t] \in Matches
      PROVE  Lifecycle!LifecycleNext \/ UNCHANGED Lifecycle!lifecycleVars
  <2>1. CASE Lookup(t) \/ Insert(t)
    BY <1>4, <1>6, <2>1 DEF Lifecycle!LifecycleNext
  <2>2. CASE EnterJob(t) \/ EnterPrediction(t) \/ EnterReport(t) \/ EnterPoster(t)
    BY <1>6, <2>2, EnterAnyMaps DEF Lifecycle!LifecycleNext
  <2>3. CASE AddJob(t) \/ Predict(t) \/ Report(t) \/ Poster(t)
    BY <1>6, <2>3, MakeMaps DEF Lifecycle!LifecycleNext
  <2>4. CASE Complete(t)
    BY <1>6, <2>4, CompleteMaps DEF Lifecycle!LifecycleNext
  <2>5. CASE Fail(t)
    BY <1>6, <2>5, FailMaps DEF Lifecycle!LifecycleNext
  <2>6. CASE Beat(t) \/ LoadJob(t) \/ LoadFinal(t) \/ StepRaises(t) \/ Rescue(t)
    BY <1>2, <1>3, <2>6
  <2> QED
    BY <1>6, <2>1, <2>2, <2>3, <2>4, <2>5, <2>6 DEF Step
<1>7. \A t \in Tasks : Step(t) => match[t] \in Matches
  BY <1>0 DEF IInv, Progress, Step, Beat, Lookup, Insert, EnterJob, LoadJob, AddJob,
     EnterPrediction, Predict, EnterReport, Report, EnterPoster, Poster, EnterStep, LoadFinal,
     Complete, StepRaises, Rescue, Fail
<1> QED
  BY <1>1, <1>2, <1>5, <1>6, <1>7 DEF Next, Lifecycle!LifecycleNext

LEMMA InitMaps ==
  ASSUME Init
  PROVE  Lifecycle!LifecycleInit
<1>1. Workers = {}
  BY DEF Init, Workers, AtWork, InPipeline
<1>2. \A m \in Matches : run[m] = Nil /\ product[m].job = Nil
  BY DEF Init, NoProduct
<1> QED
  BY <1>1, <1>2, IdleMaps DEF Lifecycle!LifecycleInit, PhaseOf, FailedAt, Named

\* One task at a time: messages, retries, sessions, column-wise updates and killed
\* workers implement the life of a run as its row tells it.
THEOREM TasksImplementRunLifecycle ==
  ASSUME Slots = 1
  PROVE  Spec => ImplementsRunLifecycle
<1>1. /\ Init => Lifecycle!LifecycleInit
      /\ SInv /\ SInv' /\ [Next]_vars => [Lifecycle!LifecycleNext]_(Lifecycle!lifecycleVars)
  BY InitMaps, StepMaps
<1> QED
  BY <1>1, SerialInvariant, PTL DEF Spec, ImplementsRunLifecycle, Lifecycle!LifecycleSpec

=============================================================================
