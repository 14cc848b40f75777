------------------------- MODULE AutomationPipeline -------------------------
(***************************************************************************)
(* The daily generation task, the Celery task scheduler.automate_match and *)
(* AutomationPipeline.run, executed by a pool of worker slots over one row *)
(* of automation_runs per match.                                           *)
(*                                                                         *)
(* One action is one database transaction (or one read whose result is     *)
(* used by a later transaction), so that every interleaving of two workers *)
(* the READ COMMITTED database allows is a behaviour.  SQLAlchemy writes   *)
(* only the columns that differ from what the session last loaded: seen[t] *)
(* is that loaded copy and Flush the UPDATE it leads to.                   *)
(*                                                                         *)
(* error_message, failure_reason and last_retry_time are written together  *)
(* with failed_step and are not kept apart from it.                        *)
(***************************************************************************)
EXTENDS Naturals, FiniteSets

CONSTANTS
  Matches,      \* ids of stored matches
  Tasks,        \* Celery task ids the behaviour may use: bounds the enqueues
  MaxRetries,   \* retry_kwargs["max_retries"]
  Slots,        \* tasks the workers execute at the same time
  MaxCrashes,   \* bound on the worker processes killed inside a task
  Nil,          \* SQL NULL
  Unloaded      \* an attribute the session has expired

VARIABLES
  run,         \* [Matches -> row]: the audit columns of automation_runs, Nil = no row
  product,     \* [Matches -> record]: the four artifact columns of that row
  analysisJob, \* [Attempts -> status]: the AnalysisJob an attempt inserted
  archived,    \* attempts whose prediction is in prediction_archive
  heartbeat,   \* the scheduler_heartbeats row of "automate_match" exists
  todo,        \* scanned matches the generation task has still to enqueue
  pc,          \* [Tasks -> where the message or the execution stands]
  match,       \* [Tasks -> the message's argument]
  tries,       \* [Tasks -> self.request.retries]
  seen,        \* [Tasks -> audit columns as the session last loaded them]
  held,        \* [Tasks -> run.analysis_job_id as loaded at the end]
  err          \* [Tasks -> kind of the exception being handled]

rowVars  == <<run, product, analysisJob, archived>>
taskVars == <<pc, match, tries, seen, held, err>>
vars     == <<rowVars, heartbeat, todo, taskVars>>

-----------------------------------------------------------------------------

Attempts == Tasks \X (0..MaxRetries)

PipelineSteps == {"create_analysis_job", "prediction", "report", "poster"}
StepNames     == PipelineSteps \cup {"discovered", "completed", "failed"}

\* The audit columns of a row.  step is current_step, tries is retry_count.
Rows == [status: {"pending", "running", "completed", "failed"},
         step: StepNames,
         task: Tasks \cup {Nil},
         tries: 0..MaxRetries,
         failedStep: StepNames \cup {Nil}]

\* The column defaults of AutomationRun.
NewRow == [status |-> "pending", step |-> "discovered", task |-> Nil,
           tries |-> 0, failedStep |-> Nil]

\* After a commit every attribute is expired: each differs from any value.
Expired == [status |-> Unloaded, step |-> Unloaded, task |-> Unloaded,
            tries |-> Unloaded, failedStep |-> Unloaded]

NoProduct == [job |-> Nil, prediction |-> Nil, report |-> Nil, poster |-> Nil]

ASSUME AutomationAssumption ==
  /\ IsFiniteSet(Tasks)
  /\ MaxRetries \in Nat
  /\ Slots \in Nat
  /\ MaxCrashes \in Nat
  /\ Nil \notin Matches \cup Tasks \cup StepNames \cup Attempts
  /\ Nil \notin Rows
  /\ Unloaded \notin Tasks \cup {Nil}
  /\ Unloaded \notin StepNames \cup {"pending", "running"}
  /\ Unloaded \notin 0..MaxRetries

ErrorKinds == {"runtime", "other"}

InPipeline == {"context", "load_job", "add_job", "enter_prediction", "predict",
               "enter_report", "report", "enter_poster", "poster",
               "load_final", "complete"}
Executing  == {"beat", "lookup", "insert", "rescue", "fail"} \cup InPipeline
Ended      == {"ok", "dead", "lost"}
PCs        == {"idle", "queued"} \cup Executing \cup Ended

\* The identity of what task t creates in its current execution.
Attempt(t) == <<t, tries[t]>>

Busy == {t \in Tasks : pc[t] \in Executing}

-----------------------------------------------------------------------------

\* The UPDATE of a flush: a column is written when the new value differs from
\* the loaded one, and keeps what other sessions committed otherwise.
Flush(old, cur, new) ==
  [status     |-> IF new.status = old.status THEN cur.status ELSE new.status,
   step       |-> IF new.step = old.step THEN cur.step ELSE new.step,
   task       |-> IF new.task = old.task THEN cur.task ELSE new.task,
   tries      |-> IF new.tries = old.tries THEN cur.tries ELSE new.tries,
   failedStep |-> IF new.failedStep = old.failedStep
                  THEN cur.failedStep ELSE new.failedStep]

\* Seeded defect: _update without the branch that clears an earlier failure.
KeepsFailure(t, status, step, failedStep) ==
  [status |-> status, step |-> step, task |-> t, tries |-> tries[t],
   failedStep |-> IF status = "failed" THEN failedStep
                  ELSE run[match[t]].failedStep]

\* What _update assigns.  failed_step is reset unless the status is "failed".
Assigned(t, status, step, failedStep) ==
  [status |-> status, step |-> step, task |-> t, tries |-> tries[t],
   failedStep |-> failedStep]

\* _update: assign, then commit, which expires the attributes.
Update(t, status, step, failedStep) ==
  run' = [run EXCEPT ![match[t]] =
            Flush(seen[t], @, Assigned(t, status, step, failedStep))]

Goto(t, label) == pc' = [pc EXCEPT ![t] = label]
Load(t)        == seen' = [seen EXCEPT ![t] = run[match[t]]]
Expire(t)      == seen' = [seen EXCEPT ![t] = Expired]

\* An exception inside the try block: the handler is entered.
Raise(t, kind) ==
  /\ Goto(t, "rescue")
  /\ err' = [err EXCEPT ![t] = kind]
  /\ UNCHANGED <<rowVars, heartbeat, todo, match, tries, seen, held>>

\* What no step of the pipeline itself touches.
Elsewhere == <<heartbeat, todo, match, tries>>

-----------------------------------------------------------------------------
\* The generation task and its environment.

\* MatchScanner.scan reads its whole result before anything is enqueued.  Which
\* fixtures are scheduled and 24-72 hours before kickoff changes with time and
\* with every synchronisation, so each scan sees some set of them (window).
\* Bound: nothing is scanned once every task id is used.
Scan ==
  /\ todo = {}
  /\ \E t \in Tasks : pc[t] = "idle"
  /\ \E window \in SUBSET Matches :
       todo' = {m \in window : \/ run[m] = Nil
                               \/ run[m].status \in {"pending", "failed"}}
  /\ UNCHANGED <<rowVars, heartbeat, taskVars>>

\* automate_match.delay(match_id) publishes one message with a fresh task id.
Enqueue(m, t) ==
  /\ m \in todo
  /\ pc[t] = "idle"
  /\ todo' = todo \ {m}
  /\ match' = [match EXCEPT ![t] = m]
  /\ Goto(t, "queued")
  /\ UNCHANGED <<rowVars, heartbeat, tries, seen, held, err>>

\* The generation task is killed between two delay calls.
ScanLost ==
  /\ todo # {}
  /\ todo' = {}
  /\ UNCHANGED <<rowVars, heartbeat, taskVars>>

-----------------------------------------------------------------------------
\* The task body up to the try block of AutomationPipeline.run.

\* A free slot takes the message; record_heartbeat selects the heartbeat row
\* and, where it exists, commits an update nothing can fail on.
Start(t) ==
  /\ pc[t] = "queued"
  /\ Cardinality(Busy) < Slots
  /\ Goto(t, IF heartbeat THEN "lookup" ELSE "beat")
  /\ UNCHANGED <<rowVars, heartbeat, todo, match, tries, seen, held, err>>

\* record_heartbeat inserts the row it did not find.  task_name is unique: if
\* another task inserted it meanwhile the commit raises IntegrityError, which
\* is not a RuntimeError, so the task ends without a retry.
Beat(t) ==
  /\ pc[t] = "beat"
  /\ Goto(t, IF heartbeat THEN "dead" ELSE "lookup")
  /\ heartbeat' = TRUE
  /\ UNCHANGED <<rowVars, todo, match, tries, seen, held, err>>

\* _get_or_create_run: the SELECT.
Lookup(t) ==
  /\ pc[t] = "lookup"
  /\ IF run[match[t]] = Nil
     THEN Goto(t, "insert") /\ UNCHANGED seen
     ELSE Goto(t, "context") /\ Load(t)
  /\ UNCHANGED <<rowVars, Elsewhere, held, err>>

\* _get_or_create_run: the INSERT of a row not found; match_id is unique.
Insert(t) ==
  /\ pc[t] = "insert"
  /\ IF run[match[t]] = Nil
     THEN /\ run' = [run EXCEPT ![match[t]] = NewRow]
          /\ Goto(t, "context")
     ELSE /\ Goto(t, "dead")
          /\ UNCHANGED run
  /\ UNCHANGED <<product, analysisJob, archived, Elsewhere, seen, held, err>>

-----------------------------------------------------------------------------
\* The try block.

\* _match_context succeeds and the run enters create_analysis_job.
EnterJob(t) ==
  /\ pc[t] = "context"
  /\ Update(t, "running", "create_analysis_job", Nil)
  /\ Expire(t)
  /\ Goto(t, "load_job")
  /\ UNCHANGED <<product, analysisJob, archived, Elsewhere, held, err>>

\* The row is read again (by _update's log record) and analysis_job_id decides.
LoadJob(t) ==
  /\ pc[t] = "load_job"
  /\ Load(t)
  /\ Goto(t, IF product[match[t]].job = Nil THEN "add_job" ELSE "enter_prediction")
  /\ UNCHANGED <<rowVars, Elsewhere, held, err>>

AddJob(t) ==
  /\ pc[t] = "add_job"
  /\ analysisJob' = [analysisJob EXCEPT ![Attempt(t)] = "running"]
  /\ product' = [product EXCEPT ![match[t]].job = Attempt(t)]
  /\ Expire(t)
  /\ Goto(t, "enter_prediction")
  /\ UNCHANGED <<run, archived, Elsewhere, held, err>>

\* _update(run, "running", step) before the step's service is called.  The
\* service's own commit expires the row again before it is next written.
EnterStep(t, at, step, next) ==
  /\ pc[t] = at
  /\ Update(t, "running", step, Nil)
  /\ Expire(t)
  /\ Goto(t, next)
  /\ UNCHANGED <<product, analysisJob, archived, Elsewhere, held, err>>

EnterPrediction(t) == EnterStep(t, "enter_prediction", "prediction", "predict")
EnterReport(t)     == EnterStep(t, "enter_report", "report", "report")

\* Seeded defect: the step is entered without being committed to the row.
EnterPosterUnrecorded(t) ==
  /\ pc[t] = "enter_poster"
  /\ Goto(t, "poster")
  /\ UNCHANGED <<rowVars, Elsewhere, seen, held, err>>

EnterPoster(t) == EnterStep(t, "enter_poster", "poster", "poster")

\* Seeded defect: a run that already names a prediction goes on with it.
PredictOnce(t) ==
  /\ pc[t] = "predict"
  /\ product' = [product EXCEPT ![match[t]].prediction =
                   IF @ = Nil THEN Attempt(t) ELSE @]
  /\ Goto(t, "enter_report")
  /\ UNCHANGED <<run, analysisJob, archived, Elsewhere, seen, held, err>>

\* PredictionPipeline.run commits a prediction of its own; an available one is
\* recorded in the run.
Predict(t) ==
  /\ pc[t] = "predict"
  /\ product' = [product EXCEPT ![match[t]].prediction = Attempt(t)]
  /\ Goto(t, "enter_report")
  /\ UNCHANGED <<run, analysisJob, archived, Elsewhere, seen, held, err>>

\* Seeded defect: report_id is not assigned before the commit.
ReportUnrecorded(t) ==
  /\ pc[t] = "report"
  /\ Goto(t, "enter_poster")
  /\ UNCHANGED <<rowVars, Elsewhere, seen, held, err>>

\* ReportService.generate commits a report; a generated one is recorded.
Report(t) ==
  /\ pc[t] = "report"
  /\ product' = [product EXCEPT ![match[t]].report = Attempt(t)]
  /\ Goto(t, "enter_poster")
  /\ UNCHANGED <<run, analysisJob, archived, Elsewhere, seen, held, err>>

\* Seeded defect: the prediction is archived before the poster is rendered, so
\* that a failed rendering leaves it archived.
ArchiveFirst(t) ==
  /\ pc[t] = "poster"
  /\ archived' = archived \cup {Attempt(t)}
  /\ \/ /\ product' = [product EXCEPT ![match[t]].poster = Attempt(t)]
        /\ Goto(t, "load_final")
        /\ UNCHANGED <<run, analysisJob, Elsewhere, seen, held, err>>
     \/ /\ Goto(t, "rescue")
        /\ err' = [err EXCEPT ![t] = "runtime"]
        /\ UNCHANGED <<run, product, analysisJob, Elsewhere, seen, held>>

\* PosterService.generate, then poster_id and the archive row in the one commit
\* PredictionArchiveService.archive makes.
Poster(t) ==
  /\ pc[t] = "poster"
  /\ product' = [product EXCEPT ![match[t]].poster = Attempt(t)]
  /\ archived' = archived \cup {Attempt(t)}
  /\ Goto(t, "load_final")
  /\ UNCHANGED <<run, analysisJob, Elsewhere, seen, held, err>>

\* The step does not succeed.  RuntimeError: the prediction is not available,
\* the report is not "generated" (no LLM, or fact-check warnings), Playwright is
\* missing.  Any other kind: ValueError of a service or of _match_context (the
\* match lost its kickoff time), an error of the browser or of the LLM client.
\* The assignment to the run was not committed, and the rollback drops it.
StepRaises(t) ==
  \/ pc[t] = "context" /\ Raise(t, "other")
  \/ /\ pc[t] \in {"predict", "report", "poster"}
     /\ \E kind \in ErrorKinds : Raise(t, kind)

\* run.analysis_job_id is read after that commit: the row is loaded again.
LoadFinal(t) ==
  /\ pc[t] = "load_final"
  /\ Load(t)
  /\ held' = [held EXCEPT ![t] = product[match[t]].job]
  /\ Goto(t, "complete")
  /\ UNCHANGED <<rowVars, Elsewhere, err>>

\* The AnalysisJob and the run become completed in one commit.
Complete(t) ==
  /\ pc[t] = "complete"
  /\ Update(t, "completed", "completed", Nil)
  /\ analysisJob' = [analysisJob EXCEPT ![held[t]] = "completed"]
  /\ Goto(t, "ok")
  /\ Expire(t)
  /\ held' = [held EXCEPT ![t] = Nil]
  /\ UNCHANGED <<product, archived, Elsewhere, err>>

-----------------------------------------------------------------------------
\* The exception handler and Celery's autoretry.

\* Roll back and select the row again.
Rescue(t) ==
  /\ pc[t] = "rescue"
  /\ Load(t)
  /\ Goto(t, "fail")
  /\ UNCHANGED <<rowVars, Elsewhere, held, err>>

\* Seeded defect: the last permitted retry is counted from one too low.
RetryOnceMore(t) ==
  /\ pc[t] = "fail"
  /\ Update(t, "failed", "failed", seen[t].step)
  /\ IF err[t] = "runtime" /\ tries[t] <= MaxRetries
     THEN Goto(t, "queued") /\ tries' = [tries EXCEPT ![t] = @ + 1]
     ELSE Goto(t, "dead") /\ UNCHANGED tries
  /\ Expire(t)
  /\ err' = [err EXCEPT ![t] = "none"]
  /\ UNCHANGED <<product, analysisJob, archived, heartbeat, todo, match, held>>

\* Seeded defect: an exception outside the retried kind is re-raised without
\* being recorded.
FailRecordsRetriesOnly(t) ==
  /\ pc[t] = "fail"
  /\ IF err[t] = "runtime" /\ tries[t] < MaxRetries
     THEN /\ Update(t, "failed", "failed", seen[t].step)
          /\ Goto(t, "queued")
          /\ tries' = [tries EXCEPT ![t] = @ + 1]
     ELSE Goto(t, "dead") /\ UNCHANGED <<run, tries>>
  /\ Expire(t)
  /\ err' = [err EXCEPT ![t] = "none"]
  /\ UNCHANGED <<product, analysisJob, archived, heartbeat, todo, match, held>>

\* Record the failure with the step the row named, and re-raise: RuntimeError
\* is retried under the same task id while retries are left.
Fail(t) ==
  /\ pc[t] = "fail"
  /\ Update(t, "failed", "failed", seen[t].step)
  /\ IF err[t] = "runtime" /\ tries[t] < MaxRetries
     THEN /\ Goto(t, "queued")
          /\ tries' = [tries EXCEPT ![t] = @ + 1]
     ELSE /\ Goto(t, "dead")
          /\ UNCHANGED tries
  /\ Expire(t)
  /\ err' = [err EXCEPT ![t] = "none"]
  /\ UNCHANGED <<product, analysisJob, archived, heartbeat, todo, match, held>>

\* The worker process is killed inside the task.  Messages are acknowledged
\* before execution, so nothing is redelivered.
Crash(t) ==
  /\ pc[t] \in Executing
  /\ Cardinality({u \in Tasks : pc[u] = "lost"}) < MaxCrashes
  /\ Goto(t, "lost")
  /\ Expire(t)
  /\ held' = [held EXCEPT ![t] = Nil]
  /\ err' = [err EXCEPT ![t] = "none"]
  /\ UNCHANGED <<rowVars, Elsewhere>>

-----------------------------------------------------------------------------

Init ==
  /\ run = [m \in Matches |-> Nil]
  /\ product = [m \in Matches |-> NoProduct]
  /\ analysisJob = [a \in Attempts |-> "none"]
  /\ archived = {}
  /\ heartbeat = FALSE
  /\ todo = {}
  /\ pc = [t \in Tasks |-> "idle"]
  /\ match = [t \in Tasks |-> Nil]
  /\ tries = [t \in Tasks |-> 0]
  /\ seen = [t \in Tasks |-> Expired]
  /\ held = [t \in Tasks |-> Nil]
  /\ err = [t \in Tasks |-> "none"]

\* One execution's own steps.
Step(t) ==
  \/ Beat(t) \/ Lookup(t) \/ Insert(t)
  \/ EnterJob(t) \/ LoadJob(t) \/ AddJob(t)
  \/ EnterPrediction(t) \/ Predict(t)
  \/ EnterReport(t) \/ Report(t)
  \/ EnterPoster(t) \/ Poster(t)
  \/ LoadFinal(t) \/ Complete(t)
  \/ StepRaises(t) \/ Rescue(t) \/ Fail(t)

Next ==
  \/ Scan \/ ScanLost
  \/ \E m \in Matches, t \in Tasks : Enqueue(m, t)
  \/ \E t \in Tasks : Start(t) \/ Step(t) \/ Crash(t)

Spec == Init /\ [][Next]_vars

\* A worker that took a message goes on with it, and a free slot takes the
\* messages that wait.  Nothing else is promised: beat may be stopped.
Fairness == \A t \in Tasks : WF_vars(Start(t)) /\ WF_vars(Step(t))

FairSpec == Spec /\ Fairness

-----------------------------------------------------------------------------
(***************************************************************************)
(* Properties                                                              *)
(***************************************************************************)

\* Type invariant: what each column and each execution's local state may hold.
TypeOK ==
  /\ run \in [Matches -> Rows \cup {Nil}]
  /\ product \in [Matches -> [job: Attempts \cup {Nil},
                              prediction: Attempts \cup {Nil},
                              report: Attempts \cup {Nil},
                              poster: Attempts \cup {Nil}]]
  /\ analysisJob \in [Attempts -> {"none", "running", "completed"}]
  /\ archived \subseteq Attempts
  /\ heartbeat \in BOOLEAN
  /\ todo \subseteq Matches
  /\ pc \in [Tasks -> PCs]
  /\ match \in [Tasks -> Matches \cup {Nil}]
  /\ tries \in [Tasks -> 0..MaxRetries]
  /\ seen \in [Tasks -> Rows \cup {Expired}]
  /\ held \in [Tasks -> Attempts \cup {Nil}]
  /\ err \in [Tasks -> ErrorKinds \cup {"none"}]

Completed(m) == run[m] # Nil /\ run[m].status = "completed"
Running(m)   == run[m] # Nil /\ run[m].status = "running"

\* A run that reads completed names a job, a prediction, a report and a poster,
\* and the poster is the work of a task that also archived its prediction: no
\* interleaving of workers and column-wise UPDATEs of run() (automation.py
\* 22-88) completes a row whose artifacts are missing.
CompletedHasArtifacts ==
  \A m \in Matches : Completed(m) =>
    /\ product[m].job # Nil
    /\ product[m].prediction # Nil
    /\ product[m].report # Nil
    /\ product[m].poster \in archived

\* With one task at a time, a completed run names the prediction, the report
\* made from it and the poster made from that report, all of the attempt its
\* task_id and retry_count name: artifacts that earlier failed attempts left in
\* the row never survive into a completed one.
CompletedFromOneAttempt ==
  \A m \in Matches : Completed(m) =>
    LET a == <<run[m].task, run[m].tries>> IN
    /\ product[m].prediction = a
    /\ product[m].report = a
    /\ product[m].poster = a

\* With one task at a time, a completed run shows no failure of an earlier
\* attempt, and the AnalysisJob it names is completed too.
CompletedIsClean ==
  \A m \in Matches : Completed(m) =>
    /\ run[m].failedStep = Nil
    /\ analysisJob[product[m].job] = "completed"

NoWorkerLost == \A t \in Tasks : pc[t] # "lost"

\* With one task at a time and no worker killed, the failed_step a failed run
\* shows agrees with the artifacts of the attempt that failed: everything
\* before that step is that attempt's own, and nothing from it onwards is.
FailureTellsProgress ==
  NoWorkerLost =>
    \A m \in Matches : (run[m] # Nil /\ run[m].status = "failed") =>
      LET a == <<run[m].task, run[m].tries>>
          f == run[m].failedStep
          p == product[m]
      IN  /\ f # Nil
          /\ (p.prediction = a) <=> f \in {"report", "poster"}
          /\ (p.report = a) <=> (f = "poster")
          /\ p.poster # a

\* However often a message is retried, at most one of its attempts archives a
\* prediction: archive() is reached only by an attempt that cannot fail after.
OneArchivePerTask ==
  \A a, b \in archived : a[1] = b[1] => a = b

\* No run stays "running" for ever while no worker is killed, whichever way the
\* UPDATEs of concurrent tasks interleave: the last of them to end leaves the
\* row completed or failed, and a failed row is open to the next scan again.
RunSettles ==
  \A m \in Matches : Running(m) ~> ~Running(m)

\* docs/data-source.md 32: a run that is completed or being executed is not
\* enqueued again.
NoReenqueue ==
  [][\A m \in Matches, t \in Tasks :
       (pc[t] = "idle" /\ pc'[t] = "queued" /\ match'[t] = m)
         => ~(Completed(m) \/ Running(m))]_vars

\* docs/architecture.md 44: a task that fails has its failure recorded in the
\* automation run, so a task that ended in failure has at least a run.
FailureIsRecorded ==
  \A t \in Tasks : pc[t] = "dead" => run[match[t]] # Nil

=============================================================================
