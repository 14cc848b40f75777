---------------------------- MODULE AnalysisChain ----------------------------
(***************************************************************************)
(* An analysis job from POST /analysis-jobs to its last task: the request  *)
(* inserts the job and publishes a Celery chain of four tasks; each task   *)
(* runs _run_step, which marks the job, performs the step, and publishes   *)
(* the next task when it succeeded.                                        *)
(*                                                                         *)
(* A delivery is one walk of a message along the chain.  The broker may    *)
(* hand a waiting message to two workers and publishing may raise although *)
(* the message went out, in a deployment with such faults.  A session      *)
(* writes only the columns that differ from what it last loaded.           *)
(* error_message is left out.                                              *)
(***************************************************************************)
EXTENDS Naturals, Sequences, FiniteSets

CONSTANTS
  Jobs,          \* job ids the behaviour may use
  Matches,       \* the matches of a job
  Copies,        \* bounds the deliveries of one job's chain
  First,         \* the delivery the request publishes
  FaultChoices,  \* whether a deployment has the faults above
  MaxCrashes,    \* bound on the killed workers and API processes
  Nil,           \* no row
  Unloaded       \* an attribute the session has expired

VARIABLES
  row,      \* [Jobs -> columns of analysis_jobs, or Nil]
  results,  \* [Jobs -> matches with a row in analysis_results]
  valid,    \* [Jobs -> BOOLEAN]: the names survive stripping
  api,      \* [Jobs -> where the POST request stands]
  pc,       \* [Deliveries -> where the task execution stands]
  at,       \* [Deliveries -> the chain's task the delivery is at]
  seen,     \* [Deliveries -> the columns as loaded]
  known,    \* [Deliveries -> the matches with results as loaded]
  faulty    \* this deployment has faults; never changes

apiVars  == <<valid, api, faulty>>
taskVars == <<pc, at, seen, known>>
vars     == <<row, results, apiVars, taskVars>>

-----------------------------------------------------------------------------

Deliveries == Jobs \X Copies
JobOf(d)   == d[1]

Chain == <<"create_analysis_job", "validate_input", "generate_analysis_result",
           "save_result">>
Last  == Len(Chain)

StepNames == {"created", "enqueue_analysis_pipeline", "completed"}
               \cup {Chain[i] : i \in 1..Last}
Rows      == [status: {"pending", "running", "completed", "failed"},
              step: StepNames]

NewRow  == [status |-> "pending", step |-> "created"]
Expired == [status |-> Unloaded, step |-> Unloaded]

Executing == {"loaded", "marked", "saving", "rescue", "failing"}
PCs       == {"none", "queued", "done", "failed", "lost"} \cup Executing

ASSUME AnalysisAssumption ==
  /\ First \in Copies
  /\ FaultChoices \subseteq BOOLEAN
  /\ MaxCrashes \in Nat
  /\ Nil \notin Rows
  /\ Unloaded \notin StepNames \cup {"pending", "running", "failed"}

\* The UPDATE of a flush.
Flush(old, cur, new) ==
  [status |-> IF new.status = old.status THEN cur.status ELSE new.status,
   step   |-> IF new.step = old.step THEN cur.step ELSE new.step]

\* Assign both columns of the delivery's job and commit.
Write(d, status, step) ==
  row' = [row EXCEPT ![JobOf(d)] =
            Flush(seen[d], @, [status |-> status, step |-> step])]

Goto(d, label) == pc' = [pc EXCEPT ![d] = label]
Load(d)        == seen' = [seen EXCEPT ![d] = row[JobOf(d)]]
Expire(d)      == seen' = [seen EXCEPT ![d] = Expired]

Lost == Cardinality({d \in Deliveries : pc[d] = "lost"})
          + Cardinality({j \in Jobs : api[j] = "lost"})

-----------------------------------------------------------------------------
\* POST /analysis-jobs.

\* The job is committed and selected again.  The schema checks the names before
\* they are stripped, so a stored job may still be invalid.
Post(j) ==
  /\ api[j] = "idle"
  /\ row' = [row EXCEPT ![j] = NewRow]
  /\ \E ok \in BOOLEAN : valid' = [valid EXCEPT ![j] = ok]
  /\ api' = [api EXCEPT ![j] = "dispatching"]
  /\ UNCHANGED <<results, faulty, taskVars>>

Publish(j) == Goto(<<j, First>>, "queued")

Dispatch(j) ==
  /\ api[j] = "dispatching"
  /\ Publish(j)
  /\ api' = [api EXCEPT ![j] = "answered"]
  /\ UNCHANGED <<row, results, valid, faulty, at, seen, known>>

\* The dispatcher raises; with a faulty broker the message may be out.
DispatchRaises(j) ==
  /\ api[j] = "dispatching"
  /\ api' = [api EXCEPT ![j] = "failing"]
  /\ \/ UNCHANGED pc
     \/ faulty /\ Publish(j)
  /\ UNCHANGED <<row, results, valid, faulty, at, seen, known>>

\* The session still holds the new row, so both columns are written.
RecordDispatchFailure(j) ==
  /\ api[j] = "failing"
  /\ row' = [row EXCEPT ![j] =
               Flush(NewRow, @, [status |-> "failed",
                                 step |-> "enqueue_analysis_pipeline"])]
  /\ api' = [api EXCEPT ![j] = "answered"]
  /\ UNCHANGED <<results, valid, faulty, taskVars>>

-----------------------------------------------------------------------------
\* _run_step: load and mark the job.

Start(d) ==
  /\ pc[d] = "queued"
  /\ Load(d)
  /\ Goto(d, "loaded")
  /\ UNCHANGED <<row, results, apiVars, at, known>>

Mark(d) ==
  /\ pc[d] = "loaded"
  /\ Write(d, "running", Chain[at[d]])
  /\ Expire(d)
  /\ Goto(d, "marked")
  /\ UNCHANGED <<results, apiVars, at, known>>

-----------------------------------------------------------------------------
\* The step's action and the second commit.

Validating(d) == Chain[at[d]] = "validate_input"

\* Seeded defect: validation does not decide anything.
Unchecked(d) == TRUE

\* The action of a step before the last does not raise.
Passes(d) == Validating(d) => valid[JobOf(d)]

\* Seeded defect: the chain does not end with its last task.
AdvancePastEnd(d) ==
  /\ pc[d] = "marked"
  /\ Passes(d)
  /\ Goto(d, "queued")
  /\ at' = [at EXCEPT ![d] = @ + 1]
  /\ UNCHANGED <<row, results, apiVars, seen, known>>

\* The action changed nothing; the next task of the chain is published.
Advance(d) ==
  /\ pc[d] = "marked"
  /\ at[d] < Last
  /\ Passes(d)
  /\ Goto(d, "queued")
  /\ at' = [at EXCEPT ![d] = @ + 1]
  /\ UNCHANGED <<row, results, apiVars, seen, known>>

\* Seeded defect: only errors of the database are handled.
RaiseUnhandled(d) ==
  /\ pc[d] = "marked"
  /\ ~Passes(d)
  /\ Goto(d, "failed")
  /\ UNCHANGED <<row, results, apiVars, at, seen, known>>

Raise(d) ==
  /\ pc[d] = "marked"
  /\ ~Passes(d)
  /\ Goto(d, "rescue")
  /\ UNCHANGED <<row, results, apiVars, at, seen, known>>

\* save: the job's results are loaded, with the expired job.
LoadResults(d) ==
  /\ pc[d] = "marked"
  /\ at[d] = Last
  /\ Load(d)
  /\ known' = [known EXCEPT ![d] = results[JobOf(d)]]
  /\ Goto(d, "saving")
  /\ UNCHANGED <<row, results, apiVars, at>>

\* Seeded defect: results found missing are not added before the commit.
SaveStatusOnly(d) ==
  /\ pc[d] = "saving"
  /\ Write(d, "completed", "completed")
  /\ Goto(d, "done")
  /\ Expire(d)
  /\ UNCHANGED <<results, apiVars, at, known>>

\* The missing results and the completed job are committed together.  (job,
\* match) is unique: the commit raises if another delivery added one meanwhile.
Save(d) ==
  LET j       == JobOf(d)
      missing == Matches \ known[d]
  IN  /\ pc[d] = "saving"
      /\ IF missing \cap results[j] = {}
         THEN /\ results' = [results EXCEPT ![j] = @ \cup missing]
              /\ Write(d, "completed", "completed")
              /\ Goto(d, "done")
              /\ Expire(d)
         ELSE /\ Goto(d, "rescue")
              /\ UNCHANGED <<row, results, seen>>
      /\ UNCHANGED <<apiVars, at, known>>

-----------------------------------------------------------------------------
\* The handler of _run_step: roll back, load the job, record the failure.

Rescue(d) ==
  /\ pc[d] = "rescue"
  /\ Load(d)
  /\ Goto(d, "failing")
  /\ UNCHANGED <<row, results, apiVars, at, known>>

\* Seeded defect: the exception is not raised again, so the chain goes on.
FailSilently(d) ==
  /\ pc[d] = "failing"
  /\ Write(d, "failed", Chain[at[d]])
  /\ Expire(d)
  /\ IF at[d] < Last
     THEN Goto(d, "queued") /\ at' = [at EXCEPT ![d] = @ + 1]
     ELSE Goto(d, "failed") /\ UNCHANGED at
  /\ UNCHANGED <<results, apiVars, known>>

\* The exception is raised again: nothing further is published.
Fail(d) ==
  /\ pc[d] = "failing"
  /\ Write(d, "failed", Chain[at[d]])
  /\ Expire(d)
  /\ Goto(d, "failed")
  /\ UNCHANGED <<results, apiVars, at, known>>

-----------------------------------------------------------------------------
\* The environment.

\* A message that waits is delivered to a second worker as well.
Duplicate(d, e) ==
  /\ faulty
  /\ JobOf(d) = JobOf(e)
  /\ pc[d] = "queued"
  /\ pc[e] = "none"
  /\ Goto(e, "queued")
  /\ at' = [at EXCEPT ![e] = at[d]]
  /\ UNCHANGED <<row, results, apiVars, seen, known>>

\* A worker is killed inside a task: messages are acknowledged before that.
Crash(d) ==
  /\ pc[d] \in Executing
  /\ Lost < MaxCrashes
  /\ Goto(d, "lost")
  /\ Expire(d)
  /\ UNCHANGED <<row, results, apiVars, at, known>>

\* The API process is killed before the request is answered.
ApiCrash(j) ==
  /\ api[j] \in {"dispatching", "failing"}
  /\ Lost < MaxCrashes
  /\ api' = [api EXCEPT ![j] = "lost"]
  /\ UNCHANGED <<row, results, valid, faulty, taskVars>>

-----------------------------------------------------------------------------

Init ==
  /\ row = [j \in Jobs |-> Nil]
  /\ results = [j \in Jobs |-> {}]
  /\ valid = [j \in Jobs |-> FALSE]
  /\ api = [j \in Jobs |-> "idle"]
  /\ pc = [d \in Deliveries |-> "none"]
  /\ at = [d \in Deliveries |-> 1]
  /\ seen = [d \in Deliveries |-> Expired]
  /\ known = [d \in Deliveries |-> {}]
  /\ faulty \in FaultChoices

ApiStep(j) == Dispatch(j) \/ DispatchRaises(j) \/ RecordDispatchFailure(j)

TaskStep(d) ==
  \/ Start(d) \/ Mark(d) \/ Advance(d) \/ Raise(d) \/ LoadResults(d)
  \/ Save(d) \/ Rescue(d) \/ Fail(d)

Next ==
  \/ \E j \in Jobs : Post(j) \/ ApiStep(j) \/ ApiCrash(j)
  \/ \E d \in Deliveries : TaskStep(d) \/ Crash(d)
  \/ \E d, e \in Deliveries : Duplicate(d, e)

Spec == Init /\ [][Next]_vars

\* A request that was accepted is answered and a worker goes on with its task.
Fairness ==
  /\ \A j \in Jobs : WF_vars(ApiStep(j))
  /\ \A d \in Deliveries : WF_vars(TaskStep(d))

FairSpec == Spec /\ Fairness

-----------------------------------------------------------------------------
(***************************************************************************)
(* Properties                                                              *)
(***************************************************************************)

\* Type invariant.
TypeOK ==
  /\ row \in [Jobs -> Rows \cup {Nil}]
  /\ results \in [Jobs -> SUBSET Matches]
  /\ valid \in [Jobs -> BOOLEAN]
  /\ api \in [Jobs -> {"idle", "dispatching", "failing", "answered", "lost"}]
  /\ pc \in [Deliveries -> PCs]
  /\ at \in [Deliveries -> 1..Last]
  /\ seen \in [Deliveries -> Rows \cup {Expired}]
  /\ known \in [Deliveries -> SUBSET Matches]
  /\ faulty \in FaultChoices

Status(j) == IF row[j] = Nil THEN "none" ELSE row[j].status

\* A job that reads completed has a result for each of its matches, however its
\* messages are duplicated and the column-wise UPDATEs of _run_step
\* (tasks/analysis.py 34-57) interleave.
CompletedHasResults ==
  \A j \in Jobs : Status(j) = "completed" => results[j] = Matches

\* A job whose input validation refuses never gets a result and is never
\* completed, whatever is duplicated (tasks/analysis.py 67-81).
InvalidNeverCompletes ==
  \A j \in Jobs :
    (row[j] # Nil /\ ~valid[j]) => results[j] = {} /\ Status(j) # "completed"

\* Where the broker has no faults a completed or failed job stays as it is.
FinalIsFinal ==
  [][~faulty => \A j \in Jobs :
       Status(j) \in {"completed", "failed"} => row'[j] = row[j]]_vars

\* While no process is killed every job ends up completed or failed for good,
\* also when deliveries of its chain run at the same time and each UPDATE only
\* writes what its session believes to have changed.
JobSettles ==
  \A j \in Jobs :
    Status(j) # "none"
      ~> (Lost > 0 \/ [](Status(j) \in {"completed", "failed"}))

=============================================================================
