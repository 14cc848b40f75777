------------------------ MODULE AutomationRefinement ------------------------
(***************************************************************************)
(* With one worker slot, the tasks of AutomationPipeline implement         *)
(* RunLifecycle.                                                           *)
(***************************************************************************)
EXTENDS AutomationPipeline

AtWork == InPipeline \cup {"rescue", "fail"}

\* The row shows a phase when its status is the one that goes with its step;
\* anything else is no phase of RunLifecycle.
StatusWith(step) ==
  CASE step = "discovered" -> "pending"
    [] step \in PipelineSteps -> "running"
    [] OTHER -> step

PhaseOf(m) ==
  IF run[m] = Nil THEN "none"
  ELSE IF run[m].status = StatusWith(run[m].step) THEN run[m].step ELSE "torn"

FailedAt(m) == IF run[m] = Nil THEN Nil ELSE run[m].failedStep

Named == {m \in Matches : product[m].job # Nil}

Workers == {t \in Tasks : pc[t] \in AtWork}
Worker  == CHOOSE t \in Workers : TRUE

Active == IF Workers = {} THEN Nil ELSE match[Worker]

\* The step the worker's attempt is in: the one its row names, once it is past
\* its context.
Entered ==
  IF Workers = {} \/ run[Active].task # Worker \/ run[Active].tries # tries[Worker]
  THEN Nil ELSE run[Active].step

Made ==
  IF Workers = {} THEN {}
  ELSE {a \in {"prediction", "report", "poster"} : product[Active][a] = Attempt(Worker)}

Lifecycle == INSTANCE RunLifecycle WITH
  phase <- [m \in Matches |-> PhaseOf(m)],
  failedAt <- [m \in Matches |-> FailedAt(m)],
  jobs <- Named,
  active <- Active,
  entered <- Entered,
  made <- Made

\* docs/architecture.md 44, docs/database-design.md on automation_runs: read
\* through its row alone, a run goes through its steps in order, with what each
\* of them makes, and is never seen between two of them, whichever message,
\* retry or killed worker each of its columns was written by.
ImplementsRunLifecycle == Lifecycle!LifecycleSpec

=============================================================================
