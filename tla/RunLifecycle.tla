---------------------------- MODULE RunLifecycle ----------------------------
(***************************************************************************)
(* What an automation run promises to who reads its row: one attempt at a  *)
(* time works on it, through the steps in their order and never past one   *)
(* whose artifact it has not made; it ends completed or failed at the step *)
(* the row names, or is abandoned and leaves the row as it is.  There are  *)
(* no messages, retries, sessions or columns here.                         *)
(***************************************************************************)
EXTENDS FiniteSets

CONSTANTS
  Matches,  \* ids of stored matches
  Nil       \* none

VARIABLES
  phase,    \* [Matches -> what the row shows]
  failedAt, \* [Matches -> phase in which the last attempt failed, or Nil]
  jobs,     \* matches whose row names an analysis job
  active,   \* the match under work, or Nil
  entered,  \* the step the attempt has entered, or Nil
  made      \* artifacts the attempt has made

lifecycleVars == <<phase, failedAt, jobs, active, entered, made>>

Artifacts == {"prediction", "report", "poster"}
Steps     == {"create_analysis_job"} \cup Artifacts
Phases    == {"none", "discovered", "completed", "failed"} \cup Steps

\* An attempt takes up a match, whose row is created if there is none.
Take(m) ==
  /\ active = Nil
  /\ active' = m
  /\ phase' = [phase EXCEPT ![m] = IF @ = "none" THEN "discovered" ELSE @]
  /\ UNCHANGED <<failedAt, jobs, entered, made>>

\* It enters step s once step before has left its artifact.
Enter(m, before, done, s) ==
  /\ active = m
  /\ entered = before
  /\ done
  /\ entered' = s
  /\ phase' = [phase EXCEPT ![m] = s]
  /\ failedAt' = [failedAt EXCEPT ![m] = Nil]
  /\ UNCHANGED <<jobs, active, made>>

EnterAny(m) ==
  \/ Enter(m, Nil, TRUE, "create_analysis_job")
  \/ Enter(m, "create_analysis_job", m \in jobs, "prediction")
  \/ Enter(m, "prediction", "prediction" \in made, "report")
  \/ Enter(m, "report", "report" \in made, "poster")

CreateJob(m) ==
  /\ active = m
  /\ entered = "create_analysis_job"
  /\ jobs' = jobs \cup {m}
  /\ UNCHANGED <<phase, failedAt, active, entered, made>>

Make(m) ==
  /\ active = m
  /\ entered \in Artifacts
  /\ made' = made \cup {entered}
  /\ UNCHANGED <<phase, failedAt, jobs, active, entered>>

Release == active' = Nil /\ entered' = Nil /\ made' = {}

Complete(m) ==
  /\ active = m
  /\ made = Artifacts
  /\ phase' = [phase EXCEPT ![m] = "completed"]
  /\ Release
  /\ UNCHANGED <<failedAt, jobs>>

\* It fails before its last artifact; the row says where.
Fail(m) ==
  /\ active = m
  /\ "poster" \notin made
  /\ phase' = [phase EXCEPT ![m] = "failed"]
  /\ failedAt' = [failedAt EXCEPT ![m] = phase[m]]
  /\ Release
  /\ UNCHANGED jobs

Abandon ==
  /\ Release
  /\ UNCHANGED <<phase, failedAt, jobs>>

LifecycleInit ==
  /\ phase = [m \in Matches |-> "none"]
  /\ failedAt = [m \in Matches |-> Nil]
  /\ jobs = {}
  /\ active = Nil /\ entered = Nil /\ made = {}

LifecycleNext ==
  \/ Abandon
  \/ \E m \in Matches :
       Take(m) \/ EnterAny(m) \/ CreateJob(m) \/ Make(m) \/ Complete(m) \/ Fail(m)

LifecycleSpec == LifecycleInit /\ [][LifecycleNext]_lifecycleVars

=============================================================================
