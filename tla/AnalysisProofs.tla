--------------------------- MODULE AnalysisProofs ---------------------------
(***************************************************************************)
(* Invariants of AnalysisChain proved for every number of jobs, matches,   *)
(* deliveries and killed processes.                                        *)
(*                                                                         *)
(* The argument.  Results are never removed, so what a save task loaded is *)
(* still there when it commits the rest (Known); only that commit writes   *)
(* "completed".  A delivery of an invalid job never gets past the second   *)
(* task of the chain (Stops), so it never saves.                           *)
(*                                                                         *)
(* Where the broker has no faults a job has one delivery, published when   *)
(* its request is answered, and a final status means that it has ended     *)
(* (Single): nothing is left that could write the row.                     *)
(***************************************************************************)
EXTENDS AnalysisChain, TLAPS

\* What is known of a delivery wherever it stands.
Known(d) ==
  /\ IF pc[d] = "none" THEN at[d] = 1 ELSE row[JobOf(d)] # Nil
  /\ pc[d] = "saving" => at[d] = Last /\ known[d] \subseteq results[JobOf(d)]

Stops(d) == (pc[d] # "none" /\ ~valid[JobOf(d)]) => at[d] <= 2

\* What is known of a job.
Whole(j) ==
  /\ api[j] = "idle" <=> row[j] = Nil
  /\ row[j] = Nil => results[j] = {}
  /\ Status(j) = "completed" => results[j] = Matches

Refused(j) ==
  (row[j] # Nil /\ ~valid[j]) => results[j] = {} /\ Status(j) # "completed"

IInv ==
  /\ TypeOK
  /\ \A d \in Deliveries : Known(d) /\ Stops(d)
  /\ \A j \in Jobs : Whole(j) /\ Refused(j)

-----------------------------------------------------------------------------
\* The chain has four tasks, each of them a step name, the second validates.
LEMMA ChainFacts ==
  /\ Last = 4
  /\ \A i \in 1..Last : Chain[i] \in StepNames
  /\ \A i \in 1..Last : Chain[i] = "validate_input" => i = 2
  /\ Chain[2] = "validate_input"
<1>1. Last = 4
  BY DEF Last, Chain
<1>2. \A i \in 1..Last : Chain[i] \in StepNames
  BY DEF StepNames
<1>3. \A i \in 1..4 : Chain[i] = "validate_input" => i = 2
  BY DEF Chain
<1>4. Chain[2] = "validate_input"
  BY DEF Chain
<1> QED
  BY <1>1, <1>2, <1>3, <1>4

LEMMA JobOfDelivery == \A d \in Deliveries : JobOf(d) \in Jobs
BY DEF Deliveries, JobOf

\* The rows the code assigns are rows, and no row is Nil.
LEMMA RowFacts ==
  /\ NewRow \in Rows /\ NewRow # Nil /\ NewRow.status = "pending"
  /\ \A r \in Rows : r # Nil
BY AnalysisAssumption DEF NewRow, Rows, StepNames

\* The UPDATE of a flush leaves a row whose status is the old or the new one.
LEMMA FlushRow ==
  ASSUME NEW old, NEW cur \in Rows, NEW new \in Rows
  PROVE  /\ Flush(old, cur, new) \in Rows
         /\ Flush(old, cur, new).status \in {cur.status, new.status}
BY DEF Flush, Rows

\* One job's row changes, to a row, and its status at most to the one given.
OneRow(j, status) ==
  /\ row' \in [Jobs -> Rows \cup {Nil}]
  /\ row[j] # Nil /\ row'[j] # Nil
  /\ row'[j].status \in {row[j].status, status}
  /\ \A i \in Jobs \ {j} : row'[i] = row[i]

LEMMA WriteRow ==
  ASSUME IInv, NEW d \in Deliveries, pc[d] # "none",
         NEW status \in {"running", "completed", "failed"},
         NEW step \in StepNames, Write(d, status, step)
  PROVE  OneRow(JobOf(d), status)
<1> DEFINE j == JobOf(d)
           new == [status |-> status, step |-> step]
           r == Flush(seen[d], row[j], new)
<1>1. j \in Jobs /\ row[j] # Nil /\ row[j] \in Rows
  BY JobOfDelivery DEF IInv, Known, TypeOK
<1>2. new \in Rows /\ new.status = status
  BY DEF Rows
<1>3. r \in Rows /\ r.status \in {row[j].status, new.status}
  BY <1>1, <1>2, FlushRow
<1>4. row' = [row EXCEPT ![j] = r]
  BY DEF Write
<1> HIDE DEF new, r
<1> QED
  BY <1>1, <1>2, <1>3, <1>4, RowFacts DEF IInv, TypeOK, OneRow

LEMMA InitInv == Init => IInv
<1> SUFFICES ASSUME Init PROVE IInv
  OBVIOUS
<1>1. TypeOK
  <2>1. 1 \in 1..Last
    BY ChainFacts
  <2> QED
    BY <2>1 DEF Init, TypeOK, PCs
<1>2. \A d \in Deliveries : Known(d) /\ Stops(d)
  BY DEF Init, Known, Stops
<1>3. \A j \in Jobs : Whole(j) /\ Refused(j)
  BY DEF Init, Whole, Refused, Status
<1> QED
  BY <1>1, <1>2, <1>3 DEF IInv

-----------------------------------------------------------------------------
\* Steps that leave the jobs' columns and results alone.
LEMMA Frame ==
  ASSUME IInv, UNCHANGED <<row, results, valid, faulty>>, TypeOK',
         \A d \in Deliveries : Known(d)' /\ Stops(d)',
         \A j \in Jobs : api'[j] = "idle" <=> api[j] = "idle"
  PROVE  IInv'
BY DEF IInv, Whole, Refused, Status

\* Steps that write one existing row but do not complete it.
LEMMA WriteInv ==
  ASSUME IInv, TypeOK', NEW j \in Jobs, NEW status, status # "completed",
         OneRow(j, status), UNCHANGED <<results, valid>>,
         \A i \in Jobs : api'[i] = "idle" <=> api[i] = "idle",
         NEW d \in Deliveries,
         \A e \in Deliveries \ {d} :
           UNCHANGED <<pc[e], at[e], known[e]>>,
         pc'[d] \notin {"saving", "none"}, pc[d] # "none",
         at'[d] = at[d]
  PROVE  IInv'
<1>1. \A i \in Jobs : row[i] = Nil <=> row'[i] = Nil
  BY DEF OneRow
<1>2. \A e \in Deliveries : Known(e)' /\ Stops(e)'
  BY <1>1, JobOfDelivery DEF IInv, Known, Stops
<1>3. ASSUME NEW i \in Jobs PROVE Whole(i)' /\ Refused(i)'
  <2>1. Status(i)' = "completed" => Status(i) = "completed"
    BY DEF OneRow, Status
  <2> QED
    BY <1>1, <2>1 DEF IInv, Whole, Refused
<1> QED
  BY <1>2, <1>3 DEF IInv

-----------------------------------------------------------------------------
\* POST: a job is inserted, valid or not, with no delivery and no result yet.
LEMMA PostInv == ASSUME IInv, NEW j \in Jobs, Post(j) PROVE IInv'
<1> USE DEF taskVars
<1>1. /\ row[j] = Nil /\ results[j] = {}
      /\ \A d \in Deliveries : JobOf(d) = j => pc[d] = "none"
  BY DEF IInv, Whole, Known, Post
<1>2. /\ row'[j] = NewRow /\ \A i \in Jobs \ {j} : row'[i] = row[i]
      /\ \A i \in Jobs \ {j} : valid'[i] = valid[i] /\ api'[i] = api[i]
      /\ api'[j] = "dispatching"
  BY DEF IInv, TypeOK, Post
<1>3. TypeOK'
  BY RowFacts DEF IInv, TypeOK, Post
<1>4. \A d \in Deliveries : Known(d)' /\ Stops(d)'
  BY <1>1, <1>2, JobOfDelivery DEF IInv, Known, Stops, Post
<1>5. \A i \in Jobs : Whole(i)' /\ Refused(i)'
  BY <1>1, <1>2, RowFacts DEF IInv, Whole, Refused, Status, Post
<1> QED
  BY <1>3, <1>4, <1>5 DEF IInv

\* Publishing: the first task of an existing job.
LEMMA DispatchInv ==
  ASSUME IInv, NEW j \in Jobs, Dispatch(j) \/ DispatchRaises(j)
  PROVE  IInv'
<1> USE DEF Dispatch, DispatchRaises, Publish, Goto
<1> DEFINE f == <<j, First>>
<1>1. f \in Deliveries /\ JobOf(f) = j /\ row[j] # Nil
  BY AnalysisAssumption DEF Deliveries, JobOf, IInv, Whole
<1>2. TypeOK'
  BY <1>1 DEF IInv, TypeOK, PCs
<1>3. ASSUME NEW d \in Deliveries PROVE Known(d)' /\ Stops(d)'
  <2>1. CASE pc'[d] = pc[d]
    BY <2>1 DEF IInv, Known, Stops
  <2>2. CASE pc'[d] # pc[d]
    <3>1. d = f /\ pc'[d] = "queued"
      BY <1>1, <2>2 DEF IInv, TypeOK
    <3> QED
      BY <1>1, <3>1 DEF IInv, TypeOK, Known, Stops
  <2> QED
    BY <2>1, <2>2
<1>4. \A i \in Jobs : api'[i] = "idle" <=> api[i] = "idle"
  BY DEF IInv, TypeOK
<1> QED
  BY <1>2, <1>3, <1>4, Frame

\* Recording that the dispatcher raised.
LEMMA RecordInv ==
  ASSUME IInv, NEW j \in Jobs, RecordDispatchFailure(j) PROVE IInv'
<1> USE DEF taskVars
<1> DEFINE new == [status |-> "failed", step |-> "enqueue_analysis_pipeline"]
           r == Flush(NewRow, row[j], new)
<1>1. row[j] # Nil /\ row[j] \in Rows /\ new \in Rows /\ new.status = "failed"
  BY DEF IInv, Whole, TypeOK, RecordDispatchFailure, Rows, StepNames
<1>2. r \in Rows /\ r.status \in {row[j].status, "failed"}
  BY <1>1, FlushRow
<1>3. row' = [row EXCEPT ![j] = r]
  BY DEF RecordDispatchFailure
<1> HIDE DEF new, r
<1>4. OneRow(j, "failed")
  BY <1>1, <1>2, <1>3, RowFacts DEF IInv, TypeOK, OneRow
<1>5. TypeOK'
  BY <1>4 DEF IInv, TypeOK, OneRow, RecordDispatchFailure
<1>6. \A d \in Deliveries : Known(d)' /\ Stops(d)'
  BY <1>4, JobOfDelivery DEF IInv, Known, Stops, OneRow, RecordDispatchFailure
<1>7. ASSUME NEW i \in Jobs PROVE Whole(i)' /\ Refused(i)'
  <2>1. row'[i] = Nil <=> row[i] = Nil
    BY <1>4 DEF OneRow
  <2>2. Status(i)' = "completed" => Status(i) = "completed"
    BY <1>4 DEF OneRow, Status
  <2>3. api'[i] = "idle" <=> api[i] = "idle"
    BY DEF IInv, TypeOK, RecordDispatchFailure
  <2> QED
    BY <2>1, <2>2, <2>3 DEF IInv, Whole, Refused, RecordDispatchFailure
<1> QED
  BY <1>5, <1>6, <1>7 DEF IInv

\* The steps of a delivery that write nothing to the database.
LEMMA QuietInv ==
  ASSUME IInv, NEW d \in Deliveries,
         Start(d) \/ Advance(d) \/ Raise(d) \/ LoadResults(d) \/ Rescue(d) \/ Crash(d)
  PROVE  IInv'
<1> USE DEF apiVars, Goto, Load, Expire, Executing
<1>1. JobOf(d) \in Jobs /\ row[JobOf(d)] \in Rows /\ results[JobOf(d)] \subseteq Matches
  <2>1. pc[d] # "none"
    BY DEF Start, Advance, Raise, LoadResults, Rescue, Crash
  <2> QED
    BY <2>1, JobOfDelivery DEF IInv, Known, TypeOK
<1>2. /\ \A e \in Deliveries \ {d} : UNCHANGED <<pc[e], at[e], known[e]>>
      /\ UNCHANGED <<row, results, valid, api, faulty>>
  BY DEF IInv, TypeOK, Start, Advance, Raise, LoadResults, Rescue, Crash
<1>3. TypeOK' /\ Known(d)' /\ Stops(d)'
  <2>1. CASE Advance(d)
    <3>1. at[d] \in 1..4 /\ at[d] < 4 /\ (at[d] = 2 => valid[JobOf(d)])
      BY <2>1, ChainFacts DEF IInv, TypeOK, Advance, Passes, Validating
    <3>2. at' = [at EXCEPT ![d] = at[d] + 1] /\ at[d] + 1 \in 1..Last
      BY <2>1, <3>1, ChainFacts DEF Advance
    <3>3. TypeOK'
      BY <2>1, <3>2 DEF IInv, TypeOK, Advance, PCs
    <3>4. Known(d)' /\ Stops(d)'
      BY <2>1, <3>1, <3>2 DEF IInv, TypeOK, Known, Stops, Advance
    <3> QED
      BY <3>3, <3>4
  <2>2. CASE Start(d) \/ Rescue(d)
    BY <1>1, <2>2 DEF IInv, TypeOK, Start, Rescue, PCs, Known, Stops
  <2>3. CASE Raise(d) \/ Crash(d)
    BY <2>3 DEF IInv, TypeOK, Raise, Crash, PCs, Known, Stops
  <2>4. CASE LoadResults(d)
    BY <1>1, <2>4 DEF IInv, TypeOK, LoadResults, PCs, Known, Stops
  <2> QED
    BY <2>1, <2>2, <2>3, <2>4
<1>4. \A e \in Deliveries : Known(e)' /\ Stops(e)'
  BY <1>2, <1>3 DEF IInv, Known, Stops
<1> QED
  BY <1>2, <1>3, <1>4, Frame

\* Marking the job, and recording a failure.
LEMMA MarkInv ==
  ASSUME IInv, NEW d \in Deliveries, Mark(d) \/ Fail(d)
  PROVE  IInv'
<1> USE DEF apiVars, Goto, Expire
<1>1. JobOf(d) \in Jobs /\ Chain[at[d]] \in StepNames
  BY JobOfDelivery, ChainFacts DEF IInv, TypeOK
<1>2. PICK status \in {"running", "failed"} : OneRow(JobOf(d), status)
  BY <1>1, WriteRow DEF Mark, Fail
<1>3. TypeOK'
  BY <1>2 DEF IInv, TypeOK, OneRow, Mark, Fail, PCs, Executing
<1>4. \A e \in Deliveries \ {d} : UNCHANGED <<pc[e], at[e], known[e]>>
  BY DEF IInv, TypeOK, Mark, Fail
<1>5. pc'[d] \notin {"saving", "none"} /\ pc[d] # "none" /\ at'[d] = at[d]
  BY DEF IInv, TypeOK, Mark, Fail
<1> QED
  BY <1>1, <1>2, <1>3, <1>4, <1>5, WriteInv DEF Mark, Fail

\* Saving: what was missing and what was known make up all the matches.
LEMMA SaveInv == ASSUME IInv, NEW d \in Deliveries, Save(d) PROVE IInv'
<1> USE DEF apiVars, Goto, Expire
<1> DEFINE j == JobOf(d)
           missing == Matches \ known[d]
<1>1. /\ j \in Jobs /\ row[j] # Nil /\ valid[j]
      /\ results[j] \subseteq Matches /\ known[d] \subseteq results[j]
  BY JobOfDelivery, ChainFacts DEF IInv, TypeOK, Known, Stops, Save
<1>2. \A e \in Deliveries \ {d} : UNCHANGED <<pc[e], at[e], known[e]>>
  BY DEF IInv, TypeOK, Save
<1>3. CASE missing \cap results[j] # {}
  <2>1. TypeOK'
    BY <1>3 DEF IInv, TypeOK, Save, PCs, Executing
  <2>2. \A e \in Deliveries : Known(e)' /\ Stops(e)'
    BY <1>2, <1>3 DEF IInv, TypeOK, Known, Stops, Save
  <2> QED
    BY <1>3, <2>1, <2>2, Frame DEF Save
<1>4. CASE missing \cap results[j] = {}
  <2>1. results' = [results EXCEPT ![j] = results[j] \cup missing]
    BY <1>4 DEF Save
  <2>2. results'[j] = Matches /\ \A i \in Jobs \ {j} : results'[i] = results[i]
    BY <1>1, <2>1 DEF IInv, TypeOK
  <2>3. OneRow(j, "completed")
    BY <1>4, WriteRow DEF Save, StepNames
  <2>4. TypeOK'
    BY <1>1, <1>4, <2>1, <2>3 DEF IInv, TypeOK, OneRow, Save, PCs
  <2>5. \A e \in Deliveries : Known(e)' /\ Stops(e)'
    <3>1. pc'[d] = "done" /\ at' = at /\ valid' = valid
      BY <1>4 DEF IInv, TypeOK, Save
    <3>2. \A i \in Jobs : (row[i] = Nil <=> row'[i] = Nil)
      BY <2>3 DEF OneRow
    <3>3. \A i \in Jobs : results[i] \subseteq results'[i]
      BY <1>1, <2>2
    <3> QED
      BY <1>1, <1>2, <3>1, <3>2, <3>3, JobOfDelivery DEF IInv, Known, Stops
  <2>6. ASSUME NEW i \in Jobs PROVE Whole(i)' /\ Refused(i)'
    <3>1. CASE i = j
      BY <1>1, <2>2, <2>3, <3>1 DEF IInv, Whole, Refused, OneRow, Save
    <3>2. CASE i # j
      BY <2>2, <2>3, <3>2 DEF IInv, Whole, Refused, Status, OneRow, Save
    <3> QED
      BY <3>1, <3>2
  <2> QED
    BY <2>4, <2>5, <2>6 DEF IInv
<1> QED
  BY <1>3, <1>4

LEMMA OtherInv ==
  ASSUME IInv,
         \/ \E j \in Jobs : ApiCrash(j)
         \/ \E d, e \in Deliveries : Duplicate(d, e)
         \/ UNCHANGED vars
  PROVE  IInv'
<1> USE DEF apiVars, taskVars, Goto
<1>1. ASSUME NEW j \in Jobs, ApiCrash(j) PROVE IInv'
  <2>1. TypeOK' /\ (\A i \in Jobs : api'[i] = "idle" <=> api[i] = "idle")
    BY <1>1 DEF IInv, TypeOK, ApiCrash
  <2>2. \A d \in Deliveries : Known(d)' /\ Stops(d)'
    BY <1>1 DEF IInv, Known, Stops, ApiCrash
  <2> QED
    BY <1>1, <2>1, <2>2, Frame DEF ApiCrash
<1>2. ASSUME NEW d \in Deliveries, NEW e \in Deliveries, Duplicate(d, e) PROVE IInv'
  <2>1. TypeOK'
    BY <1>2 DEF IInv, TypeOK, Duplicate, PCs
  <2>2. \A x \in Deliveries : Known(x)' /\ Stops(x)'
    BY <1>2 DEF IInv, TypeOK, Known, Stops, Duplicate
  <2> QED
    BY <1>2, <2>1, <2>2, Frame DEF Duplicate
<1>3. CASE UNCHANGED vars
  BY <1>3 DEF vars, IInv, TypeOK, Known, Stops, Whole, Refused, Status
<1> QED
  BY <1>1, <1>2, <1>3

LEMMA StepInv == IInv /\ [Next]_vars => IInv'
BY PostInv, DispatchInv, RecordInv, QuietInv, MarkInv, SaveInv, OtherInv
   DEF Next, ApiStep, TaskStep

-----------------------------------------------------------------------------
\* IInv is an invariant of every deployment, with a faulty broker or without.
THEOREM InductiveInvariant == Spec => []IInv
BY InitInv, StepInv, PTL DEF Spec

\* Type correctness of AnalysisChain.
THEOREM TypeCorrect == Spec => []TypeOK
<1>1. IInv => TypeOK
  BY DEF IInv
<1> QED
  BY <1>1, InductiveInvariant, PTL

\* A completed job has all its results, however many deliveries overlap.
THEOREM CompletedJobsHaveResults == Spec => []CompletedHasResults
<1>1. IInv => CompletedHasResults
  BY DEF IInv, Whole, CompletedHasResults
<1> QED
  BY <1>1, InductiveInvariant, PTL

\* A job that validation refuses never completes and never gets a result.
THEOREM InvalidJobsNeverComplete == Spec => []InvalidNeverCompletes
<1>1. IInv => InvalidNeverCompletes
  BY DEF IInv, Refused, InvalidNeverCompletes
<1> QED
  BY <1>1, InductiveInvariant, PTL

-----------------------------------------------------------------------------
\* Without faults.

Final(j) == Status(j) \in {"completed", "failed"}

Sole(d) ==
  /\ pc[d] # "none" => d[2] = First /\ api[JobOf(d)] = "answered"
  /\ Final(JobOf(d)) => pc[d] \in {"none", "done", "failed"}

Single ==
  /\ \A d \in Deliveries : Sole(d)
  /\ \A j \in Jobs : Final(j) => api[j] = "answered"

SInv == IInv /\ (~faulty => Single)

\* A delivery is told by its job and its copy.
LEMMA SameDelivery ==
  \A d, e \in Deliveries : JobOf(d) = JobOf(e) /\ d[2] = e[2] => d = e
BY DEF Deliveries, JobOf

\* The one delivery of a job moves: the job is final only when that has ended.
LEMMA MoveSingle ==
  ASSUME IInv, Single, NEW d \in Deliveries, pc[d] # "none", api' = api,
         \A e \in Deliveries \ {d} : pc'[e] = pc[e],
         \A i \in Jobs \ {JobOf(d)} : row'[i] = row[i],
         Final(JobOf(d))' => pc'[d] \in {"done", "failed"}
  PROVE  Single'
<1> PICK j : j = JobOf(d)
  OBVIOUS
<1>1. j \in Jobs /\ api[j] = "answered" /\ d[2] = First
  BY JobOfDelivery DEF Single, Sole
<1>2. \A i \in Jobs \ {j} : Final(i)' <=> Final(i)
  BY DEF Final, Status
<1>3. ASSUME NEW e \in Deliveries, e # d PROVE Sole(e)'
  <2>1. pc'[e] = pc[e] /\ JobOf(e) \in Jobs /\ Sole(e)
    BY <1>3, JobOfDelivery DEF Single
  <2>2. CASE JobOf(e) = j
    <3>1. pc[e] = "none"
      BY <1>1, <1>3, <2>1, <2>2, SameDelivery DEF Sole
    <3> QED
      BY <2>1, <3>1 DEF Sole
  <2>3. CASE JobOf(e) # j
    <3>1. Final(JobOf(e))' <=> Final(JobOf(e))
      BY <1>2, <2>1, <2>3
    <3> QED
      BY <2>1, <3>1 DEF Sole
  <2> QED
    BY <2>2, <2>3
<1>4. Sole(d)'
  BY <1>1 DEF Sole
<1>5. \A i \in Jobs : Final(i)' => api'[i] = "answered"
  BY <1>1, <1>2 DEF Single
<1> QED
  BY <1>3, <1>4, <1>5 DEF Single

\* Only an ending delivery makes its job final.
LEMMA TaskSingle ==
  ASSUME IInv, Single, NEW d \in Deliveries, TaskStep(d) \/ Crash(d)
  PROVE  Single'
<1> USE DEF apiVars, Goto
<1> PICK j : j = JobOf(d)
  OBVIOUS
<1>0. TypeOK /\ j \in Jobs
  BY JobOfDelivery DEF IInv
<1>1. /\ pc[d] \notin {"none", "done", "failed"} /\ pc'[d] # "none" /\ api' = api
      /\ \A e \in Deliveries \ {d} : pc'[e] = pc[e]
  BY <1>0 DEF TypeOK, TaskStep, Start, Mark, Advance, Raise, LoadResults, Save, Rescue, Fail,
     Crash, Executing
<1>2. ~Final(j)
  BY <1>1 DEF Single, Sole
<1>3. CASE row' = row
  <2>1. ~Final(j)'
    BY <1>2, <1>3 DEF Final, Status
  <2> QED
    BY <1>1, <1>3, <2>1, MoveSingle
<1>4. CASE Mark(d)
  <2>1. OneRow(j, "running")
    BY <1>0, <1>1, <1>4, WriteRow, ChainFacts DEF Mark, TypeOK
  <2>2. ~Final(j)'
    BY <1>2, <2>1 DEF OneRow, Final, Status
  <2> QED
    BY <1>1, <2>1, <2>2, MoveSingle DEF OneRow
<1>5. CASE Fail(d)
  <2>1. OneRow(j, "failed") /\ pc'[d] = "failed"
    BY <1>0, <1>1, <1>5, WriteRow, ChainFacts DEF Fail, TypeOK
  <2> QED
    BY <1>1, <2>1, MoveSingle DEF OneRow
<1>6. CASE Save(d) /\ row' # row
  <2>1. OneRow(j, "completed") /\ pc'[d] = "done"
    BY <1>0, <1>1, <1>6, WriteRow DEF Save, TypeOK, StepNames
  <2> QED
    BY <1>1, <2>1, MoveSingle DEF OneRow
<1> QED
  BY <1>3, <1>4, <1>5, <1>6
  DEF TaskStep, Start, Advance, Raise, LoadResults, Rescue, Crash

\* Before a request is answered its job has no delivery and is not final.
LEMMA ApiSingle ==
  ASSUME IInv, Single, ~faulty, NEW j \in Jobs, Post(j) \/ ApiStep(j) \/ ApiCrash(j)
  PROVE  Single'
<1> USE DEF taskVars
<1>0. TypeOK
  BY DEF IInv
<1>1. /\ api[j] # "answered" /\ ~Final(j)
      /\ \A d \in Deliveries : JobOf(d) = j => pc[d] = "none"
  BY DEF Post, ApiStep, Dispatch, DispatchRaises, RecordDispatchFailure, ApiCrash, Single,
     Sole
<1>2. \A i \in Jobs \ {j} : api'[i] = api[i] /\ row'[i] = row[i]
  BY <1>0 DEF Post, ApiStep, Dispatch, DispatchRaises, RecordDispatchFailure, ApiCrash, TypeOK
<1>3. \A i \in Jobs \ {j} : Final(i)' <=> Final(i)
  BY <1>2 DEF Final, Status
<1>4. ASSUME NEW d \in Deliveries, JobOf(d) # j, pc'[d] = pc[d]
      PROVE  Sole(d)'
  <2>1. JobOf(d) \in Jobs \ {j} /\ Sole(d)
    BY <1>4, JobOfDelivery DEF Single
  <2> QED
    BY <1>2, <1>3, <1>4, <2>1 DEF Sole
<1>5. Final(j)' => api'[j] = "answered"
  <2>1. CASE Post(j)
    BY <1>0, <2>1, RowFacts DEF Post, TypeOK, Final, Status
  <2>2. CASE Dispatch(j) \/ DispatchRaises(j) \/ ApiCrash(j)
    BY <1>1, <2>2 DEF Dispatch, DispatchRaises, ApiCrash, Final, Status
  <2>3. CASE RecordDispatchFailure(j)
    BY <1>0, <2>3 DEF RecordDispatchFailure, TypeOK
  <2> QED
    BY <2>1, <2>2, <2>3 DEF ApiStep
<1>6. \A i \in Jobs : Final(i)' => api'[i] = "answered"
  BY <1>2, <1>3, <1>5 DEF Single
<1>7. CASE ~Dispatch(j)
  <2>1. pc' = pc
    BY <1>7 DEF Post, ApiStep, DispatchRaises, RecordDispatchFailure, ApiCrash
  <2>2. \A d \in Deliveries : Sole(d)'
    BY <1>1, <1>4, <2>1 DEF Sole
  <2> QED
    BY <1>6, <2>2 DEF Single
<1>8. CASE Dispatch(j)
  <2> DEFINE f == <<j, First>>
  <2>1. f \in Deliveries /\ JobOf(f) = j /\ f[2] = First
    BY AnalysisAssumption DEF Deliveries, JobOf
  <2>2. /\ \A d \in Deliveries \ {f} : pc'[d] = pc[d]
        /\ pc'[f] = "queued" /\ api'[j] = "answered" /\ ~Final(j)'
    BY <1>0, <1>1, <1>8, <2>1 DEF Dispatch, Publish, Goto, TypeOK, Final, Status
  <2> HIDE DEF f
  <2>3. ASSUME NEW d \in Deliveries PROVE Sole(d)'
    <3>1. CASE JobOf(d) = j
      BY <1>1, <2>1, <2>2, <3>1 DEF Sole
    <3>2. CASE JobOf(d) # j
      BY <1>4, <2>1, <2>2, <3>2
    <3> QED
      BY <3>1, <3>2
  <2> QED
    BY <1>6, <2>3 DEF Single
<1> QED
  BY <1>7, <1>8

THEOREM SingleInvariant == Spec => []SInv
<1>1. Init => SInv
  BY InitInv DEF SInv, Single, Sole, Final, Status, Init
<1>2. SInv /\ [Next]_vars => SInv'
  <2> SUFFICES ASSUME SInv, [Next]_vars PROVE SInv'
    OBVIOUS
  <2>1. IInv' /\ faulty' = faulty
    BY StepInv
    DEF SInv, Next, ApiStep, TaskStep, Post, Dispatch, DispatchRaises, RecordDispatchFailure,
        ApiCrash, Start, Mark, Advance, Raise, LoadResults, Save, Rescue, Fail, Crash,
        Duplicate, vars, apiVars
  <2>2. CASE faulty
    BY <2>1, <2>2 DEF SInv
  <2>3. CASE ~faulty
    <3>1. CASE UNCHANGED vars
      <4>1. UNCHANGED <<row, pc, api>>
        BY <3>1 DEF vars, apiVars, taskVars
      <4> QED
        BY <2>1, <2>3, <4>1 DEF SInv, Single, Sole, Final, Status
    <3>2. CASE ~UNCHANGED vars
      <4>1. ~\E d, e \in Deliveries : Duplicate(d, e)
        BY <2>3 DEF Duplicate
      <4>2. Single'
        BY <2>3, <3>2, <4>1, TaskSingle, ApiSingle DEF SInv, Next
      <4> QED
        BY <2>1, <4>2 DEF SInv
    <3> QED
      BY <3>1, <3>2
  <2> QED
    BY <2>2, <2>3
<1> QED
  BY <1>1, <1>2, PTL DEF Spec

\* Where the broker has no faults a completed or failed job stays as it is, however
\* many jobs and killed processes there are.
THEOREM FinalJobsStay == Spec => FinalIsFinal
<1>1. ASSUME SInv, [Next]_vars, ~faulty, NEW j \in Jobs, Final(j)
      PROVE  row'[j] = row[j]
  <2>1. TypeOK /\ Single
    BY <1>1 DEF SInv, IInv
  <2>2. ASSUME NEW i \in Jobs, Post(i) \/ ApiStep(i) \/ ApiCrash(i)
        PROVE  row'[j] = row[j]
    <3>1. ~Final(i)
      BY <2>1, <2>2 DEF Single, Post, ApiStep, Dispatch, DispatchRaises,
         RecordDispatchFailure, ApiCrash
    <3> QED
      BY <1>1, <2>1, <2>2, <3>1 DEF Post, ApiStep, Dispatch, DispatchRaises,
         RecordDispatchFailure, ApiCrash, TypeOK
  <2>3. ASSUME NEW d \in Deliveries, TaskStep(d) \/ Crash(d) PROVE row'[j] = row[j]
    <3>1. ~Final(JobOf(d))
      BY <2>1, <2>3
      DEF Single, Sole, TaskStep, Start, Mark, Advance, Raise, LoadResults, Save, Rescue,
          Fail, Crash, Executing
    <3> QED
      BY <1>1, <2>1, <2>3, <3>1
      DEF TaskStep, Start, Mark, Advance, Raise, LoadResults, Save, Rescue, Fail, Crash,
          Write, TypeOK
  <2>4. CASE UNCHANGED vars \/ \E d, e \in Deliveries : Duplicate(d, e)
    BY <2>4 DEF vars, Duplicate
  <2> QED
    BY <1>1, <2>2, <2>3, <2>4 DEF Next
<1>2. SInv /\ [Next]_vars =>
        (~faulty => \A j \in Jobs :
           Status(j) \in {"completed", "failed"} => row'[j] = row[j])
  BY <1>1 DEF Final
<1> QED
  BY <1>2, SingleInvariant, PTL DEF Spec, FinalIsFinal

=============================================================================
