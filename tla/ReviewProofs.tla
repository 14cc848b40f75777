---------------------------- MODULE ReviewProofs ----------------------------
(***************************************************************************)
(* Invariants of ReportReview proved for every number of reports, posters, *)
(* requests and requests served at the same time.                          *)
(*                                                                         *)
(* The argument.  The generation status of a report never changes, and a   *)
(* report becomes fact-checked only together with the status "generated".  *)
(* So what a request established about that status when it loaded the      *)
(* report still holds when it commits, although the review status it       *)
(* loaded may be stale by then (Pending).                                  *)
(*                                                                         *)
(* Where one request is served at a time, what it loaded is never stale    *)
(* (Fresh), and the action properties follow.                              *)
(***************************************************************************)
EXTENDS ReportReview, FiniteSetTheorems, TLAPS

\* The text of report r has passed both checkers.
Clean(r) == reports[r] # Nil /\ reports[r].status = "generated"

\* A report that may be approved, or is, has a clean text.
CleanReport(r) ==
  (reports[r] # Nil /\ reports[r].review \in Approvable) => Clean(r)

CleanPoster(p) == posters[p] # Nil => Clean(posters[p].report)

\* What the request q is about to commit.
Pending(q) ==
  /\ pc[q] \in {"reviewing", "cascading"} =>
       /\ report[q] \in Reports
       /\ reports[report[q]] # Nil
       /\ verdict[q] \in Verdicts
       /\ verdict[q] = "approved" => Clean(report[q])
  /\ pc[q] = "cascading" =>
       \A p \in Posters : cascade[q][p] # Nil => posters[p] # Nil
  /\ pc[q] = "rendering" =>
       /\ report[q] \in Reports
       /\ poster[q] \in Posters
       /\ verdict[q] \in Approvable
       /\ Clean(report[q])
  /\ pc[q] = "poster_review" =>
       /\ poster[q] \in Posters
       /\ posters[poster[q]] # Nil
       /\ verdict[q] \in Verdicts

IInv ==
  /\ TypeOK
  /\ \A r \in Reports : CleanReport(r)
  /\ \A p \in Posters : CleanPoster(p)
  /\ \A q \in Requests : Pending(q)

-----------------------------------------------------------------------------
\* Nil is told apart from every row, id and status.
LEMMA NilIsNoRow ==
  /\ \A row \in ReportRows \cup PosterRows : row # Nil
  /\ \A r \in Reports \cup Posters \cup Reviews : r # Nil
BY ReviewAssumption

\* The UPDATE of a review_status leaves a review status: the current or the new.
LEMMA WrittenOneOf ==
  ASSUME NEW old, NEW cur, NEW new
  PROVE  Written(old, cur, new) \in {cur, new}
BY DEF Written

LEMMA InitInv == Init => IInv
<1> SUFFICES ASSUME Init PROVE IInv
  OBVIOUS
<1>1. TypeOK
  BY DEF Init, TypeOK, NoCascade, Labels
<1>2. \A r \in Reports : CleanReport(r)
  BY DEF Init, CleanReport
<1>3. \A p \in Posters : CleanPoster(p)
  BY DEF Init, CleanPoster
<1>4. \A q \in Requests : Pending(q)
  BY DEF Init, Pending
<1> QED
  BY <1>1, <1>2, <1>3, <1>4 DEF IInv

-----------------------------------------------------------------------------
\* No step removes a row, changes a report's generation status or moves a
\* poster to another report.
Kept ==
  /\ \A r \in Reports : reports[r] # Nil =>
       reports'[r] # Nil /\ reports'[r].status = reports[r].status
  /\ \A p \in Posters : posters[p] # Nil => posters'[p] # Nil

\* A request that does not move keeps what it has established.
LEMMA OthersPending ==
  ASSUME Kept, NEW q \in Requests, Pending(q),
         UNCHANGED <<pc[q], report[q], poster[q], verdict[q], cascade[q]>>
  PROVE  Pending(q)'
BY DEF Kept, Pending, Clean

\* A request that returned has nothing pending.
LEMMA IdlePending ==
  ASSUME NEW q \in Requests, pc'[q] = "idle"
  PROVE  Pending(q)'
BY DEF Pending

\* A step of q leaves the other requests alone.
OnlyMoves(q) ==
  \A o \in Requests \ {q} :
    UNCHANGED <<pc[o], report[o], poster[o], verdict[o], cascade[o]>>

\* It is enough to look at the request that moved.
LEMMA PendingStep ==
  ASSUME IInv, Kept, NEW q \in Requests, OnlyMoves(q), Pending(q)'
  PROVE  \A o \in Requests : Pending(o)'
BY OthersPending DEF IInv, OnlyMoves

LEMMA ReturnStep ==
  ASSUME TypeOK, NEW q \in Requests, Return(q)
  PROVE  OnlyMoves(q) /\ Pending(q)'
BY IdlePending DEF TypeOK, Return, OnlyMoves

-----------------------------------------------------------------------------
\* Inserting a report row.
LEMMA GenerateReportInv ==
  ASSUME IInv, NEW q \in Requests, NEW r \in Reports, GenerateReport(q, r)
  PROVE  IInv'
<1>1. PICK row \in GeneratedRows : reports' = [reports EXCEPT ![r] = row]
  BY DEF GenerateReport
<1>2. row \in ReportRows /\ row # Nil
      /\ (row.review \in Approvable => row.status = "generated")
  BY NilIsNoRow DEF GeneratedRows, ReportRows, Statuses, Reviews, Verdicts, Approvable
<1>3. reports[r] = Nil
  BY DEF GenerateReport
<1> USE DEF GenerateReport, local
<1>4. Kept
  BY <1>1, <1>2, <1>3 DEF IInv, TypeOK, Kept
<1>5. TypeOK'
  BY <1>1, <1>2 DEF IInv, TypeOK
<1>6. \A x \in Reports : CleanReport(x)'
  BY <1>1, <1>2 DEF IInv, TypeOK, CleanReport, Clean
<1>7. \A p \in Posters : CleanPoster(p)'
  BY <1>4 DEF IInv, TypeOK, Kept, CleanPoster, Clean, PosterRows
<1>8. \A o \in Requests : Pending(o)'
  BY <1>4, OthersPending DEF IInv
<1> QED
  BY <1>5, <1>6, <1>7, <1>8 DEF IInv

\* Committing a review: a report becomes approved only if its text is clean.
LEMMA CommitReviewInv ==
  ASSUME IInv, NEW q \in Requests, CommitReview(q)
  PROVE  IInv'
<1> DEFINE r == report[q]
           new == Written(loaded[q], reports[r].review, verdict[q])
<1>1. /\ r \in Reports /\ reports[r] # Nil /\ reports[r] \in ReportRows
      /\ verdict[q] \in Verdicts /\ (verdict[q] = "approved" => Clean(r))
      /\ \A p \in Posters : cascade[q][p] # Nil => posters[p] # Nil
  BY DEF IInv, Pending, CommitReview, TypeOK
<1>2. reports' = [reports EXCEPT ![r] = [reports[r] EXCEPT !.review = new]]
  BY DEF CommitReview
<1>3. new \in {reports[r].review, verdict[q]}
  BY WrittenOneOf
<1>4. new \in Reviews /\ (new \in Approvable => Clean(r))
  BY <1>1, <1>3 DEF IInv, CleanReport, Approvable, Verdicts, Reviews, ReportRows
<1>5. /\ reports'[r] \in ReportRows /\ reports'[r] # Nil
      /\ reports'[r].status = reports[r].status /\ reports'[r].review = new
  <2>1. reports'[r] = [reports[r] EXCEPT !.review = new]
    BY <1>1, <1>2 DEF IInv, TypeOK
  <2> HIDE DEF new
  <2> QED
    BY <1>1, <1>4, <2>1, NilIsNoRow DEF ReportRows
<1> HIDE DEF new
<1>6. \A x \in Reports \ {r} : reports'[x] = reports[x]
  BY <1>1, <1>2 DEF IInv, TypeOK
<1>7. ASSUME NEW p \in Posters
      PROVE  \/ posters'[p] = posters[p]
             \/ /\ posters[p] # Nil
                /\ posters'[p] \in PosterRows
                /\ posters'[p].report = posters[p].report
  <2>1. CASE cascade[q][p] = Nil
    BY <2>1 DEF CommitReview
  <2>2. CASE cascade[q][p] # Nil
    <3> DEFINE w == Written(cascade[q][p], posters[p].review, verdict[q])
    <3>1. posters[p] # Nil /\ posters[p] \in PosterRows
      BY <1>1, <2>2 DEF IInv, TypeOK
    <3>2. posters'[p] = [posters[p] EXCEPT !.review = w]
      BY <2>2 DEF CommitReview
    <3>3. w \in {posters[p].review, verdict[q]}
      BY WrittenOneOf
    <3>4. w \in Reviews
      BY <1>1, <3>1, <3>3 DEF PosterRows, Reviews
    <3> HIDE DEF w
    <3> QED
      BY <3>1, <3>2, <3>4 DEF PosterRows
  <2> QED
    BY <2>1, <2>2
<1>8. Kept
  BY <1>5, <1>6, <1>7, NilIsNoRow DEF Kept
<1>9. TypeOK'
  <2>1. reports' \in [Reports -> ReportRows \cup {Nil}]
    BY <1>2, <1>5, <1>6 DEF IInv, TypeOK
  <2>2. posters' \in [Posters -> PosterRows \cup {Nil}]
    BY <1>7 DEF IInv, TypeOK, CommitReview
  <2> QED
    BY <2>1, <2>2 DEF IInv, TypeOK, CommitReview, Return, Labels, NoCascade
<1>10. \A x \in Reports : CleanReport(x)'
  BY <1>4, <1>5, <1>6 DEF IInv, CleanReport, Clean
<1>11. \A p \in Posters : CleanPoster(p)'
  BY <1>7, <1>8 DEF IInv, TypeOK, PosterRows, Kept, CleanPoster, Clean
<1>12. \A o \in Requests : Pending(o)'
  BY <1>8, ReturnStep, PendingStep DEF IInv, CommitReview
<1> QED
  BY <1>9, <1>10, <1>11, <1>12 DEF IInv

\* Committing a rendered poster: its report's text is still clean.
LEMMA CommitPosterInv ==
  ASSUME IInv, NEW q \in Requests, CommitPoster(q)
  PROVE  IInv'
<1> DEFINE row == [report |-> report[q], review |-> verdict[q]]
<1>1. /\ report[q] \in Reports /\ poster[q] \in Posters
      /\ verdict[q] \in Approvable /\ Clean(report[q])
  BY DEF IInv, Pending, CommitPoster
<1>2. row \in PosterRows /\ row # Nil
  BY <1>1, NilIsNoRow DEF PosterRows, Approvable, Reviews, Verdicts
<1>3. posters' = [posters EXCEPT ![poster[q]] = row] /\ reports' = reports
  BY DEF CommitPoster
<1>4. Kept
  BY <1>1, <1>2, <1>3 DEF IInv, TypeOK, Kept
<1>5. TypeOK'
  BY <1>2, <1>3 DEF IInv, TypeOK, CommitPoster, Return, Labels, NoCascade
<1>6. \A x \in Reports : CleanReport(x)'
  BY <1>3 DEF IInv, CleanReport, Clean
<1>7. \A p \in Posters : CleanPoster(p)'
  BY <1>1, <1>3 DEF IInv, TypeOK, CleanPoster, Clean
<1>8. \A o \in Requests : Pending(o)'
  BY <1>4, ReturnStep, PendingStep DEF IInv, CommitPoster
<1> QED
  BY <1>5, <1>6, <1>7, <1>8 DEF IInv

\* Committing the review of one poster.
LEMMA CommitPosterReviewInv ==
  ASSUME IInv, NEW q \in Requests, CommitPosterReview(q)
  PROVE  IInv'
<1> DEFINE p == poster[q]
           new == Written(loaded[q], posters[p].review, verdict[q])
<1>1. /\ p \in Posters /\ posters[p] # Nil /\ posters[p] \in PosterRows
      /\ verdict[q] \in Verdicts
  BY DEF IInv, Pending, CommitPosterReview, TypeOK
<1>2. new \in {posters[p].review, verdict[q]}
  BY WrittenOneOf
<1>3. new \in Reviews
  BY <1>1, <1>2 DEF PosterRows, Reviews
<1>4. /\ posters' = [posters EXCEPT ![p] = [posters[p] EXCEPT !.review = new]]
      /\ reports' = reports
  BY DEF CommitPosterReview
<1> HIDE DEF new
<1>5. posters'[p] \in PosterRows /\ posters'[p].report = posters[p].report
  <2>1. posters'[p] = [posters[p] EXCEPT !.review = new]
    BY <1>1, <1>4 DEF IInv, TypeOK
  <2> QED
    BY <1>1, <1>3, <2>1 DEF PosterRows
<1>6. \A x \in Posters \ {p} : posters'[x] = posters[x]
  BY <1>1, <1>4 DEF IInv, TypeOK
<1>7. Kept
  BY <1>4, <1>5, <1>6, NilIsNoRow DEF Kept
<1>8. TypeOK'
  <2>1. posters' \in [Posters -> PosterRows \cup {Nil}]
    BY <1>4, <1>5, <1>6 DEF IInv, TypeOK
  <2> QED
    BY <1>4, <2>1 DEF IInv, TypeOK, CommitPosterReview, Return, Labels, NoCascade
<1>9. \A x \in Reports : CleanReport(x)'
  BY <1>4 DEF IInv, CleanReport, Clean
<1>10. \A x \in Posters : CleanPoster(x)'
  BY <1>1, <1>4, <1>5, <1>6 DEF IInv, CleanPoster, Clean
<1>11. \A o \in Requests : Pending(o)'
  BY <1>7, ReturnStep, PendingStep DEF IInv, CommitPosterReview
<1> QED
  BY <1>8, <1>9, <1>10, <1>11 DEF IInv

\* The steps that only load, and the one that rolls back.
LEMMA LoadingInv ==
  ASSUME IInv, NEW q \in Requests, UNCHANGED <<reports, posters>>,
         TypeOK', OnlyMoves(q), Pending(q)'
  PROVE  IInv'
<1>1. Kept
  BY DEF Kept
<1>2. \A o \in Requests : Pending(o)'
  BY <1>1, PendingStep
<1> QED
  BY <1>2 DEF IInv, CleanReport, CleanPoster, Clean

LEMMA StepInv == IInv /\ [Next]_vars => IInv'
<1> SUFFICES ASSUME IInv, [Next]_vars PROVE IInv'
  OBVIOUS
<1>0. TypeOK
  BY DEF IInv
<1>1. ASSUME NEW q \in Requests, NEW r \in Reports, NEW v \in Verdicts,
             LoadReport(q, r, v)
      PROVE IInv'
  <2>1. TypeOK'
    BY <1>0, <1>1 DEF TypeOK, LoadReport, Labels, ReportRows, Reviews
  <2>2. OnlyMoves(q) /\ Pending(q)'
    BY <1>0, <1>1 DEF TypeOK, LoadReport, OnlyMoves, Pending, IInv, CleanReport,
       Clean, MayReview
  <2> QED
    BY <1>1, <2>1, <2>2, LoadingInv DEF LoadReport
<1>2. ASSUME NEW q \in Requests, LoadPosters(q) PROVE IInv'
  <2>1. TypeOK'
    BY <1>0, <1>2 DEF TypeOK, LoadPosters, Labels, PosterRows
  <2>2. OnlyMoves(q) /\ Pending(q)'
    BY <1>0, <1>2 DEF TypeOK, LoadPosters, OnlyMoves, Pending, IInv, Clean
  <2> QED
    BY <1>2, <2>1, <2>2, LoadingInv DEF LoadPosters
<1>3. ASSUME NEW q \in Requests, NEW r \in Reports, NEW p \in Posters,
             BeginPoster(q, r, p)
      PROVE IInv'
  <2>1. TypeOK'
    BY <1>0, <1>3 DEF TypeOK, BeginPoster, Labels, Reviews, Verdicts
  <2>2. OnlyMoves(q) /\ Pending(q)'
    BY <1>0, <1>3 DEF TypeOK, BeginPoster, OnlyMoves, Pending, Clean, CanRender,
       Approvable
  <2> QED
    BY <1>3, <2>1, <2>2, LoadingInv DEF BeginPoster
<1>4. ASSUME NEW q \in Requests, RenderFails(q) PROVE IInv'
  <2>1. TypeOK'
    BY <1>0, <1>4 DEF TypeOK, RenderFails, Return, Labels, NoCascade
  <2> QED
    BY <1>0, <1>4, <2>1, ReturnStep, LoadingInv DEF RenderFails
<1>5. ASSUME NEW q \in Requests, NEW p \in Posters, NEW v \in Verdicts,
             LoadPoster(q, p, v)
      PROVE IInv'
  <2>1. TypeOK'
    BY <1>0, <1>5 DEF TypeOK, LoadPoster, Labels, PosterRows, Reviews
  <2>2. OnlyMoves(q) /\ Pending(q)'
    BY <1>0, <1>5 DEF TypeOK, LoadPoster, OnlyMoves, Pending
  <2> QED
    BY <1>5, <2>1, <2>2, LoadingInv DEF LoadPoster
<1>6. CASE UNCHANGED vars
  BY <1>6 DEF vars, local, IInv, TypeOK, CleanReport, CleanPoster, Clean, Pending
<1> QED
  BY <1>1, <1>2, <1>3, <1>4, <1>5, <1>6, GenerateReportInv, CommitReviewInv,
     CommitPosterInv, CommitPosterReviewInv DEF Next

-----------------------------------------------------------------------------
\* IInv is an invariant: however requests overlap, what is about to be committed
\* rests on a generation status that cannot have changed since it was read.
THEOREM InductiveInvariant == Spec => []IInv
BY InitInv, StepInv, PTL DEF Spec

\* Type correctness of ReportReview.
THEOREM TypeCorrect == Spec => []TypeOK
<1>1. IInv => TypeOK
  BY DEF IInv
<1> QED
  BY <1>1, InductiveInvariant, PTL

\* However many requests overlap, no text with warnings, and none that no LLM
\* produced, is approved or turned into a poster.
THEOREM ReleasedTextIsChecked == Spec => []OnlyCheckedTextIsReleased
<1>1. IInv => OnlyCheckedTextIsReleased
  BY DEF IInv, CleanReport, CleanPoster, Clean, OnlyCheckedTextIsReleased, Approvable
<1> QED
  BY <1>1, InductiveInvariant, PTL

-----------------------------------------------------------------------------
\* One request at a time: what a request has loaded is what the tables hold.

\* No request but q is being served.
Alone(q) == \A o \in Requests \ {q} : pc[o] = "idle"

Fresh(q) ==
  /\ pc[q] \in {"reviewing", "cascading"} =>
       /\ loaded[q] = reports[report[q]].review
       /\ MayReview(report[q], verdict[q])
  /\ pc[q] = "cascading" =>
       \A p \in Posters :
         cascade[q][p] = IF posters[p] # Nil /\ posters[p].report = report[q]
                         THEN posters[p].review ELSE Nil
  /\ pc[q] = "rendering" => reports[report[q]].review \in Approvable

Serial == \A q \in Requests : pc[q] # "idle" => Alone(q) /\ Fresh(q)

SInv == IInv /\ (slots = 1 => Serial)

\* A free handler of a server of one request is the only one.
LEMMA FreeIsAlone ==
  ASSUME IInv, slots = 1, NEW q \in Requests, Free(q)
  PROVE  \A o \in Requests : pc[o] = "idle"
<1> DEFINE busy == {o \in Requests : pc[o] # "idle"}
<1>1. IsFiniteSet(busy)
  BY FS_Subset, ReviewAssumption
<1>2. Cardinality(busy) = 0
  <2>1. Cardinality(busy) < 1
    BY DEF Free
  <2> HIDE DEF busy
  <2> QED
    BY <1>1, <2>1, FS_CardinalityType
<1>3. busy = {}
  <2> HIDE DEF busy
  <2> QED
    BY <1>1, <1>2, FS_EmptySet
<1> QED
  BY <1>3

\* It is enough that the one request served stays alone and fresh.
LEMMA SerialMove ==
  ASSUME NEW q \in Requests, \A o \in Requests \ {q} : pc'[o] = "idle",
         pc'[q] # "idle" => Fresh(q)'
  PROVE  Serial'
BY DEF Serial, Alone

LEMMA SerialStep == IInv /\ (slots = 1 => Serial) /\ [Next]_vars => (slots = 1 => Serial)'
<1> SUFFICES ASSUME IInv, Serial, slots = 1, [Next]_vars PROVE Serial'
  BY DEF Next, vars, GenerateReport, LoadReport, LoadPosters, CommitReview, BeginPoster,
     CommitPoster, RenderFails, LoadPoster, CommitPosterReview, Return
<1>0. TypeOK
  BY DEF IInv
<1>1. ASSUME NEW q \in Requests, NEW r \in Reports, GenerateReport(q, r) PROVE Serial'
  BY <1>1, FreeIsAlone DEF GenerateReport, Serial
<1>2. ASSUME NEW q \in Requests, NEW r \in Reports, NEW v \in Verdicts, LoadReport(q, r, v)
      PROVE  Serial'
  <2>1. \A o \in Requests : pc[o] = "idle"
    BY <1>2, FreeIsAlone DEF LoadReport
  <2>2. Fresh(q)'
    BY <1>0, <1>2 DEF LoadReport, Fresh, TypeOK, MayReview
  <2> QED
    BY <1>0, <1>2, <2>1, <2>2, SerialMove DEF LoadReport, TypeOK
<1>3. ASSUME NEW q \in Requests, LoadPosters(q) PROVE Serial'
  <2>1. Alone(q) /\ Fresh(q)
    BY <1>3 DEF Serial, LoadPosters
  <2>2. Fresh(q)'
    BY <1>0, <1>3, <2>1 DEF LoadPosters, Fresh, TypeOK, MayReview
  <2> QED
    BY <1>0, <1>3, <2>1, <2>2, SerialMove DEF LoadPosters, TypeOK, Alone
<1>4. ASSUME NEW q \in Requests, NEW r \in Reports, NEW p \in Posters, BeginPoster(q, r, p)
      PROVE  Serial'
  <2>1. \A o \in Requests : pc[o] = "idle"
    BY <1>4, FreeIsAlone DEF BeginPoster
  <2>2. Fresh(q)'
    BY <1>0, <1>4 DEF BeginPoster, CanRender, Fresh, TypeOK
  <2> QED
    BY <1>0, <1>4, <2>1, <2>2, SerialMove DEF BeginPoster, TypeOK
<1>5. ASSUME NEW q \in Requests, NEW p \in Posters, NEW v \in Verdicts, LoadPoster(q, p, v)
      PROVE  Serial'
  <2>1. \A o \in Requests : pc[o] = "idle"
    BY <1>5, FreeIsAlone DEF LoadPoster
  <2>2. Fresh(q)'
    BY <1>0, <1>5 DEF LoadPoster, Fresh, TypeOK
  <2> QED
    BY <1>0, <1>5, <2>1, <2>2, SerialMove DEF LoadPoster, TypeOK
<1>6. ASSUME NEW q \in Requests, pc[q] # "idle", Return(q) PROVE Serial'
  <2>1. Alone(q)
    BY <1>6 DEF Serial
  <2> QED
    BY <1>0, <1>6, <2>1, SerialMove DEF Return, TypeOK, Alone
<1>7. CASE UNCHANGED vars
  BY <1>7 DEF vars, local, Serial, Alone, Fresh, MayReview
<1> QED
  BY <1>1, <1>2, <1>3, <1>4, <1>5, <1>6, <1>7
  DEF Next, CommitReview, CommitPoster, RenderFails, CommitPosterReview

THEOREM SerialInvariant == Spec => []SInv
<1>1. Init => SInv
  BY InitInv DEF SInv, Serial, Init
<1>2. SInv /\ [Next]_vars => SInv'
  BY StepInv, SerialStep DEF SInv
<1> QED
  BY <1>1, <1>2, PTL DEF Spec

\* The verdict of a request that is alone reaches the report and all its posters.
LEMMA SerialReview ==
  ASSUME SInv, slots = 1, NEW q \in Requests, CommitReview(q)
  PROVE  /\ report[q] \in Reports /\ reports[report[q]] # Nil
         /\ MayReview(report[q], verdict[q])
         /\ reports'[report[q]] # Nil /\ reports'[report[q]].review = verdict[q]
         /\ \A r \in Reports \ {report[q]} : reports'[r] = reports[r]
         /\ \A p \in Posters :
              (posters[p] # Nil /\ posters[p].report = report[q])
                => posters'[p].review = verdict[q]
<1> PICK r, v : r = report[q] /\ v = verdict[q]
  OBVIOUS
<1>1. /\ TypeOK /\ r \in Reports /\ reports[r] # Nil /\ Fresh(q) /\ pc[q] = "cascading"
      /\ v \in Verdicts
  BY DEF SInv, IInv, Pending, Serial, CommitReview
<1>2. reports[r] \in ReportRows
  BY <1>1 DEF TypeOK
<1>3. reports' = [reports EXCEPT ![r] = [reports[r] EXCEPT !.review = v]]
  <2>1. Written(loaded[q], reports[r].review, v) = v
    BY <1>1 DEF Fresh, Written
  <2> QED
    BY <1>1, <2>1 DEF CommitReview
<1>4. reports'[r] = [reports[r] EXCEPT !.review = v]
  BY <1>1, <1>3 DEF TypeOK
<1>5. reports'[r] \in ReportRows /\ reports'[r].review = v
  BY <1>1, <1>2, <1>4 DEF ReportRows, Reviews
<1>6. ASSUME NEW p \in Posters, posters[p] # Nil, posters[p].report = r
      PROVE  posters'[p].review = v
  <2>1. cascade[q][p] = posters[p].review /\ posters[p] \in PosterRows
    BY <1>1, <1>6 DEF Fresh, TypeOK
  <2>2. cascade[q][p] # Nil
    BY <2>1, NilIsNoRow DEF PosterRows
  <2>3. posters'[p] = [posters[p] EXCEPT !.review = v]
    BY <2>1, <2>2 DEF CommitReview, Written
  <2> QED
    BY <2>1, <2>3 DEF PosterRows
<1>7. MayReview(r, v)
  BY <1>1 DEF Fresh
<1> QED
  BY <1>1, <1>3, <1>5, <1>6, <1>7, NilIsNoRow DEF TypeOK

\* Only generating inserts a report, and only a review changes one.
LEMMA ReportsChange ==
  ASSUME IInv, [Next]_vars, NEW r \in Reports, reports[r] # Nil
  PROVE  reports'[r] = reports[r] \/ \E q \in Requests : CommitReview(q)
BY DEF IInv, TypeOK, Next, vars, GenerateReport, LoadReport, LoadPosters, BeginPoster,
   CommitPoster, RenderFails, LoadPoster, CommitPosterReview

\* One request at a time: no review takes a report out of "rejected".
THEOREM RejectedStaysRejected == Spec => RejectionIsFinal
<1>1. ASSUME SInv, [Next]_vars, slots = 1, NEW r \in Reports, Rejected(r)
      PROVE  Rejected(r)'
  <2>1. reports[r] # Nil /\ reports[r].review = "rejected"
    BY <1>1 DEF Rejected
  <2>2. CASE reports'[r] = reports[r]
    BY <2>1, <2>2 DEF Rejected
  <2>3. ASSUME NEW q \in Requests, CommitReview(q) PROVE Rejected(r)'
    <3>1. CASE r # report[q]
      BY <1>1, <2>1, <2>3, <3>1, SerialReview DEF Rejected
    <3>2. CASE r = report[q]
      <4>1. verdict[q] \in Verdicts
        BY <1>1, <2>3 DEF SInv, IInv, Pending, CommitReview
      <4>2. verdict[q] = "rejected"
        BY <1>1, <2>1, <2>3, <3>2, <4>1, SerialReview
        DEF MayReview, Approvable, Verdicts
      <4> QED
        BY <1>1, <2>3, <3>2, <4>2, SerialReview DEF Rejected
    <3> QED
      BY <3>1, <3>2
  <2> QED
    BY <1>1, <2>1, <2>2, <2>3, ReportsChange DEF SInv
<1>2. SInv /\ [Next]_vars => (slots = 1 => \A r \in Reports : Rejected(r) => Rejected(r)')
  BY <1>1
<1> QED
  BY <1>2, SerialInvariant, PTL DEF Spec, RejectionIsFinal

\* One request at a time: a change of a report's review reaches every poster of it in
\* the same commit.
THEOREM ReviewsReachPosters == Spec => ReviewReachesPosters
<1>1. ASSUME SInv, [Next]_vars, slots = 1, NEW r \in Reports,
             reports[r] # Nil, reports'[r] # reports[r],
             NEW p \in Posters, posters[p] # Nil, posters[p].report = r
      PROVE  posters'[p].review = reports'[r].review
  <2>1. PICK q \in Requests : CommitReview(q)
    BY <1>1, ReportsChange DEF SInv
  <2>2. r = report[q]
    BY <1>1, <2>1, SerialReview
  <2> QED
    BY <1>1, <2>1, <2>2, SerialReview
<1>2. SInv /\ [Next]_vars =>
        (slots = 1 =>
           \A r \in Reports :
             (reports[r] # Nil /\ reports'[r] # reports[r]) =>
               \A p \in Posters :
                 (posters[p] # Nil /\ posters[p].report = r)
                   => posters'[p].review = reports'[r].review)
  BY <1>1
<1> QED
  BY <1>2, SerialInvariant, PTL DEF Spec, ReviewReachesPosters

\* One request at a time: a poster is added only to a report that is fact-checked or
\* approved when it is committed.
THEOREM NewPostersAreReleasable == Spec => SerialPosterIsReleasable
<1>1. ASSUME SInv, [Next]_vars, slots = 1, NEW p \in Posters,
             posters[p] = Nil, posters'[p] # Nil
      PROVE  reports[posters'[p].report].review \in Approvable
  <2>0. TypeOK
    BY <1>1 DEF SInv, IInv
  <2>1. ASSUME NEW q \in Requests, CommitPoster(q)
        PROVE  reports[posters'[p].report].review \in Approvable
    <3>1. posters' = [posters EXCEPT ![poster[q]] = [report |-> report[q], review |-> verdict[q]]]
      BY <2>1 DEF CommitPoster
    <3>2. posters'[p].report = report[q]
      BY <1>1, <2>0, <3>1 DEF TypeOK
    <3>3. reports[report[q]].review \in Approvable
      BY <1>1, <2>1 DEF SInv, Serial, Fresh, CommitPoster
    <3> QED
      BY <3>2, <3>3
  <2>2. ASSUME NEW q \in Requests, CommitReview(q) PROVE posters'[p] = Nil
    <3>1. cascade[q][p] = Nil
      BY <1>1, <2>2 DEF SInv, IInv, Pending, CommitReview
    <3> QED
      BY <1>1, <2>2, <3>1 DEF CommitReview
  <2>3. ASSUME NEW q \in Requests, CommitPosterReview(q) PROVE posters'[p] = Nil
    <3>1. posters[poster[q]] # Nil
      BY <1>1, <2>3 DEF SInv, IInv, Pending, CommitPosterReview
    <3> QED
      BY <1>1, <2>0, <2>3, <3>1 DEF TypeOK, CommitPosterReview
  <2> QED
    BY <1>1, <2>1, <2>2, <2>3
    DEF Next, vars, GenerateReport, LoadReport, LoadPosters, BeginPoster, RenderFails,
        LoadPoster
<1>2. SInv /\ [Next]_vars => (slots = 1 => NewPosterIsReleasable)
  BY <1>1 DEF NewPosterIsReleasable
<1> QED
  BY <1>2, SerialInvariant, PTL DEF Spec, SerialPosterIsReleasable

=============================================================================
