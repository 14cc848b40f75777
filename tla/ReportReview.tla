---------------------------- MODULE ReportReview ----------------------------
(***************************************************************************)
(* Reports, the posters rendered from them, and the review of both, as     *)
(* requests of the API server (and the automation pipeline, which calls    *)
(* the same two services) carry them out against one database.             *)
(*                                                                         *)
(* A request is a database session: it loads rows, decides on what it      *)
(* loaded, and commits later.  The commit writes a review_status only      *)
(* where it differs from the value loaded.  A poster's row is flushed but  *)
(* not committed while the browser renders it, so no other request sees it *)
(* until then.                                                             *)
(***************************************************************************)
EXTENDS Naturals, FiniteSets

CONSTANTS
  Reports,      \* report ids the behaviour may use: bounds the generations
  Posters,      \* poster ids the behaviour may use
  Requests,     \* request handlers
  SlotChoices,  \* how many requests a deployment serves at the same time
  Nil           \* no row, nothing loaded

Verdicts == {"approved", "rejected"}
Reviews  == {"draft", "fact_checked"} \cup Verdicts
Statuses == {"generated", "warning", "llm_unavailable"}

ReportRows == [status: Statuses, review: Reviews]
PosterRows == [report: Reports, review: Reviews]

ASSUME ReviewAssumption ==
  /\ IsFiniteSet(Requests)
  /\ SlotChoices \subseteq Nat
  /\ Nil \notin ReportRows \cup PosterRows \cup Reviews \cup Reports \cup Posters

VARIABLES
  reports,  \* [Reports -> committed row of report_outputs, or Nil]
  posters,  \* [Posters -> committed row of poster_outputs, or Nil]
  pc,       \* [Requests -> what the handler has done so far]
  report,   \* [Requests -> the report it works on]
  poster,   \* [Requests -> the poster it works on, or has inserted]
  verdict,  \* [Requests -> the review status asked for, or to be inserted]
  loaded,   \* [Requests -> review_status of its report or poster as loaded]
  cascade,  \* [Requests -> [Posters -> review_status as loaded, or Nil]]
  slots     \* requests served at the same time; fixed by the deployment

local == <<report, poster, verdict, loaded, cascade>>
vars  == <<reports, posters, pc, local, slots>>

-----------------------------------------------------------------------------

NoCascade == [p \in Posters |-> Nil]

\* A handler is free and the server takes one more request.
Free(q) ==
  /\ pc[q] = "idle"
  /\ Cardinality({o \in Requests : pc[o] # "idle"}) < slots

\* The handler returns; its session is closed.
Return(q) ==
  /\ pc' = [pc EXCEPT ![q] = "idle"]
  /\ report' = [report EXCEPT ![q] = Nil]
  /\ poster' = [poster EXCEPT ![q] = Nil]
  /\ verdict' = [verdict EXCEPT ![q] = Nil]
  /\ loaded' = [loaded EXCEPT ![q] = Nil]
  /\ cascade' = [cascade EXCEPT ![q] = NoCascade]
  /\ UNCHANGED slots

\* What an UPDATE leaves in a review_status column.
Written(old, cur, new) == IF new = old THEN cur ELSE new

-----------------------------------------------------------------------------
\* ReportService.generate: one commit at its end, after the LLM call.

\* Seeded defect: warnings of the fact checker leave the report "draft" but do
\* not keep it from being counted as checked.
WarningsChecked == {[status |-> "llm_unavailable", review |-> "draft"],
                    [status |-> "warning", review |-> "fact_checked"],
                    [status |-> "generated", review |-> "fact_checked"]}

\* The rows generate can insert: no LLM; content with fact or risk warnings;
\* content without.
GeneratedRows == {[status |-> "llm_unavailable", review |-> "draft"],
                  [status |-> "warning", review |-> "draft"],
                  [status |-> "generated", review |-> "fact_checked"]}

GenerateReport(q, r) ==
  /\ Free(q)
  /\ reports[r] = Nil
  /\ \E row \in GeneratedRows : reports' = [reports EXCEPT ![r] = row]
  /\ UNCHANGED <<posters, pc, local, slots>>

-----------------------------------------------------------------------------
\* ReportService.review: load the report, load its posters, commit.

Approvable == {"fact_checked", "approved"}

\* Seeded defect: every report can be approved.
MayAsk(r, v) == TRUE

\* The check on what was loaded; a request that fails it changes nothing.
MayReview(r, v) == v = "approved" => reports[r].review \in Approvable

LoadReport(q, r, v) ==
  /\ Free(q)
  /\ reports[r] # Nil
  /\ MayReview(r, v)
  /\ pc' = [pc EXCEPT ![q] = "reviewing"]
  /\ report' = [report EXCEPT ![q] = r]
  /\ verdict' = [verdict EXCEPT ![q] = v]
  /\ loaded' = [loaded EXCEPT ![q] = reports[r].review]
  /\ UNCHANGED <<reports, posters, poster, cascade, slots>>

\* Seeded defect: only the posters that are still unreviewed are loaded.
LoadUnreviewed(q) ==
  /\ pc[q] = "reviewing"
  /\ pc' = [pc EXCEPT ![q] = "cascading"]
  /\ cascade' = [cascade EXCEPT ![q] =
                   [p \in Posters |->
                      IF posters[p] # Nil /\ posters[p].report = report[q]
                         /\ posters[p].review = "fact_checked"
                      THEN posters[p].review ELSE Nil]]
  /\ UNCHANGED <<reports, posters, report, poster, verdict, loaded, slots>>

\* The query for the report's posters sees the committed ones.
LoadPosters(q) ==
  /\ pc[q] = "reviewing"
  /\ pc' = [pc EXCEPT ![q] = "cascading"]
  /\ cascade' = [cascade EXCEPT ![q] =
                   [p \in Posters |->
                      IF posters[p] # Nil /\ posters[p].report = report[q]
                      THEN posters[p].review ELSE Nil]]
  /\ UNCHANGED <<reports, posters, report, poster, verdict, loaded, slots>>

\* The verdict is committed to the report and to every poster loaded.
CommitReview(q) ==
  /\ pc[q] = "cascading"
  /\ reports' = [reports EXCEPT ![report[q]].review =
                   Written(loaded[q], @, verdict[q])]
  /\ posters' = [p \in Posters |->
                   IF cascade[q][p] = Nil THEN posters[p]
                   ELSE [posters[p] EXCEPT !.review =
                           Written(cascade[q][p], @, verdict[q])]]
  /\ Return(q)

-----------------------------------------------------------------------------
\* PosterService.generate: check the report, flush, render, commit.

\* Seeded defect: only the generation status of the report is checked.
GeneratedOnly(r) == reports[r].status = "generated"

\* The check that only fact-checked generated reports produce posters.
CanRender(r) ==
  /\ reports[r].status = "generated"
  /\ reports[r].review \in Approvable

\* The row is flushed with the review status of the report as loaded.
BeginPoster(q, r, p) ==
  /\ Free(q)
  /\ reports[r] # Nil
  /\ CanRender(r)
  /\ posters[p] = Nil
  /\ \A o \in Requests : poster[o] # p
  /\ pc' = [pc EXCEPT ![q] = "rendering"]
  /\ report' = [report EXCEPT ![q] = r]
  /\ poster' = [poster EXCEPT ![q] = p]
  /\ verdict' = [verdict EXCEPT ![q] = IF reports[r].review = "approved"
                                       THEN "approved" ELSE "fact_checked"]
  /\ UNCHANGED <<reports, posters, loaded, cascade, slots>>

\* Seeded defect: the review status of the report is not handed to the insert.
CommitUnlabelled(q) ==
  /\ pc[q] = "rendering"
  /\ posters' = [posters EXCEPT ![poster[q]] =
                   [report |-> report[q], review |-> loaded[q]]]
  /\ Return(q)
  /\ UNCHANGED reports

\* The file is rendered and the row committed.
CommitPoster(q) ==
  /\ pc[q] = "rendering"
  /\ posters' = [posters EXCEPT ![poster[q]] =
                   [report |-> report[q], review |-> verdict[q]]]
  /\ Return(q)
  /\ UNCHANGED reports

\* The renderer raises and the flushed row is rolled back.
RenderFails(q) ==
  /\ pc[q] = "rendering"
  /\ Return(q)
  /\ UNCHANGED <<reports, posters>>

-----------------------------------------------------------------------------
\* PosterService.review: any poster, whatever its report's review says.

LoadPoster(q, p, v) ==
  /\ Free(q)
  /\ posters[p] # Nil
  /\ pc' = [pc EXCEPT ![q] = "poster_review"]
  /\ poster' = [poster EXCEPT ![q] = p]
  /\ verdict' = [verdict EXCEPT ![q] = v]
  /\ loaded' = [loaded EXCEPT ![q] = posters[p].review]
  /\ UNCHANGED <<reports, posters, report, cascade, slots>>

CommitPosterReview(q) ==
  /\ pc[q] = "poster_review"
  /\ posters' = [posters EXCEPT ![poster[q]].review =
                   Written(loaded[q], @, verdict[q])]
  /\ Return(q)
  /\ UNCHANGED reports

-----------------------------------------------------------------------------

Init ==
  /\ reports = [r \in Reports |-> Nil]
  /\ posters = [p \in Posters |-> Nil]
  /\ pc = [q \in Requests |-> "idle"]
  /\ report = [q \in Requests |-> Nil]
  /\ poster = [q \in Requests |-> Nil]
  /\ verdict = [q \in Requests |-> Nil]
  /\ loaded = [q \in Requests |-> Nil]
  /\ cascade = [q \in Requests |-> NoCascade]
  /\ slots \in SlotChoices

Next ==
  \E q \in Requests :
    \/ \E r \in Reports : GenerateReport(q, r)
    \/ \E r \in Reports, v \in Verdicts : LoadReport(q, r, v)
    \/ LoadPosters(q) \/ CommitReview(q)
    \/ \E r \in Reports, p \in Posters : BeginPoster(q, r, p)
    \/ CommitPoster(q) \/ RenderFails(q)
    \/ \E p \in Posters, v \in Verdicts : LoadPoster(q, p, v)
    \/ CommitPosterReview(q)

Spec == Init /\ [][Next]_vars

-----------------------------------------------------------------------------
(***************************************************************************)
(* Properties                                                              *)
(***************************************************************************)

Labels == {"idle", "reviewing", "cascading", "rendering", "poster_review"}

\* Type invariant.
TypeOK ==
  /\ reports \in [Reports -> ReportRows \cup {Nil}]
  /\ posters \in [Posters -> PosterRows \cup {Nil}]
  /\ pc \in [Requests -> Labels]
  /\ report \in [Requests -> Reports \cup {Nil}]
  /\ poster \in [Requests -> Posters \cup {Nil}]
  /\ verdict \in [Requests -> Reviews \cup {Nil}]
  /\ loaded \in [Requests -> Reviews \cup {Nil}]
  /\ cascade \in [Requests -> [Posters -> Reviews \cup {Nil}]]
  /\ slots \in SlotChoices

Rejected(r) == reports[r] # Nil /\ reports[r].review = "rejected"

\* Whatever requests overlap, an LLM text that carries fact or risk warnings,
\* or that no LLM produced, is never approved and no poster is made from it
\* (reporting/service.py 83, posters/service.py 32).
OnlyCheckedTextIsReleased ==
  /\ \A r \in Reports : (reports[r] # Nil /\ reports[r].review = "approved")
                          => reports[r].status = "generated"
  /\ \A p \in Posters : posters[p] # Nil
                          => /\ reports[posters[p].report] # Nil
                             /\ reports[posters[p].report].status = "generated"

\* While requests are served one at a time a rejected report stays rejected:
\* approving it is refused (reporting/service.py 83).
RejectionIsFinal ==
  [][slots = 1 => \A r \in Reports : Rejected(r) => Rejected(r)']_vars

\* While requests are served one at a time, whenever the review of a report
\* changes, every poster of it carries that same status from then on until the
\* poster itself is reviewed (docs/database-design.md 50).
ReviewReachesPosters ==
  [][slots = 1 =>
       \A r \in Reports :
         (reports[r] # Nil /\ reports'[r] # reports[r]) =>
           \A p \in Posters :
             (posters[p] # Nil /\ posters[p].report = r)
               => posters'[p].review = reports'[r].review]_vars

\* No poster comes into being while its report is rejected or a draft.
NewPosterIsReleasable ==
  \A p \in Posters :
    (posters[p] = Nil /\ posters'[p] # Nil)
      => reports[posters'[p].report].review \in Approvable

\* While requests are served one at a time, a poster is only added to a report
\* that is fact-checked or approved at that moment.
SerialPosterIsReleasable == [][slots = 1 => NewPosterIsReleasable]_vars

\* docs/deployment.md 63: a rejected report, or one that is only a draft, cannot
\* produce a final poster asset, however requests overlap.
PosterIsReleasable == [][NewPosterIsReleasable]_vars

=============================================================================
