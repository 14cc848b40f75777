------------------------------ MODULE DataIntake ------------------------------
(***************************************************************************)
(* Synchronisation and manual import over the same rows.                   *)
(***************************************************************************)
EXTENDS CompetitionSync, ManualImport

vars == <<fact, syncVars, importVars>>

Init == fact = NoFacts /\ SyncInit /\ ImportInit

Next ==
  \/ SyncNext /\ UNCHANGED importVars
  \/ ImportNext /\ UNCHANGED syncVars

Spec == Init /\ [][Next]_vars

-----------------------------------------------------------------------------
(***************************************************************************)
(* Properties                                                              *)
(***************************************************************************)

IsChange(ch) ==
  /\ DOMAIN ch = {"key", "insert", "wrote"}
  /\ ch.key \in Keys /\ ch.insert \in BOOLEAN
  /\ DOMAIN ch.wrote \subseteq Columns
  /\ \A col \in DOMAIN ch.wrote :
       ch.wrote[col] \in Writers \cup Certainties \cup Scores

\* Type invariant.
TypeOK ==
  /\ fact \in [Keys -> Rows \cup {Nil}]
  /\ now \in Times
  /\ leagues \in Times \cup {Nil}
  /\ mapped \subseteq Competitions
  /\ coverage \in [Competitions -> CoverageRows \cup {Nil}]
  /\ pc \in [Tasks -> {"idle", "next", "check", "leagues", "store", "call", "commit", "ended"}]
  /\ loop \in [Tasks -> CodeLoops \cup MatchLoops \cup {"request", Nil}]
  /\ todo \in [Tasks -> SUBSET (Competitions \cup Matches)]
  /\ item \in [Tasks -> Competitions \cup Matches \cup {Nil}]
  /\ \A t \in Tasks : /\ plan[t] \in Seq(Kinds)
                      /\ \A ch \in pending[t] : IsChange(ch)
  /\ got \in [Tasks -> Times \cup {Nil}]
  /\ broken \subseteq Tasks
  /\ stage \in [Batches -> {"none", "loaded", "stored", "refused"}]
  /\ batch \in [Batches -> Batch \cup {Nil}]
  /\ \A b \in Batches : \A ch \in assigned[b] : IsChange(ch)

\* docs/api-football-endpoint-audit.md 8: a missing coverage flag blocks the
\* optional call.  What the provider reported of an optional kind was requested
\* under a coverage row of its competition that permits the kind, however late,
\* with whichever other item's changes, it was committed.
StoredIsPermitted ==
  \A k \in Keys :
    (k[1] \in Optional /\ fact[k] # Nil /\ fact[k].source = Provider) =>
      LET row == coverage[CompetitionIn(k)]
      IN  row # Nil /\ k[1] \in row.permits

\* One bad record leaves nothing of its batch behind (manual_import.py 90-95):
\* what is attributed to a batch is of one that was stored, with all its records.
BatchIsAtomic ==
  /\ \A k \in Keys, b \in Batches :
       fact[k] # Nil /\ fact[k].source = b => stage[b] = "stored"
  /\ \A b \in Batches : stage[b] = "stored" =>
       \A rec \in batch[b].records : fact[rec.key] # Nil

\* docs/data-source.md 46, docs/architecture.md 36: nothing is promoted.  A row
\* or a lineup status is official only by a stored import that claimed so and
\* named its source, whatever synchronisations loaded or wrote it in between.
OfficialWasImported ==
  \A k \in Keys :
    (fact[k] # Nil /\ fact[k].certainty = "official") =>
      \E b \in Batches :
        /\ stage[b] = "stored"
        /\ batch[b].certainty = "official" /\ batch[b].sourced
        /\ \E rec \in batch[b].records :
             \/ rec.key = k
             \/ rec.key[1] \in {"lineups", "entries"} /\ k = <<"lineup_status", rec.key[2]>>

\* result_conflict (manual_import.py 157), under every interleaving of imports
\* and synchronisations: committing a batch never replaces a stored score.
ResultConflictIsRefused ==
  [][\A m \in Matches :
       LET k == <<"results", m>>
       IN  (/\ fact[k] # Nil
            /\ \E b \in Batches : stage[b] # "stored" /\ stage'[b] = "stored")
             => fact'[k].score = fact[k].score]_vars

\* One competition that fails, or breaks the session, keeps no other from being
\* tried (ingestion_tasks.py 35-41, 106-110, 128-132).
CodeLoopTriesAll ==
  [][\A t \in Tasks :
       (loop[t] \in CodeLoops /\ pc'[t] = "ended") => todo[t] = {}]_vars

=============================================================================
