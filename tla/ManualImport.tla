---------------------------- MODULE ManualImport ----------------------------
(***************************************************************************)
(* ManualImportService.import_records: a batch of records of one kind is   *)
(* validated, its rows are loaded and assigned, and all of it is stored by *)
(* one commit, or nothing is.                                              *)
(*                                                                         *)
(* A batch is its request: the kind, the certainty it claims, whether it   *)
(* names its source and the source's address, and its records.  One action *)
(* reads what the records touch, a second one commits; synchronisation and *)
(* other imports come in between.                                          *)
(***************************************************************************)
EXTENDS FactStore

CONSTANTS
  Imported,   \* the kinds that are imported
  MaxRecords  \* bound on the records of a batch

VARIABLES
  stage,      \* [Batches -> how far the request has come]
  batch,      \* [Batches -> the request, Nil unless loaded or stored]
  assigned    \* [Batches -> changes of the session, not yet committed]

importVars == <<stage, batch, assigned>>

-----------------------------------------------------------------------------

ImportKinds == {"matches", "results", "standings", "injuries", "lineups", "statistics"}

ASSUME ImportAssumption ==
  /\ Imported \subseteq ImportKinds
  /\ MaxRecords \in Nat \ {0}

\* A record names its row; one of a result carries the score.
Records(kind) ==
  {r \in [key: Keys, score: Scores \cup {Nil}] :
     /\ r.key[1] \in IF kind = "lineups" THEN {"lineups", "entries"} ELSE {kind}
     /\ r.score = Nil <=> kind # "results"}

Batch == [kind: Imported, certainty: {"official", "reported"}, sourced: BOOLEAN,
          records: SUBSET [key: Keys, score: Scores \cup {Nil}]]

\* The checks import_records makes before it writes anything.
Valid(r) == r.records # {} /\ (r.certainty = "official" => r.sourced)

-----------------------------------------------------------------------------
\* _save_<kind>: whether a record is refused, and what it assigns.

\* Seeded defect: a stored result is looked for under the batch's own source.
ContradictsImported(rec) ==
  LET old == fact[rec.key]
  IN  rec.key[1] = "results" /\ old # Nil /\ old.source # Provider /\ old.score # rec.score

\* result_conflict: the stored score is another one.
Contradicts(rec) ==
  LET old == fact[rec.key]
  IN  rec.key[1] = "results" /\ old # Nil /\ old.score # rec.score

\* Standings, injuries and statistics overwrite whatever row there is with the
\* batch's values and certainty.
SaveFact(b, k, certainty) ==
  {Change(k, [source |-> b, certainty |-> certainty])}

\* A match of the source is inserted once; one that exists stays as it is.
SaveMatch(b, k, certainty) ==
  IF fact[k] = Nil THEN SaveFact(b, k, certainty) ELSE {}

SaveResult(b, k, score) == {Change(k, [source |-> b, score |-> score])}

\* A lineup entry is always inserted, and the match's status is set.  Players
\* without an id of the provider never meet the unique constraint.
SaveLineup(b, k, certainty) ==
  {[Change(k, [source |-> b, certainty |-> certainty])
      EXCEPT !.insert = k[1] = "lineups" \/ fact[k] = Nil],
   Change(<<"lineup_status", k[2]>>, [certainty |-> certainty])}

Save(b, r, rec) ==
  CASE r.kind = "results" -> SaveResult(b, rec.key, rec.score)
    [] r.kind = "matches" -> SaveMatch(b, rec.key, r.certainty)
    [] r.kind = "lineups" -> SaveLineup(b, rec.key, r.certainty)
    [] OTHER -> SaveFact(b, rec.key, r.certainty)

-----------------------------------------------------------------------------

Refuse(b) ==
  /\ stage' = [stage EXCEPT ![b] = "refused"]
  /\ batch' = [batch EXCEPT ![b] = Nil]
  /\ assigned' = [assigned EXCEPT ![b] = {}]

\* Seeded defect: a record is committed before the next one is looked at.
ImportEach(b, r) ==
  LET good == {rec \in r.records : ~Contradicts(rec)}
      saved == UNION {Save(b, r, rec) : rec \in good}
  IN  /\ stage[b] = "none"
      /\ Valid(r) /\ ~Conflict(saved)
      /\ fact' = Stored(saved)
      /\ IF good = r.records
         THEN /\ stage' = [stage EXCEPT ![b] = "stored"]
              /\ batch' = [batch EXCEPT ![b] = r]
              /\ UNCHANGED assigned
         ELSE Refuse(b)

\* The request is validated and every record's row loaded and assigned.  A
\* record that contradicts a result, names a match, team or competition that is
\* not stored, changes a match's teams, or does not parse, refuses the batch.
Import(b, r) ==
  /\ stage[b] = "none"
  /\ \/ Refuse(b)
     \/ /\ Valid(r)
        /\ ~\E rec \in r.records : Contradicts(rec)
        /\ stage' = [stage EXCEPT ![b] = "loaded"]
        /\ batch' = [batch EXCEPT ![b] = r]
        /\ assigned' = [assigned EXCEPT ![b] = UNION {Save(b, r, rec) : rec \in r.records}]
  /\ UNCHANGED fact

\* The commit.  An IntegrityError, also of the new source or season, leaves
\* nothing behind.
StoreBatch(b) ==
  /\ stage[b] = "loaded"
  /\ \/ /\ ~Conflict(assigned[b])
        /\ fact' = Stored(assigned[b])
        /\ stage' = [stage EXCEPT ![b] = "stored"]
        /\ assigned' = [assigned EXCEPT ![b] = {}]
        /\ UNCHANGED batch
     \/ Refuse(b) /\ UNCHANGED fact

ImportInit ==
  /\ stage = [b \in Batches |-> "none"]
  /\ batch = [b \in Batches |-> Nil]
  /\ assigned = [b \in Batches |-> {}]

\* The requests an import route accepts.  Whether the source is named is only
\* looked at where the batch claims to be official, and results carry no
\* certainty, so the other combinations are no different.
Post(b) ==
  \E kind \in Imported, certainty \in {"official", "reported"}, sourced \in BOOLEAN :
    /\ certainty = "reported" => ~sourced
    /\ kind = "results" => certainty = "reported"
    /\ \E records \in SUBSET Records(kind) :
         /\ Cardinality(records) <= MaxRecords
         /\ Import(b, [kind |-> kind, certainty |-> certainty, sourced |-> sourced,
                       records |-> records])

ImportNext == \E b \in Batches : Post(b) \/ StoreBatch(b)

=============================================================================
