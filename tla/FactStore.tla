------------------------------ MODULE FactStore ------------------------------
(***************************************************************************)
(* The rows that synchronisation and manual import write: standings,       *)
(* player statistics, injuries, lineups, match statistics, results.        *)
(*                                                                         *)
(* A session collects changes and flushes them when it commits.  It is     *)
(* made with autoflush=False, so its own SELECTs do not see them before.   *)
(* An INSERT of a row that exists by then breaks a unique constraint, and  *)
(* nothing is stored.  An UPDATE writes the columns that differ from what  *)
(* the session loaded.                                                     *)
(*                                                                         *)
(* The rows one kind has for one competition, or one match, are one row    *)
(* here: who wrote its values, how certain they are, and for a result the  *)
(* score.                                                                  *)
(***************************************************************************)
EXTENDS Integers, Sequences, FiniteSets

CONSTANTS
  Competitions,   \* codes of the target competitions
  Matches,        \* stored matches with an id of the provider
  CompetitionOf,  \* [Matches -> Competitions]
  Batches,        \* manual imports the behaviour may use
  Scores,         \* scores a result may have
  Provider,       \* the provider as a writer
  Nil             \* SQL NULL, no row

VARIABLE fact     \* [Keys -> row, or Nil]

-----------------------------------------------------------------------------

\* Kinds of facts the provider may not offer for a competition.
Optional == {"standings", "players", "injuries", "lineups", "statistics"}

\* "matches" are those of an import's own source, "fixtures" the provider's;
\* "entries" are lineup entries of players the provider does not list.
OfCompetition == {"fixtures", "matches", "standings", "players"}
OfMatch       == {"injuries", "lineups", "entries", "lineup_status", "statistics", "results"}

Keys == (OfCompetition \X Competitions) \cup (OfMatch \X Matches)

MatchesOf(c)    == {m \in Matches : CompetitionOf[m] = c}
CompetitionIn(k) == IF k[1] \in OfCompetition THEN k[2] ELSE CompetitionOf[k[2]]

Writers     == {Provider} \cup Batches
Certainties == {"official", "reported", "unavailable"}
Columns     == {"source", "certainty", "score"}
Rows        == [source: Writers \cup {Nil}, certainty: Certainties \cup {Nil},
                score: Scores \cup {Nil}]

ASSUME StoreAssumption ==
  /\ CompetitionOf \in [Matches -> Competitions]
  /\ Competitions \cap Matches = {}
  /\ Provider \notin Batches
  /\ Nil \notin Rows \cup Writers \cup Scores \cup Certainties
                     \cup Competitions \cup Matches

Blank == [source |-> Nil, certainty |-> Nil, score |-> Nil]

-----------------------------------------------------------------------------

\* A session loads the row of k and assigns values to some of its columns.  A
\* snapshot is new with every response, so source is always written.
Change(k, values) ==
  LET old == fact[k]
  IN  [key    |-> k,
       insert |-> old = Nil,
       wrote  |-> [col \in {col \in DOMAIN values :
                              \/ old = Nil
                              \/ col = "source"
                              \/ values[col] # old[col]} |-> values[col]]]

\* The flush breaks a unique constraint: the row was committed by another
\* session meanwhile, or this session inserts it twice.
Conflict(changes) ==
  \E ch \in changes :
    /\ ch.insert
    /\ \/ fact[ch.key] # Nil
       \/ \E twin \in changes \ {ch} : twin.insert /\ twin.key = ch.key

Written(ch, row) ==
  [col \in Columns |-> IF col \in DOMAIN ch.wrote THEN ch.wrote[col]
                       ELSE IF ch.insert THEN Blank[col] ELSE row[col]]

\* The rows after the commit of changes that meet no conflict.
Stored(changes) ==
  [k \in Keys |-> IF \E ch \in changes : ch.key = k
                  THEN Written(CHOOSE ch \in changes : ch.key = k, fact[k])
                  ELSE fact[k]]

\* A match is stored with the lineup status "unavailable".
NoFacts ==
  [k \in Keys |-> IF k[1] = "lineup_status"
                  THEN [Blank EXCEPT !.certainty = "unavailable"] ELSE Nil]

=============================================================================
