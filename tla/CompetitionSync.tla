--------------------------- MODULE CompetitionSync ---------------------------
(***************************************************************************)
(* IngestionService beyond the single provider call: the mapping of        *)
(* competitions to the provider's leagues, the coverage rows that decide   *)
(* which optional facts may be requested, and the scheduled loops and API  *)
(* requests that synchronise facts under them.                             *)
(*                                                                         *)
(* A loop uses one session for all of its items, swallows what an item     *)
(* raises, and never rolls back.  So the changes of an item that raised    *)
(* stay pending and are committed with the next item, and after a failed   *)
(* flush every further use of the session raises.                          *)
(*                                                                         *)
(* A provider call (cache, gate, attempts: ProviderQuota) is an answer or  *)
(* an exception here, except that the leagues response is kept, because    *)
(* coverage rows are dated by it.  One action is one transaction, or the   *)
(* part of an item before a provider call or a commit.                     *)
(***************************************************************************)
EXTENDS FactStore

CONSTANTS
  Tasks,      \* task executions and requests the behaviour may use
  Requested,  \* the kinds the API is asked to synchronise
  Listed,     \* competitions found in the leagues response
  Offers,     \* [Competitions -> kinds the provider's coverage permits]
  Ended,      \* matches with a finished status
  Rank,       \* [Competitions -> position in TARGET_COMPETITIONS]
  Window,     \* provider_coverage_cache_days
  MaxTime     \* bound on the clock

VARIABLES
  now,        \* the clock
  leagues,    \* when the newest leagues snapshot was retrieved, or Nil
  mapped,     \* competitions with a league id
  coverage,   \* [Competitions -> row of competition_coverages, or Nil]
  pc,         \* [Tasks -> where the session stands]
  loop,       \* [Tasks -> which loop, or "request"]
  todo,       \* [Tasks -> items not begun]
  item,       \* [Tasks -> the competition or match being synchronised]
  plan,       \* [Tasks -> kinds still to synchronise for the item]
  got,        \* [Tasks -> time of the leagues snapshot the session was given]
  pending,    \* [Tasks -> changes not yet committed]
  broken      \* tasks whose session refuses everything since a flush failed

providerVars == <<now, leagues, mapped, coverage>>
sessionVars  == <<pc, loop, todo, item, plan, got, pending, broken>>
syncVars     == <<providerVars, sessionVars>>
restVars     == <<loop, todo, item, plan, got, pending, broken>>

-----------------------------------------------------------------------------

Times        == 0..MaxTime
CoverageRows == [permits: SUBSET Optional, expires: 0..(MaxTime + Window)]

\* Loops over matches name the failed match in their log record, which reads
\* an attribute through the session; loops over codes do not.
CodeLoops  == {"fixtures", "standings", "results"}
MatchLoops == {"context", "pre_match"}

Kinds == Optional \cup {"competitions", "fixtures", "results"}

ASSUME SyncAssumption ==
  /\ Listed \subseteq Competitions
  /\ Offers \in [Competitions -> SUBSET Optional]
  /\ Ended \subseteq Matches
  /\ Requested \subseteq Kinds
  /\ Rank \in [Competitions -> Nat]
  /\ Window \in Nat \ {0} /\ MaxTime \in Nat
  /\ Nil \notin Times \cup CoverageRows \cup CodeLoops \cup MatchLoops \cup {"request"}

\* What an item of a loop, or a request, synchronises.  Lineups are added to a
\* match within 90 minutes of its kickoff.
Plans(l, s) ==
  CASE l = "context"   -> {<<"injuries">>}
    [] l = "pre_match" -> {<<"injuries">>, <<"injuries", "lineups">>}
    [] l = "request"   -> {<<k>> : k \in {k \in Requested : s \in Matches <=> k \in OfMatch \ {"results"}}}
    [] OTHER           -> {<<l>>}

Kind(t) == Head(plan[t])
Code(t) == IF item[t] \in Matches THEN CompetitionOf[item[t]] ELSE item[t]

Goto(t, label) == pc' = [pc EXCEPT ![t] = label]

\* The session is closed; what it has not committed is lost.
Close(t) ==
  /\ Goto(t, "ended")
  /\ todo' = [todo EXCEPT ![t] = {}]
  /\ loop' = [loop EXCEPT ![t] = Nil]
  /\ item' = [item EXCEPT ![t] = Nil]
  /\ plan' = [plan EXCEPT ![t] = <<>>]
  /\ got' = [got EXCEPT ![t] = Nil]
  /\ pending' = [pending EXCEPT ![t] = {}]
  /\ broken' = broken \ {t}

\* On to the next item.
Leave(t) ==
  /\ Goto(t, "next")
  /\ item' = [item EXCEPT ![t] = Nil]
  /\ plan' = [plan EXCEPT ![t] = <<>>]
  /\ got' = [got EXCEPT ![t] = Nil]
  /\ UNCHANGED <<todo, loop>>

\* The item raises without having touched the database.
Raise(t) == Leave(t) /\ UNCHANGED <<pending, broken>>

\* Seeded defect: every loop names the failed item in its log record.
BreakEndsLoop(t) == Close(t)

\* A flush fails: the session is rolled back and unusable from here on.  The
\* handler of a loop over matches raises in its turn, which ends the task.
Break(t) ==
  IF loop[t] \in MatchLoops
  THEN Close(t)
  ELSE /\ Leave(t)
       /\ pending' = [pending EXCEPT ![t] = {}]
       /\ broken' = broken \cup {t}

-----------------------------------------------------------------------------
\* The loops of ingestion_tasks.py and the routes of api/v1/ingestion.py.

Begin(t, l, items) ==
  /\ pc[t] = "idle"
  /\ items # {}
  /\ Goto(t, "next")
  /\ loop' = [loop EXCEPT ![t] = l]
  /\ todo' = [todo EXCEPT ![t] = items]
  /\ UNCHANGED <<fact, providerVars, item, plan, got, pending, broken>>

SyncFutureFixtures(t) == Begin(t, "fixtures", Competitions)
SyncDailyStandings(t) == Begin(t, "standings", Competitions)

\* Matches with an automation run that has not ended.
SyncContext(t) == \E ms \in SUBSET Matches : Begin(t, "context", ms)

\* Matches that kick off within 24 hours.
RefreshPreMatchContext(t) == \E ms \in SUBSET Matches : Begin(t, "pre_match", ms)

\* Competitions with a predicted, finished match that has no result.
SyncPostMatchResults(t) ==
  Begin(t, "results",
        {CompetitionOf[m] : m \in {m \in Ended : fact[<<"results", m>>] = Nil}})

ApiSync(t) == \E s \in Competitions \cup Matches :
                Plans("request", s) # {} /\ Begin(t, "request", {s})

\* Loops over codes go through them in order; a query orders nothing.
Turn(t, s) == loop[t] \in CodeLoops => \A other \in todo[t] : Rank[s] <= Rank[other]

\* The next item.  A broken session raises at the first query of its call.
Take(t) ==
  /\ pc[t] = "next"
  /\ \E s \in todo[t] :
       /\ Turn(t, s)
       /\ todo' = [todo EXCEPT ![t] = @ \ {s}]
       /\ IF t \in broken
          THEN UNCHANGED <<pc, item, plan>>
          ELSE /\ item' = [item EXCEPT ![t] = s]
               /\ \E p \in Plans(loop[t], s) : plan' = [plan EXCEPT ![t] = p]
               /\ Goto(t, "check")
  /\ UNCHANGED <<fact, providerVars, loop, got, pending, broken>>

Finish(t) ==
  /\ pc[t] = "next"
  /\ todo[t] = {}
  /\ Close(t)
  /\ UNCHANGED <<fact, providerVars>>

-----------------------------------------------------------------------------
\* One item: coverage, the provider's answer, the commit.

\* Seeded defect: only a flag that is present and false refuses.
PermitsUnlessFalse(row, kind) == row.permits = {} \/ kind \in row.permits

Permits(row, kind) == kind \in row.permits

\* The provider is asked, or coverage_unavailable is raised.
Decide(t, row) ==
  IF Permits(row, Kind(t))
  THEN Goto(t, "call") /\ UNCHANGED restVars
  ELSE Raise(t)

Fresh(row) == row # Nil /\ row.expires > now

\* The leagues response is needed: by its own request, by fixtures of a league
\* without an id, by optional kinds without a coverage row that has not expired.
NeedsLeagues(t) ==
  \/ Kind(t) = "competitions"
  \/ Kind(t) = "fixtures" /\ Code(t) \notin mapped
  \/ Kind(t) \in Optional /\ ~Fresh(coverage[Code(t)])

\* The handler up to its first provider call.  Results do not map the league.
Check(t) ==
  /\ pc[t] = "check"
  /\ IF NeedsLeagues(t)
     THEN Goto(t, "leagues") /\ UNCHANGED restVars
     ELSE IF Kind(t) \in Optional THEN Decide(t, coverage[Code(t)])
     ELSE IF Code(t) \in mapped
     THEN Goto(t, "call") /\ UNCHANGED restVars
     ELSE Raise(t)
  /\ UNCHANGED <<fact, providerVars>>

\* After sync_competitions: its own request ends, fixtures need the mapping,
\* optional kinds store the coverage.
AfterLeagues(t) ==
  CASE Kind(t) = "competitions" -> "next"
    [] Kind(t) = "fixtures" -> IF Code(t) \in mapped' THEN "call" ELSE "next"
    [] OTHER -> "store"

\* sync_competitions: the snapshot is served from the cache or fetched, listed
\* competitions are mapped, and all that is pending is committed with it.
SyncCompetitions(t) ==
  /\ pc[t] = "leagues"
  /\ IF Conflict(pending[t])
     THEN Break(t) /\ UNCHANGED <<fact, leagues, mapped>>
     ELSE /\ leagues' = IF leagues # Nil /\ leagues + Window > now THEN leagues ELSE now
          /\ mapped' = mapped \cup Listed
          /\ fact' = Stored(pending[t])
          /\ IF AfterLeagues(t) = "next"
             THEN Leave(t)
             ELSE /\ Goto(t, AfterLeagues(t))
                  /\ got' = [got EXCEPT ![t] = leagues']
                  /\ UNCHANGED <<loop, todo, item, plan>>
          /\ pending' = [pending EXCEPT ![t] = {}]
          /\ UNCHANGED broken
  /\ UNCHANGED <<now, coverage>>

\* Seeded defect: the row is stored without its expiry.
UndatedCoverage(t) ==
  [permits |-> IF Code(t) \in Listed THEN Offers[Code(t)] ELSE {}, expires |-> Nil]

\* The row for what the response says of a competition; nothing, where it does
\* not list its league.
NewCoverage(t) ==
  [permits |-> IF Code(t) \in Listed THEN Offers[Code(t)] ELSE {},
   expires |-> got[t] + Window]

\* _ensure_coverage after sync_competitions.  The row is always inserted, and
\* (competition, season) is unique: an expired row makes the commit fail.
StoreCoverage(t) ==
  /\ pc[t] = "store"
  /\ IF coverage[Code(t)] # Nil
     THEN Break(t) /\ UNCHANGED coverage
     ELSE /\ coverage' = [coverage EXCEPT ![Code(t)] = NewCoverage(t)]
          /\ Decide(t, NewCoverage(t))
  /\ UNCHANGED <<fact, now, leagues, mapped>>

-----------------------------------------------------------------------------
\* What a response makes the handlers write.

Reported == [source |-> Provider, certainty |-> "reported"]

\* sync_standings, sync_players, sync_injuries, sync_statistics and the matches
\* of sync_matches: the rows of the response, where it has any.
Report(kind, s) == {{}, {Change(<<kind, s>>, Reported)}}

\* Seeded defect: a lineup the provider returns makes the status official.
PromoteLineups(m) ==
  {{Change(<<"lineup_status", m>>, [certainty |-> "unavailable"])},
   {Change(<<"lineup_status", m>>, [certainty |-> "official"]),
    Change(<<"lineups", m>>, Reported)}}

\* sync_lineups: the status follows whether there are any.
ReportLineups(m) ==
  {{Change(<<"lineup_status", m>>, [certainty |-> "unavailable"])},
   {Change(<<"lineup_status", m>>, [certainty |-> "reported"]),
    Change(<<"lineups", m>>, Reported)}}

\* sync_results: every match of the response with both scores, played or not.
ReportResults(c) ==
  {{Change(<<"results", m>>, [source |-> Provider, score |-> scored[m]]) :
      m \in DOMAIN scored} :
   scored \in UNION {[ms -> Scores] : ms \in SUBSET MatchesOf(c)}}

Reports(kind, s) ==
  CASE kind = "lineups" -> ReportLineups(s)
    [] kind = "results" -> ReportResults(s)
    [] OTHER -> Report(kind, s)

\* Statistics are for finished matches; standings and injuries need the league.
Callable(t) ==
  /\ Kind(t) = "statistics" => item[t] \in Ended
  /\ Kind(t) \in {"standings", "injuries"} => Code(t) \in mapped

\* The response is processed, or processing it raises before or after it has
\* assigned something, which stays pending.
Answer(t) ==
  /\ pc[t] = "call"
  /\ Callable(t)
  /\ \E changes \in Reports(Kind(t), item[t]) :
       /\ pending' = [pending EXCEPT ![t] = @ \cup changes]
       /\ \/ Goto(t, "commit") /\ UNCHANGED <<loop, todo, item, plan, got>>
          \/ Leave(t)
  /\ UNCHANGED <<fact, providerVars, broken>>

\* A refused or failing provider call, here or for the leagues.
CallRaises(t) ==
  /\ pc[t] \in {"leagues", "call"}
  /\ Raise(t)
  /\ UNCHANGED <<fact, providerVars>>

\* A row that another session, or this one, inserts as well: a source, season,
\* usage row, player or match, or a team that a response names twice.
FlushFails(t) ==
  /\ pc[t] \in {"leagues", "store", "call", "commit"}
  /\ Break(t)
  /\ UNCHANGED <<fact, providerVars>>

\* The commit at the end of every handler.
Commit(t) ==
  /\ pc[t] = "commit"
  /\ IF Conflict(pending[t])
     THEN Break(t) /\ UNCHANGED fact
     ELSE /\ fact' = Stored(pending[t])
          /\ pending' = [pending EXCEPT ![t] = {}]
          /\ IF Len(plan[t]) > 1
             THEN /\ plan' = [plan EXCEPT ![t] = Tail(@)]
                  /\ Goto(t, "check")
                  /\ UNCHANGED <<loop, todo, item, got>>
             ELSE Leave(t)
          /\ UNCHANGED broken
  /\ UNCHANGED providerVars

-----------------------------------------------------------------------------

Tick == now < MaxTime /\ now' = now + 1 /\ UNCHANGED <<fact, leagues, mapped, coverage, sessionVars>>

SyncInit ==
  /\ now = 0
  /\ leagues = Nil
  /\ mapped = {}
  /\ coverage = [c \in Competitions |-> Nil]
  /\ pc = [t \in Tasks |-> "idle"]
  /\ loop = [t \in Tasks |-> Nil]
  /\ todo = [t \in Tasks |-> {}]
  /\ item = [t \in Tasks |-> Nil]
  /\ plan = [t \in Tasks |-> <<>>]
  /\ got = [t \in Tasks |-> Nil]
  /\ pending = [t \in Tasks |-> {}]
  /\ broken = {}

Start(t) ==
  \/ SyncFutureFixtures(t) \/ SyncDailyStandings(t) \/ SyncContext(t)
  \/ RefreshPreMatchContext(t) \/ SyncPostMatchResults(t) \/ ApiSync(t)

Proceed(t) ==
  \/ Take(t) \/ Finish(t) \/ Check(t) \/ SyncCompetitions(t) \/ StoreCoverage(t)
  \/ Answer(t) \/ CallRaises(t) \/ FlushFails(t) \/ Commit(t)

SyncNext == Tick \/ \E t \in Tasks : Start(t) \/ Proceed(t)

=============================================================================
