---------------------------- MODULE ProviderQuota ----------------------------
(***************************************************************************)
(* One synchronisation request against the data provider: the snapshot     *)
(* cache, the quota gate, the HTTP attempts, and the commit that stores    *)
(* the snapshot and the day's row of provider_quota_usage.                 *)
(*                                                                         *)
(* Calls are the API requests and tasks that synchronise at the same time, *)
(* each with a database session of its own.  Time passes in periods, so    *)
(* many to a day; a call may begin before midnight and end after it.       *)
(* What is normalised and upserted from a response is left out, except     *)
(* that it may raise before the commit.  The data mode permits external    *)
(* requests and the plan mode is auto or free, the defaults.               *)
(***************************************************************************)
EXTENDS Integers, FiniteSets, FiniteSetsExt, Functions

CONSTANTS
  Calls,          \* handlers that synchronise at the same time
  Requests,       \* request hashes: an endpoint with its parameters
  Status,         \* the request of provider_status
  KindOf,         \* [Requests -> Kinds]: the kind the budget is asked for
  Window,         \* [Requests -> periods a snapshot is served from the cache]
  PeriodsPerDay,
  MaxTime,        \* bound on the clock
  MaxSent,        \* bound: no call begins on a day with so many attempts
  Plan,           \* requests per day the provider allows
  SoftLimit,      \* api_football_daily_soft_limit
  Reserve,        \* api_football_daily_reserve
  MinOptional,    \* api_football_min_remaining_for_optional
  MinLineup,      \* api_football_min_remaining_for_lineup
  MaxRetries,     \* provider_max_retries
  Headers,        \* whether a response may come with, or without, the header
  Nil             \* SQL NULL, no row

VARIABLES
  now,       \* the clock
  spent,     \* [Days -> HTTP attempts sent on that day]
  usage,     \* [Days -> row of provider_quota_usage, or Nil]
  snapshot,  \* [Requests -> newest committed snapshot, or Nil]
  source,    \* the provider's row of data_sources exists
  pc,        \* [Calls -> where the call stands]
  request,   \* [Calls -> its request]
  attempts,  \* [Calls -> HTTP attempts made]
  got,       \* [Calls -> the response: when it was retrieved, what it said]
  seen       \* [Calls -> usage row and source as loaded]

dbVars   == <<usage, snapshot, source>>
callVars == <<pc, request, attempts, got, seen>>
vars     == <<now, spent, dbVars, callVars>>

-----------------------------------------------------------------------------

Kinds == {"core", "optional", "lineups", "status"}

DayOf(t) == t \div PeriodsPerDay
Days     == {DayOf(t) : t \in 0..MaxTime}
Today    == DayOf(now)

Remainders == 0..Plan \cup {Nil}
UsageRows  == [count: Nat, remaining: Remainders]
Responses  == [at: 0..MaxTime, remaining: Remainders]
Views      == [row: UsageRows \cup {Nil}, source: BOOLEAN]

ASSUME QuotaAssumption ==
  /\ IsFiniteSet(Calls)
  /\ Status \in Requests
  /\ KindOf \in [Requests -> Kinds]
  /\ \A r \in Requests : KindOf[r] = "status" <=> r = Status
  /\ Window \in [Requests -> Nat \ {0}]
  /\ PeriodsPerDay \in Nat \ {0}
  /\ {MaxTime, MaxSent, Plan, SoftLimit, Reserve, MaxRetries} \subseteq Nat
  /\ Headers \subseteq BOOLEAN
  /\ MinOptional \in Nat /\ MinLineup \in Nat /\ MinLineup <= MinOptional
  /\ Nil \notin Int \cup Requests \cup UsageRows \cup Responses \cup Views

-----------------------------------------------------------------------------
\* The quota gate.

\* The newest usage row, whichever day it is of.
NewestUsage ==
  LET days == {d \in Days : usage[d] # Nil}
  IN  IF days = {} THEN Nil ELSE usage[Max(days)]

\* Seeded defect: the soft limit is compared one too late.
RemainingPastLimit(row, kind) ==
  IF row = Nil THEN Nil
  ELSE IF kind # "status" /\ row.count > SoftLimit THEN 0 ELSE row.remaining

\* What the gate takes the remaining allowance to be.
Remaining(row, kind) ==
  IF row = Nil THEN Nil
  ELSE IF kind # "status" /\ row.count >= SoftLimit THEN 0 ELSE row.remaining

\* Seeded defect: lineups have to leave more than optional data has to.
LineupsLast(row, kind) ==
  LET left == Remaining(row, kind)
  IN  \/ left = Nil
      \/ /\ left > 0
         /\ kind = "optional" => left > Reserve
         /\ kind = "lineups" => left > Reserve /\ left >= MinOptional

\* _assert_budget does not raise.  Unknown allowances are not limited.
Admits(row, kind) ==
  LET left == Remaining(row, kind)
  IN  \/ left = Nil
      \/ /\ left > 0
         /\ kind = "optional" => left > Reserve /\ left >= MinOptional
         /\ kind = "lineups" => left >= MinLineup

-----------------------------------------------------------------------------

Goto(w, label) == pc' = [pc EXCEPT ![w] = label]

\* The call returns or raises: its session is closed.
Close(w) ==
  /\ Goto(w, "idle")
  /\ request' = [request EXCEPT ![w] = Nil]
  /\ attempts' = [attempts EXCEPT ![w] = 0]
  /\ got' = [got EXCEPT ![w] = Nil]
  /\ seen' = [seen EXCEPT ![w] = Nil]

Fresh(r) == snapshot[r] # Nil /\ snapshot[r].at + Window[r] > now

Begin(w, r) ==
  /\ pc[w] = "idle"
  /\ spent[Today] < MaxSent
  /\ Goto(w, "lookup")
  /\ request' = [request EXCEPT ![w] = r]
  /\ UNCHANGED <<now, spent, dbVars, attempts, got, seen>>

Sync(w, r) == r # Status /\ Begin(w, r)

\* The provider is asked for its status only while data_sources has no row for
\* it: the row is named API-Football-v3, and only API-Football is asked.
HealthCheck(w) == ~source /\ Begin(w, Status)

\* No snapshot is served: the gate lets the request through or raises.
Gate(w) ==
  /\ IF Admits(NewestUsage, KindOf[request[w]])
     THEN Goto(w, "sending") /\ UNCHANGED <<request, attempts, got, seen>>
     ELSE Close(w)
  /\ UNCHANGED usage

\* Seeded defect: a response served from the cache is counted as well.
LookupCounted(w) ==
  LET r == request[w]
  IN  /\ pc[w] = "lookup"
      /\ IF Fresh(r)
         THEN /\ Close(w)
              /\ usage' = [usage EXCEPT ![DayOf(snapshot[r].at)].count = @ + 1]
         ELSE Gate(w)
      /\ UNCHANGED <<now, spent, snapshot, source>>

\* _provider_call: a snapshot that has not expired is the response, and nothing
\* is counted.  provider_status writes what that snapshot says of the allowance
\* to the row of its day.
Lookup(w) ==
  LET r == request[w]
  IN  /\ pc[w] = "lookup"
      /\ IF Fresh(r)
         THEN /\ Close(w)
              /\ IF r = Status
                 THEN usage' = [usage EXCEPT ![DayOf(snapshot[r].at)].remaining =
                                  snapshot[r].remaining]
                 ELSE UNCHANGED usage
         ELSE Gate(w)
      /\ UNCHANGED <<now, spent, snapshot, source>>

-----------------------------------------------------------------------------
\* ApiFootballProvider._get: one attempt, and what the loop makes of it.

Attempt(w) ==
  /\ pc[w] = "sending"
  /\ spent' = [spent EXCEPT ![Today] = @ + 1]
  /\ UNCHANGED <<now, dbVars>>

\* The provider answers; its header, where there is one, tells what is left.
Succeed(w) ==
  /\ Attempt(w)
  /\ spent[Today] < Plan
  /\ \E header \in Headers :
       got' = [got EXCEPT ![w] =
                 [at |-> now,
                  remaining |-> IF header THEN Plan - spent'[Today] ELSE Nil]]
  /\ attempts' = [attempts EXCEPT ![w] = @ + 1]
  /\ Goto(w, "received")
  /\ UNCHANGED <<request, seen>>

\* Seeded defect: the loop makes one attempt too many.
RetryOnceMore(w) ==
  /\ Attempt(w)
  /\ attempts[w] <= MaxRetries
  /\ attempts' = [attempts EXCEPT ![w] = @ + 1]
  /\ UNCHANGED <<pc, request, got, seen>>

\* Transport error, 429 or 5xx, with retries left.
Retry(w) ==
  /\ Attempt(w)
  /\ attempts[w] < MaxRetries
  /\ attempts' = [attempts EXCEPT ![w] = @ + 1]
  /\ UNCHANGED <<pc, request, got, seen>>

\* The last attempt fails, or the response is an error: it raises, and the
\* attempts are recorded nowhere.
GiveUp(w) == Attempt(w) /\ Close(w)

-----------------------------------------------------------------------------
\* _source and _snapshot, then the commit of the synchronisation.

\* Which source and which usage row of the response's day exist.
Load(w) ==
  /\ pc[w] = "received"
  /\ seen' = [seen EXCEPT ![w] =
                [row |-> usage[DayOf(got[w].at)], source |-> source]]
  /\ Goto(w, "saving")
  /\ UNCHANGED <<now, spent, dbVars, request, attempts, got>>

\* Both the source's name and the usage row's (source, day) are unique.
Conflict(w) ==
  \/ ~seen[w].source /\ source
  \/ seen[w].row = Nil /\ usage[DayOf(got[w].at)] # Nil

\* The row after the commit: the count is computed in Python from the loaded
\* one; the allowance is only written where it differs from the loaded one.
Recorded(w) ==
  LET old == seen[w].row
      cur == usage[DayOf(got[w].at)]
  IN  IF old = Nil THEN [count |-> attempts[w], remaining |-> got[w].remaining]
      ELSE [count |-> old.count + attempts[w],
            remaining |-> IF got[w].remaining = old.remaining
                          THEN cur.remaining ELSE got[w].remaining]

Newer(s, t) == IF s # Nil /\ s.at > t.at THEN s ELSE t

Save(w) ==
  /\ pc[w] = "saving"
  /\ ~Conflict(w)
  /\ usage' = [usage EXCEPT ![DayOf(got[w].at)] = Recorded(w)]
  /\ snapshot' = [snapshot EXCEPT ![request[w]] = Newer(@, got[w])]
  /\ source' = TRUE
  /\ Close(w)
  /\ UNCHANGED <<now, spent>>

\* The commit breaks a unique constraint, an upsert raises, or the process is
\* killed: nothing of the response is stored.
Abandon(w) ==
  /\ pc[w] \in {"received", "saving"}
  /\ Close(w)
  /\ UNCHANGED <<now, spent, dbVars>>

-----------------------------------------------------------------------------

Tick ==
  /\ now < MaxTime
  /\ now' = now + 1
  /\ UNCHANGED <<spent, dbVars, callVars>>

Init ==
  /\ now = 0
  /\ spent = [d \in Days |-> 0]
  /\ usage = [d \in Days |-> Nil]
  /\ snapshot = [r \in Requests |-> Nil]
  /\ source = FALSE
  /\ pc = [w \in Calls |-> "idle"]
  /\ request = [w \in Calls |-> Nil]
  /\ attempts = [w \in Calls |-> 0]
  /\ got = [w \in Calls |-> Nil]
  /\ seen = [w \in Calls |-> Nil]

\* What a call that has begun does next.
Proceed(w) ==
  \/ Lookup(w)
  \/ Succeed(w) \/ Retry(w) \/ GiveUp(w)
  \/ Load(w) \/ Save(w) \/ Abandon(w)

Next ==
  \/ Tick
  \/ \E w \in Calls :
       (\E r \in Requests : Sync(w, r)) \/ HealthCheck(w) \/ Proceed(w)

Spec == Init /\ [][Next]_vars

-----------------------------------------------------------------------------
(***************************************************************************)
(* Properties                                                              *)
(***************************************************************************)

\* Type invariant.
TypeOK ==
  /\ now \in 0..MaxTime
  /\ spent \in [Days -> Nat]
  /\ usage \in [Days -> UsageRows \cup {Nil}]
  /\ snapshot \in [Requests -> Responses \cup {Nil}]
  /\ source \in BOOLEAN
  /\ pc \in [Calls -> {"idle", "lookup", "sending", "received", "saving"}]
  /\ request \in [Calls -> Requests \cup {Nil}]
  /\ attempts \in [Calls -> 0..(MaxRetries + 1)]
  /\ got \in [Calls -> Responses \cup {Nil}]
  /\ seen \in [Calls -> Views \cup {Nil}]

Count(d) == IF usage[d] = Nil THEN 0 ELSE usage[d].count

\* However many calls overlap, lose each other's updates or run across
\* midnight, the request counts never add up to more than the attempts that
\* were sent: the gate refuses nothing on account of requests that were cached
\* (docs/api-football-endpoint-audit.md 19) or counted twice.
RecordedWasSent ==
  SumFunction([d \in Days |-> Count(d)]) <= SumFunction(spent)

\* With one or two calls at a time, what a day's row records exceeds the soft
\* limit by no more than the calls past the gate when it was reached can add,
\* each with all of its retries, although the two lose each other's increments
\* (service.py 86-96 and 201).  With three it may exceed that: one that loaded
\* the row early brings the count down again, while a second holds a high one,
\* and the gate opens once more.  A limit of zero is no limit for the first
\* calls of a day: the gate has no row to compare with it.
OvershootIsBounded ==
  Cardinality(Calls) \in {1, 2} /\ SoftLimit > 0 =>
    \A d \in Days :
      Count(d) <= SoftLimit - 1 + Cardinality(Calls) * (MaxRetries + 1)

\* As the allowance shrinks, optional data is refused before lineups are, and
\* lineups before the fixtures and results everything else rests on
\* (service.py 97-105).
CoreOutlivesOptional ==
  \A d \in Days :
    /\ Admits(usage[d], "optional") => Admits(usage[d], "lineups")
    /\ Admits(usage[d], "lineups") => Admits(usage[d], "core")

\* docs/api-football-endpoint-audit.md 26: the budget is one of requests per
\* day, so a core request is refused only on a day that has used some of it.
LimitIsDaily ==
  [][\A w \in Calls :
       (/\ pc[w] = "lookup" /\ pc'[w] = "idle"
        /\ KindOf[request[w]] = "core" /\ ~Fresh(request[w]))
         => usage[Today] # Nil]_vars

=============================================================================
