----------------------------- MODULE QuotaProofs -----------------------------
(***************************************************************************)
(* Invariants of ProviderQuota proved for every number of calls, requests  *)
(* and days and every order of the limits the assumption allows.           *)
(*                                                                         *)
(* The argument.  Usage rows are never removed, so a row a call loaded, or *)
(* that was committed with a snapshot, is still there when it is written   *)
(* (Ready, Counted).  The bound on a day's count follows from what the     *)
(* calls open on that day have loaded (LimitInv), and that no request is   *)
(* counted twice from a sum that never goes down (SentInv).                *)
(***************************************************************************)
EXTENDS ProviderQuota, FiniteSetTheorems, WellFoundedInduction, TLAPS

HasRow(t) == usage[DayOf(t)] # Nil

\* What a call has established where it stands.
Ready(w) ==
  /\ pc[w] # "idle" => request[w] \in Requests
  /\ pc[w] \in {"idle", "lookup"} => attempts[w] = 0
  /\ pc[w] = "sending" => attempts[w] \in 0..MaxRetries
  /\ pc[w] \in {"received", "saving"} => got[w] \in Responses
  /\ pc[w] = "saving" =>
       /\ seen[w] \in Views
       /\ seen[w].row # Nil => HasRow(got[w].at)

Counted(r) == snapshot[r] # Nil => HasRow(snapshot[r].at)

IInv ==
  /\ TypeOK
  /\ \A w \in Calls : Ready(w)
  /\ \A r \in Requests : Counted(r)

-----------------------------------------------------------------------------
LEMMA DayFacts == \A t \in 0..MaxTime : DayOf(t) \in Days
BY DEF Days

\* Nil is no number and no record.
LEMMA NilFacts ==
  /\ \A x \in Int \cup Requests \cup UsageRows \cup Responses \cup Views : x # Nil
  /\ 0 \in 0..(MaxRetries + 1) /\ 0 \in 0..MaxRetries
  /\ MaxRetries \in Nat /\ MaxTime \in Nat /\ Plan \in Nat
BY QuotaAssumption

\* The row after a commit is a row.
LEMMA RecordedRow ==
  ASSUME IInv, NEW w \in Calls, pc[w] = "saving"
  PROVE  Recorded(w) \in UsageRows
<1> DEFINE cur == usage[DayOf(got[w].at)]
<1>1. /\ got[w] \in Responses /\ seen[w] \in Views
      /\ attempts[w] \in Nat
  BY NilFacts DEF IInv, Ready, TypeOK
<1>2. got[w].remaining \in Remainders /\ DayOf(got[w].at) \in Days
  BY <1>1, DayFacts DEF Responses
<1>3. CASE seen[w].row = Nil
  BY <1>1, <1>2, <1>3 DEF Recorded, UsageRows
<1>4. CASE seen[w].row # Nil
  <2>1. seen[w].row \in UsageRows /\ cur \in UsageRows
    BY <1>1, <1>2, <1>4 DEF IInv, Ready, HasRow, TypeOK, Views
  <2>2. /\ seen[w].row.count + attempts[w] \in Nat
        /\ cur.remaining \in Remainders
    BY <1>1, <2>1 DEF UsageRows
  <2> QED
    BY <1>2, <1>4, <2>2 DEF Recorded, UsageRows
<1> QED
  BY <1>3, <1>4

LEMMA InitInv == Init => IInv
<1> SUFFICES ASSUME Init PROVE IInv
  OBVIOUS
<1>1. 0 \in 0..MaxTime /\ 0 \in 0..(MaxRetries + 1)
  BY NilFacts
<1>2. TypeOK
  BY <1>1 DEF Init, TypeOK
<1>3. \A w \in Calls : Ready(w)
  BY DEF Init, Ready
<1>4. \A r \in Requests : Counted(r)
  BY DEF Init, Counted
<1> QED
  BY <1>2, <1>3, <1>4 DEF IInv

\* A closed session leaves nothing of the call.
LEMMA CloseReady ==
  ASSUME IInv, NEW w \in Calls, Close(w),
         \A d \in Days : usage[d] # Nil => usage'[d] # Nil
  PROVE  /\ \A v \in Calls : Ready(v)'
         /\ pc' \in [Calls -> {"idle", "lookup", "sending", "received", "saving"}]
         /\ request' \in [Calls -> Requests \cup {Nil}]
         /\ attempts' \in [Calls -> 0..(MaxRetries + 1)]
         /\ got' \in [Calls -> Responses \cup {Nil}]
         /\ seen' \in [Calls -> Views \cup {Nil}]
<1>1. \A v \in Calls \ {w} :
        UNCHANGED <<pc[v], request[v], attempts[v], got[v], seen[v]>>
  BY DEF IInv, TypeOK, Close, Goto
<1>2. ASSUME NEW v \in Calls PROVE Ready(v)'
  <2>1. CASE v = w
    BY <2>1 DEF IInv, TypeOK, Close, Goto, Ready
  <2>2. CASE v # w /\ pc[v] = "saving"
    BY <1>1, <2>2, DayFacts DEF IInv, Ready, HasRow, Responses
  <2>3. CASE v # w /\ pc[v] # "saving"
    BY <1>1, <2>3 DEF IInv, Ready
  <2> QED
    BY <2>1, <2>2, <2>3
<1> QED
  BY <1>2, NilFacts DEF IInv, TypeOK, Close, Goto

-----------------------------------------------------------------------------
\* Steps of the call itself that leave the database alone.
LEMMA LocalInv ==
  ASSUME IInv, NEW w \in Calls, NEW r \in Requests,
         Begin(w, r) \/ Succeed(w) \/ Retry(w) \/ Load(w)
  PROVE  IInv'
<1> USE DEF Goto, dbVars, Attempt
<1>1. \A v \in Calls \ {w} :
        UNCHANGED <<pc[v], request[v], attempts[v], got[v], seen[v]>>
  BY DEF IInv, TypeOK, Begin, Succeed, Retry, Load
<1>2. UNCHANGED <<usage, snapshot, source, now>>
  BY DEF Begin, Succeed, Retry, Load
<1>3. spent' \in [Days -> Nat]
  BY DEF IInv, TypeOK, Begin, Succeed, Retry, Load
<1>4. CASE Begin(w, r)
  <2>1. TypeOK' /\ Ready(w)'
    BY <1>2, <1>3, <1>4 DEF IInv, TypeOK, Ready, Begin
  <2> QED
    BY <1>1, <1>2, <2>1 DEF IInv, Ready, Counted, HasRow
<1>5. CASE Succeed(w)
  <2>1. /\ got' = [got EXCEPT ![w] = got'[w]] /\ got'[w] \in Responses
        /\ attempts[w] + 1 \in 0..(MaxRetries + 1)
    <3>1. attempts[w] \in 0..MaxRetries /\ now \in 0..MaxTime
      BY <1>5 DEF IInv, Ready, Succeed, TypeOK
    <3>2. spent[Today] \in Nat /\ spent[Today] < Plan
          /\ spent'[Today] = spent[Today] + 1
      BY <1>5, <3>1, DayFacts DEF IInv, TypeOK, Succeed, Today
    <3>3. Plan - spent'[Today] \in Remainders /\ Nil \in Remainders
      BY <3>2, NilFacts DEF Remainders
    <3> QED
      BY <1>5, <3>1, <3>3, NilFacts DEF IInv, TypeOK, Succeed, Responses
  <2>2. TypeOK' /\ Ready(w)'
    BY <1>2, <1>3, <1>5, <2>1 DEF IInv, TypeOK, Ready, Succeed
  <2> QED
    BY <1>1, <1>2, <2>2 DEF IInv, Ready, Counted, HasRow
<1>6. CASE Retry(w)
  <2>1. attempts[w] + 1 \in 0..MaxRetries /\ attempts[w] + 1 \in 0..(MaxRetries + 1)
    BY <1>6, NilFacts DEF IInv, TypeOK, Retry
  <2>2. TypeOK' /\ Ready(w)'
    BY <1>2, <1>3, <1>6, <2>1 DEF IInv, TypeOK, Ready, Retry
  <2> QED
    BY <1>1, <1>2, <2>2 DEF IInv, Ready, Counted, HasRow
<1>7. CASE Load(w)
  <2>1. DayOf(got[w].at) \in Days /\ got[w] \in Responses
    BY <1>7, DayFacts DEF IInv, Ready, Load, Responses
  <2>2. [row |-> usage[DayOf(got[w].at)], source |-> source] \in Views
    BY <2>1 DEF IInv, TypeOK, Views
  <2>3. TypeOK' /\ Ready(w)'
    BY <1>2, <1>3, <1>7, <2>1, <2>2 DEF IInv, TypeOK, Ready, HasRow, Load
  <2> QED
    BY <1>1, <1>2, <2>3 DEF IInv, Ready, Counted, HasRow
<1> QED
  BY <1>4, <1>5, <1>6, <1>7

LEMMA LookupInv == ASSUME IInv, NEW w \in Calls, Lookup(w) PROVE IInv'
<1> DEFINE r == request[w]
<1>1. r \in Requests /\ UNCHANGED <<now, spent, snapshot, source>>
  BY DEF IInv, Ready, Lookup
<1>2. CASE Fresh(r)
  <2> DEFINE s == snapshot[r]
             d == DayOf(s.at)
  <2>1. s \in Responses /\ d \in Days /\ usage[d] \in UsageRows
    BY <1>1, <1>2, DayFacts DEF IInv, TypeOK, Counted, HasRow, Fresh, Responses
  <2>2. usage' \in [Days -> UsageRows \cup {Nil}]
        /\ \A e \in Days : usage[e] # Nil => usage'[e] # Nil
    <3>1. CASE UNCHANGED usage
      BY <3>1 DEF IInv, TypeOK
    <3>2. CASE usage' = [usage EXCEPT ![d].remaining = s.remaining]
      <4>1. [usage[d] EXCEPT !.remaining = s.remaining] \in UsageRows
        BY <2>1 DEF UsageRows, Responses
      <4> QED
        BY <2>1, <3>2, <4>1, NilFacts DEF IInv, TypeOK
    <3> QED
      BY <1>2, <3>1, <3>2 DEF Lookup
  <2>3. Close(w)
    BY <1>2 DEF Lookup
  <2>4. \A v \in Calls : Ready(v)'
    BY <2>2, <2>3, CloseReady
  <2>5. TypeOK'
    BY <1>1, <2>2, <2>3, CloseReady DEF IInv, TypeOK
  <2>6. \A q \in Requests : Counted(q)'
    BY <1>1, <2>2, DayFacts DEF IInv, TypeOK, Counted, HasRow, Responses
  <2> QED
    BY <2>4, <2>5, <2>6 DEF IInv
<1>3. CASE ~Fresh(r)
  <2>1. Gate(w) /\ UNCHANGED usage
    BY <1>3 DEF Lookup, Gate
  <2>2. CASE Close(w)
    BY <1>1, <2>1, <2>2, CloseReady DEF IInv, TypeOK, Counted, HasRow
  <2>3. CASE Goto(w, "sending") /\ UNCHANGED <<request, attempts, got, seen>>
    <3>1. pc[w] = "lookup"
      BY DEF Lookup
    <3>2. TypeOK' /\ Ready(w)'
      BY <1>1, <2>1, <2>3, <3>1, NilFacts DEF IInv, TypeOK, Ready, Goto
    <3>3. \A v \in Calls \ {w} : Ready(v)'
      BY <2>1, <2>3 DEF IInv, TypeOK, Ready, HasRow, Goto
    <3> QED
      BY <1>1, <2>1, <3>2, <3>3 DEF IInv, Counted, HasRow
  <2> QED
    BY <2>1, <2>2, <2>3 DEF Gate
<1> QED
  BY <1>2, <1>3

LEMMA SaveInv == ASSUME IInv, NEW w \in Calls, Save(w) PROVE IInv'
<1> DEFINE r == request[w]
           d == DayOf(got[w].at)
<1>1. r \in Requests /\ got[w] \in Responses /\ d \in Days
  BY DayFacts DEF IInv, Ready, Save, Responses
<1>2. Recorded(w) \in UsageRows
  BY RecordedRow DEF Save
<1>3. /\ usage' \in [Days -> UsageRows \cup {Nil}] /\ usage'[d] # Nil
      /\ \A e \in Days : usage[e] # Nil => usage'[e] # Nil
  BY <1>1, <1>2, NilFacts DEF Save, IInv, TypeOK
<1>4. Close(w) /\ UNCHANGED <<now, spent>> /\ source' = TRUE
  BY DEF Save
<1>5. snapshot' = [snapshot EXCEPT ![r] = snapshot'[r]]
      /\ snapshot'[r] \in {snapshot[r], got[w]}
  BY <1>1 DEF Save, Newer, IInv, TypeOK
<1>6. TypeOK'
  BY <1>1, <1>3, <1>4, <1>5, CloseReady DEF IInv, TypeOK
<1>7. \A v \in Calls : Ready(v)'
  BY <1>3, <1>4, CloseReady
<1>8. ASSUME NEW q \in Requests PROVE Counted(q)'
  <2>1. CASE snapshot'[q] = snapshot[q]
    BY <1>3, <2>1, DayFacts DEF IInv, TypeOK, Counted, HasRow, Responses
  <2>2. CASE q = r /\ snapshot'[r] = got[w]
    BY <1>3, <2>2 DEF Counted, HasRow
  <2> QED
    BY <1>5, <2>1, <2>2 DEF IInv, TypeOK
<1> QED
  BY <1>6, <1>7, <1>8 DEF IInv

\* The call raises, or time passes.
LEMMA OtherInv ==
  ASSUME IInv,
         \/ \E w \in Calls : GiveUp(w) \/ Abandon(w)
         \/ Tick \/ UNCHANGED vars
  PROVE  IInv'
<1> USE DEF dbVars, callVars
<1>1. ASSUME NEW w \in Calls, GiveUp(w) \/ Abandon(w) PROVE IInv'
  <2>1. Close(w) /\ UNCHANGED <<usage, snapshot, source, now>>
    BY <1>1 DEF GiveUp, Attempt, Abandon
  <2>2. spent' \in [Days -> Nat]
    BY <1>1 DEF GiveUp, Attempt, Abandon, IInv, TypeOK
  <2> QED
    BY <2>1, <2>2, CloseReady DEF IInv, TypeOK, Counted, HasRow
<1>2. CASE Tick
  <2>1. now' \in 0..MaxTime
    BY <1>2, NilFacts DEF Tick, IInv, TypeOK
  <2> QED
    BY <1>2, <2>1 DEF Tick, IInv, TypeOK, Ready, Counted, HasRow
<1>3. CASE UNCHANGED vars
  BY <1>3 DEF vars, IInv, TypeOK, Ready, Counted, HasRow
<1> QED
  BY <1>1, <1>2, <1>3

LEMMA StepInv == IInv /\ [Next]_vars => IInv'
<1>1. Status \in Requests
  BY QuotaAssumption
<1> QED
  BY <1>1, LocalInv, LookupInv, SaveInv, OtherInv
     DEF Next, Sync, HealthCheck, Proceed

-----------------------------------------------------------------------------
\* Type correctness of ProviderQuota.
THEOREM TypeCorrect == Spec => []TypeOK
<1>1. IInv => TypeOK
  BY DEF IInv
<1> QED
  BY <1>1, InitInv, StepInv, PTL DEF Spec

\* Whatever the limits are, as long as lineups may leave less than optional data
\* has to, a row that admits optional data admits lineups, and one that admits
\* lineups admits everything else.
THEOREM CoreIsRefusedLast == Spec => []CoreOutlivesOptional
<1>1. TypeOK => CoreOutlivesOptional
  <2> SUFFICES ASSUME TypeOK, NEW d \in Days
               PROVE  /\ Admits(usage[d], "optional") => Admits(usage[d], "lineups")
                      /\ Admits(usage[d], "lineups") => Admits(usage[d], "core")
    BY DEF CoreOutlivesOptional
  <2>1. \A k \in {"optional", "lineups"} :
          Remaining(usage[d], k) = Remaining(usage[d], "core")
    BY DEF Remaining
  <2>2. Remaining(usage[d], "core") \in Int \cup {Nil}
    BY QuotaAssumption DEF TypeOK, Remaining, UsageRows, Remainders
  <2> QED
    BY <2>1, <2>2, QuotaAssumption DEF Admits
<1> QED
  BY <1>1, TypeCorrect, PTL

-----------------------------------------------------------------------------
(***************************************************************************)
(* Sums.  SumFunction folds a function over its domain with a recursive    *)
(* function.  That this function exists, and what changing one summand     *)
(* does to the sum, is proved by contradiction at the least size of a set  *)
(* for which it fails.                                                     *)
(***************************************************************************)
LEMMA LeastNumber ==
  ASSUME NEW T, T \subseteq Nat, T # {}
  PROVE  \E n \in T : \A m \in T : n <= m
<1>1. PICK n \in T : \A m \in T : ~(<<m, n>> \in OpToRel(<, Nat))
  BY NatLessThanWellFounded, WFMin, Zenon
<1>2. \A m \in T : ~(m < n)
  BY <1>1 DEF OpToRel
<1> QED
  BY <1>2

\* The recursive function in the fold that SumFunction is.
Chosen(s) == CHOOSE x \in s : TRUE

Sums(F, S, g) ==
  g = [s \in SUBSET S |-> IF s = {} THEN 0
                          ELSE F[Chosen(s)] + g[s \ {Chosen(s)}]]

LEMMA SumIs ==
  ASSUME NEW F, NEW S, DOMAIN F = S
  PROVE  SumFunction(F) = (CHOOSE g : Sums(F, S, g))[S]
BY DEF SumFunction, SumFunctionOnSet, FoldFunctionOnSet, MapThenFoldSet, Sums, Chosen

LEMMA ChosenOne ==
  ASSUME NEW S, IsFiniteSet(S), NEW s \in SUBSET S, s # {}
  PROVE  /\ Chosen(s) \in s /\ s \ {Chosen(s)} \in SUBSET S
         /\ Cardinality(s) \in Nat /\ Cardinality(s \ {Chosen(s)}) = Cardinality(s) - 1
<1>1. Chosen(s) \in s
  BY DEF Chosen
<1>2. IsFiniteSet(s)
  BY FS_Subset
<1> QED
  BY <1>1, <1>2, FS_RemoveElement, FS_CardinalityType

\* That function on the sets of at most n elements.
Small(S, n) == {s \in SUBSET S : Cardinality(s) <= n}

SumsUpTo(F, S, n, g) ==
  /\ g \in [Small(S, n) -> Int]
  /\ \A s \in Small(S, n) :
       g[s] = IF s = {} THEN 0 ELSE F[Chosen(s)] + g[s \ {Chosen(s)}]

LEMMA SumsExist ==
  ASSUME NEW S, IsFiniteSet(S), NEW F \in [S -> Int]
  PROVE  \E g : Sums(F, S, g)
<1> DEFINE T == {n \in Nat : ~\E g : SumsUpTo(F, S, n, g)}
<1>1. T = {}
  <2> SUFFICES ASSUME T # {} PROVE FALSE
    OBVIOUS
  <2>1. PICK n \in T : \A m \in T : n <= m
    BY LeastNumber
  <2>2. CASE n = 0
    <3>1. \A s \in Small(S, 0) : s = {}
      <4> SUFFICES ASSUME NEW s \in SUBSET S, Cardinality(s) <= 0 PROVE s = {}
        BY DEF Small
      <4> QED
        BY FS_Subset, FS_EmptySet, FS_CardinalityType
    <3>2. SumsUpTo(F, S, 0, [s \in Small(S, 0) |-> 0])
      BY <3>1 DEF SumsUpTo
    <3> QED
      BY <2>2, <3>2
  <2>3. CASE n # 0
    <3>1. n \in Nat /\ n - 1 \in Nat /\ n - 1 \notin T
      BY <2>1, <2>3
    <3>2. PICK g : SumsUpTo(F, S, n - 1, g)
      BY <3>1
    <3>3. PICK h : h = [s \in Small(S, n) |-> IF s = {} THEN 0
                          ELSE F[Chosen(s)] + g[s \ {Chosen(s)}]]
      OBVIOUS
    <3>4. ASSUME NEW s \in Small(S, n), s # {}
          PROVE  /\ F[Chosen(s)] \in Int
                 /\ s \ {Chosen(s)} \in Small(S, n - 1)
                 /\ s \ {Chosen(s)} \in Small(S, n)
      <4>1. /\ s \in SUBSET S /\ Chosen(s) \in s /\ s \ {Chosen(s)} \in SUBSET S
            /\ Cardinality(s) \in Nat /\ Cardinality(s) <= n
            /\ Cardinality(s \ {Chosen(s)}) = Cardinality(s) - 1
        BY <3>4, ChosenOne DEF Small
      <4> QED
        BY <3>1, <4>1 DEF Small
    <3>5. ASSUME NEW s \in Small(S, n - 1) PROVE s \in Small(S, n) /\ h[s] = g[s]
      <4>1. s \in SUBSET S /\ Cardinality(s) <= n - 1 /\ Cardinality(s) \in Nat
        BY FS_Subset, FS_CardinalityType DEF Small
      <4>2. s \in Small(S, n)
        BY <3>1, <4>1 DEF Small
      <4> QED
        BY <3>2, <3>3, <4>2 DEF SumsUpTo
    <3>6. h \in [Small(S, n) -> Int]
      <4>1. ASSUME NEW s \in Small(S, n) PROVE h[s] \in Int
        <5>1. CASE s = {}
          BY <3>3, <5>1
        <5>2. CASE s # {}
          <6>1. g[s \ {Chosen(s)}] \in Int
            BY <3>2, <3>4, <5>2 DEF SumsUpTo
          <6>2. h[s] = F[Chosen(s)] + g[s \ {Chosen(s)}]
            BY <3>3, <5>2
          <6>3. F[Chosen(s)] \in Int
            BY <3>4, <5>2
          <6> QED
            BY <6>1, <6>2, <6>3
        <5> QED
          BY <5>1, <5>2
      <4> QED
        BY <3>3, <4>1
    <3>7. ASSUME NEW s \in Small(S, n)
          PROVE  h[s] = IF s = {} THEN 0 ELSE F[Chosen(s)] + h[s \ {Chosen(s)}]
      BY <3>3, <3>4, <3>5
    <3>8. SumsUpTo(F, S, n, h)
      BY <3>6, <3>7 DEF SumsUpTo
    <3> QED
      BY <2>1, <3>8
  <2> QED
    BY <2>2, <2>3
<1>2. Cardinality(S) \in Nat /\ Small(S, Cardinality(S)) = SUBSET S
  BY FS_CardinalityType, FS_Subset DEF Small
<1>3. PICK g : SumsUpTo(F, S, Cardinality(S), g)
  BY <1>1, <1>2
<1> QED
  BY <1>2, <1>3 DEF SumsUpTo, Sums

\* Raising one summand by k at most raises the sum by k at most.
LEMMA SumsBound ==
  ASSUME NEW S, IsFiniteSet(S), NEW F \in [S -> Int], NEW G \in [S -> Int],
         NEW f, Sums(F, S, f), NEW g, Sums(G, S, g), NEW d, NEW k \in Int,
         \A x \in S : G[x] <= F[x] + (IF x = d THEN k ELSE 0)
  PROVE  /\ f[S] \in Int /\ g[S] \in Int
         /\ g[S] <= f[S] + (IF d \in S THEN k ELSE 0)
<1> DEFINE Good(s) == /\ f[s] \in Int /\ g[s] \in Int
                      /\ g[s] <= f[s] + (IF d \in s THEN k ELSE 0)
           T == {Cardinality(s) : s \in {s \in SUBSET S : ~Good(s)}}
<1>1. T = {}
  <2> SUFFICES ASSUME T # {} PROVE FALSE
    OBVIOUS
  <2>1. T \subseteq Nat
    BY FS_Subset, FS_CardinalityType
  <2>2. PICK n \in T : \A m \in T : n <= m
    BY <2>1, LeastNumber
  <2>3. PICK s \in SUBSET S : ~Good(s) /\ n = Cardinality(s)
    BY <2>2
  <2>4. s # {}
    BY <2>3 DEF Sums
  <2> DEFINE c == Chosen(s)
             t == s \ {c}
  <2>5. /\ c \in s /\ t \in SUBSET S
        /\ n \in Nat /\ Cardinality(t) = n - 1
    BY <2>3, <2>4, ChosenOne
  <2>6. Good(t)
    BY <2>2, <2>5
  <2>7. f[s] = F[c] + f[t] /\ g[s] = G[c] + g[t]
    BY <2>4 DEF Sums
  <2>8. /\ F[c] \in Int /\ G[c] \in Int
        /\ G[c] <= F[c] + (IF c = d THEN k ELSE 0)
        /\ c \notin t /\ (d \in s <=> d \in t \/ c = d)
    BY <2>5
  <2>9. Good(s)
    <3> HIDE DEF c, t
    <3> QED
      BY <2>6, <2>7, <2>8
  <2> QED
    BY <2>3, <2>9
<1>2. Good(S)
  BY <1>1
<1> QED
  BY <1>2

LEMMA SumBound ==
  ASSUME NEW S, IsFiniteSet(S), NEW F \in [S -> Int], NEW G \in [S -> Int],
         NEW d \in S, NEW k \in Int, G[d] <= F[d] + k,
         \A x \in S \ {d} : G[x] <= F[x]
  PROVE  /\ SumFunction(F) \in Int /\ SumFunction(G) \in Int
         /\ SumFunction(G) <= SumFunction(F) + k
<1> DEFINE f == CHOOSE h : Sums(F, S, h)
           g == CHOOSE h : Sums(G, S, h)
<1>1. Sums(F, S, f) /\ Sums(G, S, g)
  BY SumsExist
<1>2. SumFunction(F) = f[S] /\ SumFunction(G) = g[S]
  BY SumIs
<1>3. \A x \in S : G[x] <= F[x] + (IF x = d THEN k ELSE 0)
  OBVIOUS
<1> HIDE DEF f, g
<1>4. f[S] \in Int /\ g[S] \in Int /\ g[S] <= f[S] + (IF d \in S THEN k ELSE 0)
  BY <1>1, <1>3, SumsBound
<1> QED
  BY <1>2, <1>4

LEMMA SumType ==
  ASSUME NEW S, IsFiniteSet(S), NEW F \in [S -> Int]
  PROVE  SumFunction(F) \in Int
<1> DEFINE f == CHOOSE h : Sums(F, S, h)
<1>1. Sums(F, S, f) /\ SumFunction(F) = f[S]
  BY SumsExist, SumIs
<1> HIDE DEF f
<1>2. \A x \in S : F[x] <= F[x] + (IF x = 0 THEN 0 ELSE 0)
  OBVIOUS
<1> QED
  BY <1>1, <1>2, SumsBound

LEMMA SumZero ==
  ASSUME NEW S, IsFiniteSet(S), NEW F \in [S -> Int], \A x \in S : F[x] = 0
  PROVE  SumFunction(F) = 0
<1> DEFINE f == CHOOSE h : Sums(F, S, h)
           g == [s \in SUBSET S |-> 0]
<1>1. Sums(F, S, f) /\ SumFunction(F) = f[S]
  BY SumsExist, SumIs
<1>2. Sums(F, S, g)
  <2>1. \A s \in SUBSET S : s # {} => F[Chosen(s)] = 0 /\ s \ {Chosen(s)} \in SUBSET S
    BY ChosenOne
  <2> QED
    BY <2>1 DEF Sums
<1>3. g[S] = 0
  OBVIOUS
<1> HIDE DEF f, g
<1>4. f[S] \in Int /\ g[S] <= f[S] /\ f[S] <= g[S]
  <2>1. \A x \in S : F[x] <= F[x] + (IF x = 0 THEN 0 ELSE 0)
    OBVIOUS
  <2> QED
    BY <1>1, <1>2, <2>1, SumsBound
<1> QED
  BY <1>1, <1>3, <1>4
-----------------------------------------------------------------------------
(***************************************************************************)
(* How far a day's count can go past the soft limit.                       *)
(*                                                                         *)
(* A call is open on a day once nothing but the response keeps it from     *)
(* adding to that day's row: it is past the gate, or it asks for the       *)
(* status, which the gate lets through whatever the count is.  A count     *)
(* below the limit is what lets a call in, so while two are open the count *)
(* and all that was loaded of it are still below the limit.                *)
(***************************************************************************)
Burst == MaxRetries + 1

OpenOn(w, d) ==
  \/ pc[w] = "lookup" /\ request[w] = Status /\ Today <= d
  \/ pc[w] = "sending" /\ Today <= d
  \/ pc[w] \in {"received", "saving"} /\ DayOf(got[w].at) = d

SeenCount(w) == IF seen[w].row = Nil THEN 0 ELSE seen[w].row.count

\* What is stored comes from the past, and rows from a stored response.
PastOnly ==
  /\ \A w \in Calls : pc[w] \in {"received", "saving"} => got[w].at <= now
  /\ \A r \in Requests : snapshot[r] # Nil => snapshot[r].at <= now
  /\ \A d \in Days : usage[d] # Nil => d <= Today /\ source

\* One open call may find the count past the limit by what another added.
OneOpen ==
  \A w \in Calls : \A d \in Days : OpenOn(w, d) =>
    /\ Count(d) <= SoftLimit - 1 + (Cardinality(Calls) - 1) * Burst
    /\ pc[w] = "saving" => SeenCount(w) <= SoftLimit - 1 \/ SeenCount(w) <= Count(d)

TwoOpen ==
  \A v, w \in Calls : \A d \in Days :
    v # w /\ OpenOn(v, d) /\ OpenOn(w, d) =>
      /\ Count(d) <= SoftLimit - 1
      /\ pc[v] = "saving" => SeenCount(v) <= SoftLimit - 1

LimitInv == IInv /\ PastOnly /\ OvershootIsBounded /\ OneOpen /\ TwoOpen

\* The case the bound is about.
Limited == Cardinality(Calls) \in {1, 2} /\ SoftLimit > 0

LEMMA LimitFacts ==
  ASSUME Limited
  PROVE  /\ SoftLimit \in Nat /\ SoftLimit > 0 /\ Burst \in Nat \ {0}
         /\ Cardinality(Calls) \in {1, 2}
         /\ \A v, w \in Calls : v # w => Cardinality(Calls) = 2
         /\ \A u, v, w \in Calls : u = v \/ u = w \/ v = w
<1>1. IsFiniteSet(Calls) /\ MaxRetries \in Nat /\ SoftLimit \in Nat
  BY QuotaAssumption
<1>2. ASSUME NEW u \in Calls, NEW v \in Calls, u # v
      PROVE  Cardinality({u, v}) = 2 /\ IsFiniteSet({u, v})
             /\ Cardinality({u, v}) <= Cardinality(Calls)
  <2>1. IsFiniteSet({u}) /\ Cardinality({u}) = 1
    BY FS_Singleton
  <2>2. {u} \cup {v} = {u, v} /\ {u, v} \subseteq Calls
    OBVIOUS
  <2> QED
    BY <1>1, <1>2, <2>1, <2>2, FS_AddElement, FS_Subset
<1>3. ASSUME NEW u \in Calls, NEW v \in Calls, NEW w \in Calls, u # v, u # w, v # w
      PROVE  FALSE
  <2>1. {u, v} \cup {w} = {u, v, w} /\ {u, v, w} \subseteq Calls
    OBVIOUS
  <2>2. w \notin {u, v} /\ Cardinality({u, v}) = 2 /\ IsFiniteSet({u, v})
    BY <1>2, <1>3
  <2>3. Cardinality({u, v, w}) = 3
    BY <2>1, <2>2, FS_AddElement
  <2>4. Cardinality({u, v, w}) <= Cardinality(Calls)
    BY <1>1, <2>1, FS_Subset
  <2> QED
    BY <2>3, <2>4 DEF Limited
<1> QED
  BY <1>1, <1>2, <1>3 DEF Limited, Burst

\* Time and days run the same way.
LEMMA DayOrder ==
  ASSUME NEW s \in Nat, NEW t \in Nat, s <= t
  PROVE  DayOf(s) <= DayOf(t) /\ DayOf(s) \in Int /\ DayOf(t) \in Int
BY QuotaAssumption DEF DayOf

LEMMA Counts ==
  ASSUME IInv
  PROVE  /\ \A d \in Days : Count(d) \in Nat
         /\ \A w \in Calls : pc[w] = "saving" => SeenCount(w) \in Nat
         /\ now \in Nat /\ Today \in Days /\ Today \in Int
         /\ \A d \in Days : d \in Int
<1>1. \A d \in Days : Count(d) \in Nat
  BY NilFacts DEF IInv, TypeOK, Count, UsageRows
<1>2. \A w \in Calls : pc[w] = "saving" => SeenCount(w) \in Nat
  BY NilFacts DEF IInv, Ready, Views, SeenCount, UsageRows
<1>3. now \in 0..MaxTime /\ 0..MaxTime \subseteq Nat
  BY NilFacts DEF IInv, TypeOK
<1>4. \A t \in Nat : DayOf(t) \in Int
  BY DayOrder
<1> QED
  BY <1>1, <1>2, <1>3, <1>4 DEF Today, Days

\* A step that changes no count, and lets a call in only where the count is below
\* the limit, keeps the bound.
LEMMA QuietStep ==
  ASSUME Limited, IInv, OvershootIsBounded, OneOpen, TwoOpen,
         \A d \in Days : Count(d)' = Count(d),
         \A w \in Calls : \A d \in Days : OpenOn(w, d)' =>
           /\ OpenOn(w, d) \/ (pc'[w] # "saving" /\ Count(d) <= SoftLimit - 1)
           /\ pc'[w] = "saving" =>
                \/ pc[w] = "saving" /\ SeenCount(w)' = SeenCount(w)
                \/ SeenCount(w)' = Count(d)
  PROVE  OvershootIsBounded' /\ OneOpen' /\ TwoOpen'
<1>1. OvershootIsBounded'
  BY DEF OvershootIsBounded
<1>2. OneOpen'
  <2> SUFFICES ASSUME NEW w \in Calls, NEW d \in Days, OpenOn(w, d)'
               PROVE  /\ Count(d) <= SoftLimit - 1 + (Cardinality(Calls) - 1) * Burst
                      /\ pc'[w] = "saving" =>
                           SeenCount(w)' <= SoftLimit - 1 \/ SeenCount(w)' <= Count(d)
    BY DEF OneOpen
  <2>1. Count(d) \in Nat
    BY Counts
  <2>2. CASE OpenOn(w, d)
    <3>1. /\ Count(d) <= SoftLimit - 1 + (Cardinality(Calls) - 1) * Burst
          /\ pc[w] = "saving" => SeenCount(w) <= SoftLimit - 1 \/ SeenCount(w) <= Count(d)
      BY <2>2 DEF OneOpen
    <3> QED
      BY <2>1, <3>1
  <2>3. CASE pc'[w] # "saving" /\ Count(d) <= SoftLimit - 1
    BY <2>1, <2>3, LimitFacts
  <2> QED
    BY <2>2, <2>3
<1>3. TwoOpen'
  <2> SUFFICES ASSUME NEW v \in Calls, NEW w \in Calls, NEW d \in Days, v # w,
                      OpenOn(v, d)', OpenOn(w, d)'
               PROVE  /\ Count(d) <= SoftLimit - 1
                      /\ pc'[v] = "saving" => SeenCount(v)' <= SoftLimit - 1
    BY DEF TwoOpen
  <2>1. Count(d) \in Nat /\ (pc[v] = "saving" => SeenCount(v) \in Nat) /\ SoftLimit \in Nat
    BY Counts, LimitFacts
  <2>2. CASE OpenOn(v, d) /\ OpenOn(w, d)
    <3>1. /\ Count(d) <= SoftLimit - 1
          /\ pc[v] = "saving" => SeenCount(v) <= SoftLimit - 1
      BY <2>2 DEF TwoOpen
    <3> QED
      BY <2>1, <3>1
  <2>3. CASE Count(d) <= SoftLimit - 1 /\ OpenOn(v, d)
    <3>1. pc[v] = "saving" => SeenCount(v) <= SoftLimit - 1 \/ SeenCount(v) <= Count(d)
      BY <2>3 DEF OneOpen
    <3>2. pc[v] = "saving" => SeenCount(v) <= SoftLimit - 1
      BY <2>1, <2>3, <3>1
    <3> QED
      BY <2>1, <2>3, <3>2
  <2>4. CASE Count(d) <= SoftLimit - 1 /\ pc'[v] # "saving"
    BY <2>4
  <2> QED
    BY <2>2, <2>3, <2>4
<1> QED
  BY <1>1, <1>2, <1>3

LEMMA MaxIs ==
  ASSUME NEW S, NEW m \in Int, m \in S, \A x \in S : x \in Int /\ m >= x
  PROVE  Max(S) = m
<1>1. \A x \in S : (\A y \in S : x >= y) => x = m
  OBVIOUS
<1>2. \E x \in S : \A y \in S : x >= y
  OBVIOUS
<1> QED
  BY <1>1, <1>2 DEF Max

\* The gate lets nothing but the status through once today's count is there.
LEMMA GateBelowLimit ==
  ASSUME Limited, IInv, PastOnly, NEW kind \in Kinds, kind # "status",
         Admits(NewestUsage, kind), NEW d \in Days, Today <= d
  PROVE  Count(d) <= SoftLimit - 1
<1> DEFINE days == {e \in Days : usage[e] # Nil}
<1>1. Today \in Days /\ d \in Int /\ Today \in Int /\ SoftLimit \in Nat /\ SoftLimit > 0
      /\ \A e \in Days : e \in Int
  BY Counts, LimitFacts
<1>2. CASE usage[d] = Nil
  BY <1>1, <1>2 DEF Count
<1>3. CASE usage[d] # Nil
  <2>1. d = Today /\ Today \in days
    BY <1>1, <1>3 DEF PastOnly
  <2>2. \A e \in days : Today >= e /\ e \in Int
    BY <1>1 DEF PastOnly
  <2>3. Max(days) = Today
    <3> HIDE DEF days
    <3> QED
      BY <1>1, <2>1, <2>2, MaxIs
  <2>4. NewestUsage = usage[Today] /\ usage[Today] \in UsageRows
    BY <2>1, <2>3 DEF NewestUsage, IInv, TypeOK
  <2>5. ~(usage[Today].count >= SoftLimit)
    BY <1>3, <2>1, <2>4, NilFacts DEF Admits, Remaining
  <2> QED
    BY <1>1, <1>3, <2>1, <2>4, <2>5 DEF Count, UsageRows
<1> QED
  BY <1>2, <1>3

-----------------------------------------------------------------------------
\* A call other than the one that moves is open where it was.
LEMMA OthersOpen ==
  ASSUME IInv, NEW w \in Calls, UNCHANGED now,
         \A v \in Calls \ {w} : UNCHANGED <<pc[v], request[v], got[v], seen[v]>>
  PROVE  \A v \in Calls \ {w} : \A d \in Days :
           /\ OpenOn(v, d)' <=> OpenOn(v, d)
           /\ pc'[v] = pc[v] /\ SeenCount(v)' = SeenCount(v)
BY DEF OpenOn, SeenCount, Today

LEMMA BeginLimit ==
  ASSUME Limited, LimitInv, NEW w \in Calls, NEW r \in Requests,
         Begin(w, r), r = Status => ~source
  PROVE  OvershootIsBounded' /\ OneOpen' /\ TwoOpen'
<1> USE DEF Goto, dbVars
<1>1. \A d \in Days : Count(d)' = Count(d)
  BY DEF Begin, Count
<1>2. \A v \in Calls \ {w} :
        UNCHANGED <<pc[v], request[v], attempts[v], got[v], seen[v]>>
  BY DEF LimitInv, IInv, TypeOK, Begin
<1>3. pc'[w] = "lookup" /\ request'[w] = r /\ UNCHANGED now
  BY DEF LimitInv, IInv, TypeOK, Begin
<1>4. ASSUME NEW d \in Days, OpenOn(w, d)' PROVE Count(d) <= SoftLimit - 1
  <2>1. ~source
    BY <1>3, <1>4 DEF OpenOn
  <2>2. Count(d) = 0
    BY <2>1 DEF LimitInv, PastOnly, Count
  <2> QED
    BY <2>2, LimitFacts
<1> QED
  BY <1>1, <1>2, <1>3, <1>4, OthersOpen, QuietStep DEF LimitInv

\* Steps of an open call, and of one that closes, open no day.
LEMMA OpenCallLimit ==
  ASSUME Limited, LimitInv, NEW w \in Calls,
         Succeed(w) \/ Retry(w) \/ GiveUp(w) \/ Load(w) \/ Abandon(w)
  PROVE  OvershootIsBounded' /\ OneOpen' /\ TwoOpen'
<1> USE DEF Goto, dbVars, Attempt, Close
<1>1. \A d \in Days : Count(d)' = Count(d)
  BY DEF Succeed, Retry, GiveUp, Load, Abandon, Count
<1>2. \A v \in Calls \ {w} :
        UNCHANGED <<pc[v], request[v], got[v], seen[v]>>
  BY DEF LimitInv, IInv, TypeOK, Succeed, Retry, GiveUp, Load, Abandon
<1>3. UNCHANGED now
  BY DEF Succeed, Retry, GiveUp, Load, Abandon
<1>4. ASSUME NEW d \in Days, OpenOn(w, d)'
      PROVE  /\ OpenOn(w, d)
             /\ pc'[w] = "saving" => SeenCount(w)' = Count(d)
  <2>1. CASE Succeed(w)
    <3>1. pc[w] = "sending" /\ pc'[w] = "received" /\ got'[w].at = now
      BY <2>1 DEF Succeed, LimitInv, IInv, TypeOK
    <3>2. DayOf(now) = d
      BY <1>4, <3>1 DEF OpenOn
    <3> QED
      BY <3>1, <3>2, Counts DEF OpenOn, LimitInv, Today
  <2>2. CASE Retry(w)
    <3>1. pc[w] = "sending" /\ pc'[w] = "sending"
      BY <2>2 DEF Retry, LimitInv, IInv, TypeOK
    <3> QED
      BY <1>3, <1>4, <3>1 DEF OpenOn, Today
  <2>3. CASE GiveUp(w) \/ Abandon(w)
    <3>1. pc'[w] = "idle"
      BY <2>3 DEF GiveUp, Abandon, LimitInv, IInv, TypeOK
    <3> QED
      BY <1>4, <3>1 DEF OpenOn
  <2>4. CASE Load(w)
    <3>1. /\ pc[w] = "received" /\ pc'[w] = "saving" /\ got'[w] = got[w]
          /\ seen'[w] = [row |-> usage[DayOf(got[w].at)], source |-> source]
      BY <2>4 DEF Load, LimitInv, IInv, TypeOK
    <3>2. DayOf(got[w].at) = d
      BY <1>4, <3>1 DEF OpenOn
    <3> QED
      BY <3>1, <3>2 DEF OpenOn, SeenCount, Count
  <2> QED
    BY <2>1, <2>2, <2>3, <2>4
<1> QED
  BY <1>1, <1>2, <1>3, <1>4, OthersOpen, QuietStep DEF LimitInv

\* What a cached status says of the allowance leaves the count alone.
LEMMA LookupCounts ==
  ASSUME IInv, NEW w \in Calls, Lookup(w)
  PROVE  \A d \in Days : Count(d)' = Count(d)
<1> DEFINE r == request[w]
           s == snapshot[r]
<1>1. r \in Requests
  BY DEF IInv, Ready, Lookup
<1>2. CASE UNCHANGED usage
  BY <1>2 DEF Count
<1>3. CASE Fresh(r) /\ usage' = [usage EXCEPT ![DayOf(s.at)].remaining = s.remaining]
  <2>1. s \in Responses /\ DayOf(s.at) \in Days /\ usage[DayOf(s.at)] \in UsageRows
    BY <1>1, <1>3, DayFacts DEF IInv, TypeOK, Counted, HasRow, Fresh, Responses
  <2>2. [usage[DayOf(s.at)] EXCEPT !.remaining = s.remaining] \in UsageRows
    BY <2>1 DEF UsageRows, Responses
  <2> QED
    BY <1>3, <2>1, <2>2, NilFacts DEF IInv, TypeOK, Count, UsageRows
<1> QED
  BY <1>2, <1>3 DEF Lookup, Gate

LEMMA LookupLimit ==
  ASSUME Limited, LimitInv, NEW w \in Calls, Lookup(w)
  PROVE  OvershootIsBounded' /\ OneOpen' /\ TwoOpen'
<1> USE DEF Goto
<1> DEFINE r == request[w]
<1>1. r \in Requests /\ UNCHANGED <<now, spent, snapshot, source>> /\ pc[w] = "lookup"
  BY DEF LimitInv, IInv, Ready, Lookup
<1>2. \A d \in Days : Count(d)' = Count(d)
  BY LookupCounts DEF LimitInv
<1>3. \A v \in Calls \ {w} :
        UNCHANGED <<pc[v], request[v], attempts[v], got[v], seen[v]>>
  BY DEF LimitInv, IInv, TypeOK, Lookup, Gate, Close
<1>4. \/ pc'[w] = "idle"
      \/ pc'[w] = "sending" /\ Admits(NewestUsage, KindOf[r])
  BY DEF LimitInv, IInv, TypeOK, Lookup, Gate, Close
<1>5. ASSUME NEW d \in Days, OpenOn(w, d)'
      PROVE  OpenOn(w, d) \/ Count(d) <= SoftLimit - 1
  <2>1. pc'[w] = "sending" /\ Today <= d /\ Admits(NewestUsage, KindOf[r])
    BY <1>1, <1>4, <1>5 DEF OpenOn, Today
  <2>2. CASE r = Status
    BY <1>1, <2>1, <2>2 DEF OpenOn
  <2>3. CASE r # Status
    <3>1. KindOf[r] \in Kinds /\ KindOf[r] # "status"
      BY <1>1, <2>3, QuotaAssumption
    <3> QED
      BY <2>1, <3>1, GateBelowLimit DEF LimitInv
  <2> QED
    BY <2>2, <2>3
<1>6. pc'[w] # "saving"
  BY <1>4
<1> QED
  BY <1>1, <1>2, <1>3, <1>5, <1>6, OthersOpen, QuietStep DEF LimitInv

\* A commit adds one burst to what its call had loaded, which another call may
\* have made outdated: the count of the day may as well go down.
LEMMA SaveLimit ==
  ASSUME Limited, LimitInv, NEW w \in Calls, Save(w)
  PROVE  OvershootIsBounded' /\ OneOpen' /\ TwoOpen'
<1> DEFINE K == Cardinality(Calls)
<1> USE DEF Goto, Close
<1>0. PICK day \in Days : day = DayOf(got[w].at)
  BY DayFacts DEF LimitInv, IInv, Ready, Save, Responses
<1>1. /\ got[w] \in Responses /\ day \in Days /\ pc[w] = "saving"
      /\ attempts[w] \in 0..Burst
  BY DayFacts DEF LimitInv, IInv, Ready, Save, Responses, TypeOK, Burst
<1>2. /\ \A d \in Days : Count(d) \in Nat
      /\ \A v \in Calls : pc[v] = "saving" => SeenCount(v) \in Nat
      /\ SoftLimit \in Nat /\ SoftLimit > 0 /\ Burst \in Nat \ {0} /\ K \in {1, 2}
  BY Counts, LimitFacts DEF LimitInv
<1>3. OpenOn(w, day)
  BY <1>1, <1>0 DEF OpenOn
<1>4. Recorded(w) \in UsageRows /\ Recorded(w).count = SeenCount(w) + attempts[w]
  <2>1. attempts[w] \in Nat /\ 0 + attempts[w] = attempts[w]
    BY <1>1, <1>2
  <2> QED
    BY <2>1, RecordedRow DEF LimitInv, Save, Recorded, SeenCount
<1>5. /\ Count(day)' = SeenCount(w) + attempts[w]
      /\ \A d \in Days \ {day} : Count(d)' = Count(d)
  BY <1>1, <1>4, <1>0, NilFacts DEF Save, LimitInv, IInv, TypeOK, Count
<1>6. /\ pc'[w] = "idle" /\ UNCHANGED now
      /\ \A v \in Calls \ {w} :
           UNCHANGED <<pc[v], request[v], attempts[v], got[v], seen[v]>>
  BY DEF Save, LimitInv, IInv, TypeOK
<1>7. \A v \in Calls \ {w} : \A d \in Days :
        /\ OpenOn(v, d)' <=> OpenOn(v, d)
        /\ pc'[v] = pc[v] /\ SeenCount(v)' = SeenCount(v)
  BY <1>6, OthersOpen DEF LimitInv
<1>8. \A d \in Days : ~OpenOn(w, d)'
  BY <1>6 DEF OpenOn
<1>9. SeenCount(w) <= SoftLimit - 1 + (K - 1) * Burst
  <2>1. /\ Count(day) <= SoftLimit - 1 + (K - 1) * Burst
        /\ SeenCount(w) <= SoftLimit - 1 \/ SeenCount(w) <= Count(day)
    BY <1>1, <1>3 DEF LimitInv, OneOpen
  <2>2. SeenCount(w) \in Nat /\ Count(day) \in Nat
    BY <1>1, <1>2
  <2> QED
    BY <1>2, <2>1, <2>2
<1>10. OvershootIsBounded'
  <2>1. ASSUME NEW d \in Days PROVE Count(d)' <= SoftLimit - 1 + K * Burst
    <3>1. CASE d = day
      <4>1. SeenCount(w) \in Nat
        BY <1>1, <1>2
      <4> HIDE DEF K
      <4> QED
        BY <1>1, <1>2, <1>5, <1>9, <3>1, <4>1
    <3>2. CASE d # day
      BY <1>5, <3>2 DEF LimitInv, OvershootIsBounded, Limited, Burst
    <3> QED
      BY <3>1, <3>2
  <2> QED
    BY <2>1 DEF OvershootIsBounded, Burst
\* Another open call had loaded a count below the limit, and so had this one.
<1>11. ASSUME NEW v \in Calls \ {w}, NEW d \in Days, OpenOn(v, d)
       PROVE  /\ Count(d)' <= SoftLimit - 1 + (K - 1) * Burst
              /\ pc[v] = "saving" =>
                   SeenCount(v) <= SoftLimit - 1 \/ SeenCount(v) <= Count(d)'
  <2>1. CASE d = day
    <3>1. /\ SeenCount(w) <= SoftLimit - 1
          /\ pc[v] = "saving" => SeenCount(v) <= SoftLimit - 1
      BY <1>1, <1>3, <1>11, <2>1 DEF LimitInv, TwoOpen
    <3>2. K = 2 /\ SeenCount(w) \in Nat
      BY <1>1, <1>2, LimitFacts
    <3> HIDE DEF K
    <3>3. Count(d)' <= SoftLimit - 1 + (K - 1) * Burst
      BY <1>1, <1>2, <1>5, <2>1, <3>1, <3>2
    <3> QED
      BY <3>1, <3>3
  <2>2. CASE d # day
    BY <1>5, <1>11, <2>2 DEF LimitInv, OneOpen
  <2> QED
    BY <2>1, <2>2
<1>12. OneOpen'
  <2> SUFFICES ASSUME NEW v \in Calls, NEW d \in Days, OpenOn(v, d)'
               PROVE  /\ Count(d)' <= SoftLimit - 1 + (K - 1) * Burst
                      /\ pc'[v] = "saving" =>
                           SeenCount(v)' <= SoftLimit - 1 \/ SeenCount(v)' <= Count(d)'
    BY DEF OneOpen
  <2>1. v # w
    BY <1>8
  <2> QED
    BY <1>7, <1>11, <2>1
<1>13. TwoOpen'
  <2> SUFFICES ASSUME NEW u \in Calls, NEW v \in Calls, NEW d \in Days, u # v,
                      OpenOn(u, d)', OpenOn(v, d)'
               PROVE  FALSE
    BY DEF TwoOpen
  <2>1. u # w /\ v # w
    BY <1>8
  <2> QED
    BY <2>1, LimitFacts
<1> QED
  BY <1>10, <1>12, <1>13

\* Midnight closes the day for the calls that have not had their response.
LEMMA IdleLimit ==
  ASSUME Limited, LimitInv, Tick \/ UNCHANGED vars
  PROVE  OvershootIsBounded' /\ OneOpen' /\ TwoOpen'
<1> USE DEF dbVars, callVars
<1>1. \A d \in Days : Count(d)' = Count(d)
  BY DEF Tick, vars, Count
<1>2. UNCHANGED callVars
  BY DEF Tick, vars
<1>3. Today <= Today' /\ Today \in Int /\ Today' \in Int
  <2>1. now \in Nat /\ now' \in Nat /\ now <= now'
    BY Counts DEF LimitInv, Tick, vars
  <2> QED
    BY <2>1, DayOrder DEF Today
<1>4. \A w \in Calls : \A d \in Days : OpenOn(w, d)' =>
        /\ OpenOn(w, d)
        /\ pc'[w] = "saving" => pc[w] = "saving" /\ SeenCount(w)' = SeenCount(w)
  BY <1>2, <1>3, Counts DEF OpenOn, SeenCount, LimitInv
<1> QED
  BY <1>1, <1>4, QuietStep DEF LimitInv

LEMMA PastStep ==
  ASSUME IInv, IInv', PastOnly, [Next]_vars
  PROVE  PastOnly'
<1> USE DEF Goto, Close, dbVars, callVars, Attempt
<1>1. now \in Nat /\ now' \in Nat /\ now <= now' /\ Today <= Today'
      /\ Today \in Int /\ Today' \in Int
  <2>1. now \in Nat /\ now' \in Nat
    BY NilFacts DEF IInv, TypeOK
  <2>2. now' = now \/ now' = now + 1
    BY DEF Next, Tick, Sync, HealthCheck, Begin, Proceed, Lookup, Succeed, Retry,
                GiveUp, Load, Save, Abandon, vars
  <2> QED
    BY <2>1, <2>2, DayOrder DEF Today
<1>2. \A t \in 0..MaxTime : t <= now => DayOf(t) <= Today /\ t <= now'
  <2> SUFFICES ASSUME NEW t \in 0..MaxTime, t <= now
               PROVE  DayOf(t) <= Today /\ t <= now'
    OBVIOUS
  <2>1. t \in Nat
    BY NilFacts
  <2> QED
    BY <1>1, <2>1, DayOrder DEF Today
<1>3. \A d \in Days : d \in Int
  BY Counts
<1>4. ASSUME NEW w \in Calls, pc'[w] \in {"received", "saving"} PROVE got'[w].at <= now'
  <2>1. CASE pc[w] \in {"received", "saving"} /\ got'[w] = got[w]
    <3>1. got[w].at \in 0..MaxTime /\ got[w].at <= now
      BY <2>1 DEF IInv, Ready, Responses, PastOnly
    <3> QED
      BY <1>2, <2>1, <3>1
  <2>2. CASE Succeed(w)
    <3>1. got'[w].at = now /\ now' = now
      BY <2>2 DEF Succeed, IInv, TypeOK
    <3> QED
      BY <1>1, <3>1
  <2>3. CASE UNCHANGED <<pc, got>>
    BY <1>4, <2>1, <2>3
  <2>4. CASE \E v \in Calls : (\E r \in Requests : Sync(v, r)) \/ HealthCheck(v) \/ Proceed(v)
    <3> PICK v \in Calls : (\E r \in Requests : Sync(v, r)) \/ HealthCheck(v) \/ Proceed(v)
      BY <2>4
    <3>1. CASE v # w
      <4>1. pc'[w] = pc[w] /\ got'[w] = got[w]
        BY <3>1 DEF Sync, HealthCheck, Begin, Proceed, Lookup, Gate, Succeed, Retry,
                    GiveUp, Load, Save, Abandon, IInv, TypeOK
      <4> QED
        BY <1>4, <2>1, <4>1
    <3>2. CASE v = w
      <4>1. Succeed(w) \/ Load(w)
        BY <1>4, <3>2 DEF Sync, HealthCheck, Begin, Proceed, Lookup, Gate, Retry,
                    GiveUp, Save, Abandon, IInv, TypeOK
      <4> QED
        BY <1>4, <2>1, <2>2, <4>1 DEF Load
    <3> QED
      BY <3>1, <3>2
  <2> QED
    BY <2>3, <2>4 DEF Next, Tick, vars
<1>5. CASE \E w \in Calls : Save(w)
  <2> PICK w \in Calls : Save(w)
    BY <1>5
  <2>1. /\ got[w].at \in 0..MaxTime /\ got[w].at <= now /\ request[w] \in Requests
    BY DEF Save, IInv, Ready, Responses, PastOnly
  <2>2. \A r \in Requests : snapshot'[r] \in {snapshot[r], got[w]}
    BY DEF Save, Newer, IInv, TypeOK
  <2>3. \A r \in Requests : snapshot[r] # Nil => snapshot[r].at \in 0..MaxTime
    BY DEF IInv, TypeOK, Responses
  <2>4. \A r \in Requests : snapshot'[r] # Nil => snapshot'[r].at <= now'
    BY <1>2, <2>1, <2>2, <2>3 DEF PastOnly
  <2>5. \A d \in Days : d # DayOf(got[w].at) => usage'[d] = usage[d]
    BY DEF Save, IInv, TypeOK
  <2>6. source' /\ Today' = Today /\ DayOf(got[w].at) <= Today
    BY <1>2, <2>1 DEF Save, Today
  <2>7. \A d \in Days : usage'[d] # Nil => d <= Today' /\ source'
    BY <2>5, <2>6 DEF PastOnly
  <2> QED
    BY <1>4, <2>4, <2>7 DEF PastOnly
<1>6. CASE ~\E w \in Calls : Save(w)
  <2>1. UNCHANGED <<snapshot, source>>
    BY <1>6 DEF Next, Tick, Sync, HealthCheck, Begin, Proceed, Lookup, Succeed, Retry,
                GiveUp, Load, Abandon, vars
  <2>2. \A d \in Days : usage'[d] # Nil => usage[d] # Nil
    <3>1. CASE UNCHANGED usage
      BY <3>1
    <3>2. CASE \E w \in Calls : Lookup(w) /\ Fresh(request[w])
      <4> PICK w \in Calls : Lookup(w) /\ Fresh(request[w])
        BY <3>2
      <4>1. /\ request[w] \in Requests /\ snapshot[request[w]] \in Responses
            /\ HasRow(snapshot[request[w]].at)
        BY DEF Lookup, Fresh, IInv, Ready, Counted, TypeOK
      <4> QED
        BY <4>1 DEF Lookup, HasRow, IInv, TypeOK
    <3> QED
      BY <1>6, <3>1, <3>2 DEF Next, Tick, Sync, HealthCheck, Begin, Proceed, Lookup, Gate,
                Succeed, Retry, GiveUp, Load, Abandon, vars
  <2>3. \A r \in Requests : snapshot[r] # Nil => snapshot[r].at \in 0..MaxTime
    BY DEF IInv, TypeOK, Responses
  <2>4. \A r \in Requests : snapshot'[r] # Nil => snapshot'[r].at <= now'
    BY <1>2, <2>1, <2>3 DEF PastOnly
  <2>5. \A d \in Days : usage'[d] # Nil => d <= Today' /\ source'
    BY <1>1, <1>3, <2>1, <2>2 DEF PastOnly
  <2> QED
    BY <1>4, <2>4, <2>5 DEF PastOnly
<1> QED
  BY <1>5, <1>6

LEMMA LimitStep == Limited /\ LimitInv /\ [Next]_vars => LimitInv'
<1> SUFFICES ASSUME Limited, LimitInv, [Next]_vars PROVE LimitInv'
  OBVIOUS
<1>1. IInv'
  BY StepInv DEF LimitInv
<1>2. PastOnly'
  BY <1>1, PastStep DEF LimitInv
<1>3. OvershootIsBounded' /\ OneOpen' /\ TwoOpen'
  <2>1. CASE Tick \/ UNCHANGED vars
    BY <2>1, IdleLimit
  <2>2. ASSUME NEW w \in Calls, NEW r \in Requests, Sync(w, r) \/ HealthCheck(w)
        PROVE  OvershootIsBounded' /\ OneOpen' /\ TwoOpen'
    <3>1. Status \in Requests
      BY QuotaAssumption
    <3> QED
      BY <2>2, <3>1, BeginLimit DEF Sync, HealthCheck
  <2>3. ASSUME NEW w \in Calls, Proceed(w)
        PROVE  OvershootIsBounded' /\ OneOpen' /\ TwoOpen'
    BY <2>3, LookupLimit, OpenCallLimit, SaveLimit DEF Proceed
  <2>4. Status \in Requests
    BY QuotaAssumption
  <2> QED
    BY <2>1, <2>2, <2>3, <2>4 DEF Next
<1> QED
  BY <1>1, <1>2, <1>3 DEF LimitInv

LEMMA LimitInit == Limited /\ Init => LimitInv
<1> SUFFICES ASSUME Limited, Init PROVE LimitInv
  OBVIOUS
<1>1. IInv
  BY InitInv
<1>2. \A d \in Days : usage[d] = Nil /\ Count(d) = 0
  BY DEF Init, Count
<1>3. \A w \in Calls : pc[w] = "idle"
  BY DEF Init
<1>4. PastOnly /\ OneOpen /\ TwoOpen
  BY <1>2, <1>3 DEF Init, PastOnly, OneOpen, TwoOpen, OpenOn
<1>5. 0 <= SoftLimit - 1 + Cardinality(Calls) * Burst
  BY LimitFacts
<1> QED
  BY <1>1, <1>2, <1>4, <1>5 DEF LimitInv, OvershootIsBounded, Burst

\* With one or two calls at a time, and a soft limit that is not zero, a day's
\* recorded requests go past the limit by the retries of those calls at most:
\* for every limit, number of retries, schedule of requests and clock.
THEOREM SoftLimitHolds == Spec => []OvershootIsBounded
<1>1. CASE Limited
  <2>1. LimitInv => OvershootIsBounded
    BY DEF LimitInv
  <2> QED
    BY <1>1, <2>1, LimitInit, LimitStep, PTL DEF Spec
<1>2. CASE ~Limited
  <2>1. OvershootIsBounded
    BY <1>2 DEF Limited, OvershootIsBounded
  <2> QED
    BY <2>1, PTL
<1> QED
  BY <1>1, <1>2

-----------------------------------------------------------------------------
(***************************************************************************)
(* No request is counted that was not sent.                                *)
(*                                                                         *)
(* A lost update may take a day's count down, and a call that had loaded   *)
(* the higher one may bring it up again, so the counts themselves are no   *)
(* measure of what is still to be added.  What backs the count of a day    *)
(* never goes down: it is at least the count and everything loaded of it,  *)
(* and with the attempts that calls have yet to record it stays within     *)
(* what was sent.                                                          *)
(***************************************************************************)
Backs(h) ==
  /\ h \in [Days -> Nat]
  /\ \A d \in Days : Count(d) <= h[d]
  /\ \A w \in Calls : pc[w] = "saving" => SeenCount(w) <= h[DayOf(got[w].at)]
  /\ SumFunction(h) + SumFunction(attempts) <= SumFunction(spent)

SentInv == IInv /\ \E h : Backs(h)

LEMMA FiniteDays == IsFiniteSet(Days) /\ IsFiniteSet(Calls) /\ DayOf(0) \in Days
<1>1. MaxTime \in Nat /\ IsFiniteSet(Calls)
  BY QuotaAssumption
<1>2. DayOf(0) \in Int /\ DayOf(MaxTime) \in Int
  BY <1>1, DayOrder
<1>3. Days \subseteq DayOf(0)..DayOf(MaxTime)
  <2> SUFFICES ASSUME NEW t \in 0..MaxTime
               PROVE  DayOf(t) \in DayOf(0)..DayOf(MaxTime)
    BY DEF Days
  <2>1. t \in Nat /\ 0 <= t /\ t <= MaxTime
    BY <1>1
  <2> QED
    BY <1>1, <2>1, DayOrder
<1>4. IsFiniteSet(DayOf(0)..DayOf(MaxTime))
  BY <1>2, FS_Interval
<1>5. 0 \in 0..MaxTime
  BY <1>1
<1> QED
  BY <1>1, <1>3, <1>4, <1>5, DayFacts, FS_Subset

LEMMA SumTypes ==
  /\ IInv => /\ SumFunction(attempts) \in Int /\ SumFunction(spent) \in Int
             /\ attempts \in [Calls -> Int] /\ spent \in [Days -> Int]
  /\ \A h \in [Days -> Nat] : h \in [Days -> Int] /\ SumFunction(h) \in Int
<1>1. ASSUME IInv PROVE attempts \in [Calls -> Int] /\ spent \in [Days -> Int]
  BY <1>1, NilFacts DEF IInv, TypeOK
<1>2. \A h \in [Days -> Nat] : h \in [Days -> Int]
  OBVIOUS
<1> QED
  BY <1>1, <1>2, SumType, FiniteDays

LEMMA SumTypesNext ==
  IInv' => SumFunction(attempts') \in Int /\ SumFunction(spent') \in Int
<1>1. ASSUME IInv' PROVE attempts' \in [Calls -> Int] /\ spent' \in [Days -> Int]
  BY <1>1, NilFacts DEF IInv, TypeOK
<1> QED
  BY <1>1, SumType, FiniteDays

\* A step that changes no count and records no attempt.
LEMMA BackedQuietly ==
  ASSUME IInv, IInv', NEW h, Backs(h),
         \A d \in Days : Count(d)' = Count(d),
         \A w \in Calls : pc'[w] = "saving" =>
           \/ /\ pc[w] = "saving" /\ got'[w] = got[w]
              /\ SeenCount(w)' = SeenCount(w)
           \/ \E d \in Days : d = DayOf(got'[w].at) /\ SeenCount(w)' = Count(d),
         SumFunction(attempts') + SumFunction(spent)
           <= SumFunction(attempts) + SumFunction(spent')
  PROVE  Backs(h)'
<1>1. /\ SumFunction(h) \in Int /\ SumFunction(attempts) \in Int
      /\ SumFunction(spent) \in Int
  BY SumTypes DEF Backs
<1>2. SumFunction(attempts') \in Int /\ SumFunction(spent') \in Int
  BY SumTypesNext
<1>3. SumFunction(h) + SumFunction(attempts') <= SumFunction(spent')
  BY <1>1, <1>2 DEF Backs
<1>4. ASSUME NEW w \in Calls, pc'[w] = "saving"
      PROVE  SeenCount(w)' <= h[DayOf(got'[w].at)]
  <2>1. CASE pc[w] = "saving" /\ got'[w] = got[w] /\ SeenCount(w)' = SeenCount(w)
    BY <2>1 DEF Backs
  <2>2. CASE \E d \in Days : d = DayOf(got'[w].at) /\ SeenCount(w)' = Count(d)
    BY <2>2 DEF Backs
  <2> QED
    BY <1>4, <2>1, <2>2
<1> QED
  BY <1>3, <1>4 DEF Backs

\* An attempt is counted against its call, or its call gives up.
LEMMA AttemptBacked ==
  ASSUME IInv, IInv', NEW h, Backs(h), NEW w \in Calls,
         Succeed(w) \/ Retry(w) \/ GiveUp(w)
  PROVE  Backs(h)'
<1> USE DEF Attempt, dbVars, Goto, Close
<1>1. \A d \in Days : Count(d)' = Count(d)
  BY DEF Succeed, Retry, GiveUp, Count
<1>2. ASSUME NEW v \in Calls, pc'[v] = "saving"
      PROVE  pc[v] = "saving" /\ got'[v] = got[v] /\ SeenCount(v)' = SeenCount(v)
  BY <1>2 DEF Succeed, Retry, GiveUp, IInv, TypeOK, SeenCount
<1>3. SumFunction(spent) <= SumFunction(spent') - 1
  <2> PICK d \in Days : d = Today
    BY Counts
  <2>1. spent' = [spent EXCEPT ![d] = @ + 1] /\ spent \in [Days -> Int]
    BY SumTypes DEF Succeed, Retry, GiveUp
  <2> PICK k \in Int : k = -1
    OBVIOUS
  <2>2. /\ spent \in [Days -> Int] /\ spent' \in [Days -> Int]
        /\ spent[d] <= spent'[d] + k
        /\ \A e \in Days \ {d} : spent[e] <= spent'[e]
    BY <2>1
  <2>3. SumFunction(spent) <= SumFunction(spent') + k /\ SumFunction(spent') \in Int
    BY <2>2, SumBound, FiniteDays
  <2> QED
    BY <2>3
<1>4. SumFunction(attempts') <= SumFunction(attempts) + 1
  <2>1. attempts \in [Calls -> Int] /\ attempts[w] >= 0
    BY SumTypes, NilFacts DEF IInv, TypeOK
  <2>2. /\ attempts' \in [Calls -> Int] /\ attempts'[w] <= attempts[w] + 1
        /\ \A v \in Calls \ {w} : attempts'[v] <= attempts[v]
    BY <2>1 DEF Succeed, Retry, GiveUp
  <2> QED
    BY <2>1, <2>2, SumBound, FiniteDays
<1>5. SumFunction(attempts') + SumFunction(spent)
        <= SumFunction(attempts) + SumFunction(spent')
  <2>1. SumFunction(attempts) \in Int /\ SumFunction(spent) \in Int
    BY SumTypes
  <2>2. SumFunction(attempts') \in Int /\ SumFunction(spent') \in Int
    BY SumTypesNext
  <2> QED
    BY <1>3, <1>4, <2>1, <2>2
<1> QED
  BY <1>1, <1>2, <1>5, BackedQuietly

\* Steps that send nothing and store no count.
LEMMA OtherBacked ==
  ASSUME IInv, IInv', NEW h, Backs(h), NEW w \in Calls,
         \/ \E r \in Requests : Begin(w, r)
         \/ Lookup(w) \/ Load(w) \/ Abandon(w)
  PROVE  Backs(h)'
<1> USE DEF dbVars, Goto, Close
<1>1. \A d \in Days : Count(d)' = Count(d)
  <2>1. CASE Lookup(w)
    BY <2>1, LookupCounts
  <2>2. CASE ~Lookup(w)
    BY <2>2 DEF Begin, Load, Abandon, Count
  <2> QED
    BY <2>1, <2>2
<1>2. ASSUME NEW v \in Calls, pc'[v] = "saving"
      PROVE  \/ /\ pc[v] = "saving" /\ got'[v] = got[v]
                /\ SeenCount(v)' = SeenCount(v)
             \/ \E d \in Days : d = DayOf(got'[v].at) /\ SeenCount(v)' = Count(d)
  <2>1. CASE Load(w) /\ v = w
    <3>1. /\ pc[w] = "received" /\ got'[w] = got[w]
          /\ seen'[w] = [row |-> usage[DayOf(got[w].at)], source |-> source]
      BY <2>1 DEF Load, IInv, TypeOK
    <3>2. DayOf(got[w].at) \in Days
      BY <3>1, DayFacts DEF IInv, Ready, Responses
    <3> QED
      BY <2>1, <3>1, <3>2 DEF SeenCount, Count
  <2>2. CASE ~(Load(w) /\ v = w)
    BY <1>2, <2>2 DEF Begin, Lookup, Gate, Load, Abandon, IInv, TypeOK, SeenCount
  <2> QED
    BY <2>1, <2>2
<1>3. SumFunction(attempts') + SumFunction(spent)
        <= SumFunction(attempts) + SumFunction(spent')
  <2>1. UNCHANGED spent
    BY DEF Begin, Lookup, Load, Abandon
  <2>2. /\ attempts \in [Calls -> Int] /\ SumFunction(spent) \in Int
        /\ SumFunction(attempts) \in Int /\ SumFunction(attempts') \in Int
    BY SumTypes, SumTypesNext
  <2>3. /\ attempts' \in [Calls -> Int] /\ attempts'[w] <= attempts[w] + 0
        /\ \A v \in Calls \ {w} : attempts'[v] <= attempts[v]
    BY NilFacts DEF IInv, TypeOK, Begin, Lookup, Gate, Load, Abandon
  <2>4. SumFunction(attempts') <= SumFunction(attempts) + 0
    BY <2>2, <2>3, SumBound, FiniteDays
  <2> QED
    BY <2>1, <2>2, <2>4
<1> QED
  BY <1>1, <1>2, <1>3, BackedQuietly

\* A commit moves the attempts of its call to what backs the day.
LEMMA SaveBacked ==
  ASSUME IInv, IInv', NEW h, Backs(h), NEW w \in Calls, Save(w)
  PROVE  \E k : Backs(k)'
<1> USE DEF Goto, Close
<1>0. PICK day \in Days : day = DayOf(got[w].at)
  BY DayFacts DEF IInv, Ready, Save, Responses
<1>1. PICK a \in Nat : a = attempts[w]
  BY NilFacts DEF IInv, TypeOK
<1>2. PICK k : k = [h EXCEPT ![day] = @ + a]
  OBVIOUS
<1>3. /\ h \in [Days -> Nat] /\ k \in [Days -> Nat] /\ k[day] = h[day] + a
      /\ \A d \in Days : h[d] <= k[d]
      /\ \A d \in Days \ {day} : k[d] = h[d]
  BY <1>2 DEF Backs
<1>4. pc[w] = "saving" /\ SeenCount(w) \in Nat /\ SeenCount(w) <= h[day]
  BY <1>0, Counts DEF Save, Backs
<1>5. /\ Count(day)' = SeenCount(w) + a
      /\ \A d \in Days \ {day} : Count(d)' = Count(d)
  <2>1. Recorded(w) \in UsageRows /\ Recorded(w).count = SeenCount(w) + a
    <3>1. 0 + a = a
      OBVIOUS
    <3> QED
      BY <1>1, <1>4, <3>1, RecordedRow DEF Recorded, SeenCount
  <2> QED
    BY <1>0, <2>1, NilFacts DEF Save, IInv, TypeOK, Count
<1>6. \A d \in Days : Count(d)' <= k[d]
  <2>1. Count(day)' <= k[day]
    BY <1>3, <1>4, <1>5
  <2>2. \A d \in Days \ {day} : Count(d)' <= k[d]
    BY <1>3, <1>5 DEF Backs
  <2> QED
    BY <2>1, <2>2
<1>7. ASSUME NEW v \in Calls, pc'[v] = "saving" PROVE SeenCount(v)' <= k[DayOf(got'[v].at)]
  <2>1. v # w /\ pc[v] = "saving" /\ got'[v] = got[v] /\ SeenCount(v)' = SeenCount(v)
    BY <1>7 DEF Save, IInv, TypeOK, SeenCount
  <2>2. SeenCount(v) \in Nat
    BY <2>1, Counts
  <2> PICK d \in Days : d = DayOf(got[v].at)
    BY <2>1, DayFacts DEF IInv, Ready, Responses
  <2>3. SeenCount(v) <= h[d] /\ h[d] <= k[d] /\ h[d] \in Nat /\ k[d] \in Nat
    BY <1>3, <2>1 DEF Backs
  <2> QED
    BY <2>1, <2>2, <2>3
<1>8. SumFunction(k) <= SumFunction(h) + a
  <2>1. /\ h \in [Days -> Int] /\ k \in [Days -> Int]
        /\ k[day] <= h[day] + a /\ \A d \in Days \ {day} : k[d] <= h[d]
    BY <1>3
  <2> QED
    BY <2>1, SumBound, FiniteDays
<1>9. SumFunction(attempts') <= SumFunction(attempts) - a
  <2> PICK m \in Int : m = -a
    OBVIOUS
  <2>1. /\ attempts \in [Calls -> Int] /\ attempts' \in [Calls -> Int]
        /\ attempts'[w] <= attempts[w] + m
        /\ \A v \in Calls \ {w} : attempts'[v] <= attempts[v]
    BY <1>1, SumTypes, NilFacts DEF Save, IInv, TypeOK
  <2>2. SumFunction(attempts') <= SumFunction(attempts) + m
    BY <2>1, SumBound, FiniteDays
  <2> QED
    BY <2>2, SumTypes
<1>10. SumFunction(k) + SumFunction(attempts') <= SumFunction(spent')
  <2>1. /\ SumFunction(h) \in Int /\ SumFunction(k) \in Int
        /\ SumFunction(attempts) \in Int /\ SumFunction(attempts') \in Int
        /\ SumFunction(spent) \in Int /\ UNCHANGED spent
    BY <1>3, SumTypes, SumTypesNext DEF Save
  <2> QED
    BY <1>8, <1>9, <2>1 DEF Backs
<1> QED
  BY <1>3, <1>6, <1>7, <1>10 DEF Backs

LEMMA SentStep == SentInv /\ [Next]_vars => SentInv'
<1> SUFFICES ASSUME SentInv, [Next]_vars PROVE SentInv'
  OBVIOUS
<1>1. IInv /\ IInv'
  BY StepInv DEF SentInv
<1>2. PICK h : Backs(h)
  BY DEF SentInv
<1>3. CASE Tick \/ UNCHANGED vars
  <2>1. UNCHANGED <<spent, usage, callVars>>
    BY <1>3 DEF Tick, vars, dbVars
  <2>2. Backs(h)'
    BY <1>2, <2>1 DEF Backs, Count, SeenCount, callVars
  <2> QED
    BY <1>1, <2>2 DEF SentInv
<1>4. ASSUME NEW w \in Calls, NEW r \in Requests, Sync(w, r) \/ HealthCheck(w)
      PROVE  SentInv'
  <2>1. \E q \in Requests : Begin(w, q)
    BY <1>4, QuotaAssumption DEF Sync, HealthCheck
  <2> QED
    BY <1>1, <1>2, <2>1, OtherBacked DEF SentInv
<1>5. ASSUME NEW w \in Calls, Proceed(w) PROVE SentInv'
  <2>1. CASE Save(w)
    BY <1>1, <1>2, <2>1, SaveBacked DEF SentInv
  <2>2. CASE Succeed(w) \/ Retry(w) \/ GiveUp(w)
    BY <1>1, <1>2, <2>2, AttemptBacked DEF SentInv
  <2>3. CASE Lookup(w) \/ Load(w) \/ Abandon(w)
    BY <1>1, <1>2, <2>3, OtherBacked DEF SentInv
  <2> QED
    BY <1>5, <2>1, <2>2, <2>3 DEF Proceed
<1>6. Status \in Requests
  BY QuotaAssumption
<1> QED
  BY <1>3, <1>4, <1>5, <1>6 DEF Next

LEMMA SentInit == Init => SentInv
<1> SUFFICES ASSUME Init PROVE SentInv
  OBVIOUS
<1>1. IInv
  BY InitInv
<1>2. PICK h : h = [d \in Days |-> 0]
  OBVIOUS
<1>3. SumFunction(h) = 0 /\ SumFunction(attempts) = 0 /\ SumFunction(spent) = 0
  <2>1. /\ h \in [Days -> Int] /\ spent = h /\ \A d \in Days : h[d] = 0
        /\ attempts \in [Calls -> Int] /\ \A w \in Calls : attempts[w] = 0
    BY <1>2 DEF Init
  <2> QED
    BY <2>1, SumZero, FiniteDays
<1>4. Backs(h)
  BY <1>2, <1>3 DEF Init, Backs, Count
<1> QED
  BY <1>1, <1>4 DEF SentInv

\* Over all days the counted requests never exceed the attempts that were sent,
\* whatever number of calls lose each other's updates, retry, give up, are killed
\* before their commit or record after midnight what was sent before it.
THEOREM CountedWasSent == Spec => []RecordedWasSent
<1>1. SentInv => RecordedWasSent
  <2> SUFFICES ASSUME IInv, NEW h, Backs(h) PROVE RecordedWasSent
    BY DEF SentInv
  <2> PICK c : c = [d \in Days |-> Count(d)]
    OBVIOUS
  <2>1. /\ c \in [Days -> Int] /\ h \in [Days -> Int]
        /\ \A d \in Days : c[d] <= h[d]
    BY Counts DEF Backs
  <2>2. SumFunction(c) <= SumFunction(h) + 0 /\ SumFunction(c) \in Int
    <3>1. PICK e \in Days : TRUE
      BY FiniteDays
    <3>2. c[e] <= h[e] + 0 /\ \A d \in Days \ {e} : c[d] <= h[d]
      BY <2>1
    <3> QED
      BY <2>1, <3>2, SumBound, FiniteDays
  <2>3. SumFunction(attempts) >= 0
    <3> PICK z : z = [w \in Calls |-> 0]
      OBVIOUS
    <3>1. /\ z \in [Calls -> Int] /\ attempts \in [Calls -> Int]
          /\ \A w \in Calls : z[w] = 0 /\ z[w] <= attempts[w]
      BY SumTypes, NilFacts DEF IInv, TypeOK
    <3>2. SumFunction(z) = 0
      BY <3>1, SumZero, FiniteDays
    <3>3. CASE Calls = {}
      <4>1. \A w \in Calls : attempts[w] = 0
        BY <3>3
      <4>2. SumFunction(attempts) = 0
        BY <3>1, <4>1, SumZero, FiniteDays
      <4> QED
        BY <4>2
    <3>4. CASE Calls # {}
      <4> PICK w \in Calls : TRUE
        BY <3>4
      <4>1. z[w] <= attempts[w] + 0 /\ \A v \in Calls \ {w} : z[v] <= attempts[v]
        BY <3>1
      <4>2. SumFunction(z) <= SumFunction(attempts) + 0
        BY <3>1, <4>1, SumBound, FiniteDays
      <4> QED
        BY <3>2, <4>2, SumTypes
    <3> QED
      BY <3>3, <3>4
  <2>4. /\ SumFunction(h) \in Int /\ SumFunction(attempts) \in Int
        /\ SumFunction(spent) \in Int
    BY SumTypes DEF Backs
  <2> QED
    BY <2>2, <2>3, <2>4 DEF Backs, RecordedWasSent
<1> QED
  BY <1>1, SentInit, SentStep, PTL DEF Spec

=============================================================================
