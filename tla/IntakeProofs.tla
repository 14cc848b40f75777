------------------------------ MODULE IntakeProofs ------------------------------
(***************************************************************************)
(* What DataIntake promises of the rows that synchronisation and manual    *)
(* import share, proved for every number of competitions, matches,         *)
(* sessions and imports.                                                   *)
(*                                                                         *)
(* The argument.  A promise about a row is a promise about the changes     *)
(* that may write it, and it is made when the session collects the change, *)
(* long before the commit.  So each collected change is accounted for      *)
(* where it waits: one of a synchronisation says Provider, nothing         *)
(* official, and is of a kind that a coverage row permits; one of an       *)
(* import says its batch, and official only what the batch claims.  That   *)
(* stays true while it waits, because coverage rows are never replaced,    *)
(* rows never go away, and a loaded batch does not change; and a commit    *)
(* only moves such values into the rows (FactStoreProofs).                 *)
(***************************************************************************)
EXTENDS DataIntake, FactStoreProofs, SequenceTheorems, TLAPS

Labels == {"idle", "next", "check", "leagues", "store", "call", "commit", "ended"}
Active == {"check", "leagues", "store", "call", "commit"}
Loops  == CodeLoops \cup MatchLoops \cup {"request", Nil}
Stages == {"none", "loaded", "stored", "refused"}

ProviderTypes ==
  /\ now \in Times
  /\ leagues \in Times \cup {Nil}
  /\ mapped \subseteq Competitions
  /\ coverage \in [Competitions -> CoverageRows \cup {Nil}]

SessionTypes ==
  /\ pc \in [Tasks -> Labels]
  /\ loop \in [Tasks -> Loops]
  /\ todo \in [Tasks -> SUBSET (Competitions \cup Matches)]
  /\ item \in [Tasks -> Competitions \cup Matches \cup {Nil}]
  /\ plan \in [Tasks -> Seq(Kinds)]
  /\ got \in [Tasks -> Times \cup {Nil}]
  /\ pending \in [Tasks -> SUBSET Changes]
  /\ broken \subseteq Tasks

ImportTypes ==
  /\ stage \in [Batches -> Stages]
  /\ batch \in [Batches -> Batch \cup {Nil}]
  /\ assigned \in [Batches -> SUBSET Changes]

\* The coverage row of k's competition permits its kind.
Permitted(k) ==
  LET row == coverage[CompetitionIn(k)]
  IN  row # Nil /\ k[1] \in row.permits

\* Batch b says that k is official.
Claims(b, k) ==
  /\ batch[b].certainty = "official" /\ batch[b].sourced
  /\ \E rec \in batch[b].records :
       \/ rec.key = k
       \/ rec.key[1] \in {"lineups", "entries"} /\ k = <<"lineup_status", rec.key[2]>>

-----------------------------------------------------------------------------
\* The inductive invariant.

\* The kinds that are synchronised for a match, and for a competition.
Fitting(s) == IF s \in Matches THEN {"injuries", "lineups", "statistics"}
              ELSE {"competitions", "fixtures", "standings", "players", "results"}

\* Where a session stands agrees with what it is synchronising; it asks the
\* provider for an optional kind only under a row that permits it.
Control(t) ==
  /\ loop[t] \in CodeLoops => pc[t] # "ended" /\ todo[t] \subseteq Competitions
  /\ loop[t] \in MatchLoops => todo[t] \subseteq Matches
  /\ pc[t] \in Active \cup {"next"} => loop[t] # Nil
  /\ pc[t] \in Active =>
       item[t] # Nil /\ plan[t] # <<>> /\ plan[t] \in Seq(Fitting(item[t]))
  /\ pc[t] = "leagues" => Kind(t) # "results"
  /\ pc[t] = "store" => Kind(t) \in Optional /\ got[t] # Nil
  /\ pc[t] = "call" =>
       /\ Kind(t) # "competitions"
       /\ Kind(t) \in Optional => Permitted(<<Kind(t), item[t]>>)

\* A change collected by a synchronisation.
FromProvider(ch) ==
  /\ Proper(ch) /\ Grounded(ch)
  /\ "source" \in DOMAIN ch.wrote => ch.wrote["source"] = Provider
  /\ "certainty" \in DOMAIN ch.wrote => ch.wrote["certainty"] # "official"
  /\ ch.key[1] \in Optional => Permitted(ch.key)

\* A change collected by the import of batch b.
FromBatch(b, ch) ==
  /\ Proper(ch) /\ Grounded(ch)
  /\ "source" \in DOMAIN ch.wrote => ch.wrote["source"] = b
  /\ ("certainty" \in DOMAIN ch.wrote /\ ch.wrote["certainty"] = "official") =>
       Claims(b, ch.key)
  /\ (ch.key[1] = "results" /\ ~ch.insert) => "score" \notin DOMAIN ch.wrote

Sessions == \A t \in Tasks : /\ Control(t)
                             /\ \A ch \in pending[t] : FromProvider(ch)

ImportOK(b) ==
  /\ \A ch \in assigned[b] : FromBatch(b, ch)
  /\ stage[b] \in {"loaded", "stored"} => batch[b] \in Batch /\ Valid(batch[b])
  /\ stage[b] = "loaded" =>
       \A rec \in batch[b].records :
         fact[rec.key] # Nil \/ \E ch \in assigned[b] : ch.key = rec.key

Imports == \A b \in Batches : ImportOK(b)

Types == FactsOK /\ ProviderTypes /\ SessionTypes /\ ImportTypes

Promises == StoredIsPermitted /\ BatchIsAtomic /\ OfficialWasImported

IInv == Types /\ Sessions /\ Imports /\ Promises

-----------------------------------------------------------------------------
\* What a step may do to the rows and to the coverage, and keeps of sessions.

RowsStay == \A k \in Keys : fact[k] # Nil => fact'[k] # Nil

CoverageStays == \A c \in Competitions : coverage[c] # Nil => coverage'[c] = coverage[c]

SessionStays(t) ==
  /\ pc'[t] = pc[t] /\ loop'[t] = loop[t] /\ todo'[t] = todo[t] /\ item'[t] = item[t]
  /\ plan'[t] = plan[t] /\ got'[t] = got[t] /\ pending'[t] = pending[t]

OthersStay(t) == \A u \in Tasks \ {t} : SessionStays(u)

LEMMA TypesImplyTypeOK == Types => TypeOK
<1> SUFFICES ASSUME Types PROVE TypeOK
  OBVIOUS
<1>1. ASSUME NEW ch \in Changes PROVE IsChange(ch)
  <2>1. DOMAIN ch = {"key", "insert", "wrote"} /\ ch.key \in Keys /\ ch.insert \in BOOLEAN
        /\ ch.wrote \in Writes
    BY DEF Changes
  <2> QED
    BY <2>1 DEF IsChange, Writes
<1>2. \A t \in Tasks : plan[t] \in Seq(Kinds) /\ \A ch \in pending[t] : IsChange(ch)
  BY <1>1 DEF Types, SessionTypes
<1>3. \A b \in Batches : \A ch \in assigned[b] : IsChange(ch)
  BY <1>1 DEF Types, ImportTypes
<1> QED
  BY <1>2, <1>3
  DEF Types, FactsOK, ProviderTypes, SessionTypes, ImportTypes, TypeOK, Labels, Loops, Stages

LEMMA KeyIn ==
  ASSUME NEW k \in Keys
  PROVE  CompetitionIn(k) \in Competitions
BY StoreAssumption DEF Keys, CompetitionIn, OfCompetition, OfMatch

\* The kind and the item of an active session name a row where the kind is optional.
LEMMA ActiveFacts ==
  ASSUME Types, NEW t \in Tasks, Control(t), pc[t] \in Active
  PROVE  /\ item[t] \in Competitions \cup Matches
         /\ Code(t) \in Competitions
         /\ Kind(t) \in Fitting(item[t]) /\ Kind(t) \in Kinds
         /\ Kind(t) \in Optional =>
              /\ <<Kind(t), item[t]>> \in Keys
              /\ CompetitionIn(<<Kind(t), item[t]>>) = Code(t)
<1>1. /\ item[t] \in Competitions \cup Matches
      /\ plan[t] # <<>> /\ plan[t] \in Seq(Fitting(item[t]))
  BY DEF Types, SessionTypes, Control
<1>2. Kind(t) \in Fitting(item[t])
  BY <1>1, HeadTailProperties DEF Kind
<1>3. Kind(t) \in Kinds
  BY <1>2 DEF Fitting, Kinds, Optional
<1>4. Code(t) \in Competitions
  BY <1>1, StoreAssumption DEF Code
<1>5. ASSUME Kind(t) \in Optional
      PROVE  /\ <<Kind(t), item[t]>> \in Keys
             /\ CompetitionIn(<<Kind(t), item[t]>>) = Code(t)
  <2>1. CASE item[t] \in Matches
    BY <1>2, <2>1, KeyFacts DEF Fitting, OfMatch, CompetitionIn, OfCompetition, Code
  <2>2. CASE item[t] \notin Matches
    BY <1>1, <1>2, <1>5, <2>2, KeyFacts
    DEF Fitting, Optional, CompetitionIn, OfCompetition, Code
  <2> QED
    BY <2>1, <2>2
<1> QED
  BY <1>1, <1>2, <1>3, <1>4, <1>5

LEMMA PermittedStays ==
  ASSUME CoverageStays, NEW k \in Keys, Permitted(k)
  PROVE  Permitted(k)'
BY KeyIn DEF CoverageStays, Permitted, CompetitionIn

LEMMA FromProviderStays ==
  ASSUME RowsStay, CoverageStays, NEW ch \in Changes, FromProvider(ch)
  PROVE  FromProvider(ch)'
<1>1. ch.key \in Keys
  BY DEF Changes
<1> QED
  BY <1>1, PermittedStays DEF FromProvider, Proper, Grounded, RowsStay

LEMMA ControlStays ==
  ASSUME Types, CoverageStays, NEW t \in Tasks, SessionStays(t), Control(t)
  PROVE  Control(t)'
<1>1. Kind(t)' = Kind(t)
  BY DEF Kind, SessionStays
<1>2. ASSUME pc[t] = "call", Kind(t) \in Optional
      PROVE  Permitted(<<Kind(t), item[t]>>)'
  <2>1. <<Kind(t), item[t]>> \in Keys
    BY <1>2, ActiveFacts DEF Active
  <2>2. PICK k \in Keys : k = <<Kind(t), item[t]>> /\ Permitted(k)
    BY <1>2, <2>1 DEF Control
  <2>3. Permitted(k)' /\ <<Kind(t), item[t]>>' = k
    BY <1>1, <2>2, PermittedStays DEF SessionStays
  <2> QED
    BY <2>3 DEF Permitted, CompetitionIn
<1> QED
  BY <1>1, <1>2 DEF Control, SessionStays

\* A step of one session leaves what is known of the others.
LEMMA SessionsStep ==
  ASSUME IInv, NEW t \in Tasks, RowsStay, CoverageStays, OthersStay(t),
         Control(t)', \A ch \in pending'[t] : FromProvider(ch)'
  PROVE  Sessions'
<1> SUFFICES ASSUME NEW u \in Tasks, u # t
             PROVE  Control(u)' /\ \A ch \in pending'[u] : FromProvider(ch)'
  BY DEF Sessions
<1>1. SessionStays(u) /\ Control(u) /\ \A ch \in pending[u] : FromProvider(ch)
  BY DEF OthersStay, IInv, Sessions
<1>2. \A ch \in pending[u] : ch \in Changes
  BY DEF IInv, Types, SessionTypes
<1> QED
  BY <1>1, <1>2, ControlStays, FromProviderStays DEF IInv, SessionStays

LEMMA SessionsStay ==
  ASSUME IInv, RowsStay, CoverageStays, UNCHANGED sessionVars
  PROVE  Sessions'
<1> SUFFICES ASSUME NEW u \in Tasks
             PROVE  Control(u)' /\ \A ch \in pending'[u] : FromProvider(ch)'
  BY DEF Sessions
<1>1. SessionStays(u) /\ Control(u) /\ \A ch \in pending[u] : FromProvider(ch)
  BY DEF sessionVars, SessionStays, IInv, Sessions
<1>2. \A ch \in pending[u] : ch \in Changes
  BY DEF IInv, Types, SessionTypes
<1> QED
  BY <1>1, <1>2, ControlStays, FromProviderStays DEF IInv, SessionStays

-----------------------------------------------------------------------------
\* The promises under a step that stores no row, and under a commit.

BatchesStay ==
  \A b \in Batches : stage[b] = "stored" => stage'[b] = "stored" /\ batch'[b] = batch[b]

LEMMA OfficialMeansClaimed ==
  OfficialWasImported <=>
    \A k \in Keys : (fact[k] # Nil /\ fact[k].certainty = "official") =>
                      \E b \in Batches : stage[b] = "stored" /\ Claims(b, k)
BY DEF OfficialWasImported, Claims

LEMMA PromisesStay ==
  ASSUME IInv, fact' = fact, CoverageStays, BatchesStay,
         \A b \in Batches : stage'[b] = "stored" => stage[b] = "stored"
  PROVE  Promises'
<1>1. StoredIsPermitted'
  <2> SUFFICES ASSUME NEW k \in Keys, k[1] \in Optional, fact[k] # Nil,
                      fact[k].source = Provider
               PROVE  Permitted(k)'
    BY DEF StoredIsPermitted, Permitted, CompetitionIn
  <2>1. Permitted(k)
    BY DEF IInv, Promises, StoredIsPermitted, Permitted
  <2> QED
    BY <2>1, PermittedStays
<1>2. BatchIsAtomic'
  BY DEF IInv, Promises, BatchIsAtomic, BatchesStay
<1>3. OfficialWasImported'
  <2>1. \A b \in Batches : \A k : (stage[b] = "stored" /\ Claims(b, k)) =>
                                 stage'[b] = "stored" /\ Claims(b, k)'
    BY DEF BatchesStay, Claims
  <2>2. \A k \in Keys : (fact[k] # Nil /\ fact[k].certainty = "official") =>
                          \E b \in Batches : stage[b] = "stored" /\ Claims(b, k)
    BY OfficialMeansClaimed DEF IInv, Promises
  <2> QED
    BY <2>1, <2>2 DEF OfficialWasImported, Claims
<1> QED
  BY <1>1, <1>2, <1>3 DEF Promises

LEMMA CommitKeepsPromises ==
  ASSUME IInv, NEW changes \in SUBSET Changes,
         \A ch \in changes : Proper(ch) /\ Grounded(ch),
         fact' = Stored(changes), CoverageStays, BatchesStay,
         \A ch \in changes : "source" \in DOMAIN ch.wrote =>
           /\ (ch.wrote["source"] = Provider /\ ch.key[1] \in Optional) => Permitted(ch.key)
           /\ ch.wrote["source"] \in Batches => stage'[ch.wrote["source"]] = "stored",
         \A ch \in changes :
           ("certainty" \in DOMAIN ch.wrote /\ ch.wrote["certainty"] = "official") =>
             \E b \in Batches : stage'[b] = "stored" /\ Claims(b, ch.key)',
         \A b \in Batches : stage'[b] = "stored" =>
           \A rec \in batch'[b].records : fact'[rec.key] # Nil
  PROVE  Promises'
<1> USE DEF IInv, Types
<1>1. Nil \notin Writers /\ Nil \notin Certainties
  BY StoreAssumption
<1>2. StoredIsPermitted'
  <2> SUFFICES ASSUME NEW k \in Keys, k[1] \in Optional, fact'[k] # Nil,
                      fact'[k].source = Provider
               PROVE  Permitted(k)'
    BY DEF StoredIsPermitted, Permitted, CompetitionIn
  <2>1. fact'[k]["source"] = Provider /\ Provider # Nil /\ "source" \in Columns
    BY <1>1 DEF Writers, Columns
  <2>2. \/ fact[k] # Nil /\ fact[k]["source"] = Provider
        \/ \E ch \in changes :
             ch.key = k /\ "source" \in DOMAIN ch.wrote /\ ch.wrote["source"] = Provider
    BY <2>1, ValueIsOldOrWritten
  <2>3. Permitted(k)
    BY <2>2 DEF Promises, StoredIsPermitted, Permitted
  <2> QED
    BY <2>3, PermittedStays
<1>3. BatchIsAtomic'
  <2> SUFFICES ASSUME NEW k \in Keys, NEW b \in Batches, fact'[k] # Nil,
                      fact'[k].source = b
               PROVE  stage'[b] = "stored"
    BY DEF BatchIsAtomic
  <2>1. fact'[k]["source"] = b /\ b # Nil /\ "source" \in Columns
    BY <1>1 DEF Writers, Columns
  <2>2. \/ fact[k] # Nil /\ fact[k]["source"] = b
        \/ \E ch \in changes :
             ch.key = k /\ "source" \in DOMAIN ch.wrote /\ ch.wrote["source"] = b
    BY <2>1, ValueIsOldOrWritten
  <2> QED
    BY <2>2 DEF Promises, BatchIsAtomic, BatchesStay
<1>4. OfficialWasImported'
  <2> SUFFICES ASSUME NEW k \in Keys, fact'[k] # Nil, fact'[k].certainty = "official"
               PROVE  \E b \in Batches : stage'[b] = "stored" /\ Claims(b, k)'
    BY DEF OfficialWasImported, Claims
  <2>1. fact'[k]["certainty"] = "official" /\ "official" # Nil /\ "certainty" \in Columns
    BY <1>1 DEF Certainties, Columns
  <2>2. CASE fact[k] # Nil /\ fact[k]["certainty"] = "official"
    <3>1. PICK b \in Batches : stage[b] = "stored" /\ Claims(b, k)
      BY <2>2, OfficialMeansClaimed DEF Promises
    <3> QED
      BY <3>1 DEF BatchesStay, Claims
  <2>3. ASSUME NEW ch \in changes, ch.key = k,
               "certainty" \in DOMAIN ch.wrote, ch.wrote["certainty"] = "official"
        PROVE  \E b \in Batches : stage'[b] = "stored" /\ Claims(b, k)'
    <3>1. PICK b \in Batches : stage'[b] = "stored" /\ Claims(b, ch.key)'
      BY <2>3
    <3> QED
      BY <2>3, <3>1 DEF Claims
  <2> QED
    BY <2>1, <2>2, <2>3, ValueIsOldOrWritten
<1> QED
  BY <1>2, <1>3, <1>4 DEF Promises

\* A synchronisation commits: fact rows are added and overwritten, and nothing
\* but the provider's values gets there.
LEMMA SessionCommit ==
  ASSUME IInv, NEW t \in Tasks, fact' = Stored(pending[t]), coverage' = coverage,
         UNCHANGED importVars
  PROVE  FactsOK' /\ RowsStay /\ CoverageStays /\ Promises'
<1>1. pending[t] \in SUBSET Changes /\ \A ch \in pending[t] : FromProvider(ch)
  BY DEF IInv, Types, SessionTypes, Sessions
<1>2. \A ch \in pending[t] : Proper(ch) /\ Grounded(ch)
  BY <1>1 DEF FromProvider
<1>3. FactsOK' /\ RowsStay
  BY <1>1, <1>2, StoredFacts DEF IInv, Types, RowsStay
<1>4. CoverageStays /\ BatchesStay
  BY DEF CoverageStays, BatchesStay, importVars
<1>5. \A b \in Batches : stage'[b] = "stored" =>
        \A rec \in batch'[b].records : fact'[rec.key] # Nil
  <2> SUFFICES ASSUME NEW b \in Batches, stage[b] = "stored",
                      NEW rec \in batch[b].records
               PROVE  fact'[rec.key] # Nil
    BY DEF importVars
  <2>1. fact[rec.key] # Nil
    BY DEF IInv, Promises, BatchIsAtomic
  <2>2. rec.key \in Keys
    BY DEF IInv, Imports, ImportOK, Batch
  <2> QED
    BY <1>3, <2>1, <2>2 DEF RowsStay
<1>6. Provider \notin Batches
  BY StoreAssumption
<1> QED
  BY <1>1, <1>2, <1>3, <1>4, <1>5, <1>6, CommitKeepsPromises DEF FromProvider

LEMMA ImportsStay ==
  ASSUME IInv, RowsStay, UNCHANGED importVars
  PROVE  ImportTypes' /\ Imports'
<1>1. ImportTypes'
  BY DEF IInv, Types, ImportTypes, importVars
<1>2. ASSUME NEW b \in Batches PROVE ImportOK(b)'
  <2>1. ImportOK(b)
    BY DEF IInv, Imports
  <2>2. ASSUME NEW ch \in assigned[b] PROVE FromBatch(b, ch)'
    <3>1. ch.key \in Keys
      BY DEF IInv, Types, ImportTypes, Changes
    <3> QED
      BY <2>1, <3>1
      DEF ImportOK, FromBatch, Proper, Grounded, RowsStay, importVars, Claims
  <2>3. stage[b] = "loaded" =>
          \A rec \in batch[b].records :
            fact'[rec.key] # Nil \/ \E ch \in assigned[b] : ch.key = rec.key
    <3> SUFFICES ASSUME stage[b] = "loaded", NEW rec \in batch[b].records
                 PROVE  fact'[rec.key] # Nil \/ \E ch \in assigned[b] : ch.key = rec.key
      OBVIOUS
    <3>1. rec.key \in Keys
      BY <2>1 DEF ImportOK, Batch
    <3> QED
      BY <2>1, <3>1 DEF ImportOK, RowsStay
  <2> QED
    BY <2>1, <2>2, <2>3 DEF ImportOK, importVars, Valid
<1> QED
  BY <1>1, <1>2 DEF Imports

-----------------------------------------------------------------------------
\* Steps of one session.

Steps(t) ==
  /\ SessionTypes' /\ OthersStay(t) /\ Control(t)'
  /\ \A ch \in pending'[t] : ch \in pending[t] \/ FromProvider(ch)'

LEMMA SessionStep ==
  ASSUME IInv, NEW t \in Tasks, Steps(t), UNCHANGED importVars,
         FactsOK', ProviderTypes', RowsStay, CoverageStays, Promises'
  PROVE  IInv'
<1>1. \A ch \in pending'[t] : FromProvider(ch)'
  <2>1. \A ch \in pending[t] : ch \in Changes /\ FromProvider(ch)
    BY DEF IInv, Types, SessionTypes, Sessions
  <2> QED
    BY <2>1, FromProviderStays DEF Steps
<1>2. Sessions'
  BY <1>1, SessionsStep DEF Steps
<1> QED
  BY <1>2, ImportsStay DEF IInv, Types, Steps

\* One that stores nothing.
LEMMA QuietStep ==
  ASSUME IInv, NEW t \in Tasks, Steps(t), UNCHANGED <<fact, providerVars, importVars>>
  PROVE  IInv'
<1>1. FactsOK' /\ ProviderTypes'
  BY DEF IInv, Types, FactsOK, ProviderTypes, providerVars
<1>2. RowsStay /\ CoverageStays /\ BatchesStay
  BY DEF RowsStay, CoverageStays, BatchesStay, providerVars, importVars
<1>3. Promises'
  BY <1>2, PromisesStay DEF importVars
<1> QED
  BY <1>1, <1>2, <1>3, SessionStep

\* A session that commits what it collected, whatever becomes of it.
LEMMA CommitStep ==
  ASSUME IInv, NEW t \in Tasks, Steps(t), fact' = Stored(pending[t]),
         coverage' = coverage, ProviderTypes', UNCHANGED importVars
  PROVE  IInv'
BY SessionCommit, SessionStep

LEMMA CloseSteps ==
  ASSUME IInv, NEW t \in Tasks, Close(t)
  PROVE  Steps(t)
<1> USE DEF IInv, Types
<1>1. SessionTypes'
  BY DEF Close, Goto, SessionTypes, Labels, Loops
<1>2. OthersStay(t)
  BY DEF Close, Goto, OthersStay, SessionStays, SessionTypes
<1>3. pc'[t] = "ended" /\ loop'[t] = Nil /\ pending'[t] = {}
  BY DEF Close, Goto, SessionTypes
<1>4. Nil \notin CodeLoops \cup MatchLoops
  BY SyncAssumption
<1> QED
  BY <1>1, <1>2, <1>3, <1>4 DEF Steps, Control, Active

LEMMA LeaveSteps ==
  ASSUME IInv, NEW t \in Tasks, pc[t] \in Active, Leave(t), broken' \subseteq Tasks,
         pending' \in [Tasks -> SUBSET Changes],
         \A u \in Tasks \ {t} : pending'[u] = pending[u],
         \A ch \in pending'[t] : ch \in pending[t] \/ FromProvider(ch)'
  PROVE  Steps(t)
<1> USE DEF IInv, Types
<1>1. SessionTypes'
  <2>1. pc' \in [Tasks -> Labels] /\ plan' \in [Tasks -> Seq(Kinds)]
    BY DEF Leave, Goto, SessionTypes, Labels
  <2>2. /\ item' \in [Tasks -> Competitions \cup Matches \cup {Nil}]
        /\ got' \in [Tasks -> Times \cup {Nil}]
    BY DEF Leave, SessionTypes
  <2> QED
    BY <2>1, <2>2 DEF Leave, SessionTypes
<1>2. OthersStay(t)
  BY DEF Leave, Goto, OthersStay, SessionStays, SessionTypes
<1>3. pc'[t] = "next" /\ loop'[t] = loop[t] /\ todo'[t] = todo[t]
  BY DEF Leave, Goto, SessionTypes
<1>4. Control(t)
  BY DEF Sessions
<1> QED
  BY <1>1, <1>2, <1>3, <1>4 DEF Steps, Control, Active

LEMMA RaiseSteps ==
  ASSUME IInv, NEW t \in Tasks, pc[t] \in Active, Raise(t)
  PROVE  Steps(t)
<1>1. /\ broken' \subseteq Tasks /\ pending' \in [Tasks -> SUBSET Changes]
      /\ pending' = pending /\ Leave(t)
  BY DEF Raise, IInv, Types, SessionTypes
<1> QED
  BY <1>1, LeaveSteps

LEMMA BreakSteps ==
  ASSUME IInv, NEW t \in Tasks, pc[t] \in Active, Break(t)
  PROVE  Steps(t)
<1>1. CASE Close(t)
  BY <1>1, CloseSteps
<1>2. CASE /\ Leave(t)
           /\ pending' = [pending EXCEPT ![t] = {}]
           /\ broken' = broken \cup {t}
  <2>1. /\ broken' \subseteq Tasks /\ pending' \in [Tasks -> SUBSET Changes]
        /\ pending'[t] = {} /\ \A u \in Tasks \ {t} : pending'[u] = pending[u]
    BY <1>2 DEF IInv, Types, SessionTypes
  <2> QED
    BY <1>2, <2>1, LeaveSteps
<1> QED
  BY <1>1, <1>2 DEF Break

\* On to the commit: nothing further is known, or needed, there.
LEMMA GotoFacts ==
  ASSUME IInv, NEW t \in Tasks, NEW label \in Labels, Goto(t, label)
  PROVE  /\ pc' \in [Tasks -> Labels] /\ pc'[t] = label
         /\ \A u \in Tasks \ {t} : pc'[u] = pc[u]
BY DEF IInv, Types, SessionTypes, Goto

LEMMA StaySteps ==
  ASSUME IInv, NEW t \in Tasks, NEW label \in {"leagues", "call"}, pc[t] \in Active,
         Goto(t, label), UNCHANGED restVars,
         label = "leagues" => Kind(t) # "results",
         label = "call" =>
           /\ Kind(t) # "competitions"
           /\ Kind(t) \in Optional => Permitted(<<Kind(t), item[t]>>)'
  PROVE  Steps(t)
<1>1. label \in Labels
  BY DEF Labels
<1>2. SessionTypes' /\ OthersStay(t)
  BY <1>1, GotoFacts DEF IInv, Types, SessionTypes, OthersStay, SessionStays, restVars
<1>3. Kind(t)' = Kind(t)
  BY DEF Kind, restVars
<1>4. pc'[t] = label /\ Control(t)
  BY <1>1, GotoFacts DEF IInv, Sessions
<1>5. Control(t)'
  BY <1>3, <1>4 DEF Control, Active, restVars
<1> QED
  BY <1>2, <1>5 DEF Steps, restVars

-----------------------------------------------------------------------------
\* The loops: what an execution begins with, and the items it takes.

LEMMA BeginSteps ==
  ASSUME IInv, NEW t \in Tasks, NEW l \in Loops \ {Nil},
         NEW items \in SUBSET (Competitions \cup Matches), Begin(t, l, items),
         l \in CodeLoops => items \subseteq Competitions,
         l \in MatchLoops => items \subseteq Matches
  PROVE  Steps(t)
<1>1. pc'[t] = "next" /\ loop'[t] = l /\ todo'[t] = items
  BY DEF Begin, Goto, IInv, Types, SessionTypes
<1>2. SessionTypes'
  BY DEF Begin, Goto, IInv, Types, SessionTypes, Labels
<1>3. OthersStay(t) /\ pending' = pending
  BY DEF Begin, Goto, IInv, Types, SessionTypes, OthersStay, SessionStays
<1>4. Control(t)'
  BY <1>1 DEF Control, Active
<1> QED
  BY <1>2, <1>3, <1>4 DEF Steps

LEMMA StartKeeps ==
  ASSUME IInv, NEW t \in Tasks, Start(t), UNCHANGED importVars
  PROVE  IInv'
<1>1. CodeLoops \cap MatchLoops = {} /\ "request" \notin CodeLoops \cup MatchLoops
  BY DEF CodeLoops, MatchLoops
<1>2. \A l \in CodeLoops \cup MatchLoops \cup {"request"} : l \in Loops \ {Nil}
  BY SyncAssumption DEF Loops
<1>3. \A m \in Matches : CompetitionOf[m] \in Competitions
  BY StoreAssumption
<1>4. CASE SyncFutureFixtures(t) \/ SyncDailyStandings(t)
  <2>1. PICK l \in {"fixtures", "standings"} : Begin(t, l, Competitions)
    BY <1>4 DEF SyncFutureFixtures, SyncDailyStandings
  <2>2. l \in CodeLoops
    BY DEF CodeLoops
  <2> QED
    BY <1>1, <1>2, <2>1, <2>2, BeginSteps, QuietStep DEF Begin
<1>5. CASE SyncContext(t) \/ RefreshPreMatchContext(t)
  <2>1. PICK l \in MatchLoops, ms \in SUBSET Matches : Begin(t, l, ms)
    BY <1>5 DEF SyncContext, RefreshPreMatchContext, MatchLoops
  <2> QED
    BY <1>1, <1>2, <2>1, BeginSteps, QuietStep DEF Begin
<1>6. CASE SyncPostMatchResults(t)
  <2> DEFINE cs == {CompetitionOf[m] : m \in {m \in Ended : fact[<<"results", m>>] = Nil}}
  <2>1. cs \in SUBSET Competitions /\ Begin(t, "results", cs)
    BY <1>3, <1>6, SyncAssumption DEF SyncPostMatchResults
  <2> HIDE DEF cs
  <2>2. "results" \in CodeLoops
    BY DEF CodeLoops
  <2> QED
    BY <1>1, <1>2, <2>1, <2>2, BeginSteps, QuietStep DEF Begin
<1>7. CASE ApiSync(t)
  <2>1. PICK s \in Competitions \cup Matches : Begin(t, "request", {s})
    BY <1>7 DEF ApiSync
  <2> QED
    BY <1>1, <1>2, <2>1, BeginSteps, QuietStep DEF Begin
<1> QED
  BY <1>4, <1>5, <1>6, <1>7 DEF Start

LEMMA ShortSequences ==
  ASSUME NEW S, NEW a \in S, NEW b \in S
  PROVE  /\ <<a>> \in Seq(S) /\ <<a>> # <<>>
         /\ <<a, b>> \in Seq(S) /\ <<a, b>> # <<>>
<1>1. <<a, b>> = Append(<<a>>, b)
  OBVIOUS
<1> QED
  BY <1>1

LEMMA LongTail ==
  ASSUME NEW S, NEW s \in Seq(S), Len(s) > 1
  PROVE  Tail(s) # <<>>
<1>1. s # <<>> /\ Len(s) \in Nat /\ Len(<<>>) = 0
  BY LenProperties
<1>2. Len(Tail(s)) = Len(s) - 1
  BY <1>1, HeadTailProperties
<1>3. Len(Tail(s)) # Len(<<>>)
  BY <1>1, <1>2
<1> QED
  BY <1>3, Zenon

\* What is planned for an item can be synchronised for it.
LEMMA PlansFit ==
  ASSUME NEW l \in Loops \ {Nil}, NEW s \in Competitions \cup Matches,
         l \in CodeLoops => s \in Competitions,
         l \in MatchLoops => s \in Matches,
         NEW p \in Plans(l, s)
  PROVE  p # <<>> /\ p \in Seq(Fitting(s)) /\ p \in Seq(Kinds)
<1> DEFINE F == Fitting(s)
<1>1. Competitions \cap Matches = {}
  BY StoreAssumption
<1>2. F \subseteq Kinds
  BY DEF Fitting, Kinds, Optional
<1>3. CASE l \in MatchLoops
  <2>1. "injuries" \in F /\ "lineups" \in F
    BY <1>3 DEF Fitting
  <2>2. p = <<"injuries">> \/ p = <<"injuries", "lineups">>
    BY <1>3 DEF Plans, MatchLoops
  <2> HIDE DEF F
  <2>3. p \in Seq(F) /\ p \in Seq(Kinds) /\ p # <<>>
    BY <1>2, <2>1, <2>2, ShortSequences
  <2> QED
    BY <2>3 DEF F
<1>4. CASE l = "request"
  <2>1. PICK k \in Requested :
          p = <<k>> /\ (s \in Matches <=> k \in OfMatch \ {"results"})
    BY <1>4 DEF Plans
  <2>2. k \in F
    BY <2>1, SyncAssumption DEF Fitting, OfMatch, Kinds, Optional
  <2> HIDE DEF F
  <2>3. p \in Seq(F) /\ p \in Seq(Kinds) /\ p # <<>>
    BY <1>2, <2>1, <2>2, ShortSequences
  <2> QED
    BY <2>3 DEF F
<1>5. CASE l \in CodeLoops
  <2>1. l \in F
    BY <1>1, <1>5 DEF Fitting, CodeLoops
  <2>2. p = <<l>>
    BY <1>5 DEF Plans, CodeLoops
  <2> HIDE DEF F
  <2>3. p \in Seq(F) /\ p \in Seq(Kinds) /\ p # <<>>
    BY <1>2, <2>1, <2>2, ShortSequences
  <2> QED
    BY <2>3 DEF F
<1> QED
  BY <1>3, <1>4, <1>5 DEF Loops

LEMMA TakeKeeps ==
  ASSUME IInv, NEW t \in Tasks, Take(t), UNCHANGED importVars
  PROVE  IInv'
<1> USE DEF IInv, Types
<1>1. PICK s \in todo[t] :
        /\ todo' = [todo EXCEPT ![t] = @ \ {s}]
        /\ IF t \in broken
           THEN UNCHANGED <<pc, item, plan>>
           ELSE /\ item' = [item EXCEPT ![t] = s]
                /\ \E p \in Plans(loop[t], s) : plan' = [plan EXCEPT ![t] = p]
                /\ Goto(t, "check")
  BY DEF Take
<1>2. /\ pc[t] = "next" /\ Control(t) /\ loop[t] \in Loops \ {Nil}
      /\ s \in Competitions \cup Matches
      /\ loop[t] \in CodeLoops => s \in Competitions
      /\ loop[t] \in MatchLoops => s \in Matches
  BY <1>1 DEF Take, SessionTypes, Sessions, Control
<1>3. UNCHANGED <<loop, got, pending, broken>> /\ UNCHANGED <<fact, providerVars>>
  BY DEF Take
<1>4. todo' \in [Tasks -> SUBSET (Competitions \cup Matches)] /\ todo'[t] \subseteq todo[t]
  BY <1>1 DEF SessionTypes
<1>5. CASE t \in broken
  <2>1. SessionTypes' /\ OthersStay(t)
    BY <1>1, <1>3, <1>4, <1>5 DEF SessionTypes, OthersStay, SessionStays
  <2>2. Control(t)'
    BY <1>1, <1>2, <1>3, <1>4, <1>5 DEF Control, Active
  <2> QED
    BY <1>3, <2>1, <2>2, QuietStep DEF Steps
<1>6. CASE t \notin broken
  <2>1. PICK p \in Plans(loop[t], s) : plan' = [plan EXCEPT ![t] = p]
    BY <1>1, <1>6
  <2>2. p # <<>> /\ p \in Seq(Fitting(s)) /\ p \in Seq(Kinds)
    BY <1>2, PlansFit
  <2>3. /\ pc' \in [Tasks -> Labels] /\ pc'[t] = "check"
        /\ item' \in [Tasks -> Competitions \cup Matches \cup {Nil}] /\ item'[t] = s
        /\ plan' \in [Tasks -> Seq(Kinds)] /\ plan'[t] = p
    <3>1. pc' \in [Tasks -> Labels] /\ pc'[t] = "check"
      BY <1>1, <1>6 DEF Goto, SessionTypes, Labels
    <3>2. item' \in [Tasks -> Competitions \cup Matches \cup {Nil}] /\ item'[t] = s
      BY <1>1, <1>2, <1>6 DEF SessionTypes
    <3>3. plan' \in [Tasks -> Seq(Kinds)] /\ plan'[t] = p
      BY <2>1, <2>2 DEF SessionTypes
    <3> QED
      BY <3>1, <3>2, <3>3
  <2>4. SessionTypes'
    BY <1>3, <1>4, <2>3 DEF SessionTypes
  <2>5. OthersStay(t)
    BY <1>1, <1>3, <1>6, <2>1 DEF Goto, SessionTypes, OthersStay, SessionStays
  <2>6. s # Nil
    BY <1>2, StoreAssumption
  <2>7. Control(t)'
    BY <1>2, <1>3, <1>4, <2>2, <2>3, <2>6 DEF Control, Active, Fitting
  <2> QED
    BY <1>3, <2>4, <2>5, <2>7, QuietStep DEF Steps
<1> QED
  BY <1>5, <1>6

-----------------------------------------------------------------------------
\* One item, up to the provider's answer.

LEMMA DecideSteps ==
  ASSUME IInv, NEW t \in Tasks, NEW row, pc[t] \in Active, Decide(t, row),
         Kind(t) \in Optional, row # Nil, coverage'[Code(t)] = row
  PROVE  Steps(t)
<1>1. Kind(t) # "competitions"
  BY DEF Optional
<1>2. CASE Raise(t)
  BY <1>2, RaiseSteps
<1>3. CASE Kind(t) \in row.permits /\ Goto(t, "call") /\ UNCHANGED restVars
  <2>1. Control(t)
    BY DEF IInv, Sessions
  <2>2. CompetitionIn(<<Kind(t), item[t]>>) = Code(t)
    BY <2>1, ActiveFacts DEF IInv
  <2>3. Permitted(<<Kind(t), item[t]>>)'
    BY <1>3, <2>2 DEF Permitted, CompetitionIn, Kind, restVars
  <2> QED
    BY <1>1, <1>3, <2>3, StaySteps
<1> QED
  BY <1>2, <1>3 DEF Decide, Permits

LEMMA CheckKeeps ==
  ASSUME IInv, NEW t \in Tasks, Check(t), UNCHANGED importVars
  PROVE  IInv'
<1>1. /\ pc[t] \in Active /\ Control(t) /\ UNCHANGED <<fact, providerVars>>
      /\ coverage' = coverage
  BY DEF Check, Active, IInv, Sessions, providerVars
<1>2. CASE NeedsLeagues(t) /\ Goto(t, "leagues") /\ UNCHANGED restVars
  <2>1. Kind(t) # "results"
    BY <1>2 DEF NeedsLeagues, Optional
  <2> QED
    BY <1>1, <1>2, <2>1, StaySteps, QuietStep
<1>3. CASE ~NeedsLeagues(t) /\ Kind(t) \in Optional /\ Decide(t, coverage[Code(t)])
  <2>1. coverage[Code(t)] # Nil
    BY <1>3 DEF NeedsLeagues, Fresh
  <2>2. PICK row : row = coverage[Code(t)]
    OBVIOUS
  <2>3. Steps(t)
    BY <1>1, <1>3, <2>1, <2>2, DecideSteps
  <2> QED
    BY <1>1, <2>3, QuietStep
<1>4. CASE /\ ~NeedsLeagues(t) /\ Kind(t) \notin Optional
           /\ Goto(t, "call") /\ UNCHANGED restVars
  <2>1. Kind(t) # "competitions"
    BY <1>4 DEF NeedsLeagues
  <2> QED
    BY <1>1, <1>4, <2>1, StaySteps, QuietStep
<1>5. CASE Raise(t)
  BY <1>1, <1>5, RaiseSteps, QuietStep
<1> QED
  BY <1>2, <1>3, <1>4, <1>5 DEF Check

LEMMA EndsKeep ==
  ASSUME IInv, NEW t \in Tasks, Finish(t) \/ CallRaises(t) \/ FlushFails(t),
         UNCHANGED importVars
  PROVE  IInv'
<1>1. Close(t) \/ (pc[t] \in Active /\ (Raise(t) \/ Break(t)))
  BY DEF Finish, CallRaises, FlushFails, Active
<1> QED
  BY <1>1, CloseSteps, RaiseSteps, BreakSteps, QuietStep DEF Finish, CallRaises, FlushFails

LEMMA SyncCompetitionsKeeps ==
  ASSUME IInv, NEW t \in Tasks, SyncCompetitions(t), UNCHANGED importVars
  PROVE  IInv'
<1>1. /\ pc[t] \in Active /\ Control(t) /\ pc[t] = "leagues"
      /\ now' = now /\ coverage' = coverage
  BY DEF SyncCompetitions, Active, IInv, Sessions
<1>2. CASE Conflict(pending[t])
  <2>1. Break(t) /\ UNCHANGED <<fact, providerVars>>
    BY <1>1, <1>2 DEF SyncCompetitions, providerVars
  <2> QED
    BY <1>1, <2>1, BreakSteps, QuietStep
<1>3. CASE ~Conflict(pending[t])
  <2>1. /\ leagues' = IF leagues # Nil /\ leagues + Window > now THEN leagues ELSE now
        /\ mapped' = mapped \cup Listed
        /\ fact' = Stored(pending[t])
        /\ pending' = [pending EXCEPT ![t] = {}]
        /\ broken' = broken
        /\ IF AfterLeagues(t) = "next"
           THEN Leave(t)
           ELSE /\ Goto(t, AfterLeagues(t))
                /\ got' = [got EXCEPT ![t] = leagues']
                /\ UNCHANGED <<loop, todo, item, plan>>
    BY <1>3 DEF SyncCompetitions
  <2>2. leagues' \in Times
    BY <2>1 DEF IInv, Types, ProviderTypes
  <2>3. ProviderTypes'
    BY <1>1, <2>1, <2>2, SyncAssumption DEF IInv, Types, ProviderTypes
  <2>4. /\ pending' \in [Tasks -> SUBSET Changes] /\ pending'[t] = {}
        /\ \A u \in Tasks \ {t} : pending'[u] = pending[u]
        /\ broken' \subseteq Tasks
    BY <2>1 DEF IInv, Types, SessionTypes
  <2>5. CASE AfterLeagues(t) = "next"
    BY <1>1, <2>1, <2>3, <2>4, <2>5, LeaveSteps, CommitStep
  <2>6. CASE AfterLeagues(t) # "next"
    <3>1. /\ Kind(t) \in Kinds /\ Kind(t) # "results"
          /\ AfterLeagues(t) = "call" => Kind(t) = "fixtures"
          /\ AfterLeagues(t) = "store" => Kind(t) \in Optional
          /\ AfterLeagues(t) \in {"call", "store"}
      <4>1. Kind(t) \in Kinds /\ Kind(t) # "results"
        BY <1>1, ActiveFacts DEF IInv, Control
      <4> QED
        BY <2>6, <4>1 DEF AfterLeagues, Kinds
    <3>2. pc' \in [Tasks -> Labels] /\ pc'[t] = AfterLeagues(t)
          /\ \A u \in Tasks \ {t} : pc'[u] = pc[u]
      <4>1. PICK label \in {"call", "store"} : label = AfterLeagues(t)
        BY <3>1
      <4> QED
        BY <2>1, <2>6, <4>1, GotoFacts DEF Labels
    <3>3. /\ got' \in [Tasks -> Times \cup {Nil}] /\ got'[t] = leagues'
          /\ \A u \in Tasks \ {t} : got'[u] = got[u]
          /\ UNCHANGED <<loop, todo, item, plan>>
      BY <2>1, <2>2, <2>6 DEF IInv, Types, SessionTypes
    <3>4. SessionTypes' /\ OthersStay(t)
      BY <2>4, <3>2, <3>3 DEF IInv, Types, SessionTypes, OthersStay, SessionStays
    <3>5. Kind(t)' = Kind(t) /\ leagues' # Nil
      BY <2>2, <3>3, SyncAssumption DEF Kind
    <3>6. Control(t)'
      BY <1>1, <3>1, <3>2, <3>3, <3>5 DEF Control, Active, Optional
    <3> QED
      BY <1>1, <2>1, <2>3, <2>4, <3>4, <3>6, CommitStep DEF Steps
  <2> QED
    BY <2>5, <2>6
<1> QED
  BY <1>2, <1>3

LEMMA StoreCoverageKeeps ==
  ASSUME IInv, NEW t \in Tasks, StoreCoverage(t), UNCHANGED importVars
  PROVE  IInv'
<1>1. /\ pc[t] \in Active /\ Control(t) /\ pc[t] = "store"
      /\ Kind(t) \in Optional /\ got[t] # Nil
      /\ UNCHANGED <<fact, now, leagues, mapped>>
  BY DEF StoreCoverage, Active, IInv, Sessions, Control
<1>2. CASE coverage[Code(t)] # Nil
  <2>1. Break(t) /\ UNCHANGED <<fact, providerVars>>
    BY <1>1, <1>2 DEF StoreCoverage, providerVars
  <2> QED
    BY <1>1, <2>1, BreakSteps, QuietStep
<1>3. CASE coverage[Code(t)] = Nil
  <2> DEFINE row == NewCoverage(t)
  <2>1. /\ coverage' = [coverage EXCEPT ![Code(t)] = row]
        /\ Decide(t, row)
    BY <1>3 DEF StoreCoverage
  <2>2. Code(t) \in Competitions /\ coverage \in [Competitions -> CoverageRows \cup {Nil}]
    BY <1>1, ActiveFacts DEF IInv, Types, ProviderTypes
  <2>3. row \in CoverageRows
    <3>1. got[t] \in Times /\ Window \in Nat /\ MaxTime \in Nat
      BY <1>1, SyncAssumption DEF IInv, Types, SessionTypes
    <3>2. got[t] + Window \in 0..(MaxTime + Window)
      BY <3>1 DEF Times
    <3>3. (IF Code(t) \in Listed THEN Offers[Code(t)] ELSE {}) \in SUBSET Optional
      BY <2>2, SyncAssumption
    <3> QED
      BY <3>2, <3>3 DEF NewCoverage, CoverageRows
  <2>4. row # Nil
    BY <2>3, SyncAssumption
  <2> HIDE DEF row
  <2>5. coverage'[Code(t)] = row /\ coverage' \in [Competitions -> CoverageRows \cup {Nil}]
    BY <2>1, <2>2, <2>3
  <2>6. CoverageStays /\ RowsStay /\ BatchesStay
    BY <1>1, <1>3, <2>1, <2>2
    DEF CoverageStays, RowsStay, BatchesStay, importVars
  <2>7. ProviderTypes' /\ FactsOK'
    BY <1>1, <2>5 DEF IInv, Types, ProviderTypes, FactsOK
  <2>8. Promises'
    BY <1>1, <2>6, PromisesStay DEF importVars
  <2>9. Steps(t)
    BY <1>1, <2>1, <2>4, <2>5, DecideSteps
  <2> QED
    BY <2>6, <2>7, <2>8, <2>9, SessionStep
<1> QED
  BY <1>2, <1>3

\* What a response makes a handler write is the provider's, nothing of it is
\* official, and it is for the kind and the item that the session asked for.
LEMMA ReportsAreProviders ==
  ASSUME IInv, NEW t \in Tasks, pc[t] = "call",
         NEW changes \in Reports(Kind(t), item[t]), NEW ch \in changes
  PROVE  ch \in Changes /\ FromProvider(ch)
<1> DEFINE kind == Kind(t)
           s == item[t]
<1> USE DEF IInv, Types
<1>1. /\ pc[t] \in Active /\ Control(t)
      /\ kind # "competitions" /\ (kind \in Optional => Permitted(<<kind, s>>))
  BY DEF Active, Sessions, Control
<1>2. s \in Competitions \cup Matches /\ kind \in Fitting(s)
  BY <1>1, ActiveFacts
<1>3. Provider \in Writers /\ {"reported", "unavailable", "official"} \subseteq Certainties
      /\ "reported" # "official" /\ "unavailable" # "official"
  BY DEF Writers, Certainties
<1>4. ASSUME NEW k \in Keys, NEW values, ch = Change(k, values),
             DOMAIN values \subseteq Columns,
             \A col \in DOMAIN values : values[col] \in ColumnType[col],
             "source" \in DOMAIN values => values["source"] = Provider,
             "certainty" \in DOMAIN values => values["certainty"] # "official",
             k[1] \in Optional => Permitted(k)
      PROVE  ch \in Changes /\ FromProvider(ch)
  <2>1. /\ ch \in Changes /\ Proper(ch) /\ Grounded(ch) /\ ch.key = k
        /\ DOMAIN ch.wrote \subseteq DOMAIN values
        /\ \A col \in DOMAIN ch.wrote : ch.wrote[col] = values[col]
    BY <1>4, ChangeFacts
  <2> QED
    BY <1>4, <2>1 DEF FromProvider
<1>5. /\ DOMAIN Reported = {"source", "certainty"}
      /\ Reported["source"] = Provider /\ Reported["certainty"] = "reported"
      /\ \A col \in DOMAIN Reported : col \in Columns /\ Reported[col] \in ColumnType[col]
  BY <1>3 DEF Reported, ColumnType, Columns
<1>6. CASE kind = "lineups"
  <2>1. s \in Matches
    BY <1>2, <1>6 DEF Fitting
  <2>2. <<"lineup_status", s>> \in Keys /\ <<"lineups", s>> \in Keys
    BY <2>1, KeyFacts DEF OfMatch
  <2>3. <<"lineup_status", s>>[1] \notin Optional /\ Permitted(<<"lineups", s>>)
    BY <1>1, <1>6 DEF Optional
  <2>4. CASE ch = Change(<<"lineups", s>>, Reported)
    BY <1>3, <1>4, <1>5, <2>2, <2>3, <2>4
  <2>5. ASSUME NEW c \in {"unavailable", "reported"},
               ch = Change(<<"lineup_status", s>>, [certainty |-> c])
        PROVE  ch \in Changes /\ FromProvider(ch)
    <3> DEFINE values == [certainty |-> c]
    <3>1. DOMAIN values = {"certainty"} /\ values["certainty"] = c
      OBVIOUS
    <3>2. /\ DOMAIN values \subseteq Columns /\ "source" \notin DOMAIN values
          /\ \A col \in DOMAIN values : values[col] \in ColumnType[col]
      BY <1>3, <3>1 DEF Columns, ColumnType
    <3> HIDE DEF values
    <3> QED
      BY <1>3, <1>4, <2>2, <2>3, <2>5, <3>1, <3>2 DEF values
  <2> QED
    BY <1>6, <2>4, <2>5 DEF Reports, ReportLineups
<1>7. CASE kind = "results"
  <2>1. PICK scored \in UNION {[ms -> Scores] : ms \in SUBSET MatchesOf(s)} :
          changes = {Change(<<"results", m>>, [source |-> Provider, score |-> scored[m]]) :
                       m \in DOMAIN scored}
    BY <1>7 DEF Reports, ReportResults
  <2>2. PICK m \in MatchesOf(s) :
          /\ scored[m] \in Scores
          /\ ch = Change(<<"results", m>>, [source |-> Provider, score |-> scored[m]])
    BY <2>1
  <2>3. <<"results", m>> \in Keys /\ <<"results", m>>[1] \notin Optional
    BY <2>2, KeyFacts DEF OfMatch, MatchesOf, Optional
  <2> DEFINE values == [source |-> Provider, score |-> scored[m]]
  <2>4. /\ DOMAIN values = {"source", "score"}
        /\ values["source"] = Provider /\ values["score"] \in Scores
    BY <2>2
  <2>5. /\ DOMAIN values \subseteq Columns /\ "certainty" \notin DOMAIN values
        /\ \A col \in DOMAIN values : values[col] \in ColumnType[col]
    BY <1>3, <2>4 DEF Columns, ColumnType
  <2> HIDE DEF values
  <2> QED
    BY <1>4, <2>2, <2>3, <2>4, <2>5 DEF values
<1>8. CASE kind \notin {"lineups", "results"}
  <2>1. ch = Change(<<kind, s>>, Reported)
    BY <1>8 DEF Reports, Report
  <2>2. <<kind, s>> \in Keys
    BY <1>1, <1>2, <1>8, KeyFacts DEF Fitting, OfCompetition, OfMatch
  <2> QED
    BY <1>1, <1>3, <1>4, <1>5, <2>1, <2>2
<1> QED
  BY <1>6, <1>7, <1>8

LEMMA AnswerKeeps ==
  ASSUME IInv, NEW t \in Tasks, Answer(t), UNCHANGED importVars
  PROVE  IInv'
<1>1. /\ pc[t] \in Active /\ pc[t] = "call" /\ Control(t)
      /\ UNCHANGED <<fact, providerVars, broken>>
  BY DEF Answer, Active, IInv, Sessions
<1>2. PICK changes \in Reports(Kind(t), item[t]) :
        /\ pending' = [pending EXCEPT ![t] = @ \cup changes]
        /\ \/ Goto(t, "commit") /\ UNCHANGED <<loop, todo, item, plan, got>>
           \/ Leave(t)
  BY DEF Answer
<1>3. \A ch \in changes : ch \in Changes /\ FromProvider(ch)
  BY <1>1, ReportsAreProviders
<1>4. /\ pending' \in [Tasks -> SUBSET Changes]
      /\ pending'[t] = pending[t] \cup changes
      /\ \A u \in Tasks \ {t} : pending'[u] = pending[u]
  BY <1>2, <1>3 DEF IInv, Types, SessionTypes
<1>5. RowsStay /\ CoverageStays
  BY <1>1 DEF RowsStay, CoverageStays, providerVars
<1>6. \A ch \in pending'[t] : ch \in pending[t] \/ FromProvider(ch)'
  BY <1>3, <1>4, <1>5, FromProviderStays
<1>7. CASE Leave(t)
  <2>1. broken' \subseteq Tasks
    BY <1>1 DEF IInv, Types, SessionTypes
  <2> QED
    BY <1>1, <1>4, <1>6, <1>7, <2>1, LeaveSteps, QuietStep
<1>8. CASE Goto(t, "commit") /\ UNCHANGED <<loop, todo, item, plan, got>>
  <2>1. /\ pc' \in [Tasks -> Labels] /\ pc'[t] = "commit"
        /\ \A u \in Tasks \ {t} : pc'[u] = pc[u]
    BY <1>8, GotoFacts DEF Labels
  <2>2. SessionTypes' /\ OthersStay(t)
    BY <1>1, <1>4, <1>8, <2>1 DEF IInv, Types, SessionTypes, OthersStay, SessionStays
  <2>3. Control(t)'
    BY <1>1, <1>8, <2>1 DEF Control, Active
  <2> QED
    BY <1>1, <1>6, <2>2, <2>3, QuietStep DEF Steps
<1> QED
  BY <1>2, <1>7, <1>8

LEMMA CommitKeeps ==
  ASSUME IInv, NEW t \in Tasks, Commit(t), UNCHANGED importVars
  PROVE  IInv'
<1>1. /\ pc[t] \in Active /\ Control(t) /\ UNCHANGED providerVars
      /\ coverage' = coverage
  BY DEF Commit, Active, IInv, Sessions, providerVars
<1>2. ProviderTypes'
  BY <1>1 DEF IInv, Types, ProviderTypes, providerVars
<1>3. CASE Conflict(pending[t])
  <2>1. Break(t) /\ UNCHANGED fact
    BY <1>3 DEF Commit
  <2> QED
    BY <1>1, <2>1, BreakSteps, QuietStep
<1>4. CASE ~Conflict(pending[t])
  <2>1. /\ fact' = Stored(pending[t])
        /\ pending' = [pending EXCEPT ![t] = {}]
        /\ broken' = broken
    BY <1>4 DEF Commit
  <2>2. /\ pending' \in [Tasks -> SUBSET Changes] /\ pending'[t] = {}
        /\ \A u \in Tasks \ {t} : pending'[u] = pending[u]
        /\ broken' \subseteq Tasks
    BY <2>1 DEF IInv, Types, SessionTypes
  <2>3. CASE Leave(t)
    BY <1>1, <1>2, <2>1, <2>2, <2>3, LeaveSteps, CommitStep
  <2>4. CASE /\ Len(plan[t]) > 1
             /\ plan' = [plan EXCEPT ![t] = Tail(@)]
             /\ Goto(t, "check")
             /\ UNCHANGED <<loop, todo, item, got>>
    <3>1. plan[t] # <<>> /\ plan[t] \in Seq(Fitting(item[t])) /\ plan[t] \in Seq(Kinds)
      BY <1>1 DEF Control, IInv, Types, SessionTypes
    <3>2. Tail(plan[t]) \in Seq(Fitting(item[t])) /\ Tail(plan[t]) \in Seq(Kinds)
      BY <3>1, HeadTailProperties
    <3>3. Tail(plan[t]) # <<>>
      BY <2>4, <3>1, LongTail
    <3>4. /\ plan' \in [Tasks -> Seq(Kinds)] /\ plan'[t] = Tail(plan[t])
          /\ \A u \in Tasks \ {t} : plan'[u] = plan[u]
      BY <2>4, <3>2 DEF IInv, Types, SessionTypes
    <3>5. /\ pc' \in [Tasks -> Labels] /\ pc'[t] = "check"
          /\ \A u \in Tasks \ {t} : pc'[u] = pc[u]
      BY <2>4, GotoFacts DEF Labels
    <3>6. SessionTypes' /\ OthersStay(t)
      BY <2>2, <2>4, <3>4, <3>5 DEF IInv, Types, SessionTypes, OthersStay, SessionStays
    <3>7. Control(t)'
      BY <1>1, <2>4, <3>2, <3>3, <3>4, <3>5 DEF Control, Active, Fitting
    <3> QED
      BY <1>1, <1>2, <2>1, <2>2, <3>6, <3>7, CommitStep DEF Steps
  <2> QED
    BY <1>4, <2>3, <2>4 DEF Commit
<1> QED
  BY <1>3, <1>4

LEMMA TickKeeps ==
  ASSUME IInv, Tick, UNCHANGED importVars
  PROVE  IInv'
<1>1. RowsStay /\ CoverageStays /\ BatchesStay /\ fact' = fact /\ UNCHANGED sessionVars
  BY DEF Tick, RowsStay, CoverageStays, BatchesStay, importVars
<1>2. Promises'
  BY <1>1, PromisesStay DEF importVars
<1>3. FactsOK' /\ SessionTypes'
  BY <1>1 DEF IInv, Types, FactsOK, SessionTypes, sessionVars
<1>4. ProviderTypes'
  BY SyncAssumption DEF Tick, IInv, Types, ProviderTypes, Times
<1> QED
  BY <1>1, <1>2, <1>3, <1>4, SessionsStay, ImportsStay DEF IInv, Types

-----------------------------------------------------------------------------
\* Imports.

\* What a record of a valid batch assigns is the batch's, official only where
\* the batch claims it, and leaves a stored score as it is.
LEMMA SavedAreBatchs ==
  ASSUME IInv, NEW b \in Batches, NEW kind \in Imported, NEW r, NEW rec \in r.records,
         r.kind = kind, r.certainty \in {"official", "reported"}, Valid(r),
         rec \in Records(kind), ~Contradicts(rec),
         batch'[b] = r, fact' = fact
  PROVE  /\ \A ch \in Save(b, r, rec) : ch \in Changes /\ FromBatch(b, ch)'
         /\ fact[rec.key] # Nil \/ \E ch \in Save(b, r, rec) : ch.key = rec.key
<1> DEFINE k == rec.key
<1> USE DEF IInv, Types
<1>1. /\ k \in Keys /\ kind \in ImportKinds
      /\ k[1] \in IF kind = "lineups" THEN {"lineups", "entries"} ELSE {kind}
      /\ kind = "results" => rec.score \in Scores
  BY ImportAssumption DEF Records
<1>2. b \in Writers /\ r.certainty \in Certainties
  BY DEF Writers, Certainties
<1>3. ASSUME NEW key \in Keys, NEW values, NEW ch,
             DOMAIN values \subseteq Columns,
             \A col \in DOMAIN values : values[col] \in ColumnType[col],
             "source" \in DOMAIN values => values["source"] = b,
             "certainty" \in DOMAIN values => values["certainty"] = r.certainty,
             r.certainty = "official" => Claims(b, key)',
             (key[1] = "results" /\ fact[key] # Nil /\ "score" \in DOMAIN values) =>
               values["score"] = fact[key]["score"],
             ch \in Changes, ch.key = key, ch.wrote = Change(key, values).wrote,
             ~ch.insert => fact[key] # Nil
      PROVE  FromBatch(b, ch)'
  <2>1. /\ Proper(Change(key, values))
        /\ DOMAIN ch.wrote \subseteq DOMAIN values
        /\ \A col \in DOMAIN ch.wrote :
             /\ ch.wrote[col] = values[col]
             /\ fact[key] = Nil \/ col = "source" \/ values[col] # fact[key][col]
    BY <1>3, ChangeFacts
  <2>2. Proper(ch)
    BY <1>3, <2>1 DEF Proper
  <2>3. Grounded(ch)'
    BY <1>3 DEF Grounded
  <2>4. (key[1] = "results" /\ ~ch.insert) => "score" \notin DOMAIN ch.wrote
    BY <1>3, <2>1
  <2> QED
    BY <1>3, <2>1, <2>2, <2>3, <2>4 DEF FromBatch, Proper
<1>4. ASSUME NEW key \in Keys, NEW values, values = [source |-> b, certainty |-> r.certainty]
      PROVE  /\ DOMAIN values = {"source", "certainty"} /\ DOMAIN values \subseteq Columns
             /\ values["source"] = b /\ values["certainty"] = r.certainty
             /\ \A col \in DOMAIN values : values[col] \in ColumnType[col]
  BY <1>2, <1>4 DEF Columns, ColumnType
<1>5. r.certainty = "official" => Claims(b, k)'
  BY DEF Claims, Valid
<1>6. ASSUME NEW ch \in SaveFact(b, k, r.certainty)
      PROVE  ch \in Changes /\ FromBatch(b, ch)' /\ ch.key = k
  <2>1. PICK values : values = [source |-> b, certainty |-> r.certainty]
    OBVIOUS
  <2>2. ch = Change(k, values)
    BY <2>1 DEF SaveFact
  <2>3. /\ DOMAIN values = {"source", "certainty"} /\ DOMAIN values \subseteq Columns
        /\ values["source"] = b /\ values["certainty"] = r.certainty
        /\ \A col \in DOMAIN values : values[col] \in ColumnType[col]
    BY <1>1, <1>4, <2>1
  <2>4. ch \in Changes /\ ch.key = k /\ (~ch.insert => fact[k] # Nil)
    BY <1>1, <2>2, <2>3, ChangeFacts
  <2> QED
    BY <1>1, <1>3, <1>5, <2>2, <2>3, <2>4
<1>7. CASE kind \in {"standings", "injuries", "statistics"}
  <2>1. Save(b, r, rec) = SaveFact(b, k, r.certainty)
    BY <1>7 DEF Save
  <2> QED
    BY <1>6, <2>1 DEF SaveFact
<1>8. CASE kind = "matches"
  <2>1. Save(b, r, rec) = IF fact[k] = Nil THEN SaveFact(b, k, r.certainty) ELSE {}
    BY <1>8 DEF Save, SaveMatch
  <2> QED
    BY <1>6, <2>1 DEF SaveFact
<1>9. CASE kind = "results"
  <2>1. PICK values : values = [source |-> b, score |-> rec.score]
    OBVIOUS
  <2>2. Save(b, r, rec) = {Change(k, values)}
    BY <1>9, <2>1 DEF Save, SaveResult
  <2>3. /\ DOMAIN values = {"source", "score"} /\ DOMAIN values \subseteq Columns
        /\ values["source"] = b /\ values["score"] = rec.score
        /\ \A col \in DOMAIN values : values[col] \in ColumnType[col]
    BY <1>1, <1>2, <1>9, <2>1 DEF Columns, ColumnType
  <2>4. fact[k] # Nil => values["score"] = fact[k]["score"]
    BY <1>1, <1>9, <2>3 DEF Contradicts
  <2>5. PICK ch : ch = Change(k, values)
    OBVIOUS
  <2>6. ch \in Changes /\ ch.key = k /\ (~ch.insert => fact[k] # Nil)
    BY <1>1, <2>3, <2>5, ChangeFacts
  <2>7. FromBatch(b, ch)'
    BY <1>1, <1>3, <1>5, <2>3, <2>4, <2>5, <2>6
  <2> QED
    BY <2>2, <2>5, <2>6, <2>7
<1>10. CASE kind = "lineups"
  <2> DEFINE status == <<"lineup_status", k[2]>>
             fresh == k[1] = "lineups" \/ fact[k] = Nil
  <2>1. PICK values : values = [source |-> b, certainty |-> r.certainty]
    OBVIOUS
  <2>2. PICK only : only = [certainty |-> r.certainty]
    OBVIOUS
  <2>3. Save(b, r, rec) = {[Change(k, values) EXCEPT !.insert = fresh], Change(status, only)}
    BY <1>10, <2>1, <2>2 DEF Save, SaveLineup
  <2>4. /\ DOMAIN values = {"source", "certainty"} /\ DOMAIN values \subseteq Columns
        /\ values["source"] = b /\ values["certainty"] = r.certainty
        /\ \A col \in DOMAIN values : values[col] \in ColumnType[col]
    BY <1>1, <1>4, <2>1
  <2>5. /\ DOMAIN only = {"certainty"} /\ DOMAIN only \subseteq Columns
        /\ only["certainty"] = r.certainty
        /\ \A col \in DOMAIN only : only[col] \in ColumnType[col]
    BY <1>2, <2>2 DEF Columns, ColumnType
  <2>6. k[1] # "results" /\ k[1] \in {"lineups", "entries"}
    BY <1>1, <1>10
  <2>7. status \in Keys /\ status[1] # "results"
    BY <1>1, <2>6, KeyFacts DEF Keys, OfMatch, OfCompetition
  <2>8. r.certainty = "official" => Claims(b, status)'
    BY <2>6 DEF Claims, Valid
  <2>9. PICK old : old = Change(k, values)
    OBVIOUS
  <2>10. PICK entry : entry = [old EXCEPT !.insert = fresh]
    OBVIOUS
  <2>11. entry \in Changes /\ entry.key = k /\ entry.wrote = old.wrote
         /\ (~entry.insert => fact[k] # Nil)
    <3>1. fresh \in BOOLEAN /\ (~fresh => fact[k] # Nil)
      OBVIOUS
    <3>2. old \in Changes /\ old.key = k
      BY <1>1, <2>4, <2>9, ChangeFacts
    <3> HIDE DEF fresh
    <3> QED
      BY <2>10, <3>1, <3>2 DEF Changes
  <2>12. FromBatch(b, entry)'
    BY <1>1, <1>3, <1>5, <2>4, <2>6, <2>9, <2>11
  <2>13. PICK ch : ch = Change(status, only)
    OBVIOUS
  <2>14. ch \in Changes /\ ch.key = status /\ (~ch.insert => fact[status] # Nil)
    BY <2>5, <2>7, <2>13, ChangeFacts
  <2> HIDE DEF status
  <2>15. FromBatch(b, ch)'
    BY <1>3, <2>5, <2>7, <2>8, <2>13, <2>14
  <2> QED
    BY <2>3, <2>9, <2>10, <2>11, <2>12, <2>13, <2>14, <2>15
<1> QED
  BY <1>1, <1>7, <1>8, <1>9, <1>10 DEF ImportKinds

LEMMA ImportKeeps ==
  ASSUME IInv, NEW b \in Batches, Post(b) \/ StoreBatch(b), UNCHANGED syncVars
  PROVE  IInv'
<1> USE DEF IInv, Types
<1>1. ProviderTypes' /\ SessionTypes' /\ CoverageStays
  BY DEF ProviderTypes, SessionTypes, CoverageStays, syncVars, providerVars, sessionVars
<1>2. \A c \in Batches \ {b} : ImportOK(c)
  BY DEF Imports
<1>3. ASSUME RowsStay, ImportTypes', ImportOK(b)', FactsOK', Promises',
             \A c \in Batches \ {b} :
               stage'[c] = stage[c] /\ batch'[c] = batch[c] /\ assigned'[c] = assigned[c]
      PROVE  IInv'
  <2>1. ASSUME NEW c \in Batches \ {b} PROVE ImportOK(c)'
    <3>1. ASSUME NEW ch \in assigned[c] PROVE FromBatch(c, ch)'
      <4>1. ch.key \in Keys /\ FromBatch(c, ch)
        BY <1>2 DEF ImportTypes, Changes, ImportOK
      <4> QED
        BY <1>3, <4>1 DEF FromBatch, Proper, Grounded, RowsStay, Claims
    <3>2. ASSUME stage[c] = "loaded", NEW rec \in batch[c].records
          PROVE  fact'[rec.key] # Nil \/ \E ch \in assigned[c] : ch.key = rec.key
      <4>1. rec.key \in Keys
        BY <1>2, <3>2 DEF ImportOK, Batch
      <4> QED
        BY <1>2, <1>3, <3>2, <4>1 DEF ImportOK, RowsStay
    <3> QED
      BY <1>2, <1>3, <3>1, <3>2 DEF ImportOK, Valid
  <2>2. Imports'
    BY <1>3, <2>1 DEF Imports
  <2>3. Sessions'
    BY <1>1, <1>3, SessionsStay DEF syncVars
  <2> QED
    BY <1>1, <1>3, <2>2, <2>3
<1>4. CASE Refuse(b) /\ fact' = fact /\ stage[b] # "stored"
  <2>1. /\ ImportTypes' /\ stage'[b] = "refused" /\ assigned'[b] = {}
        /\ \A c \in Batches \ {b} :
             stage'[c] = stage[c] /\ batch'[c] = batch[c] /\ assigned'[c] = assigned[c]
    BY <1>4 DEF Refuse, ImportTypes, Stages
  <2>2. ImportOK(b)'
    BY <2>1 DEF ImportOK
  <2>3. /\ RowsStay /\ BatchesStay /\ FactsOK'
        /\ \A c \in Batches : stage'[c] = "stored" => stage[c] = "stored"
    BY <1>4, <2>1 DEF RowsStay, BatchesStay, FactsOK
  <2> QED
    BY <1>1, <1>3, <1>4, <2>1, <2>2, <2>3, PromisesStay
<1>5. ASSUME NEW kind \in Imported, NEW certainty \in {"official", "reported"},
             NEW sourced \in BOOLEAN, NEW records \in SUBSET Records(kind),
             NEW r, r = [kind |-> kind, certainty |-> certainty, sourced |-> sourced,
                         records |-> records],
             stage[b] = "none", Valid(r), ~\E rec \in r.records : Contradicts(rec),
             stage' = [stage EXCEPT ![b] = "loaded"],
             batch' = [batch EXCEPT ![b] = r],
             assigned' = [assigned EXCEPT ![b] = UNION {Save(b, r, rec) : rec \in r.records}],
             fact' = fact
      PROVE  IInv'
  <2> DEFINE saved == UNION {Save(b, r, rec) : rec \in r.records}
  <2>1. /\ r.kind = kind /\ r.certainty = certainty /\ r.records = records
        /\ r \in Batch
    BY <1>5 DEF Batch, Records
  <2>2. batch'[b] = r
    BY <1>5 DEF ImportTypes
  <2>3. ASSUME NEW rec \in r.records
        PROVE  /\ \A ch \in Save(b, r, rec) : ch \in Changes /\ FromBatch(b, ch)'
               /\ fact[rec.key] # Nil \/ \E ch \in Save(b, r, rec) : ch.key = rec.key
    <3>1. rec \in Records(kind) /\ ~Contradicts(rec)
      BY <1>5, <2>1
    <3> QED
      BY <1>5, <2>1, <2>2, <3>1, SavedAreBatchs
  <2>4. saved \in SUBSET Changes /\ \A ch \in saved : FromBatch(b, ch)'
    BY <2>3
  <2>5. \A rec \in r.records : fact[rec.key] # Nil \/ \E ch \in saved : ch.key = rec.key
    BY <2>3
  <2> HIDE DEF saved
  <2>6. /\ ImportTypes' /\ stage'[b] = "loaded" /\ assigned'[b] = saved
        /\ \A c \in Batches \ {b} :
             stage'[c] = stage[c] /\ batch'[c] = batch[c] /\ assigned'[c] = assigned[c]
    BY <1>5, <2>1, <2>4 DEF ImportTypes, Stages, saved
  <2>7. Valid(batch[b])'
    BY <1>5, <2>2 DEF Valid
  <2>8. ImportOK(b)'
    BY <1>5, <2>1, <2>2, <2>4, <2>5, <2>6, <2>7 DEF ImportOK
  <2>9. /\ RowsStay /\ BatchesStay /\ FactsOK'
        /\ \A c \in Batches : stage'[c] = "stored" => stage[c] = "stored"
    BY <1>5, <2>6 DEF RowsStay, BatchesStay, FactsOK
  <2> QED
    BY <1>1, <1>3, <1>5, <2>6, <2>8, <2>9, PromisesStay
<1>6. CASE /\ stage[b] = "loaded"
           /\ ~Conflict(assigned[b])
           /\ fact' = Stored(assigned[b])
           /\ stage' = [stage EXCEPT ![b] = "stored"]
           /\ assigned' = [assigned EXCEPT ![b] = {}]
           /\ batch' = batch
  <2>1. /\ ImportTypes' /\ stage'[b] = "stored" /\ assigned'[b] = {}
        /\ \A c \in Batches \ {b} :
             stage'[c] = stage[c] /\ batch'[c] = batch[c] /\ assigned'[c] = assigned[c]
    BY <1>6 DEF ImportTypes, Stages
  <2>2. /\ ImportOK(b) /\ assigned[b] \in SUBSET Changes
        /\ \A ch \in assigned[b] : FromBatch(b, ch)
    BY DEF Imports, ImportOK, ImportTypes
  <2>3. \A ch \in assigned[b] : Proper(ch) /\ Grounded(ch)
    BY <2>2 DEF FromBatch
  <2>4. FactsOK' /\ RowsStay /\ \A ch \in assigned[b] : fact'[ch.key] # Nil
    BY <1>6, <2>2, <2>3, StoredFacts DEF RowsStay
  <2>5. BatchesStay
    BY <1>6, <2>1 DEF BatchesStay
  <2>6. ImportOK(b)'
    BY <1>6, <2>1, <2>2 DEF ImportOK, Valid
  <2>7. ASSUME NEW c \in Batches, stage'[c] = "stored", NEW rec \in batch'[c].records
        PROVE  fact'[rec.key] # Nil
    <3>1. stage[c] \in {"loaded", "stored"} /\ rec \in batch[c].records
      BY <1>6, <2>1, <2>7
    <3>2. rec.key \in Keys
      BY <3>1 DEF Imports, ImportOK, Batch
    <3>3. fact[rec.key] # Nil \/ \E ch \in assigned[b] : ch.key = rec.key
      BY <1>6, <2>1, <2>2, <2>7, <3>1 DEF ImportOK, Promises, BatchIsAtomic
    <3> QED
      BY <2>4, <3>2, <3>3 DEF RowsStay
  <2>8. \A ch \in assigned[b] : "source" \in DOMAIN ch.wrote =>
          /\ ch.wrote["source"] # Provider
          /\ stage'[ch.wrote["source"]] = "stored"
    BY <2>1, <2>2, StoreAssumption DEF FromBatch
  <2>9. \A ch \in assigned[b] :
          ("certainty" \in DOMAIN ch.wrote /\ ch.wrote["certainty"] = "official") =>
            \E c \in Batches : stage'[c] = "stored" /\ Claims(c, ch.key)'
    BY <1>6, <2>1, <2>2 DEF FromBatch, Claims
  <2>10. Promises'
    BY <1>1, <1>6, <2>2, <2>3, <2>5, <2>7, <2>8, <2>9, CommitKeepsPromises
  <2> QED
    BY <1>1, <1>3, <2>1, <2>4, <2>6, <2>10
<1>7. CASE Post(b)
  <2>1. PICK kind \in Imported, certainty \in {"official", "reported"}, sourced \in BOOLEAN :
          \E records \in SUBSET Records(kind) :
            Import(b, [kind |-> kind, certainty |-> certainty, sourced |-> sourced,
                       records |-> records])
    BY <1>7 DEF Post
  <2>2. PICK records \in SUBSET Records(kind) :
          Import(b, [kind |-> kind, certainty |-> certainty, sourced |-> sourced,
                     records |-> records])
    BY <2>1
  <2>3. PICK r : r = [kind |-> kind, certainty |-> certainty, sourced |-> sourced,
                      records |-> records]
    OBVIOUS
  <2>4. Import(b, r)
    BY <2>2, <2>3
  <2>5. Records(kind) \in SUBSET [key: Keys, score: Scores \cup {Nil}]
    BY DEF Records
  <2> QED
    BY <1>4, <1>5, <2>3, <2>4 DEF Import
<1>8. CASE StoreBatch(b)
  BY <1>4, <1>6, <1>8 DEF StoreBatch
<1> QED
  BY <1>7, <1>8

-----------------------------------------------------------------------------
\* Where a step takes a session: only the end of the work, or a failed flush in
\* a loop over matches, ends it.
LEMMA PcMoves ==
  ASSUME NEW t \in Tasks, Start(t) \/ Proceed(t)
  PROVE  \/ pc' = pc
         \/ \E label \in Labels :
              /\ pc' = [pc EXCEPT ![t] = label]
              /\ label = "ended" => todo[t] = {} \/ loop[t] \in MatchLoops
<1> DEFINE Moves(label) == pc' = [pc EXCEPT ![t] = label]
           Goes == \E label \in Labels \ {"ended"} : Moves(label)
<1>1. ASSUME Leave(t) PROVE Goes
  BY <1>1 DEF Leave, Goto, Labels
<1>2. ASSUME Break(t) PROVE Goes \/ (Moves("ended") /\ loop[t] \in MatchLoops)
  BY <1>1, <1>2 DEF Break, Close, Goto
<1>3. ASSUME NEW row, Decide(t, row) PROVE Goes
  BY <1>1, <1>3 DEF Decide, Raise, Goto, Labels
<1>4. CASE Start(t)
  BY <1>4
  DEF Start, SyncFutureFixtures, SyncDailyStandings, SyncContext, RefreshPreMatchContext,
      SyncPostMatchResults, ApiSync, Begin, Goto, Labels
<1>5. CASE Take(t)
  BY <1>5 DEF Take, Goto, Labels
<1>6. CASE Finish(t)
  BY <1>6 DEF Finish, Close, Goto, Labels
<1>7. CASE Check(t)
  BY <1>1, <1>3, <1>7 DEF Check, Raise, Goto, Labels
<1>8. CASE SyncCompetitions(t)
  <2>1. AfterLeagues(t) \in {"next", "call", "store"}
    BY DEF AfterLeagues
  <2> QED
    BY <1>1, <1>2, <1>8, <2>1 DEF SyncCompetitions, Goto, Labels
<1>9. CASE StoreCoverage(t)
  BY <1>2, <1>3, <1>9 DEF StoreCoverage, Labels
<1>10. CASE Answer(t)
  BY <1>1, <1>10 DEF Answer, Goto, Labels
<1>11. CASE CallRaises(t)
  BY <1>1, <1>11 DEF CallRaises, Raise
<1>12. CASE FlushFails(t)
  BY <1>2, <1>12 DEF FlushFails, Labels
<1>13. CASE Commit(t)
  BY <1>1, <1>2, <1>13 DEF Commit, Goto, Labels
<1> QED
  BY <1>4, <1>5, <1>6, <1>7, <1>8, <1>9, <1>10, <1>11, <1>12, <1>13 DEF Proceed

LEMMA InitInv == Init => IInv
<1> SUFFICES ASSUME Init PROVE IInv
  OBVIOUS
<1> USE DEF Init, SyncInit, ImportInit
<1>1. FactsOK
  <2>1. [Blank EXCEPT !.certainty = "unavailable"] \in Rows
    BY DEF Blank, Rows, Certainties
  <2> QED
    BY <2>1 DEF FactsOK, NoFacts
<1>2. ProviderTypes /\ ImportTypes
  BY SyncAssumption DEF ProviderTypes, ImportTypes, Times, Stages
<1>3. SessionTypes
  BY DEF SessionTypes, Labels, Loops
<1>4. Sessions
  BY SyncAssumption DEF Sessions, Control, Active
<1>5. Imports
  BY DEF Imports, ImportOK
<1>6. ASSUME NEW k \in Keys, fact[k] # Nil
      PROVE  fact[k].source = Nil /\ fact[k].certainty # "official"
  <2>1. fact[k] = [Blank EXCEPT !.certainty = "unavailable"]
    BY <1>6 DEF NoFacts
  <2> QED
    BY <2>1 DEF Blank
<1>7. Provider # Nil /\ \A b \in Batches : b # Nil /\ stage[b] # "stored"
  BY StoreAssumption DEF Writers
<1>8. Promises
  BY <1>6, <1>7 DEF Promises, StoredIsPermitted, BatchIsAtomic, OfficialWasImported
<1> QED
  BY <1>1, <1>2, <1>3, <1>4, <1>5, <1>8 DEF IInv, Types

LEMMA NextInv == IInv /\ [Next]_vars => IInv'
<1> SUFFICES ASSUME IInv, [Next]_vars PROVE IInv'
  OBVIOUS
<1>1. CASE SyncNext /\ UNCHANGED importVars
  <2>1. CASE Tick
    BY <1>1, <2>1, TickKeeps
  <2>2. ASSUME NEW t \in Tasks, Start(t) \/ Proceed(t) PROVE IInv'
    BY <1>1, <2>2, StartKeeps, TakeKeeps, EndsKeep, CheckKeeps, SyncCompetitionsKeeps,
       StoreCoverageKeeps, AnswerKeeps, CommitKeeps DEF Proceed
  <2> QED
    BY <1>1, <2>1, <2>2 DEF SyncNext
<1>2. CASE ImportNext /\ UNCHANGED syncVars
  BY <1>2, ImportKeeps DEF ImportNext
<1>3. CASE UNCHANGED vars
  <2>1. /\ Types' /\ RowsStay /\ CoverageStays /\ BatchesStay
        /\ UNCHANGED sessionVars /\ UNCHANGED importVars /\ fact' = fact
    BY <1>3
    DEF vars, syncVars, providerVars, sessionVars, importVars, IInv, Types, FactsOK,
        ProviderTypes, SessionTypes, ImportTypes, RowsStay, CoverageStays, BatchesStay
  <2>2. Promises'
    BY <2>1, PromisesStay DEF importVars
  <2> QED
    BY <2>1, <2>2, SessionsStay, ImportsStay DEF IInv
<1> QED
  BY <1>1, <1>2, <1>3 DEF Next

THEOREM InductiveInvariant == Spec => []IInv
BY InitInv, NextInv, PTL DEF Spec

-----------------------------------------------------------------------------
\* Every variable keeps its type: among others, a session never commits a
\* change of a row, or of a value, that the tables do not have.
THEOREM TypeCorrect == Spec => []TypeOK
<1>1. IInv => TypeOK
  BY TypesImplyTypeOK DEF IInv
<1> QED
  BY <1>1, InductiveInvariant, PTL

\* What the provider reported of an optional kind is stored only under a
\* coverage row that permits it, although a loop commits the changes of items
\* that failed with whichever item commits next (ingestion/service.py).
THEOREM OptionalFactsWerePermitted == Spec => []StoredIsPermitted
<1>1. IInv => StoredIsPermitted
  BY DEF IInv, Promises
<1> QED
  BY <1>1, InductiveInvariant, PTL

\* A manual import stores all of its records or leaves nothing behind, however
\* many imports and synchronisations write the same rows meanwhile.
THEOREM ImportsAreAtomic == Spec => []BatchIsAtomic
<1>1. IInv => BatchIsAtomic
  BY DEF IInv, Promises
<1> QED
  BY <1>1, InductiveInvariant, PTL

\* Nothing is official but by a stored import that claimed it and named its
\* source: no synchronisation promotes a row, or carries such a certainty over.
THEOREM OfficialFactsWereImported == Spec => []OfficialWasImported
<1>1. IInv => OfficialWasImported
  BY DEF IInv, Promises
<1> QED
  BY <1>1, InductiveInvariant, PTL

\* Committing an import never changes a score that is stored by then, even one
\* that was stored after the import compared its records.
THEOREM StoredScoresStay == Spec => ResultConflictIsRefused
<1> DEFINE Refused == \A m \in Matches :
             LET k == <<"results", m>>
             IN  (/\ fact[k] # Nil
                  /\ \E b \in Batches : stage[b] # "stored" /\ stage'[b] = "stored")
                   => fact'[k].score = fact[k].score
<1>1. IInv /\ [Next]_vars => [Refused]_vars
  <2> SUFFICES ASSUME IInv, Next,
                      NEW m \in Matches, fact[<<"results", m>>] # Nil,
                      NEW b \in Batches, stage[b] # "stored", stage'[b] = "stored"
               PROVE  fact'[<<"results", m>>].score = fact[<<"results", m>>].score
    BY DEF vars
  <2> DEFINE k == <<"results", m>>
  <2>1. k \in Keys /\ k[1] = "results"
    BY KeyFacts DEF OfMatch
  <2>2. PICK c \in Batches : Post(c) \/ StoreBatch(c)
    BY DEF Next, ImportNext, importVars
  <2>3. c = b /\ stage[b] = "loaded" /\ ~Conflict(assigned[b]) /\ fact' = Stored(assigned[b])
    BY <2>2 DEF Post, Import, StoreBatch, Refuse, IInv, Types, ImportTypes
  <2>4. assigned[b] \in SUBSET Changes /\ \A ch \in assigned[b] : FromBatch(b, ch)
    BY DEF IInv, Types, ImportTypes, Imports, ImportOK
  <2>5. \A ch \in assigned[b] : Proper(ch) /\ Grounded(ch)
    BY <2>4 DEF FromBatch
  <2>6. ASSUME NEW ch \in assigned[b], ch.key = k, fact'[k] = Written(ch, fact[k])
        PROVE  fact'[k]["score"] = fact[k]["score"]
    <3>1. ~ch.insert /\ "score" \notin DOMAIN ch.wrote
      BY <2>1, <2>3, <2>4, <2>6 DEF Conflict, FromBatch
    <3>2. fact[k] \in Rows /\ "score" \in Columns
      BY <2>1 DEF IInv, Types, FactsOK, Columns
    <3> QED
      BY <2>4, <2>5, <2>6, <3>1, <3>2, WrittenFacts
  <2> HIDE DEF k
  <2>7. fact'[k]["score"] = fact[k]["score"]
    BY <2>1, <2>3, <2>4, <2>5, <2>6, StoredFacts DEF IInv, Types
  <2> QED
    BY <2>7 DEF k
<1> QED
  BY <1>1, InductiveInvariant, PTL DEF Spec, ResultConflictIsRefused

\* A loop over competitions ends only when none is left to be tried, although
\* an item may fail at every flush and leave the session unusable.
THEOREM EveryCompetitionIsTried == Spec => CodeLoopTriesAll
<1> DEFINE Tried == \A t \in Tasks :
             (loop[t] \in CodeLoops /\ pc'[t] = "ended") => todo[t] = {}
<1>1. IInv /\ [Next]_vars => [Tried]_vars
  <2> SUFFICES ASSUME IInv, Next, NEW t \in Tasks, loop[t] \in CodeLoops, pc'[t] = "ended"
               PROVE  todo[t] = {}
    BY DEF vars
  <2>1. pc[t] # "ended" /\ loop[t] \notin MatchLoops /\ pc \in [Tasks -> Labels]
    BY DEF IInv, Sessions, Control, Types, SessionTypes, CodeLoops, MatchLoops
  <2>2. PICK u \in Tasks : Start(u) \/ Proceed(u)
    BY <2>1 DEF Next, SyncNext, syncVars, sessionVars, Tick
  <2>3. PICK label \in Labels :
          /\ pc' = [pc EXCEPT ![u] = label]
          /\ label = "ended" => todo[u] = {} \/ loop[u] \in MatchLoops
    BY <2>1, <2>2, PcMoves
  <2> QED
    BY <2>1, <2>3
<1> QED
  BY <1>1, InductiveInvariant, PTL DEF Spec, CodeLoopTriesAll

=============================================================================
