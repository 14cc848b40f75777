---------------------------- MODULE FactStoreProofs ----------------------------
(***************************************************************************)
(* Lemmas on the changes a session collects and on what their commit does  *)
(* to the rows, for the proofs about synchronisation and manual import.    *)
(*                                                                         *)
(* They carry the promises of both: the value a column has after a commit  *)
(* is the one it had before, or one that a committed change wrote there,   *)
(* and no commit removes a row.                                            *)
(***************************************************************************)
EXTENDS FactStore, TLAPS

\* What may be written to a column.
ColumnType == [source |-> Writers, certainty |-> Certainties, score |-> Scores]

Writes == UNION {[cols -> Writers \cup Certainties \cup Scores] : cols \in SUBSET Columns}

Changes == [key: Keys, insert: BOOLEAN, wrote: Writes]

Proper(ch) == \A col \in DOMAIN ch.wrote : ch.wrote[col] \in ColumnType[col]

\* A row a session has loaded is not removed before the session commits.
Grounded(ch) == ~ch.insert => fact[ch.key] # Nil

FactsOK == fact \in [Keys -> Rows \cup {Nil}]

-----------------------------------------------------------------------------
LEMMA RowType ==
  ASSUME NEW row
  PROVE  row \in Rows <=>
           /\ row \in [Columns -> UNION {ColumnType[col] \cup {Nil} : col \in Columns}]
           /\ \A col \in Columns : row[col] \in ColumnType[col] \cup {Nil}
BY DEF Rows, Columns, ColumnType

LEMMA BlankIsRow == Blank \in Rows /\ \A col \in Columns : Blank[col] = Nil
BY DEF Blank, Rows, Columns

LEMMA KeyFacts ==
  ASSUME NEW kind, NEW s
  PROVE  /\ kind \in OfCompetition /\ s \in Competitions => <<kind, s>> \in Keys
         /\ kind \in OfMatch /\ s \in Matches => <<kind, s>> \in Keys
BY DEF Keys

\* What a session assigns to a row of which it knows whether it exists.
LEMMA ChangeFacts ==
  ASSUME FactsOK, NEW k \in Keys, NEW values,
         DOMAIN values \subseteq Columns,
         \A col \in DOMAIN values : values[col] \in ColumnType[col]
  PROVE  LET ch == Change(k, values)
         IN  /\ ch \in Changes /\ Proper(ch) /\ Grounded(ch)
             /\ ch.key = k
             /\ ch.insert <=> fact[k] = Nil
             /\ DOMAIN ch.wrote \subseteq DOMAIN values
             /\ \A col \in DOMAIN ch.wrote :
                  /\ ch.wrote[col] = values[col]
                  /\ fact[k] = Nil \/ col = "source" \/ values[col] # fact[k][col]
             /\ "source" \in DOMAIN values => "source" \in DOMAIN ch.wrote
<1> DEFINE ch == Change(k, values)
           cols == {col \in DOMAIN values :
                      fact[k] = Nil \/ col = "source" \/ values[col] # fact[k][col]}
           new == fact[k] = Nil
<1>1. ch = [key |-> k, insert |-> new, wrote |-> [col \in cols |-> values[col]]]
  BY DEF Change
<1>2. /\ ch.key = k /\ ch.insert \in BOOLEAN /\ (ch.insert <=> fact[k] = Nil)
      /\ ch.wrote = [col \in cols |-> values[col]]
  <2>1. new \in BOOLEAN
    OBVIOUS
  <2> HIDE DEF cols, new, ch
  <2>2. ch.key = k /\ ch.insert = new /\ ch.wrote = [col \in cols |-> values[col]]
    BY <1>1
  <2> QED
    BY <2>1, <2>2 DEF new
<1>3. cols \in SUBSET Columns
  OBVIOUS
<1>4. \A col \in cols : values[col] \in Writers \cup Certainties \cup Scores
  BY <1>3 DEF ColumnType, Columns
<1>5. [col \in cols |-> values[col]] \in [cols -> Writers \cup Certainties \cup Scores]
  BY <1>4
<1>6. ch.wrote \in Writes
  BY <1>2, <1>3, <1>5 DEF Writes
<1>7. ch \in Changes
  BY <1>1, <1>2, <1>6 DEF Changes
<1> QED
  BY <1>2, <1>7 DEF Proper, Grounded

-----------------------------------------------------------------------------
\* A change makes a row of what it finds.
LEMMA WrittenFacts ==
  ASSUME NEW ch \in Changes, Proper(ch), NEW row, ch.insert \/ row \in Rows
  PROVE  /\ Written(ch, row) \in Rows
         /\ \A col \in Columns :
              Written(ch, row)[col] =
                IF col \in DOMAIN ch.wrote THEN ch.wrote[col]
                ELSE IF ch.insert THEN Nil ELSE row[col]
<1> DEFINE new == Written(ch, row)
           all == UNION {ColumnType[col] \cup {Nil} : col \in Columns}
<1>1. \A col \in Columns :
        new[col] = IF col \in DOMAIN ch.wrote THEN ch.wrote[col]
                   ELSE IF ch.insert THEN Nil ELSE row[col]
  BY BlankIsRow DEF Written
<1>2. \A col \in Columns : new[col] \in ColumnType[col] \cup {Nil}
  BY <1>1, RowType DEF Proper
<1>3. new \in [Columns -> all]
  <2>1. \A col \in Columns : new[col] \in all
    BY <1>2
  <2>2. new = [col \in Columns |-> new[col]]
    BY DEF Written
  <2> QED
    BY <2>1, <2>2
<1>4. new \in Rows
  BY <1>2, <1>3, RowType
<1> QED
  BY <1>1, <1>4

\* The commit of changes: each row stays as it is or is written by a change of
\* its key; every change's row exists, and none goes away.
LEMMA StoredFacts ==
  ASSUME FactsOK, NEW changes \in SUBSET Changes,
         \A ch \in changes : Proper(ch) /\ Grounded(ch),
         fact' = Stored(changes)
  PROVE  /\ FactsOK'
         /\ \A k \in Keys : fact[k] # Nil => fact'[k] # Nil
         /\ \A ch \in changes : fact'[ch.key] # Nil
         /\ \A k \in Keys :
              \/ fact'[k] = fact[k]
              \/ \E ch \in changes : ch.key = k /\ fact'[k] = Written(ch, fact[k])
<1>1. \A ch \in changes : ch \in Changes /\ ch.key \in Keys
  BY DEF Changes
<1>2. Nil \notin Rows
  BY StoreAssumption
<1>3. ASSUME NEW k \in Keys, NEW ch \in changes, ch.key = k
      PROVE  Written(ch, fact[k]) \in Rows
  <2>1. ch.insert \/ fact[k] \in Rows
    BY <1>3 DEF Grounded, FactsOK
  <2> QED
    BY <1>1, <2>1, WrittenFacts
<1>4. ASSUME NEW k \in Keys
      PROVE  \/ /\ ~\E ch \in changes : ch.key = k
                /\ fact'[k] = fact[k]
             \/ \E ch \in changes :
                  ch.key = k /\ fact'[k] = Written(ch, fact[k]) /\ fact'[k] \in Rows
  <2>1. fact'[k] = IF \E ch \in changes : ch.key = k
                   THEN Written(CHOOSE ch \in changes : ch.key = k, fact[k])
                   ELSE fact[k]
    BY DEF Stored
  <2>2. CASE \E ch \in changes : ch.key = k
    <3> DEFINE chosen == CHOOSE ch \in changes : ch.key = k
    <3>1. chosen \in changes /\ chosen.key = k
      BY <2>2
    <3>2. fact'[k] = Written(chosen, fact[k])
      BY <2>1, <2>2
    <3> QED
      BY <1>3, <3>1, <3>2
  <2> QED
    BY <2>1, <2>2
<1>5. FactsOK'
  <2>1. fact' = [k \in Keys |-> fact'[k]]
    BY DEF Stored
  <2>2. \A k \in Keys : fact'[k] \in Rows \cup {Nil}
    BY <1>4 DEF FactsOK
  <2> QED
    BY <2>1, <2>2 DEF FactsOK
<1> QED
  BY <1>1, <1>2, <1>4, <1>5

\* Where the value of a column comes from.
LEMMA ValueIsOldOrWritten ==
  ASSUME FactsOK, NEW changes \in SUBSET Changes,
         \A ch \in changes : Proper(ch) /\ Grounded(ch),
         fact' = Stored(changes),
         NEW k \in Keys, NEW col \in Columns,
         fact'[k] # Nil, fact'[k][col] # Nil
  PROVE  \/ fact[k] # Nil /\ fact'[k][col] = fact[k][col]
         \/ \E ch \in changes :
              ch.key = k /\ col \in DOMAIN ch.wrote /\ fact'[k][col] = ch.wrote[col]
<1>1. CASE fact'[k] = fact[k]
  BY <1>1
<1>2. ASSUME NEW ch \in changes, ch.key = k, fact'[k] = Written(ch, fact[k])
      PROVE  \/ fact[k] # Nil /\ fact'[k][col] = fact[k][col]
             \/ col \in DOMAIN ch.wrote /\ fact'[k][col] = ch.wrote[col]
  <2>1. ch \in Changes /\ Proper(ch) /\ (~ch.insert => fact[k] # Nil)
    BY <1>2 DEF Grounded
  <2>2. ch.insert \/ fact[k] \in Rows
    BY <2>1 DEF FactsOK
  <2>3. fact'[k][col] = IF col \in DOMAIN ch.wrote THEN ch.wrote[col]
                        ELSE IF ch.insert THEN Nil ELSE fact[k][col]
    BY <1>2, <2>1, <2>2, WrittenFacts
  <2> QED
    BY <2>1, <2>3
<1> QED
  BY <1>1, <1>2, StoredFacts

=============================================================================
