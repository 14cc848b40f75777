---------------------------- MODULE MCEvaluation ----------------------------
(***************************************************************************)
(* Instances of ResultsEvaluation for TLC.                                 *)
(***************************************************************************)
EXTENDS ResultsEvaluation, TLC

CONSTANTS csl, m1, m2, home, away

MCCompetitionOf == [m \in Matches |-> csl]
MCHomeOf == [m \in Matches |-> home]
MCAwayOf == [m \in Matches |-> away]
MCScores == {<<0, 0>>, <<1, 0>>}
MCKickoff == m1 :> 0 @@ m2 :> 1
MCFinal == m1 :> <<1, 0>> @@ m2 :> <<0, 0>>
MCEnd == m1 :> 1 @@ m2 :> 1

\* A prediction of m2 rests on the score that a synchronisation stored while m1 was in
\* play; an empty database.
MCEarlier == m1 :> [score |-> <<1, 0>>, completed |-> 0] @@ m2 :> Nil
MCPredicted == <<m2>>
MCNoneEarlier == [m \in Matches |-> Nil]
MCNonePredicted == <<>>

MCAverages == {"accuracy"}
MCOverlappingEnd == m1 :> 2 @@ m2 :> 2

\* The share of predictions that were right, in per cent, where all tended to a home
\* win.
MCAccuracy(samples) ==
  IF samples = {} THEN 0
  ELSE (100 * Cardinality({s \in samples : s[2][1] > s[2][2]})) \div Cardinality(samples)
MCAverage == [column \in MCAverages |-> [samples \in SampleSets |-> MCAccuracy(samples)]]

=============================================================================
