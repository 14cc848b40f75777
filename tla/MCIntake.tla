------------------------------ MODULE MCIntake ------------------------------
(***************************************************************************)
(* Instances of DataIntake for TLC.  Tasks and batches are only compared.  *)
(***************************************************************************)
EXTENDS DataIntake, TLC

CONSTANTS csl, mls, m1

MCCompetitionOf == m1 :> csl
MCOffers == csl :> {"standings", "injuries", "lineups", "statistics"} @@ mls :> {}
MCRank == csl :> 1 @@ mls :> 2
Symmetry == Permutations(Tasks) \cup Permutations(Batches)

=============================================================================
