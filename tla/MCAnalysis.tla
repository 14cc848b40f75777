----------------------------- MODULE MCAnalysis -----------------------------
(***************************************************************************)
(* Instances of AnalysisChain for TLC.                                     *)
(***************************************************************************)
EXTENDS AnalysisChain, TLC

=============================================================================
