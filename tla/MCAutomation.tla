---------------------------- MODULE MCAutomation ----------------------------
(***************************************************************************)
(* Instances of AutomationPipeline for TLC.  Tasks are interchangeable:    *)
(* the specification only compares them, so permuting them is sound for    *)
(* the safety runs.                                                        *)
(***************************************************************************)
EXTENDS AutomationRefinement, TLC

TaskSymmetry == Permutations(Tasks)

=============================================================================
