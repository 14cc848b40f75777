------------------------------ MODULE MCReview ------------------------------
(***************************************************************************)
(* Instances of ReportReview for TLC.  Ids are only compared, so permuting *)
(* handlers and posters is sound.                                          *)
(***************************************************************************)
EXTENDS ReportReview, TLC

ReviewSymmetry == Permutations(Requests) \cup Permutations(Posters)

=============================================================================
