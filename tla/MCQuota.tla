------------------------------- MODULE MCQuota -------------------------------
(***************************************************************************)
(* Instances of ProviderQuota for TLC.  Calls are only compared, so        *)
(* permuting them is sound for the safety properties.                      *)
(***************************************************************************)
EXTENDS ProviderQuota, TLC

CONSTANTS fixtures, injuries

MCKindOf == fixtures :> "core" @@ injuries :> "optional" @@ Status :> "status"
CallSymmetry == Permutations(Calls)

MCWindow == fixtures :> 1 @@ injuries :> 2 @@ Status :> 2

=============================================================================
