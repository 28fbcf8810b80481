----------------------------- MODULE MCHouseholds -----------------------------
(***************************************************************************)
(* An instance of Households: ana's family plan with an open code, and two *)
(* people who may redeem one.                                              *)
(***************************************************************************)
EXTENDS Households, TLC

CONSTANTS ana, ben, cem

Plans == ana :> "family" @@ ben :> "free" @@ cem :> "free"
AnaFounded == <<ana>>
Interchangeable == Permutations(Task) \cup Permutations({ben, cem})
=============================================================================
