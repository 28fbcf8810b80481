------------------------------ MODULE MCDigests ------------------------------
(***************************************************************************)
(* Instances of Digests: two people and one phone.                         *)
(***************************************************************************)
EXTENDS Digests, TLC

Interchangeable == Permutations(User) \cup Permutations(Token)
=============================================================================
