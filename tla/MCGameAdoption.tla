--------------------------- MODULE MCGameAdoption ---------------------------
(***************************************************************************)
(* GameAdoption for TLC: launch keys are interchangeable, and the safety   *)
(* run need not tell them apart.                                           *)
(***************************************************************************)
EXTENDS GameAdoption, TLC

KeySymmetry == Permutations(Keys)
=============================================================================
