----------------------------- MODULE MCAccounts -----------------------------
(* The account model with two administrators and two requests at once.     *)
EXTENDS Accounts, TLC

SlotSymmetry == Permutations(Slots)
=============================================================================
