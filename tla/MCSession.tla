----------------------------- MODULE MCSession -----------------------------
(***************************************************************************)
(* Instances of Session with two users and two values of an option.        *)
(***************************************************************************)
EXTENDS Session, TLC

Symmetry == Permutations(Users) \cup Permutations(Values)
=============================================================================
