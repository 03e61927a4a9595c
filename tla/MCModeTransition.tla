-------------------------- MODULE MCModeTransition --------------------------
(***************************************************************************)
(* Values for the constants of ModeTransition.                             *)
(***************************************************************************)
EXTENDS ModeTransition, TLC

SymmetricStarters == Permutations(Starters)
=============================================================================
