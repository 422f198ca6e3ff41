---------------------------- MODULE MCJobDispatch ----------------------------
(***************************************************************************)
(* JobDispatch on small instances.                                         *)
(***************************************************************************)
EXTENDS JobDispatch, TLC

(* Tokens are only compared; no run is special before it claims.           *)
Symmetry == Permutations(Tokens)
=============================================================================
