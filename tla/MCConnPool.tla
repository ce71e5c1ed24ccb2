---------------------------- MODULE MCConnPool ------------------------------
(***************************************************************************)
(* Instances of ConnPool for TLC.  Connections and callers are only ever   *)
(* compared for equality, so both are symmetric.                           *)
(***************************************************************************)
EXTENDS ConnPool, TLC

Symmetry == Permutations(Callers) \cup Permutations(Conns)
=============================================================================
