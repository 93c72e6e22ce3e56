-------------------------------- MODULE Sums --------------------------------
EXTENDS Integers, FiniteSets

(***************************************************************************)
(* The sum of f over S, for natural f: the size of the disjoint union of   *)
(* the sets {s} \X 1..f[s].  Stated this way it needs no recursion, and    *)
(* the theorems on finite sets apply to it.                                *)
(***************************************************************************)
Total(S, f) == Cardinality(UNION {{s} \X (1 .. f[s]) : s \in S})
=============================================================================
