--------------------------------- MODULE Order ---------------------------------
(***************************************************************************)
(* What a pass over a collection visits, one after another.                *)
(***************************************************************************)
EXTENDS Integers, FiniteSets

(* The k-th of a set of numbers. *)
Nth(k, S) == CHOOSE i \in S : Cardinality({j \in S : j <= i}) = k
================================================================================
