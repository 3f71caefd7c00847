-------------------------------- MODULE Sums --------------------------------
(***************************************************************************)
(* The sum of the values of a function, as the number of units it is made  *)
(* of.                                                                     *)
(***************************************************************************)
EXTENDS Integers, FiniteSets

(* A unit for each natural number up to each value of f.                   *)
Units(f) == UNION {{<<x, b>> : b \in 1 .. f[x]} : x \in DOMAIN f}

(* The sum of the values of f, which are natural numbers.                  *)
Total(f) == Cardinality(Units(f))
=============================================================================
