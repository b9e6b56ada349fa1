------------------------------- MODULE Totals -------------------------------
(***************************************************************************)
(* The sum of a function to Nat, defined by counting: every account a       *)
(* contributes the f[a] units <<a, 1>>, ..., <<a, f[a]>>, and the total is  *)
(* the number of units.  The definition needs no recursion, so the totals   *)
(* of the specification can be reasoned about with facts on cardinalities.  *)
(***************************************************************************)
EXTENDS Integers, FiniteSets

Units(f) == UNION { {a} \X (1 .. f[a]) : a \in DOMAIN f }

Total(f) == Cardinality(Units(f))
=============================================================================
