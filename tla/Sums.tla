-------------------------------- MODULE Sums --------------------------------
(***************************************************************************)
(* Totals over finite sets of bytes balances.  A total is the number of    *)
(* <<owner, unit>> pairs it counts, which makes every fact about a total a *)
(* fact about the cardinality of a finite set, and so one that can be      *)
(* proved with the theorems of FiniteSetTheorems.                          *)
(***************************************************************************)
EXTENDS Integers, FiniteSets

Units(f) == UNION {{x} \X (1 .. f[x]) : x \in DOMAIN f}

\* The sum of the values of a function to Nat with a finite domain.
Total(f) == Cardinality(Units(f))

\* The sum of f over the members of S only.
TotalOn(f, S) == Total([x \in DOMAIN f \cap S |-> f[x]])
=============================================================================
