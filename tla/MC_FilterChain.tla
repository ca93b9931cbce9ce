--------------------------- MODULE MC_FilterChain ---------------------------
(***************************************************************************)
(* FilterChain on four channels.  No two coefficients of a stage are the   *)
(* same, so that a coefficient on the wrong element shows; those of A are  *)
(* small, so that the outputs stay small within the bound.                 *)
(***************************************************************************)
EXTENDS FilterChain

FirCoeff == [k \in 0 .. 2 |-> k + 1]
ACoeff == [f \in 0 .. 3 |-> [k \in 0 .. 1 |-> IF k = 0 THEN f - 1 ELSE f - 2]]
BCoeff == [f \in 0 .. 3 |-> [k \in 0 .. 2 |-> k + f - 2]]

\* No hit, by the strictness of the comparison alone.
SecondDataSet == [f \in 0 .. 3 |-> IF f = 0 THEN 4 ELSE IF f = 2 THEN 3 ELSE 2]
=============================================================================
