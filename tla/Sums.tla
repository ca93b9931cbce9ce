-------------------------------- MODULE Sums --------------------------------
(***************************************************************************)
(* The sum that a loop over an array accumulates.  It is a recursive       *)
(* function, as the loop adds one term after the other, and not a sum over *)
(* a set: that is what the theorems about the filters are proved from.     *)
(***************************************************************************)
EXTENDS Integers

\* sum = 0; for (i = 0; i < count; i++) sum += term[i]
total(term, count) ==
  LET sum[n \in 0 .. count] == IF n = 0 THEN 0 ELSE sum[n - 1] + term[n - 1]
  IN sum[count]
=============================================================================
