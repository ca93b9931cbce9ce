------------------------- MODULE DifferenceEquation -------------------------
(***************************************************************************)
(* What filter.h:18-23 says the two filter stages compute, without queues: *)
(*   y(n)    = sum of b(k) * x(D*n - k)                                    *)
(*   z(f, n) = sum of b(f, k) * y(n - k) - sum of a(f, k) * z(f, n - 1 - k) *)
(* with D the decimation factor.  A window holds the latest values of a    *)
(* signal by age: window[0] is the newest.                                 *)
(***************************************************************************)
EXTENDS Sums, FiniteSets

CONSTANTS b, a, bIir,  \* coefficients of the two stages, by age
          Decimation

VARIABLES x, y, z,     \* windows of the input, of the FIR and of the IIR outputs
          phase,       \* inputs since the last FIR output
          pending      \* IIR filters that have not seen the last FIR output

vars == <<x, y, z, phase, pending>>

zero(ages) == [age \in ages |-> 0]
Filters == DOMAIN a

Init ==
  /\ x = zero(DOMAIN b) /\ y = zero(DOMAIN bIir[0])
  /\ z = [f \in Filters |-> zero(DOMAIN a[f])]
  /\ phase = 0 /\ pending = {}

later(w, v) == [age \in DOMAIN w |-> IF age = 0 THEN v ELSE w[age - 1]]
sum(coeff, w) == total([k \in DOMAIN coeff |-> coeff[k] * w[k]],
                       Cardinality(DOMAIN coeff))

NewInput ==
  /\ pending = {} /\ phase < Decimation
  /\ x'[0] \in Int /\ x' = later(x, x'[0])
  /\ phase' = phase + 1
  /\ UNCHANGED <<y, z, pending>>

Fir ==
  /\ pending = {} /\ phase = Decimation
  /\ y' = later(y, sum(b, x))
  /\ phase' = 0 /\ pending' = Filters
  /\ UNCHANGED <<x, z>>

Iir(f) ==
  /\ f \in pending
  /\ z' = [z EXCEPT ![f] = later(@, sum(bIir[f], y) - sum(a[f], @))]
  /\ pending' = pending \ {f}
  /\ UNCHANGED <<x, y, phase>>

Next == NewInput \/ Fir \/ \E f \in Filters : Iir(f)

Spec == Init /\ [][Next]_vars
=============================================================================
