--------------------------- MODULE Detector_proofs ---------------------------
(***************************************************************************)
(* Theorems about detector_computeHit() for every even number of channels, *)
(* every fudge factor and all power values.  The loop of the sort is made  *)
(* of steps, so that its correctness is an inductive invariant: the values *)
(* before nextToSort are in order, and the array is a permutation of the   *)
(* powers.                                                                 *)
(***************************************************************************)
EXTENDS Detector, FiniteSetTheorems, FunctionTheorems, TLAPS

Ordered(a, n) == \A k, l \in 0 .. n - 1 : k <= l => a[k] <= a[l]

Permutes(a, b) ==
  \E p \in Bijection(FilterNumber, FilterNumber) :
    \A k \in FilterNumber : a[k] = b[p[k]]

SortInv ==
  pc = "sort" => /\ nextToSort \in 1 .. FILTER_IIR_FILTER_COUNT
                 /\ Ordered(sortedPower, nextToSort)
                 /\ Permutes(sortedPower, currentPowerValue)

Inv == DetectorTypeOK /\ SortInv

\* The number of channels and the place of the median.
LEMMA Sizes ==
  /\ FILTER_IIR_FILTER_COUNT \in Nat /\ FILTER_IIR_FILTER_COUNT >= 2
  /\ Last \in FilterNumber /\ FilterNumber \subseteq Nat
  /\ MEDIAN_INDEX \in FilterNumber
  /\ 2 * (MEDIAN_INDEX + 1) = FILTER_IIR_FILTER_COUNT
<1>1. PICK half \in 1 .. FILTER_IIR_FILTER_COUNT : FILTER_IIR_FILTER_COUNT = 2 * half
  BY DetectorAssumption
<1>2. FILTER_IIR_FILTER_COUNT \div 2 = half
  BY <1>1, DetectorAssumption
<1>3. QED BY <1>1, <1>2, DetectorAssumption DEF Last, FilterNumber, MEDIAN_INDEX
-----------------------------------------------------------------------------
(* The inner loop.                                                          *)

Moves(a, i, k) == \A m \in k .. i - 1 : a[m] > a[i]

\* Where the inserted array takes its k-th value from.
Source(a, i) ==
  [k \in FilterNumber |-> IF k > i \/ ~Moves(a, i, k) THEN k
                          ELSE IF k > 0 /\ Moves(a, i, k - 1) THEN k - 1 ELSE i]

LEMMA InsertValue ==
  ASSUME NEW a, NEW i, NEW k \in FilterNumber
  PROVE insert(a, i)[k] =
          IF k > i \/ ~Moves(a, i, k) THEN a[k]
          ELSE IF k > 0 /\ Moves(a, i, k - 1) THEN a[k - 1] ELSE a[i]
BY DEF insert, Moves

\* The places that move are the ones from some place on up to i.
LEMMA MovesUpward ==
  ASSUME NEW a \in [FilterNumber -> Int], NEW i \in FilterNumber,
         NEW k \in FilterNumber, NEW l \in FilterNumber,
         k <= l, l <= i, Moves(a, i, k)
  PROVE Moves(a, i, l)
BY Sizes DEF Moves, FilterNumber

LEMMA SourceIsBijection ==
  ASSUME NEW a \in [FilterNumber -> Int], NEW i \in FilterNumber
  PROVE /\ Source(a, i) \in Bijection(FilterNumber, FilterNumber)
        /\ \A k \in FilterNumber : insert(a, i)[k] = a[Source(a, i)[k]]
<1> DEFINE q == Source(a, i)
<1>1. q \in [FilterNumber -> FilterNumber]
  BY Sizes DEF Source, FilterNumber
<1>2. ASSUME NEW k \in FilterNumber, NEW l \in FilterNumber, k < l, q[k] = q[l]
      PROVE FALSE
  <2>0. k \in Nat /\ l \in Nat /\ i \in Nat /\ l - 1 \in FilterNumber
    BY <1>2, Sizes DEF FilterNumber
  <2>1. /\ q[k] = IF k > i \/ ~Moves(a, i, k) THEN k
                  ELSE IF k > 0 /\ Moves(a, i, k - 1) THEN k - 1 ELSE i
        /\ q[l] = IF l > i \/ ~Moves(a, i, l) THEN l
                  ELSE IF l > 0 /\ Moves(a, i, l - 1) THEN l - 1 ELSE i
    BY DEF Source
  <2>2. Moves(a, i, i)
    BY <2>0 DEF Moves
  <2>3. k <= i /\ Moves(a, i, k) => (l - 1 <= i => Moves(a, i, l - 1))
    BY <1>2, <2>0, MovesUpward
  <2>4. k <= i /\ Moves(a, i, k) => (l <= i => Moves(a, i, l))
    BY <1>2, <2>0, MovesUpward
  <2> HIDE DEF q
  <2>5. CASE l > i
    <3>1. q[l] = l /\ (q[k] = k \/ q[k] = k - 1 \/ q[k] = i)
      BY <2>1, <2>5
    <3>2. QED BY <1>2, <2>0, <2>5, <3>1
  <2>6. CASE l <= i /\ ~Moves(a, i, l)
    <3>1. q[l] = l
      BY <2>1, <2>6
    <3>2. k <= i
      BY <1>2, <2>0, <2>6
    <3>3. q[k] = k
      BY <2>1, <2>4, <2>6, <3>2
    <3>4. QED BY <1>2, <2>0, <3>1, <3>3
  <2>7. CASE l <= i /\ Moves(a, i, l) /\ Moves(a, i, l - 1)
    <3>1. l > 0 /\ ~(l > i)
      BY <1>2, <2>0, <2>7
    <3>2. q[l] = l - 1
      BY <2>1, <2>7, <3>1
    <3>3. k # l - 1 \/ Moves(a, i, k)
      BY <2>7
    <3>4. k <= i
      BY <1>2, <2>0, <2>7
    <3>5. ~Moves(a, i, k) => q[k] = k /\ k # l - 1
      BY <2>1, <3>3
    <3>6. Moves(a, i, k) => q[k] = k - 1 \/ q[k] = i
      BY <2>0, <2>1, <3>4
    <3>7. QED
      <4>1. q[k] = k - 1 \/ q[k] = i \/ (q[k] = k /\ k # l - 1)
        BY <3>5, <3>6
      <4>2. l <= i
        BY <2>7
      <4>3. QED BY <1>2, <2>0, <3>2, <4>1, <4>2
  <2>8. CASE l <= i /\ Moves(a, i, l) /\ ~Moves(a, i, l - 1)
    <3>1. ~(l > i) /\ l - 1 <= i /\ k <= i
      BY <1>2, <2>0, <2>8
    <3>2. q[l] = i
      BY <2>1, <2>8, <3>1
    <3>3. q[k] = k
      BY <2>1, <2>3, <2>8, <3>1
    <3>4. l <= i
      BY <2>8
    <3>5. QED BY <1>2, <2>0, <3>2, <3>3, <3>4
  <2>9. QED BY <2>0, <2>5, <2>6, <2>7, <2>8
<1>3. \A k, l \in FilterNumber : q[k] = q[l] => k = l
  BY <1>2, Sizes DEF FilterNumber
<1>4. q \in Injection(FilterNumber, FilterNumber)
  BY <1>1, <1>3 DEF Injection, IsInjective
<1>5. IsFiniteSet(FilterNumber)
  BY Sizes, FS_Interval DEF FilterNumber
<1>6. q \in Surjection(FilterNumber, FilterNumber)
  BY <1>4, <1>5, FS_Injection
<1>7. \A k \in FilterNumber : insert(a, i)[k] = a[q[k]]
  BY InsertValue DEF Source
<1>8. QED BY <1>4, <1>6, <1>7 DEF Bijection

LEMMA InsertType ==
  ASSUME NEW a \in [FilterNumber -> Int], NEW i \in FilterNumber
  PROVE insert(a, i) \in [FilterNumber -> Int]
BY Sizes DEF insert, FilterNumber

\* A turn of the outer loop makes the ordered part one longer.
LEMMA InsertOrders ==
  ASSUME NEW a \in [FilterNumber -> Int], NEW i \in 1 .. Last, Ordered(a, i)
  PROVE Ordered(insert(a, i), i + 1)
<1> DEFINE new == insert(a, i)
<1> SUFFICES ASSUME NEW k \in 0 .. i, NEW l \in 0 .. i, k < l
             PROVE new[k] <= new[l]
  <2>1. i + 1 - 1 = i /\ 0 .. i \subseteq FilterNumber
    BY Sizes DEF FilterNumber, Last
  <2>2. \A k \in 0 .. i : new[k] \in Int
    BY <2>1, InsertType, Sizes DEF Last, FilterNumber
  <2>3. QED BY <2>1, <2>2 DEF Ordered
<1>1. /\ i \in FilterNumber /\ k \in FilterNumber /\ l \in FilterNumber
      /\ l - 1 \in FilterNumber /\ k <= l - 1
      /\ k \in Nat /\ l \in Nat /\ i \in Nat
  BY Sizes DEF FilterNumber, Last
<1>2. \A m \in FilterNumber : a[m] \in Int
  OBVIOUS
<1>3. \A m, n \in 0 .. i - 1 : m <= n => a[m] <= a[n]
  BY DEF Ordered
<1>4. /\ new[k] = IF ~Moves(a, i, k) THEN a[k]
                  ELSE IF k > 0 /\ Moves(a, i, k - 1) THEN a[k - 1] ELSE a[i]
      /\ new[l] = IF ~Moves(a, i, l) THEN a[l]
                  ELSE IF Moves(a, i, l - 1) THEN a[l - 1] ELSE a[i]
  BY <1>1, InsertValue
<1>5. CASE ~Moves(a, i, k)
  <2>1. PICK m \in k .. i - 1 : ~(a[m] > a[i])
    BY <1>5 DEF Moves
  <2>2. a[k] <= a[m] /\ a[m] <= a[i]
    <3>1. m \in 0 .. i - 1 /\ k \in 0 .. i - 1 /\ m \in FilterNumber
      BY <1>1, <2>1, Sizes DEF FilterNumber, Last
    <3>2. QED BY <1>1, <1>2, <1>3, <2>1, <3>1
  <2>3. new[k] = a[k] /\ a[k] <= a[i]
    BY <1>1, <1>2, <1>4, <1>5, <2>1, <2>2, Sizes DEF FilterNumber, Last
  <2>4. a[k] <= a[l - 1]
    BY <1>1, <1>3
  <2>5. ~Moves(a, i, l) => a[k] <= a[l]
    <3>1. l = i => a[k] <= a[l]
      BY <2>3
    <3>2. l # i => a[k] <= a[l]
      BY <1>1, <1>3
    <3>3. QED BY <3>1, <3>2
  <2>6. QED BY <1>4, <2>3, <2>4, <2>5
<1>6. CASE Moves(a, i, k)
  <2>1. Moves(a, i, l) /\ Moves(a, i, l - 1)
    BY <1>1, <1>6, MovesUpward
  <2>2. new[l] = a[l - 1]
    BY <1>4, <2>1
  <2>3. a[l - 1] > a[i]
    BY <1>1, <2>1 DEF Moves
  <2>4. CASE k > 0 /\ Moves(a, i, k - 1)
    <3>1. a[k - 1] <= a[l - 1]
      BY <1>1, <1>3, <2>4
    <3>2. QED BY <1>4, <1>6, <2>2, <2>4, <3>1
  <2>5. CASE ~(k > 0 /\ Moves(a, i, k - 1))
    BY <1>1, <1>2, <1>4, <1>6, <2>2, <2>3, <2>5
  <2>6. QED BY <2>4, <2>5
<1>7. QED BY <1>5, <1>6

\* Inserting keeps the array a permutation of the powers.
LEMMA InsertPermutes ==
  ASSUME NEW a \in [FilterNumber -> Int], NEW i \in FilterNumber,
         NEW b, Permutes(a, b)
  PROVE Permutes(insert(a, i), b)
<1>1. PICK p \in Bijection(FilterNumber, FilterNumber) :
             \A k \in FilterNumber : a[k] = b[p[k]]
  BY DEF Permutes
<1> DEFINE q == Source(a, i)
           r == [k \in FilterNumber |-> p[q[k]]]
<1>2. q \in Bijection(FilterNumber, FilterNumber)
  BY SourceIsBijection
<1>3. r \in Bijection(FilterNumber, FilterNumber)
  BY <1>1, <1>2, Fun_BijTransitive
<1>4. ASSUME NEW k \in FilterNumber
      PROVE insert(a, i)[k] = b[r[k]]
  <2>1. q[k] \in FilterNumber
    BY <1>2 DEF Bijection, Injection
  <2>2. insert(a, i)[k] = a[q[k]]
    BY SourceIsBijection
  <2>3. QED BY <1>1, <2>1, <2>2
<1>5. QED BY <1>3, <1>4 DEF Permutes
-----------------------------------------------------------------------------
LEMMA InitInv ==
  DetectorInit /\ currentPowerValue \in [FilterNumber -> Int]
    /\ pc \in {"samples", "computeHit"} => Inv
<1> SUFFICES ASSUME DetectorInit, currentPowerValue \in [FilterNumber -> Int],
                    pc \in {"samples", "computeHit"}
             PROVE Inv
  OBVIOUS
<1>1. sortedPower \in [FilterNumber -> Int]
  BY DEF DetectorInit
<1>2. nextToSort \in 0 .. FILTER_IIR_FILTER_COUNT
  BY Sizes DEF DetectorInit
<1>3. detector_hitDetectedFlag \in BOOLEAN
  BY DEF DetectorInit
<1>4. pc # "sort"
  OBVIOUS
<1>5. QED BY <1>1, <1>2, <1>3, <1>4 DEF Inv, DetectorTypeOK, SortInv

LEMMA NextInv == Inv /\ [DetectorNext]_detectorVars => Inv'
<1> SUFFICES ASSUME Inv, [DetectorNext]_detectorVars PROVE Inv'
  OBVIOUS
<1> USE DEF Inv
<1>1. CASE copyPower
  <2>1. DetectorTypeOK'
    BY <1>1, Sizes DEF copyPower, DetectorTypeOK
  <2>2. Ordered(sortedPower', 1)
    <3>1. sortedPower'[0] \in Int
      BY <1>1, Sizes DEF copyPower, DetectorTypeOK, FilterNumber
    <3>2. QED BY <3>1 DEF Ordered
  <2>3. Permutes(sortedPower', currentPowerValue')
    <3> DEFINE id == [k \in FilterNumber |-> k]
    <3>1. id \in Bijection(FilterNumber, FilterNumber)
      BY DEF Bijection, Injection, Surjection, IsInjective
    <3>2. \A k \in FilterNumber : sortedPower'[k] = currentPowerValue'[id[k]]
      BY <1>1 DEF copyPower
    <3>3. QED BY <3>1, <3>2 DEF Permutes
  <2>4. QED BY <1>1, <2>1, <2>2, <2>3, Sizes DEF copyPower, SortInv
<1>2. CASE sortNext
  <2>1. /\ nextToSort \in 1 .. Last /\ nextToSort \in FilterNumber
        /\ sortedPower \in [FilterNumber -> Int]
        /\ Ordered(sortedPower, nextToSort)
        /\ Permutes(sortedPower, currentPowerValue)
    BY <1>2, Sizes DEF sortNext, DetectorTypeOK, SortInv, Last, FilterNumber
  <2>2. /\ sortedPower' = insert(sortedPower, nextToSort)
        /\ nextToSort' = nextToSort + 1
        /\ UNCHANGED <<currentPowerValue, detector_hitDetectedFlag, pc>>
    BY <1>2 DEF sortNext
  <2>3. nextToSort' \in 1 .. FILTER_IIR_FILTER_COUNT
    BY <2>1, <2>2, Sizes DEF Last
  <2>4. DetectorTypeOK'
    BY <2>1, <2>2, <2>3, InsertType, Sizes DEF DetectorTypeOK
  <2>5. Ordered(sortedPower', nextToSort')
    BY <2>1, <2>2, InsertOrders
  <2>6. Permutes(sortedPower', currentPowerValue')
    BY <2>1, <2>2, InsertPermutes
  <2>7. QED BY <2>3, <2>4, <2>5, <2>6 DEF SortInv
<1>3. CASE testThreshold
  <2>1. detector_hitDetectedFlag' \in BOOLEAN
    BY <1>3 DEF testThreshold
  <2>2. pc' # "sort"
    BY <1>3 DEF testThreshold
  <2>3. QED BY <1>3, <2>1, <2>2 DEF testThreshold, DetectorTypeOK, SortInv
<1>4. CASE report
  BY <1>4 DEF report, DetectorTypeOK, SortInv
<1>5. CASE newPower
  BY <1>5 DEF newPower, DetectorTypeOK, SortInv
<1>6. CASE UNCHANGED detectorVars
  BY <1>6 DEF detectorVars, DetectorTypeOK, SortInv
<1>7. QED BY <1>1, <1>2, <1>3, <1>4, <1>5, <1>6 DEF DetectorNext

LEMMA InvSorted == Inv => DetectorTypeOK /\ SortIsRight
<1> SUFFICES ASSUME Inv, sorted PROVE SortIsRight
  BY DEF Inv, SortIsRight
<1>1. /\ Ordered(sortedPower, FILTER_IIR_FILTER_COUNT)
      /\ Permutes(sortedPower, currentPowerValue)
  BY Sizes DEF Inv, SortInv, sorted, Last
<1>2. QED BY <1>1 DEF SortIsRight, Ordered, Permutes, FilterNumber

\* detector.c:43-66: for any powers the sort leaves the powers in ascending
\* order, each as often as it is there.
THEOREM SortSorts == DetectorSpec => [](DetectorTypeOK /\ SortIsRight)
BY InvSorted, InitInv, NextInv, PTL DEF DetectorSpec
-----------------------------------------------------------------------------
(* The threshold.                                                           *)

\* Two values with the rank of the lower median are one.
LEMMA MedianUnique ==
  ASSUME DetectorTypeOK, NEW v \in Int, NEW w \in Int, LowerMedian(v), LowerMedian(w)
  PROVE v = w
<1>1. ASSUME NEW s \in Int, NEW t \in Int, LowerMedian(s), LowerMedian(t), s < t
      PROVE FALSE
  <2> DEFINE upTo == {f \in FilterNumber : currentPowerValue[f] <= s}
             below == {f \in FilterNumber : currentPowerValue[f] < t}
  <2>1. upTo \subseteq below
    BY <1>1 DEF DetectorTypeOK
  <2>2. IsFiniteSet(below)
    <3>1. IsFiniteSet(FilterNumber)
      BY Sizes, FS_Interval DEF FilterNumber
    <3>2. QED BY <3>1, FS_Subset
  <2>3. Cardinality(upTo) <= Cardinality(below)
    BY <2>1, <2>2, FS_Subset
  <2>4. Cardinality(upTo) \in Nat /\ Cardinality(below) \in Nat
    BY <2>1, <2>2, FS_Subset, FS_CardinalityType
  <2>5. /\ 2 * Cardinality(upTo) >= FILTER_IIR_FILTER_COUNT
        /\ 2 * Cardinality(below) < FILTER_IIR_FILTER_COUNT
    BY <1>1 DEF LowerMedian, IsLowerMedian
  <2> HIDE DEF upTo, below
  <2>6. QED BY <2>3, <2>4, <2>5, Sizes
<1>2. QED BY <1>1

\* The places before n are taken from as many channels.
LEMMA FirstPlaces ==
  ASSUME NEW p \in Bijection(FilterNumber, FilterNumber), NEW n \in FilterNumber
  PROVE /\ IsFiniteSet({p[k] : k \in 0 .. n})
        /\ Cardinality({p[k] : k \in 0 .. n}) = n + 1
<1> DEFINE R == 0 .. n
           F == Restrict(p, R)
<1>1. R \subseteq FilterNumber /\ n \in Nat
  BY Sizes DEF FilterNumber
<1>2. F \in Bijection(R, Range(F))
  BY <1>1, Fun_BijRestrict
<1>3. Range(F) = {p[k] : k \in R}
  BY DEF Range, Restrict
<1>4. IsFiniteSet(R) /\ Cardinality(R) = n + 1
  BY <1>1, FS_Interval
<1>5. QED BY <1>2, <1>3, <1>4, FS_Bijection DEF ExistsBijection

\* The value at MEDIAN_INDEX is the lower median, and the last is the largest.
LEMMA SortedMedian ==
  ASSUME DetectorTypeOK, SortIsRight, sorted
  PROVE /\ LowerMedian(sortedPower[MEDIAN_INDEX])
        /\ \E f, m \in FilterNumber : /\ currentPowerValue[f] = sortedPower[Last]
                                      /\ currentPowerValue[m] = sortedPower[MEDIAN_INDEX]
        /\ \A f \in FilterNumber : currentPowerValue[f] <= sortedPower[Last]
<1>1. PICK p \in Bijection(FilterNumber, FilterNumber) :
             \A k \in FilterNumber : sortedPower[k] = currentPowerValue[p[k]]
  BY DEF SortIsRight
<1>2. \A k, l \in FilterNumber : k <= l => sortedPower[k] <= sortedPower[l]
  BY DEF SortIsRight
<1>3. /\ p \in [FilterNumber -> FilterNumber]
      /\ \A f \in FilterNumber : \E k \in FilterNumber : p[k] = f
  BY <1>1 DEF Bijection, Injection, Surjection
<1>4. \A k \in FilterNumber : sortedPower[k] \in Int /\ currentPowerValue[k] \in Int
  BY DEF DetectorTypeOK
<1> DEFINE v == sortedPower[MEDIAN_INDEX]
           below == {f \in FilterNumber : currentPowerValue[f] < v}
           upTo == {f \in FilterNumber : currentPowerValue[f] <= v}
           first == {p[k] : k \in 0 .. MEDIAN_INDEX}
<1>5. IsFiniteSet(FilterNumber)
  BY Sizes, FS_Interval DEF FilterNumber
<1>6. IsFiniteSet(first) /\ Cardinality(first) = MEDIAN_INDEX + 1
  BY <1>1, FirstPlaces, Sizes
<1>7. first \subseteq upTo
  <2> SUFFICES ASSUME NEW k \in 0 .. MEDIAN_INDEX PROVE p[k] \in upTo
    OBVIOUS
  <2>1. k \in FilterNumber /\ k <= MEDIAN_INDEX
    BY Sizes DEF FilterNumber
  <2>2. QED BY <1>1, <1>2, <1>3, <2>1, Sizes
<1>8. Cardinality(upTo) >= MEDIAN_INDEX + 1
  <2>1. IsFiniteSet(upTo) /\ upTo \subseteq FilterNumber
    BY <1>5, FS_Subset
  <2>2. Cardinality(first) <= Cardinality(upTo)
    BY <1>7, <2>1, FS_Subset
  <2>3. Cardinality(upTo) \in Nat
    BY <2>1, FS_CardinalityType
  <2> HIDE DEF upTo, first
  <2>4. QED BY <1>6, <2>2, <2>3, Sizes DEF FilterNumber
<1>9. below \subseteq first \ {p[MEDIAN_INDEX]}
  <2> SUFFICES ASSUME NEW f \in FilterNumber, currentPowerValue[f] < v
               PROVE f \in first \ {p[MEDIAN_INDEX]}
    OBVIOUS
  <2>1. PICK k \in FilterNumber : p[k] = f
    BY <1>3
  <2>2. sortedPower[k] < v
    BY <1>1, <2>1
  <2>3. ~(MEDIAN_INDEX <= k)
    BY <1>2, <1>4, <2>2, Sizes
  <2>4. k \in 0 .. MEDIAN_INDEX
    BY <2>3, Sizes DEF FilterNumber
  <2>5. f # p[MEDIAN_INDEX]
    BY <1>1, <1>4, Sizes
  <2>6. QED BY <2>1, <2>4, <2>5
<1>10. Cardinality(below) <= MEDIAN_INDEX /\ Cardinality(below) \in Nat
  <2>1. p[MEDIAN_INDEX] \in first
    BY Sizes DEF FilterNumber
  <2>2. /\ IsFiniteSet(first \ {p[MEDIAN_INDEX]})
        /\ Cardinality(first \ {p[MEDIAN_INDEX]}) = Cardinality(first) - 1
    BY <1>6, <2>1, FS_RemoveElement
  <2>3. /\ IsFiniteSet(below)
        /\ Cardinality(below) <= Cardinality(first \ {p[MEDIAN_INDEX]})
    BY <1>9, <2>2, FS_Subset
  <2>4. Cardinality(below) \in Nat
    BY <2>3, FS_CardinalityType
  <2>5. MEDIAN_INDEX \in Nat
    BY Sizes
  <2> HIDE DEF below, first
  <2>6. QED BY <1>6, <2>2, <2>3, <2>4, <2>5
<1>11. LowerMedian(v)
  <2>1. Cardinality(upTo) \in Nat
    BY <1>5, FS_Subset, FS_CardinalityType
  <2>2. 2 * Cardinality(below) < FILTER_IIR_FILTER_COUNT
    <3> HIDE DEF below
    <3>1. QED BY <1>10, Sizes DEF FilterNumber
  <2>3. 2 * Cardinality(upTo) >= FILTER_IIR_FILTER_COUNT
    <3> HIDE DEF upTo
    <3>1. QED BY <1>8, <2>1, Sizes DEF FilterNumber
  <2>4. QED BY <2>2, <2>3 DEF LowerMedian, IsLowerMedian
<1>12. \A f \in FilterNumber : currentPowerValue[f] <= sortedPower[Last]
  <2> SUFFICES ASSUME NEW f \in FilterNumber
               PROVE currentPowerValue[f] <= sortedPower[Last]
    OBVIOUS
  <2>1. PICK k \in FilterNumber : p[k] = f
    BY <1>3
  <2>2. k <= Last
    BY Sizes DEF FilterNumber, Last
  <2>3. QED BY <1>1, <1>2, <2>1, <2>2, Sizes
<1>13. /\ p[Last] \in FilterNumber /\ p[MEDIAN_INDEX] \in FilterNumber
       /\ currentPowerValue[p[Last]] = sortedPower[Last]
       /\ currentPowerValue[p[MEDIAN_INDEX]] = sortedPower[MEDIAN_INDEX]
  BY <1>1, <1>3, Sizes
<1>14. \E f, m \in FilterNumber : /\ currentPowerValue[f] = sortedPower[Last]
                                  /\ currentPowerValue[m] = sortedPower[MEDIAN_INDEX]
  BY <1>13
<1>15. LowerMedian(sortedPower[MEDIAN_INDEX])
  BY <1>11
<1>16. QED BY <1>12, <1>14, <1>15

\* The comparison of detector.c:69-78 on a sorted array.
LEMMA ThresholdRule ==
  ASSUME DetectorTypeOK, SortIsRight, testThreshold, ~detector_hitDetectedFlag
  PROVE detector_hitDetectedFlag' <=> StandsOut(currentPowerValue)
<1>1. /\ sorted
      /\ detector_hitDetectedFlag' <=> overThreshold
  BY DEF testThreshold
<1>2. /\ LowerMedian(sortedPower[MEDIAN_INDEX])
      /\ \E f, m \in FilterNumber : /\ currentPowerValue[f] = sortedPower[Last]
                                    /\ currentPowerValue[m] = sortedPower[MEDIAN_INDEX]
      /\ \A f \in FilterNumber : currentPowerValue[f] <= sortedPower[Last]
  BY <1>1, SortedMedian
<1>3. /\ sortedPower[Last] \in Int /\ sortedPower[MEDIAN_INDEX] \in Int
      /\ \A f \in FilterNumber : currentPowerValue[f] \in Int
      /\ FUDGE_FACTOR \in Nat
  BY Sizes, DetectorAssumption DEF DetectorTypeOK
<1>4. ASSUME overThreshold
      PROVE \E f, m \in FilterNumber :
              /\ LowerMedian(currentPowerValue[m])
              /\ currentPowerValue[f] > FUDGE_FACTOR * currentPowerValue[m]
  <2>1. PICK f \in FilterNumber, m \in FilterNumber :
               /\ currentPowerValue[f] = sortedPower[Last]
               /\ currentPowerValue[m] = sortedPower[MEDIAN_INDEX]
    BY <1>2
  <2>2. currentPowerValue[f] > FUDGE_FACTOR * currentPowerValue[m]
    BY <1>3, <1>4, <2>1 DEF overThreshold
  <2>3. LowerMedian(currentPowerValue[m])
    BY <1>2, <2>1
  <2>4. QED BY <2>2, <2>3
<1>5. ASSUME NEW f \in FilterNumber, NEW m \in FilterNumber,
             LowerMedian(currentPowerValue[m]),
             currentPowerValue[f] > FUDGE_FACTOR * currentPowerValue[m]
      PROVE overThreshold
  <2>1. currentPowerValue[m] = sortedPower[MEDIAN_INDEX]
    BY <1>2, <1>3, <1>5, MedianUnique
  <2>2. currentPowerValue[f] <= sortedPower[Last]
    BY <1>2
  <2>3. QED BY <1>3, <1>5, <2>1, <2>2 DEF overThreshold
<1>6. QED BY <1>1, <1>4, <1>5 DEF StandsOut, LowerMedian

\* detector.c:69-78: a hit is raised exactly when the strongest channel has
\* more than FUDGE_FACTOR times the median power.
THEOREM ThresholdIsMedian == DetectorSpec => HitIsOverMedian
<1> DEFINE Rule ==
      testThreshold /\ ~detector_hitDetectedFlag =>
        (detector_hitDetectedFlag' <=> StandsOut(currentPowerValue))
<1>1. DetectorTypeOK /\ SortIsRight => [Rule]_detectorVars
  BY ThresholdRule
<1>2. QED BY <1>1, SortSorts, PTL DEF HitIsOverMedian
=============================================================================
