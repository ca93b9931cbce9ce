------------------------------ MODULE Detector ------------------------------
(***************************************************************************)
(* detector_computeHit() of detector.c for any power values: the insertion *)
(* sort, one action for each turn of its outer loop, the threshold test,   *)
(* and the search for the strongest channel that follows it in detector(). *)
(* detector_runTest() calls detector_computeHit() with forced power        *)
(* values, detector() with computed ones.                                  *)
(***************************************************************************)
EXTENDS Functions, FiniteSets

CONSTANTS FILTER_IIR_FILTER_COUNT,  \* 10 in the code
          FUDGE_FACTOR              \* 5 in the code

ASSUME DetectorAssumption ==
  /\ FILTER_IIR_FILTER_COUNT \in Nat
  /\ \E half \in 1 .. FILTER_IIR_FILTER_COUNT : FILTER_IIR_FILTER_COUNT = 2 * half
  /\ FUDGE_FACTOR \in Nat

VARIABLES currentPowerValue,  \* filter.c:30
          sortedPower,
          nextToSort,         \* i of detector_sort()'s outer loop
          detector_hitDetectedFlag,
          pc                  \* what the program does next

detectorVars == <<currentPowerValue, sortedPower, nextToSort,
                  detector_hitDetectedFlag, pc>>

FilterNumber == 0 .. FILTER_IIR_FILTER_COUNT - 1
Last == FILTER_IIR_FILTER_COUNT - 1

\* A slip: the middle of the array and not the lower of its two middles.
medianIndexUpper == FILTER_IIR_FILTER_COUNT \div 2

MEDIAN_INDEX == FILTER_IIR_FILTER_COUNT \div 2 - 1

DetectorInit ==
  /\ sortedPower = [k \in FilterNumber |-> 0]
  /\ nextToSort = 0
  /\ detector_hitDetectedFlag = FALSE

\* A slip: the inner loop stops before it looks at the first value.
insertNotFirst(a, i) ==
  LET moves(k) == k > 0 /\ \A m \in k .. i - 1 : a[m] > a[i]
  IN [k \in FilterNumber |-> IF k > i \/ ~moves(k) THEN a[k]
                             ELSE IF k > 0 /\ moves(k - 1) THEN a[k - 1] ELSE a[i]]

\* detector_sort's inner loop: the values right before i that are larger than
\* a[i] move up by one, and a[i] goes to the place they leave.
insert(a, i) ==
  LET moves(k) == \A m \in k .. i - 1 : a[m] > a[i]
  IN [k \in FilterNumber |-> IF k > i \/ ~moves(k) THEN a[k]
                             ELSE IF k > 0 /\ moves(k - 1) THEN a[k - 1] ELSE a[i]]

copyPower ==
  /\ pc = "computeHit" /\ pc' = "sort"
  /\ sortedPower' = currentPowerValue
  /\ nextToSort' = 1
  /\ UNCHANGED <<currentPowerValue, detector_hitDetectedFlag>>

sortNext ==
  /\ pc = "sort" /\ nextToSort <= Last
  /\ sortedPower' = insert(sortedPower, nextToSort)
  /\ nextToSort' = nextToSort + 1
  /\ UNCHANGED <<currentPowerValue, detector_hitDetectedFlag, pc>>

sorted == pc = "sort" /\ nextToSort = Last + 1

overThreshold == sortedPower[Last] > sortedPower[MEDIAN_INDEX] * FUDGE_FACTOR

\* The flag is only ever set here.
testThreshold ==
  /\ sorted
  /\ detector_hitDetectedFlag' = (detector_hitDetectedFlag \/ overThreshold)
  /\ pc' = IF detector_hitDetectedFlag' THEN "report" ELSE "samples"
  /\ UNCHANGED <<currentPowerValue, sortedPower, nextToSort>>

\* shooterMode() clears the hit, continuousPowerMode() does not look at it.
report ==
  /\ pc = "report" /\ pc' = "samples"
  /\ \E clear \in BOOLEAN :
       detector_hitDetectedFlag' = (detector_hitDetectedFlag /\ ~clear)
  /\ UNCHANGED <<currentPowerValue, sortedPower, nextToSort>>

\* Whoever computes or forces power values, and the calls of computeHit.
newPower ==
  /\ pc = "samples"
  /\ currentPowerValue' \in [FilterNumber -> Int]
  /\ pc' \in {"samples", "computeHit"}
  /\ UNCHANGED <<sortedPower, nextToSort, detector_hitDetectedFlag>>

DetectorNext == copyPower \/ sortNext \/ testThreshold \/ report \/ newPower

DetectorSpec ==
  /\ DetectorInit /\ currentPowerValue \in [FilterNumber -> Int]
  /\ pc \in {"samples", "computeHit"}
  /\ [][DetectorNext]_detectorVars
-----------------------------------------------------------------------------
\* When the sort is done sortedPower is the power values, each as often as it
\* is there, in ascending order. (detector.c:43-66)
SortIsRight ==
  sorted => /\ \A k, l \in FilterNumber : k <= l => sortedPower[k] <= sortedPower[l]
            /\ \E p \in Bijection(FilterNumber, FilterNumber) :
                 \A k \in FilterNumber : sortedPower[k] = currentPowerValue[p[k]]

\* v is the lower of the two values in the middle: fewer than half of the
\* channels are weaker, at least half are not stronger.
IsLowerMedian(v, power) ==
  /\ 2 * Cardinality({f \in FilterNumber : power[f] < v}) < FILTER_IIR_FILTER_COUNT
  /\ 2 * Cardinality({f \in FilterNumber : power[f] <= v}) >= FILTER_IIR_FILTER_COUNT

LowerMedian(v) == IsLowerMedian(v, currentPowerValue)

\* Some channel stands out: what a hit should be.
StandsOut(power) ==
  \E f, m \in FilterNumber :
    IsLowerMedian(power[m], power) /\ power[f] > FUDGE_FACTOR * power[m]

\* A computation raises the hit flag when some channel has more than
\* FUDGE_FACTOR times the median power, and in no other case. (detector.c:69-78)
HitIsOverMedian ==
  [][testThreshold /\ ~detector_hitDetectedFlag =>
       (detector_hitDetectedFlag' <=> StandsOut(currentPowerValue))]_detectorVars

\* The types of the detector's variables.
DetectorTypeOK ==
  /\ currentPowerValue \in [FilterNumber -> Int]
  /\ sortedPower \in [FilterNumber -> Int]
  /\ nextToSort \in 0 .. FILTER_IIR_FILTER_COUNT
  /\ detector_hitDetectedFlag \in BOOLEAN
=============================================================================
