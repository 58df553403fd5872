--------------------------- MODULE StudySchedule ---------------------------
(***************************************************************************)
(* The pure parts of the evaluation harness: the crossover schedule of a   *)
(* repeated paired study (eval/runners/repeated.py), the hierarchical      *)
(* effect of a meta-study (eval/studies/meta.py) and its reading in the    *)
(* final report (finalize_campaign.py).  Random generators are choices:    *)
(* a shuffle is any permutation, a bootstrap interval any interval of the  *)
(* range of values, also one that does not hold the estimate.              *)
(***************************************************************************)
EXTENDS Integers, Sequences, FiniteSets, SequencesExt

CONSTANTS
  Manifests,   \* the baselines of the manifests, in the order of the plan
  SortedArms,  \* the same baselines, sorted
  Shuffle,     \* random.Random(seed).shuffle of a list this long: [seed -> permutation],
               \* for the seeds that the search tries
  BaseSeed,    \* the seed every manifest declares
  B7           \* the treatment under test

ASSUME ArmsAssumption ==
  /\ Manifests \in Seq(ToSet(Manifests)) /\ SortedArms \in Seq(ToSet(SortedArms))
  /\ Len(Manifests) >= 2 /\ IsInjective(Manifests) /\ IsInjective(SortedArms)
  /\ ToSet(Manifests) = ToSet(SortedArms) /\ Len(SortedArms) = Len(Manifests)
  /\ B7 \in ToSet(Manifests)

ASSUME SeedsAreNumbers == DOMAIN Shuffle \subseteq Int /\ BaseSeed \in Int

NArms == Len(Manifests)
Places == 1..NArms
Permuted == {p \in [Places -> Places] : IsInjective(p)}
Arrange(list, p) == [i \in Places |-> list[p[i]]]

-----------------------------------------------------------------------------
(* repeated.py *)

\* orientation[index:] + orientation[:index]
Rotation(list, index) == [i \in Places |-> list[((i - 1 + index) % NArms) + 1]]

\* Mutant: every row of a block starts with the same treatment.
BalancedOrders_NoRotation(bases, rows, repeats) ==
  [k \in 1..repeats |-> bases[1]]

\* balanced_execution_orders: a block holds one rotation per baseline, its
\* rows shuffled (rows[block]); odd blocks run the base backwards, and the
\* base is shuffled anew after every second block (bases).
BalancedOrders(bases, rows, repeats) ==
  [k \in 1..repeats |->
     LET block == (k - 1) \div NArms
         base == bases[(block \div 2) + 1]
         orientation == IF block % 2 = 0 THEN base ELSE Reverse(base)
     IN  Rotation(orientation, rows[block + 1][((k - 1) % NArms) + 1] - 1)]

Schedules(repeats) ==
  LET blocks == ((repeats - 1) \div NArms) + 1
      turns == ((blocks - 1) \div 2) + 1
  IN  {BalancedOrders(b, r, repeats) :
         b \in [1..turns -> {Arrange(SortedArms, p) : p \in Permuted}],
         r \in [1..blocks -> Permuted]}

\* _shuffled_order shuffles the sorted labels ...
ShuffledOrder(seed) == Arrange(SortedArms, Shuffle[seed])

\* ... and paired.py shuffles the manifests as the plan lists them.
ExecutionOrder(seed) == Arrange(Manifests, Shuffle[seed])

\* The first seed from the cursor on that shuffles the labels into an order.
NextSeed(order, cursor) ==
  CHOOSE s \in DOMAIN Shuffle :
    /\ s >= cursor /\ ShuffledOrder(s) = order
    /\ \A t \in DOMAIN Shuffle : t >= cursor /\ ShuffledOrder(t) = order => s <= t

\* _balanced_seed_schedule: the cursor only goes up, so no seed comes twice.
SeedSchedule(orders) ==
  LET seed[k \in DOMAIN orders] ==
        NextSeed(orders[k], IF k = 1 THEN BaseSeed ELSE seed[k - 1] + 1)
  IN  seed

\* The search finds a seed for every order.
SeedsFound(orders) ==
  \A k \in DOMAIN orders : \E s \in DOMAIN Shuffle :
    /\ s >= (IF k = 1 THEN BaseSeed ELSE SeedSchedule(orders)[k - 1] + 1)
    /\ ShuffledOrder(s) = orders[k]

\* How often an arm ran at a place.
TimesAt(orders, arm, place) ==
  Cardinality({k \in DOMAIN orders : orders[k][place] = arm})

-----------------------------------------------------------------------------
(* meta.py, finalize_campaign.py *)

Total(means) == FoldSeq(+, 0, means)

\* _hierarchical_metric over the repositories' mean deltas: the point estimate
\* (scaled by their number) and any interval: the bootstrap draws values inside
\* the repositories too.  One cluster has no spread, and no cluster no effect.
HierarchicalMetrics(means) ==
  LET total == Total(means)
      n == Len(means)
      Effect(l, u) == [repos |-> n, mean |-> total, lower |-> l, upper |-> u]
  IN  IF n <= 1 THEN {Effect(total, total)}
      ELSE {e \in {Effect(l, u) : l \in -n..n, u \in -n..n} : e.lower <= e.upper}

\* Mutant: the interval changes sign and keeps its ends.
OrientMetric_KeepEnds(first, raw, higher) ==
  LET sign == IF first = B7 THEN 1 ELSE -1
      mean == sign * raw.mean
      lower == sign * raw.lower
      upper == sign * raw.upper
  IN  IF raw.repos = 0 THEN "unobserved"
      ELSE IF lower <= 0 /\ 0 <= upper THEN "uncertain"
      ELSE IF (higher /\ mean > 0) \/ (~higher /\ mean < 0) THEN "favors_B7"
      ELSE "favors_comparator"

\* _orient_metric: the effect first - second, read as B7 - comparator.
OrientMetric(first, raw, higher) ==
  LET sign == IF first = B7 THEN 1 ELSE -1
      mean == sign * raw.mean
      lower == IF sign > 0 THEN raw.lower ELSE -raw.upper
      upper == IF sign > 0 THEN raw.upper ELSE -raw.lower
  IN  IF raw.repos = 0 THEN "unobserved"
      ELSE IF lower <= 0 /\ 0 <= upper THEN "uncertain"
      ELSE IF (higher /\ mean > 0) \/ (~higher /\ mean < 0) THEN "favors_B7"
      ELSE "favors_comparator"
=============================================================================
