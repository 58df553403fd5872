------------------------- MODULE Dispatch_proofs -------------------------
(***************************************************************************)
(* The five invariants of Dispatch, for every set of files, agents, costs  *)
(* and bounds.                                                             *)
(*                                                                         *)
(* The loops of the model are folds of the library, each a recursive       *)
(* function over the subsets of a set.  That such a function exists is     *)
(* proved by induction on the cardinality of the subset, the induction     *)
(* being that a set of numbers has a least one; what a loop promises is    *)
(* then a set of results that its step does not leave.                     *)
(*                                                                         *)
(* Order: numbers and folds, sums, packets, plans, routes and batches, the *)
(* runs, one lemma per part of DispatchInv, the theorems.                  *)
(***************************************************************************)
EXTENDS Dispatch, FiniteSetTheorems, WellFoundedInduction, TLAPS

(***************************************************************************)
(* Numbers                                                                 *)
(***************************************************************************)

\* A set of numbers has a least one.
LEMMA LeastNumber ==
  ASSUME NEW T \in SUBSET Nat, T /= {}
  PROVE  \E x \in T : \A y \in T : x <= y
<1> DEFINE R == OpToRel(<, Nat)
<1>1. IsWellFoundedOn(R, Nat)
  BY NatLessThanWellFounded
<1>2. \E x \in T : \A y \in T : <<y, x>> \notin R
  <2> HIDE DEF R
  <2> QED BY <1>1, WFMin
<1>3. PICK x \in T : \A y \in T : <<y, x>> \notin R
  BY <1>2
<1>4. ASSUME NEW y \in T PROVE x <= y
  <2>1. <<y, x>> \in Nat \X Nat
    OBVIOUS
  <2>2. ~(<<y, x>>[1] < <<y, x>>[2])
    BY <1>3, <2>1 DEF OpToRel
  <2> QED BY <2>2
<1> QED BY <1>3, <1>4

\* Induction, as a fact about a set.
LEMMA EveryNumber ==
  ASSUME NEW S, 0 \in S, \A n \in Nat : n \in S => n + 1 \in S
  PROVE  Nat \subseteq S
<1> SUFFICES ASSUME Nat \ S /= {} PROVE FALSE
  OBVIOUS
<1>1. PICK m \in Nat \ S : \A y \in Nat \ S : m <= y
  BY LeastNumber
<1>2. m /= 0 /\ m - 1 \in Nat
  BY <1>1
<1>3. m - 1 \in S
  BY <1>1, <1>2
<1>4. (m - 1) + 1 = m
  BY <1>1
<1> QED
  BY <1>1, <1>2, <1>3, <1>4

\* A finite set of numbers has a greatest one, which Max finds.
LEMMA GreatestNumber ==
  ASSUME NEW T \in SUBSET Nat, T /= {}, NEW bound \in Nat, \A x \in T : x <= bound
  PROVE  Max(T) \in T /\ \A y \in T : Max(T) >= y
<1> DEFINE U == {bound - x : x \in T}
<1>1. U \in SUBSET Nat /\ U /= {}
  <2>1. \A x \in T : bound - x \in Nat
    OBVIOUS
  <2>2. \A x \in T : bound - x \in U
    OBVIOUS
  <2> QED BY <2>1, <2>2
<1>2. PICK u \in U : \A y \in U : u <= y
  BY <1>1, LeastNumber
<1>3. PICK x \in T : u = bound - x
  BY <1>2
<1>4. \A y \in T : x >= y
  <2> TAKE y \in T
  <2>1. u <= bound - y
    BY <1>2
  <2> QED BY <1>3, <2>1
<1> QED BY <1>3, <1>4 DEF Max

(***************************************************************************)
(* Folds                                                                   *)
(***************************************************************************)

\* An order in which the elements are taken: the last one of every set.
Picks(pick, D) == \A s \in SUBSET D : s /= {} => pick[s] \in s

IsFold(g, D, base, step, pick) ==
  \A s \in SUBSET D :
    g[s] = IF s = {} THEN base ELSE step[<<g[s \ {pick[s]}], pick[s]>>]

\* A fold exists: over a finite set, from any base, by any step, in any order.
LEMMA FoldExists ==
  ASSUME NEW D, IsFiniteSet(D), NEW R, NEW base \in R, NEW step \in [R \X D -> R],
         NEW pick, Picks(pick, D)
  PROVE  \E g \in [SUBSET D -> R] : IsFold(g, D, base, step, pick)
<1> DEFINE Upto(n) == {s \in SUBSET D : Cardinality(s) <= n}
           Folds(n, g) ==
             \A s \in Upto(n) :
               g[s] = IF s = {} THEN base ELSE step[<<g[s \ {pick[s]}], pick[s]>>]
           Good == {n \in Nat : \E g \in [Upto(n) -> R] : Folds(n, g)}
<1>0. \A s \in SUBSET D : IsFiniteSet(s) /\ Cardinality(s) \in Nat /\ Cardinality(s) <= Cardinality(D)
  BY FS_Subset, FS_CardinalityType
<1>1. 0 \in Good
  <2> DEFINE g == [s \in Upto(0) |-> base]
  <2>1. \A s \in Upto(0) : s = {}
    BY <1>0, FS_EmptySet
  <2>2. g \in [Upto(0) -> R] /\ Folds(0, g)
    BY <2>1
  <2> QED BY <2>2
<1>2. ASSUME NEW n \in Nat, n \in Good PROVE n + 1 \in Good
  <2>1. PICK g \in [Upto(n) -> R] : Folds(n, g)
    BY <1>2
  <2>2. ASSUME NEW s \in Upto(n + 1), s /= {}
        PROVE  pick[s] \in s /\ s \ {pick[s]} \in Upto(n)
    <3>1. pick[s] \in s
      BY <2>2 DEF Picks
    <3>2. Cardinality(s \ {pick[s]}) = Cardinality(s) - 1
      BY <3>1, <1>0, FS_RemoveElement
    <3>3. s \ {pick[s]} \in SUBSET D
      OBVIOUS
    <3> QED BY <3>1, <3>2, <3>3, <1>0
  <2> DEFINE h == [s \in Upto(n + 1) |->
                     IF s = {} THEN base ELSE step[<<g[s \ {pick[s]}], pick[s]>>]]
  <2>3. h \in [Upto(n + 1) -> R]
    <3>1. ASSUME NEW s \in Upto(n + 1), s /= {}
          PROVE  step[<<g[s \ {pick[s]}], pick[s]>>] \in R
      <4>1. g[s \ {pick[s]}] \in R
        BY <2>1, <2>2, <3>1
      <4>2. pick[s] \in D
        BY <2>2, <3>1
      <4>3. <<g[s \ {pick[s]}], pick[s]>> \in R \X D
        BY <4>1, <4>2
      <4> QED BY <4>3
    <3> QED BY <3>1
  <2>4. \A s \in Upto(n) : h[s] = g[s] /\ s \in Upto(n + 1)
    <3> TAKE s \in Upto(n)
    <3>1. s \in Upto(n + 1)
      BY <1>0
    <3>2. g[s] = IF s = {} THEN base ELSE step[<<g[s \ {pick[s]}], pick[s]>>]
      BY <2>1
    <3> QED BY <3>1, <3>2
  <2>5. Folds(n + 1, h)
    <3> SUFFICES ASSUME NEW s \in Upto(n + 1)
                 PROVE  h[s] = IF s = {} THEN base
                               ELSE step[<<h[s \ {pick[s]}], pick[s]>>]
      OBVIOUS
    <3>1. CASE s = {}
      BY <3>1
    <3>2. CASE s /= {}
      <4>1. h[s \ {pick[s]}] = g[s \ {pick[s]}]
        BY <3>2, <2>2, <2>4
      <4> QED BY <3>2, <4>1
    <3> QED BY <3>1, <3>2
  <2>6. \E f \in [Upto(n + 1) -> R] : Folds(n + 1, f)
    <3> HIDE DEF h, Folds, Upto
    <3> QED BY <2>3, <2>5
  <2>7. n + 1 \in Nat
    OBVIOUS
  <2> HIDE DEF Folds, Upto
  <2> QED BY <2>6, <2>7
<1>3. Cardinality(D) \in Good
  <2> HIDE DEF Good
  <2>1. Nat \subseteq Good
    BY <1>1, <1>2, EveryNumber
  <2> QED BY <2>1, <1>0, FS_CardinalityType
<1>4. Upto(Cardinality(D)) = SUBSET D
  BY <1>0
<1>5. PICK g \in [SUBSET D -> R] : Folds(Cardinality(D), g)
  BY <1>3, <1>4
<1> QED BY <1>4, <1>5 DEF IsFold

\* What a set without one of its elements has, the set has.
Grows(F, D) == \A s \in SUBSET D : s /= {} => \E x \in s : s \ {x} \in F => s \in F

\* A family of finite sets that has the empty one and grows has them all.
LEMMA EverySubset ==
  ASSUME NEW D, IsFiniteSet(D), NEW F, {} \in F, Grows(F, D)
  PROVE  SUBSET D \subseteq F
<1> DEFINE Good == {n \in Nat : \A s \in SUBSET D : Cardinality(s) = n => s \in F}
<1>0. \A s \in SUBSET D : IsFiniteSet(s) /\ Cardinality(s) \in Nat
  BY FS_Subset, FS_CardinalityType
<1>1. 0 \in Good
  BY <1>0, FS_EmptySet
<1>2. ASSUME NEW n \in Nat, n \in Good PROVE n + 1 \in Good
  <2> SUFFICES ASSUME NEW s \in SUBSET D, Cardinality(s) = n + 1 PROVE s \in F
    OBVIOUS
  <2>1. s /= {}
    BY FS_EmptySet
  <2>2. PICK x \in s : s \ {x} \in F => s \in F
    BY <2>1 DEF Grows
  <2>3. IsFiniteSet(s)
    BY <1>0
  <2>4. Cardinality(s \ {x}) = Cardinality(s) - 1
    BY <2>2, <2>3, FS_RemoveElement
  <2>5. Cardinality(s \ {x}) = n /\ s \ {x} \in SUBSET D
    BY <2>4
  <2> QED BY <2>2, <2>5, <1>2
<1>3. Nat \subseteq Good
  <2> HIDE DEF Good
  <2> QED BY <1>1, <1>2, EveryNumber
<1> QED BY <1>0, <1>3
(***************************************************************************)
(* Sums                                                                    *)
(***************************************************************************)

AnyOf(s) == CHOOSE x \in s : TRUE

\* What the sum of a function is made of.
SumsOf(g, f) ==
  g = [s \in SUBSET DOMAIN f |->
         IF s = {} THEN 0 ELSE f[AnyOf(s)] + g[s \ {AnyOf(s)}]]

LEMMA SumIsFold ==
  ASSUME NEW D, IsFiniteSet(D), NEW f \in [D -> Nat]
  PROVE  \E g \in [SUBSET D -> Nat] : SumsOf(g, f) /\ SumFunction(f) = g[D]
<1> DEFINE step == [p \in Nat \X D |-> f[p[2]] + p[1]]
           pick == [s \in SUBSET D |-> AnyOf(s)]
<1>1. \A s \in SUBSET D : s /= {} => pick[s] \in s /\ pick[s] = AnyOf(s)
  BY DEF AnyOf
<1>2. step \in [Nat \X D -> Nat]
  OBVIOUS
<1>3. PICK g \in [SUBSET D -> Nat] :
        IsFold(g, D, 0, step, pick)
  <2>1. Picks(pick, D)
    BY <1>1 DEF Picks
  <2> HIDE DEF step, pick
  <2> QED BY <2>1, <1>2, FoldExists
<1>4. ASSUME NEW s \in SUBSET D
      PROVE  g[s] = IF s = {} THEN 0 ELSE f[AnyOf(s)] + g[s \ {AnyOf(s)}]
  <2>1. CASE s = {}
    BY <2>1, <1>3 DEF IsFold
  <2>2. CASE s /= {}
    <3>1. AnyOf(s) \in D /\ pick[s] = AnyOf(s) /\ g[s \ {AnyOf(s)}] \in Nat
      BY <2>2, <1>1
    <3>2. step[<<g[s \ {AnyOf(s)}], AnyOf(s)>>] = f[AnyOf(s)] + g[s \ {AnyOf(s)}]
      BY <3>1
    <3> HIDE DEF step, pick
    <3>3. g[s] = step[<<g[s \ {pick[s]}], pick[s]>>]
      BY <1>3, <2>2 DEF IsFold
    <3> QED BY <3>1, <3>2, <3>3, <2>2
  <2> QED BY <2>1, <2>2
<1>5. SumsOf(g, f)
  BY <1>4 DEF SumsOf
<1> DEFINE iter == CHOOSE h : SumsOf(h, f)
<1>6. SumsOf(iter, f)
  BY <1>5
<1>7. SumFunction(f) = iter[D]
  BY DEF SumFunction, SumFunctionOnSet, FoldFunctionOnSet, MapThenFoldSet, SumsOf, AnyOf
<1>8. iter \in [SUBSET D -> Nat]
  <2> DEFINE F == {s \in SUBSET D : iter[s] \in Nat}
  <2> HIDE DEF iter
  <2>1. {} \in F
    BY <1>6 DEF SumsOf
  <2>2. ASSUME NEW s \in SUBSET D, s /= {}
        PROVE  AnyOf(s) \in s /\ (s \ {AnyOf(s)} \in F => s \in F)
    <3>1. AnyOf(s) \in s /\ AnyOf(s) \in D
      BY <2>2 DEF AnyOf
    <3>2. iter[s] = f[AnyOf(s)] + iter[s \ {AnyOf(s)}]
      BY <1>6, <2>2 DEF SumsOf
    <3> QED BY <3>1, <3>2
  <2>3. SUBSET D \subseteq F
    <3> HIDE DEF F
    <3>1. Grows(F, D)
      BY <2>2 DEF Grows
    <3> QED BY <2>1, <3>1, EverySubset
  <2>4. \A s \in SUBSET D : iter[s] \in Nat
    BY <2>3
  <2>5. iter = [s \in SUBSET D |-> iter[s]]
    BY <1>6 DEF SumsOf
  <2> QED BY <2>4, <2>5
<1> QED
  <2> HIDE DEF iter
  <2> QED BY <1>6, <1>7, <1>8

LEMMA SumIsNumber ==
  ASSUME NEW D, IsFiniteSet(D), NEW f \in [D -> Nat]
  PROVE  SumFunction(f) \in Nat
<1>1. PICK g \in [SUBSET D -> Nat] : SumFunction(f) = g[D]
  BY SumIsFold
<1> QED BY <1>1

\* One value more or less.
LEMMA SumOfChange ==
  ASSUME NEW D, IsFiniteSet(D), NEW f \in [D -> Nat], NEW d \in D, NEW v \in Nat
  PROVE  SumFunction([f EXCEPT ![d] = v]) = SumFunction(f) - f[d] + v
<1> DEFINE f2 == [f EXCEPT ![d] = v]
<1>0. f2 \in [D -> Nat] /\ f2[d] = v /\ \A x \in D : x /= d => f2[x] = f[x]
  OBVIOUS
<1>1. PICK g \in [SUBSET D -> Nat] : SumsOf(g, f) /\ SumFunction(f) = g[D]
  BY SumIsFold
<1> HIDE DEF f2
<1>2. PICK h \in [SUBSET D -> Nat] : SumsOf(h, f2) /\ SumFunction(f2) = h[D]
  BY <1>0, SumIsFold
<1> DEFINE F == {s \in SUBSET D : h[s] = IF d \in s THEN g[s] - f[d] + v ELSE g[s]}
<1>3. {} \in F
  BY <1>0, <1>1, <1>2 DEF SumsOf
<1>4. ASSUME NEW s \in SUBSET D, s /= {}
      PROVE  AnyOf(s) \in s /\ (s \ {AnyOf(s)} \in F => s \in F)
  <2> DEFINE x == AnyOf(s)
             r == s \ {x}
  <2>1. x \in s /\ x \in D /\ r \in SUBSET D
    BY <1>4 DEF AnyOf
  <2>2. g[s] = f[x] + g[r] /\ h[s] = f2[x] + h[r]
    BY <1>0, <1>1, <1>2, <1>4 DEF SumsOf
  <2>3. g[s] \in Nat /\ g[r] \in Nat /\ h[s] \in Nat /\ h[r] \in Nat /\ f[x] \in Nat /\ f[d] \in Nat
    BY <1>1, <1>2, <2>1
  <2>4. ASSUME r \in F PROVE s \in F
    <3>1. h[r] = IF d \in r THEN g[r] - f[d] + v ELSE g[r]
      BY <2>4
    <3>2. CASE x = d
      <4>1. d \notin r /\ d \in s /\ f2[x] = v
        BY <3>2, <1>0, <2>1
      <4>2. h[s] = g[s] - f[d] + v
        BY <4>1, <3>1, <3>2, <2>2, <2>3
      <4> QED BY <4>1, <4>2
    <3>3. CASE x /= d
      <4>1. (d \in r <=> d \in s) /\ f2[x] = f[x]
        BY <3>3, <1>0, <2>1
      <4>2. h[s] = IF d \in s THEN g[s] - f[d] + v ELSE g[s]
        <5> HIDE DEF x, r
        <5> QED BY <4>1, <3>1, <2>2, <2>3
      <4> QED BY <4>2
    <3> QED BY <3>2, <3>3
  <2> QED BY <2>1, <2>4
<1>5. D \in F
  <2> HIDE DEF F
  <2>1. Grows(F, D)
    BY <1>4 DEF Grows
  <2>2. SUBSET D \subseteq F
    BY <1>3, <2>1, EverySubset
  <2> QED BY <2>2
<1> QED BY <1>1, <1>2, <1>5 DEF f2

LEMMA SumOfNothing ==
  ASSUME NEW D, IsFiniteSet(D)
  PROVE  SumFunction([x \in D |-> 0]) = 0
<1> DEFINE f == [x \in D |-> 0]
<1>0. f \in [D -> Nat] /\ \A x \in D : f[x] = 0
  OBVIOUS
<1> HIDE DEF f
<1>1. PICK g \in [SUBSET D -> Nat] : SumsOf(g, f) /\ SumFunction(f) = g[D]
  BY <1>0, SumIsFold
<1> DEFINE F == {s \in SUBSET D : g[s] = 0}
<1>2. {} \in F
  BY <1>0, <1>1 DEF SumsOf
<1>3. ASSUME NEW s \in SUBSET D, s /= {}
      PROVE  AnyOf(s) \in s /\ (s \ {AnyOf(s)} \in F => s \in F)
  <2>1. AnyOf(s) \in s /\ AnyOf(s) \in D
    BY <1>3 DEF AnyOf
  <2>2. g[s] = f[AnyOf(s)] + g[s \ {AnyOf(s)}]
    BY <1>0, <1>1, <1>3 DEF SumsOf
  <2> QED BY <2>1, <2>2, <1>0
<1>4. D \in F
  <2> HIDE DEF F
  <2>1. Grows(F, D)
    BY <1>3 DEF Grows
  <2>2. SUBSET D \subseteq F
    BY <1>2, <2>1, EverySubset
  <2> QED BY <2>2
<1> QED BY <1>1, <1>4 DEF f

(***************************************************************************)
(* Sequences are folded from the left: the last element is taken last      *)
(***************************************************************************)

LastFirst(seq) == [s \in SUBSET DOMAIN seq |-> Max(s)]

LEMMA MaxIsLast ==
  ASSUME NEW T, NEW seq \in Seq(T)
  PROVE  /\ IsFiniteSet(DOMAIN seq) /\ Picks(LastFirst(seq), DOMAIN seq)
         /\ \A s \in SUBSET DOMAIN seq : s /= {} =>
              /\ Max(s) \in s /\ LastFirst(seq)[s] = Max(s)
              /\ \A i \in s : i <= Max(s)
<1>1. DOMAIN seq = 1..Len(seq) /\ Len(seq) \in Nat
  OBVIOUS
<1>2. IsFiniteSet(DOMAIN seq)
  BY <1>1, FS_Interval
<1>3. ASSUME NEW s \in SUBSET DOMAIN seq, s /= {}
      PROVE  /\ Max(s) \in s /\ LastFirst(seq)[s] = Max(s)
             /\ \A i \in s : i <= Max(s)
  <2>1. s \in SUBSET Nat /\ \A x \in s : x <= Len(seq)
    BY <1>1
  <2>2. Max(s) \in s /\ \A i \in s : Max(s) >= i
    BY <1>1, <1>3, <2>1, GreatestNumber
  <2>3. \A i \in s : i <= Max(s)
    BY <2>1, <2>2
  <2>4. LastFirst(seq)[s] = Max(s)
    BY DEF LastFirst
  <2> QED BY <2>2, <2>3, <2>4
<1> QED BY <1>2, <1>3 DEF Picks

(***************************************************************************)
(* Packets                                                                 *)
(***************************************************************************)

TakesFiles(g, sizes, budget) ==
  g = [s \in SUBSET DOMAIN sizes |->
         IF s = {} THEN 0 ELSE TakeFile(g[s \ {Max(s)}], sizes[Max(s)], budget)]

\* Code gets no more than its budget.
LEMMA CodeFits ==
  ASSUME NEW sizes \in Seq(Nat), NEW budget \in Nat
  PROVE  CodeEvidence(sizes, budget) \in 0..budget
<1> DEFINE D == DOMAIN sizes
           R == 0..budget
           step == [p \in R \X D |-> TakeFile(p[1], sizes[p[2]], budget)]
           pick == LastFirst(sizes)
<1>1. ASSUME NEW used \in R, NEW i \in D
      PROVE  TakeFile(used, sizes[i], budget) \in R
  <2>1. sizes[i] \in Nat
    OBVIOUS
  <2> QED BY <2>1 DEF TakeFile
<1>2. step \in [R \X D -> R]
  BY <1>1
<1>3. 0 \in R
  OBVIOUS
<1>4. IsFiniteSet(D) /\ Picks(pick, D)
  BY MaxIsLast
<1>5. \A s \in SUBSET D : s /= {} => Max(s) \in s /\ pick[s] = Max(s)
  BY MaxIsLast
<1>6. PICK g \in [SUBSET D -> R] : IsFold(g, D, 0, step, pick)
  <2> HIDE DEF step, pick, R, D
  <2> QED BY <1>2, <1>3, <1>4, FoldExists
<1>7. ASSUME NEW s \in SUBSET D
      PROVE  g[s] = IF s = {} THEN 0 ELSE TakeFile(g[s \ {Max(s)}], sizes[Max(s)], budget)
  <2>1. CASE s = {}
    BY <2>1, <1>6 DEF IsFold
  <2>2. CASE s /= {}
    <3>1. Max(s) \in D /\ pick[s] = Max(s)
      BY <2>2, <1>5
    <3>2. g[s \ {Max(s)}] \in R
      OBVIOUS
    <3>3. step[<<g[s \ {Max(s)}], Max(s)>>] = TakeFile(g[s \ {Max(s)}], sizes[Max(s)], budget)
      BY <3>1, <3>2
    <3> HIDE DEF step, pick
    <3>4. g[s] = step[<<g[s \ {pick[s]}], pick[s]>>]
      BY <1>6, <2>2 DEF IsFold
    <3> QED BY <3>1, <3>3, <3>4, <2>2
  <2> QED BY <2>1, <2>2
<1> DEFINE iter == CHOOSE h : TakesFiles(h, sizes, budget)
<1>8. TakesFiles(g, sizes, budget)
  BY <1>7 DEF TakesFiles
<1>9. TakesFiles(iter, sizes, budget)
  BY <1>8
<1>10. CodeEvidence(sizes, budget) = iter[D]
  BY DEF CodeEvidence, FoldLeft, MapThenFoldSet, TakesFiles
<1>11. iter[D] \in R
  <2> DEFINE F == {s \in SUBSET D : iter[s] \in R}
  <2> HIDE DEF iter
  <2>1. {} \in F
    BY <1>9 DEF TakesFiles
  <2>2. ASSUME NEW s \in SUBSET D, s /= {}, s \ {Max(s)} \in F
        PROVE  s \in F
    <3>1. iter[s] = TakeFile(iter[s \ {Max(s)}], sizes[Max(s)], budget)
      BY <1>9, <2>2 DEF TakesFiles
    <3>2. Max(s) \in D
      BY <1>5, <2>2
    <3>3. iter[s \ {Max(s)}] \in R
      BY <2>2
    <3> HIDE DEF R, D
    <3>4. iter[s] \in R
      BY <3>1, <3>2, <3>3, <1>1
    <3> QED BY <3>4
  <2>3. Grows(F, D)
    <3> HIDE DEF F
    <3> QED BY <2>2, <1>5 DEF Grows
  <2>4. SUBSET D \subseteq F
    <3> HIDE DEF F
    <3> QED BY <2>1, <2>3, <1>4, EverySubset
  <2> QED BY <2>4
<1> QED BY <1>10, <1>11

Classes == Buckets \cup {"authoritative"}

LEMMA CapIsNumber ==
  ASSUME NEW class \in Classes, NEW risk \in Nat, NEW total \in Nat
  PROVE  /\ Share(class, risk) \in Nat /\ Cap(class, risk, total) \in Nat
         /\ 10000 * Cap(class, risk, total) <= total * Share(class, risk)
<1>1. Share(class, risk) \in Nat
  BY DEF Classes, Buckets, Share
<1>2. total * Share(class, risk) \in Nat
  BY <1>1
<1> DEFINE t == total * Share(class, risk)
<1>3. t \div 10000 \in Nat /\ 10000 * (t \div 10000) <= t
  <2> HIDE DEF t
  <2>1. t \in Nat
    BY <1>2 DEF t
  <2> QED BY <2>1
<1> QED BY <1>1, <1>3 DEF Cap

\* The shares of the classes leave something for code.
LEMMA SharesFit ==
  ASSUME NEW risk \in Nat, NEW total \in Nat
  PROVE  total * Share("authoritative", risk) + total * Share("decisions", risk)
         + total * Share("assumptions", risk) + total * Share("failures", risk)
         + total * Share("procedures", risk) + total * Share("episodes", risk)
         <= 5000 * total
BY DEF Share

LEMMA SumOfSix ==
  ASSUME NEW f \in [Classes -> Nat]
  PROVE  SumFunction(f) = f["authoritative"] + f["decisions"] + f["assumptions"]
                          + f["failures"] + f["procedures"] + f["episodes"]
<1>0. IsFiniteSet(Classes)
  <2>1. IsFiniteSet({"decisions", "assumptions", "failures", "procedures", "episodes", "authoritative"})
    <3>1. IsFiniteSet({}) BY FS_EmptySet
    <3>2. IsFiniteSet({} \cup {"decisions"}) BY <3>1, FS_AddElement
    <3>3. IsFiniteSet({} \cup {"decisions"} \cup {"assumptions"}) BY <3>2, FS_AddElement
    <3>4. IsFiniteSet({} \cup {"decisions"} \cup {"assumptions"} \cup {"failures"})
      BY <3>3, FS_AddElement
    <3>5. IsFiniteSet({} \cup {"decisions"} \cup {"assumptions"} \cup {"failures"}
                      \cup {"procedures"})
      BY <3>4, FS_AddElement
    <3>6. IsFiniteSet({} \cup {"decisions"} \cup {"assumptions"} \cup {"failures"}
                      \cup {"procedures"} \cup {"episodes"})
      BY <3>5, FS_AddElement
    <3>7. IsFiniteSet({} \cup {"decisions"} \cup {"assumptions"} \cup {"failures"}
                      \cup {"procedures"} \cup {"episodes"} \cup {"authoritative"})
      BY <3>6, FS_AddElement
    <3>8. {} \cup {"decisions"} \cup {"assumptions"} \cup {"failures"}
                      \cup {"procedures"} \cup {"episodes"} \cup {"authoritative"}
          = {"decisions", "assumptions", "failures", "procedures", "episodes", "authoritative"}
      OBVIOUS
    <3> QED BY <3>7, <3>8
  <2>2. Classes = {"decisions", "assumptions", "failures", "procedures", "episodes", "authoritative"}
    BY DEF Classes, Buckets
  <2> QED BY <2>1, <2>2
<1>1. ASSUME NEW h \in [Classes -> Nat], NEW c \in Classes
      PROVE  /\ [h EXCEPT ![c] = 0] \in [Classes -> Nat]
             /\ SumFunction([h EXCEPT ![c] = 0]) = SumFunction(h) - h[c]
             /\ SumFunction(h) \in Nat
  <2>1. SumFunction([h EXCEPT ![c] = 0]) = SumFunction(h) - h[c] + 0
    <3>1. 0 \in Nat
      OBVIOUS
    <3> QED BY ONLY <1>0, <3>1, h \in [Classes -> Nat], c \in Classes, SumOfChange
  <2>2. SumFunction(h) \in Nat /\ h[c] \in Nat
    BY <1>0, SumIsNumber
  <2> QED BY <2>1, <2>2
<1> DEFINE f1 == [f EXCEPT !["authoritative"] = 0]
           f2 == [f1 EXCEPT !["decisions"] = 0]
           f3 == [f2 EXCEPT !["assumptions"] = 0]
           f4 == [f3 EXCEPT !["failures"] = 0]
           f5 == [f4 EXCEPT !["procedures"] = 0]
           f6 == [f5 EXCEPT !["episodes"] = 0]
<1>2. {"decisions", "assumptions", "failures", "procedures", "episodes", "authoritative"} \subseteq Classes
  BY DEF Classes, Buckets
<1>3. f6 = [x \in Classes |-> 0]
  BY DEF Classes, Buckets
<1>4. /\ f1["decisions"] = f["decisions"] /\ f2["assumptions"] = f["assumptions"]
      /\ f3["failures"] = f["failures"] /\ f4["procedures"] = f["procedures"]
      /\ f5["episodes"] = f["episodes"]
  BY DEF Classes, Buckets
<1>5. SumFunction(f6) = 0
  BY <1>0, <1>3, SumOfNothing
<1> HIDE DEF f1, f2, f3, f4, f5, f6
<1>6. f1 \in [Classes -> Nat] /\ SumFunction(f1) = SumFunction(f) - f["authoritative"] /\ SumFunction(f) \in Nat
  BY <1>1, <1>2 DEF f1
<1>7. f2 \in [Classes -> Nat] /\ SumFunction(f2) = SumFunction(f1) - f1["decisions"] /\ SumFunction(f1) \in Nat
  BY <1>1, <1>2, <1>6 DEF f2
<1>8. f3 \in [Classes -> Nat] /\ SumFunction(f3) = SumFunction(f2) - f2["assumptions"] /\ SumFunction(f2) \in Nat
  BY <1>1, <1>2, <1>7 DEF f3
<1>9. f4 \in [Classes -> Nat] /\ SumFunction(f4) = SumFunction(f3) - f3["failures"] /\ SumFunction(f3) \in Nat
  BY <1>1, <1>2, <1>8 DEF f4
<1>10. f5 \in [Classes -> Nat] /\ SumFunction(f5) = SumFunction(f4) - f4["procedures"] /\ SumFunction(f4) \in Nat
  BY <1>1, <1>2, <1>9 DEF f5
<1>11. SumFunction(f6) = SumFunction(f5) - f5["episodes"] /\ SumFunction(f5) \in Nat
  BY <1>1, <1>2, <1>10 DEF f6
<1>12. \A c \in Classes : f[c] \in Nat
  OBVIOUS
<1> QED BY <1>2, <1>4, <1>5, <1>6, <1>7, <1>8, <1>9, <1>10, <1>11, <1>12

LEMMA CodeCapIsNumber ==
  ASSUME NEW risk \in Nat, NEW total \in Nat
  PROVE  CodeCap(risk, total) \in Nat
<1> DEFINE f == [class \in Classes |-> Cap(class, risk, total)]
           cap(c) == Cap(c, risk, total)
           share(c) == Share(c, risk)
<1>1. f \in [Classes -> Nat]
  BY CapIsNumber
<1>2. CapSum(risk, total) = SumFunction(f)
  BY DEF CapSum, Classes
<1>3. {"decisions", "assumptions", "failures", "procedures", "episodes", "authoritative"} \subseteq Classes
  BY DEF Classes, Buckets
<1>4. SumFunction(f) = cap("authoritative") + cap("decisions") + cap("assumptions")
                       + cap("failures") + cap("procedures") + cap("episodes")
  <2>1. \A c \in Classes : f[c] = cap(c)
    OBVIOUS
  <2> HIDE DEF f, cap
  <2> QED BY <1>1, <1>3, <2>1, SumOfSix
<1>5. \A c \in Classes : share(c) \in Nat /\ cap(c) \in Nat /\ 10000 * cap(c) <= total * share(c)
  BY CapIsNumber
<1>6. total * share("authoritative") + total * share("decisions")
      + total * share("assumptions") + total * share("failures")
      + total * share("procedures") + total * share("episodes") <= 5000 * total
  BY SharesFit
<1>8. 10000 * SumFunction(f) <= 5000 * total /\ SumFunction(f) \in Nat
  <2>1. \A c \in Classes : total * share(c) \in Nat
    BY <1>5
  <2> HIDE DEF f, cap, share
  <2> QED BY <1>3, <1>4, <1>5, <1>6, <2>1
<1> HIDE DEF f
<1>9. SumFunction(f) <= total
  BY <1>8
<1> QED BY <1>2, <1>8, <1>9 DEF CodeCap

\* A packet that memories go into: of so much room, without those that are gone, and
\* with those in doubt among its disputed ones.
Fits(p, room, gone, doubted, risk, total) ==
  /\ p.used \in [Buckets -> Nat] /\ p.memories \in SUBSET Nat
  /\ p.code = 0 /\ p.remaining \in Nat
  /\ SumFunction(p.used) + p.remaining = room
  /\ \A b \in Buckets : p.used[b] <= Cap(b, risk, total)
  /\ p.memories \cap gone = {} /\ IsFiniteSet(p.memories)
  /\ p.disputed \subseteq p.memories /\ p.memories \cap doubted \subseteq p.disputed

PacketRecords ==
  [used : [Buckets -> Nat], memories : SUBSET Nat, code : Nat, remaining : Nat,
   disputed : SUBSET Nat]

Packets(room, gone, doubted, risk, total) ==
  {p \in PacketRecords : Fits(p, room, gone, doubted, risk, total)}

LEMMA BucketsFinite == IsFiniteSet(Buckets)
<1>1. IsFiniteSet({}) BY FS_EmptySet
<1>2. IsFiniteSet({} \cup {"decisions"}) BY <1>1, FS_AddElement
<1>3. IsFiniteSet({} \cup {"decisions"} \cup {"assumptions"}) BY <1>2, FS_AddElement
<1>4. IsFiniteSet({} \cup {"decisions"} \cup {"assumptions"} \cup {"failures"})
  BY <1>3, FS_AddElement
<1>5. IsFiniteSet({} \cup {"decisions"} \cup {"assumptions"} \cup {"failures"}
                  \cup {"procedures"})
  BY <1>4, FS_AddElement
<1>6. IsFiniteSet({} \cup {"decisions"} \cup {"assumptions"} \cup {"failures"}
                  \cup {"procedures"} \cup {"episodes"})
  BY <1>5, FS_AddElement
<1>7. {} \cup {"decisions"} \cup {"assumptions"} \cup {"failures"} \cup {"procedures"}
      \cup {"episodes"} = Buckets
  BY DEF Buckets
<1> QED BY <1>6, <1>7

LEMMA EmptyPacketFits ==
  ASSUME NEW room \in Nat, NEW gone, NEW doubted, NEW risk \in Nat, NEW total \in Nat
  PROVE  EmptyPacket(room) \in Packets(room, gone, doubted, risk, total)
<1> DEFINE p == EmptyPacket(room)
<1>1. p \in PacketRecords
  BY DEF EmptyPacket, PacketRecords
<1>2. p.used = [b \in Buckets |-> 0] /\ p.memories = {} /\ p.disputed = {}
      /\ p.code = 0 /\ p.remaining = room
  BY DEF EmptyPacket
<1>3. SumFunction(p.used) = 0
  BY <1>2, BucketsFinite, SumOfNothing
<1>4. \A b \in Buckets : p.used[b] <= Cap(b, risk, total)
  BY <1>2, CapIsNumber DEF Classes
<1> HIDE DEF p
<1>5. Fits(p, room, gone, doubted, risk, total)
  BY <1>2, <1>3, <1>4, FS_EmptySet DEF Fits
<1> QED BY <1>1, <1>5 DEF Packets, p

LEMMA BucketIsKnown ==
  ASSUME NEW m \in Memory, m.type \notin Unclassified
  PROVE  Bucket(m.type) \in Buckets
BY DEF Memory, Unclassified, Bucket, Buckets

WithMemory(p, u, r, ms, ds) ==
  [p EXCEPT !.used = u, !.remaining = r, !.memories = ms, !.disputed = ds]

LEMMA PacketTakesMemory ==
  ASSUME NEW p \in PacketRecords, NEW u \in [Buckets -> Nat], NEW r \in Nat,
         NEW ms \in SUBSET Nat, NEW ds \in SUBSET Nat
  PROVE  LET q == WithMemory(p, u, r, ms, ds)
         IN /\ q \in PacketRecords /\ q.code = p.code
            /\ q.used = u /\ q.remaining = r /\ q.memories = ms /\ q.disputed = ds
BY DEF PacketRecords, WithMemory

WithCode(p, c, r) == [p EXCEPT !.code = c, !.remaining = r]

LEMMA PacketTakesCode ==
  ASSUME NEW p \in PacketRecords, NEW r \in Nat, NEW c \in Nat
  PROVE  LET q == WithCode(p, c, r)
         IN /\ q \in PacketRecords /\ q.code = c
            /\ q.used = p.used /\ q.remaining = r /\ q.memories = p.memories
            /\ q.disputed = p.disputed
BY DEF PacketRecords, WithCode

LEMMA AddFits ==
  ASSUME NEW room \in Nat, NEW gone, NEW doubted, NEW risk \in Nat, NEW total \in Nat,
         NEW p \in Packets(room, gone, doubted, risk, total), NEW m \in Memory,
         m.type \notin Unclassified, m.id \notin gone,
         m.id \in doubted => m.status = "disputed"
  PROVE  Add(p, m, risk, total) \in Packets(room, gone, doubted, risk, total)
<1> DEFINE b == Bucket(m.type)
           q == [p EXCEPT !.used[b] = @ + m.size, !.remaining = @ - m.size,
                          !.memories = @ \cup {m.id},
                          !.disputed = IF m.status = "disputed" THEN @ \cup {m.id} ELSE @]
<1>0. p \in PacketRecords /\ Fits(p, room, gone, doubted, risk, total)
  BY DEF Packets
<1>1. b \in Buckets
  BY BucketIsKnown
<1>2. m.size \in Nat /\ m.id \in Nat
  BY DEF Memory
<1>3. CASE p.used[b] + m.size > Cap(b, risk, total) \/ m.size > p.remaining
  BY <1>3 DEF Add
<1>4. CASE ~(p.used[b] + m.size > Cap(b, risk, total) \/ m.size > p.remaining)
  <2>1. Add(p, m, risk, total) = q
    BY <1>4 DEF Add
  <2>2. /\ p.used \in [Buckets -> Nat] /\ p.remaining \in Nat /\ p.memories \in SUBSET Nat
        /\ p.code = 0 /\ p.disputed \in SUBSET Nat
    BY <1>0 DEF Fits, PacketRecords
  <2> DEFINE room_ == Cap(b, risk, total)
  <2>3. p.used[b] \in Nat /\ room_ \in Nat
    <3>1. b \in Classes
      BY <1>1 DEF Classes
    <3>2. Cap(b, risk, total) \in Nat
      <4> HIDE DEF b
      <4> QED BY ONLY <3>1, risk \in Nat, total \in Nat, CapIsNumber
    <3>3. p.used[b] \in Nat
      BY <1>1, <2>2
    <3> QED BY <3>2, <3>3
  <2>4. p.used[b] + m.size <= room_ /\ m.size <= p.remaining
    <3>1. ~(p.used[b] + m.size > room_) /\ ~(m.size > p.remaining)
      BY <1>4
    <3> HIDE DEF b, room_
    <3> QED BY <3>1, <2>2, <2>3, <1>2
  <2> DEFINE u == [p.used EXCEPT ![b] = p.used[b] + m.size]
             r == p.remaining - m.size
             ms == p.memories \cup {m.id}
             ds == IF m.status = "disputed" THEN p.disputed \cup {m.id} ELSE p.disputed
  <2>5. u \in [Buckets -> Nat] /\ r \in Nat /\ ms \in SUBSET Nat /\ ds \in SUBSET Nat
    <3>1. ds \in SUBSET Nat
      <4> HIDE DEF b, room_
      <4> QED BY <2>2, <1>2
    <3>2. p.used[b] + m.size \in Nat
      BY <2>3, <1>2
    <3>3. r \in Nat
      <4> HIDE DEF b, room_
      <4> QED BY <2>2, <2>4, <1>2
    <3>4. u \in [Buckets -> Nat]
      <4> HIDE DEF b
      <4> QED BY <3>2, <2>2, <1>1
    <3>5. ms \in SUBSET Nat
      BY <2>2, <1>2
    <3> HIDE DEF ds, u, r, ms
    <3> QED BY <3>1, <3>3, <3>4, <3>5
  <2>6. /\ q \in PacketRecords /\ q.code = p.code
        /\ q.used = u /\ q.remaining = r /\ q.memories = ms /\ q.disputed = ds
    <3>1. q = WithMemory(p, u, r, ms, ds)
      BY DEF WithMemory
    <3> HIDE DEF q, u, r, ms, ds
    <3> QED BY ONLY <3>1, <2>5, <1>0, PacketTakesMemory
  <2> HIDE DEF q, b, room_
  <2>7. SumFunction(u) = SumFunction(p.used) - p.used[b] + (p.used[b] + m.size)
    <3>1. p.used[b] + m.size \in Nat
      BY <2>3, <1>2
    <3> QED BY <1>1, <2>2, <3>1, BucketsFinite, SumOfChange
  <2>8. SumFunction(p.used) \in Nat
    BY <2>2, BucketsFinite, SumIsNumber
  <2>9. SumFunction(u) + r = room
    <3>1. SumFunction(p.used) + p.remaining = room
      BY <1>0 DEF Fits
    <3> HIDE DEF u
    <3> QED BY <3>1, <2>7, <2>8, <2>2, <2>3, <1>2
  <2>10. ASSUME NEW c \in Buckets PROVE u[c] <= Cap(c, risk, total)
    <3>1. p.used[c] <= Cap(c, risk, total)
      BY <1>0 DEF Fits
    <3>2. CASE c = b
      BY <3>2, <2>2, <2>4 DEF room_
    <3>3. CASE c /= b
      BY <3>1, <3>3, <2>2
    <3> QED BY <3>2, <3>3
  <2>11. ms \cap gone = {} /\ IsFiniteSet(ms)
    <3>1. p.memories \cap gone = {} /\ IsFiniteSet(p.memories)
      BY <1>0 DEF Fits
    <3> QED BY <3>1, FS_AddElement
  <2>13. ds \subseteq ms /\ ms \cap doubted \subseteq ds
    <3>1. p.disputed \subseteq p.memories /\ p.memories \cap doubted \subseteq p.disputed
      BY <1>0 DEF Fits
    <3> HIDE DEF b, u, r
    <3> QED BY <3>1
  <2> HIDE DEF u, r, ms, ds
  <2>12. Fits(q, room, gone, doubted, risk, total)
    BY <2>2, <2>5, <2>6, <2>9, <2>10, <2>11, <2>13 DEF Fits
  <2> QED BY <2>1, <2>6, <2>12 DEF Packets
<1> QED BY <1>3, <1>4

Considers(g, found, gone, risk, total, room, version) ==
  g = [s \in SUBSET DOMAIN found |->
         IF s = {} THEN EmptyPacket(room)
         ELSE Consider(g[s \ {Max(s)}], found[Max(s)], gone, risk, total, version)]

\* Memories with these ids are in dispute.
InDoubt(found, doubted) ==
  \A k \in DOMAIN found : found[k].id \in doubted => found[k].status = "disputed"

\* However many memories retrieval finds, in whatever order.
LEMMA PackedFits ==
  ASSUME NEW room \in Nat, NEW gone, NEW doubted, NEW risk \in Nat, NEW total \in Nat, NEW version,
         NEW found \in Seq(Memory), InDoubt(found, doubted)
  PROVE  Packed(found, gone, risk, total, room, version) \in Packets(room, gone, doubted, risk, total)
<1> DEFINE D == DOMAIN found
           R == Packets(room, gone, doubted, risk, total)
           take(p, i) == Consider(p, found[i], gone, risk, total, version)
           step == [p \in R \X D |-> take(p[1], p[2])]
           pick == LastFirst(found)
           base == EmptyPacket(room)
<1>1. ASSUME NEW p \in R, NEW i \in D
      PROVE  take(p, i) \in R
  <2>1. found[i] \in Memory
    OBVIOUS
  <2>2. CASE \/ found[i].id \in gone \/ MemoryIsStale(found[i], version)
             \/ found[i].type \in Unclassified
    BY <2>2 DEF Consider
  <2>3. CASE ~(\/ found[i].id \in gone \/ MemoryIsStale(found[i], version)
               \/ found[i].type \in Unclassified)
    <3>1. take(p, i) = Add(p, found[i], risk, total)
      BY <2>3 DEF Consider
    <3>2. found[i].id \in doubted => found[i].status = "disputed"
      BY DEF InDoubt
    <3> QED BY <3>1, <3>2, <2>1, <2>3, AddFits
  <2> QED BY <2>2, <2>3
<1> HIDE DEF take
<1>2. step \in [R \X D -> R]
  BY <1>1
<1>3. base \in R
  BY EmptyPacketFits
<1>4. IsFiniteSet(D) /\ Picks(pick, D)
  BY MaxIsLast
<1>5. \A s \in SUBSET D : s /= {} => Max(s) \in s /\ pick[s] = Max(s)
  BY MaxIsLast
<1>6. PICK g \in [SUBSET D -> R] : IsFold(g, D, base, step, pick)
  <2> HIDE DEF step, pick, R, D, base
  <2> QED BY <1>2, <1>3, <1>4, FoldExists
<1>7. ASSUME NEW s \in SUBSET D
      PROVE  g[s] = IF s = {} THEN base ELSE take(g[s \ {Max(s)}], Max(s))
  <2>1. CASE s = {}
    BY <2>1, <1>6 DEF IsFold
  <2>2. CASE s /= {}
    <3>1. Max(s) \in D /\ pick[s] = Max(s)
      BY <2>2, <1>5
    <3>2. g[s \ {Max(s)}] \in R
      OBVIOUS
    <3>3. step[<<g[s \ {Max(s)}], Max(s)>>] = take(g[s \ {Max(s)}], Max(s))
      <4> HIDE DEF R, D
      <4> QED BY <3>1, <3>2
    <3> HIDE DEF step, pick, base
    <3>4. g[s] = step[<<g[s \ {pick[s]}], pick[s]>>]
      BY <1>6, <2>2 DEF IsFold
    <3> QED BY <3>1, <3>3, <3>4, <2>2
  <2> QED BY <2>1, <2>2
<1> DEFINE iter == CHOOSE h : Considers(h, found, gone, risk, total, room, version)
<1>8. Considers(g, found, gone, risk, total, room, version)
  <2>1. \A s \in SUBSET D :
          g[s] = IF s = {} THEN base
                 ELSE Consider(g[s \ {Max(s)}], found[Max(s)], gone, risk, total, version)
    BY <1>7 DEF take
  <2> QED BY <2>1 DEF Considers
<1>9. Considers(iter, found, gone, risk, total, room, version)
  BY <1>8
<1>10. Packed(found, gone, risk, total, room, version) = iter[D]
  BY DEF Packed, FoldLeft, MapThenFoldSet, Considers
<1>11. iter[D] \in R
  <2> DEFINE F == {s \in SUBSET D : iter[s] \in R}
  <2> HIDE DEF iter, R
  <2>1. {} \in F
    BY <1>9, <1>3 DEF Considers
  <2>2. ASSUME NEW s \in SUBSET D, s /= {}, s \ {Max(s)} \in F
        PROVE  s \in F
    <3>1. iter[s] = take(iter[s \ {Max(s)}], Max(s))
      BY <1>9, <2>2 DEF Considers, take
    <3>2. Max(s) \in D
      BY <1>5, <2>2
    <3>3. iter[s \ {Max(s)}] \in R
      BY <2>2
    <3> HIDE DEF D
    <3>4. iter[s] \in R
      BY <3>1, <3>2, <3>3, <1>1
    <3> QED BY <3>4
  <2>3. Grows(F, D)
    <3> HIDE DEF F
    <3> QED BY <2>2, <1>5 DEF Grows
  <2>4. SUBSET D \subseteq F
    <3> HIDE DEF F
    <3> QED BY <2>1, <2>3, <1>4, EverySubset
  <2> QED BY <2>4
<1> QED BY <1>10, <1>11

\* What PacketFits says of a packet.
Packed_(p, authoritative, risk, total) ==
  /\ authoritative + (p.code + SumFunction(p.used)) + p.remaining = total
  /\ \A b \in Buckets : p.used[b] <= Cap(b, risk, total)
  /\ p.code <= CodeCap(risk, total)

\* A compiled packet: what is gone is not in it, what is in doubt is among its disputed.
Meets(p, authoritative, gone, doubted, risk, total) ==
  /\ p \in PacketRecords /\ Packed_(p, authoritative, risk, total)
  /\ p.memories \cap gone = {} /\ IsFiniteSet(p.memories)
  /\ p.disputed \subseteq p.memories /\ p.memories \cap doubted \subseteq p.disputed

LEMMA CompiledFits ==
  ASSUME NEW total \in Nat, NEW authoritative \in Nat, authoritative <= total,
         NEW gone, NEW doubted, NEW risk \in Nat, NEW version,
         NEW found \in Seq(Memory), InDoubt(found, doubted), NEW sizes \in Seq(Nat)
  PROVE  Meets(Compile(authoritative, found, gone, sizes, risk, total, version),
               authoritative, gone, doubted, risk, total)
<1> DEFINE room == total - authoritative
           packed == Packed(found, gone, risk, total, room, version)
           budget == IF packed.remaining < CodeCap(risk, total)
                     THEN packed.remaining ELSE CodeCap(risk, total)
           code == CodeEvidence(sizes, budget)
           p == [packed EXCEPT !.code = code, !.remaining = @ - code]
<1>1. room \in Nat
  OBVIOUS
<1>2. packed \in PacketRecords /\ Fits(packed, room, gone, doubted, risk, total)
  BY <1>1, PackedFits DEF Packets
<1>3. packed.remaining \in Nat /\ CodeCap(risk, total) \in Nat
  BY <1>2, CodeCapIsNumber DEF PacketRecords
<1>4. budget \in Nat /\ budget <= packed.remaining /\ budget <= CodeCap(risk, total)
  BY <1>3
<1>5. code \in Nat /\ code <= budget
  <2> HIDE DEF budget
  <2>1. code \in 0..budget
    BY <1>4, CodeFits
  <2> QED BY <2>1, <1>4
<1>6. Compile(authoritative, found, gone, sizes, risk, total, version) = p
  BY DEF Compile
<1> HIDE DEF packed, code, budget
<1>7. packed.remaining - code \in Nat
  BY <1>3, <1>4, <1>5
<1>8. /\ p \in PacketRecords /\ p.used = packed.used /\ p.memories = packed.memories
      /\ p.disputed = packed.disputed
      /\ p.code = code /\ p.remaining = packed.remaining - code
  <2>1. p = WithCode(packed, code, packed.remaining - code)
    BY DEF WithCode
  <2> HIDE DEF p
  <2>2. packed \in PacketRecords
    BY <1>2
  <2>3. code \in Nat
    BY <1>5
  <2> DEFINE rest == packed.remaining - code
  <2>4. p = WithCode(packed, code, rest) /\ rest \in Nat
    BY <2>1, <1>7
  <2>5. /\ p \in PacketRecords /\ p.used = packed.used /\ p.memories = packed.memories
      /\ p.disputed = packed.disputed
        /\ p.code = code /\ p.remaining = rest
    <3> HIDE DEF rest
    <3>1. LET q == WithCode(packed, code, rest)
          IN /\ q \in PacketRecords /\ q.code = code
             /\ q.used = packed.used /\ q.remaining = rest /\ q.memories = packed.memories
             /\ q.disputed = packed.disputed
      BY ONLY <2>2, <2>3, <2>4, PacketTakesCode
    <3> QED BY ONLY <3>1, <2>4
  <2> QED BY <2>5
<1>9. packed.used \in [Buckets -> Nat]
  BY <1>2 DEF PacketRecords
<1> HIDE DEF p
<1>10. Packed_(p, authoritative, risk, total)
  <2>1. SumFunction(packed.used) + packed.remaining = room
    BY <1>2 DEF Fits
  <2>2. SumFunction(packed.used) \in Nat
    BY <1>9, BucketsFinite, SumIsNumber
  <2>3. authoritative + (p.code + SumFunction(p.used)) + p.remaining = total
    <3>1. authoritative \in Nat /\ authoritative + room = total
      OBVIOUS
    <3>2. /\ p.code + SumFunction(p.used) = code + SumFunction(packed.used)
          /\ p.remaining = packed.remaining - code
      BY <1>8
    <3>3. code \in Nat /\ packed.remaining \in Nat
      BY <1>3, <1>5
    <3> HIDE DEF room
    <3>4. authoritative + (code + SumFunction(packed.used)) + (packed.remaining - code) = total
      <4> DEFINE sum == SumFunction(packed.used)
                 rest == packed.remaining
      <4>1. sum + rest = room /\ sum \in Nat /\ rest \in Nat
        BY <2>1, <2>2, <3>3
      <4>2. authoritative + (code + sum) + (rest - code) = total
        <5> HIDE DEF sum, rest
        <5> QED BY ONLY <4>1, <3>1, <3>3, <1>1
      <4> QED BY <4>2
    <3> QED BY ONLY <3>2, <3>4
  <2>4. \A b \in Buckets : p.used[b] <= Cap(b, risk, total)
    BY <1>2, <1>8 DEF Fits
  <2>5. p.code <= CodeCap(risk, total)
    BY <1>3, <1>4, <1>5, <1>8
  <2> QED BY <2>3, <2>4, <2>5 DEF Packed_
<1>11. /\ p.memories \cap gone = {} /\ IsFiniteSet(p.memories)
       /\ p.disputed \subseteq p.memories /\ p.memories \cap doubted \subseteq p.disputed
  BY <1>2, <1>8 DEF Fits
<1> QED BY <1>6, <1>8, <1>10, <1>11 DEF Meets

(***************************************************************************)
(* Plans                                                                   *)
(***************************************************************************)

Kinds == {"implementation", "docs", "test"}
KeyNames == {"impl", "docs", "tests", "implementation", "tail"}
Keys == KeyNames \X Nat

PlanTasks(files, risks) ==
  [key : Keys, type : Kinds, deps : SUBSET Keys, files : SUBSET files,
   caps : SUBSET Kinds, risk : risks]

\* Source tasks, in their order.
SourceList(ts, files, risk) ==
  \A n \in 1..Len(ts) : /\ ts[n] = SourceTask(n, ts[n].files, risk)
                        /\ ts[n].files \subseteq OfKind("implementation", files)

Apart(ts) == \A i, j \in 1..Len(ts) : i /= j => ts[i].files \cap ts[j].files = {}

\* The modules that have been taken.
FromGroups(ts, s) ==
  \A n \in 1..Len(ts) : \A f \in ts[n].files : \E k \in s : Group(f) = Alphabetical[k]

LEMMA SourceTaskTyped ==
  ASSUME NEW n \in Nat, NEW all, NEW files \in SUBSET all, NEW risks,
         NEW risk \in risks
  PROVE  /\ SourceTask(n, files, risk) \in PlanTasks(all, risks)
         /\ SourceTask(n, files, risk).files = files
         /\ SourceTask(n, files, risk).key = <<"impl", n>>
         /\ SourceTask(n, files, risk).deps = {}
<1>1. <<"impl", n>> \in Keys
  BY DEF Keys, KeyNames
<1>2. "implementation" \in Kinds
  BY DEF Kinds
<1> QED BY <1>1, <1>2 DEF SourceTask, PlanTasks

LEMMA OfKindIn ==
  ASSUME NEW kind, NEW files
  PROVE  OfKind(kind, files) \subseteq files
BY DEF OfKind

LEMMA TakeGroupKeeps ==
  ASSUME NEW files, NEW risks, NEW risk \in risks, NEW g,
         NEW ts \in Seq(PlanTasks(files, risks)), SourceList(ts, files, risk)
  PROVE  LET us == TakeGroup(ts, g, files, risk)
         IN /\ us \in Seq(PlanTasks(files, risks)) /\ SourceList(us, files, risk)
            /\ \A s, k : Apart(ts) /\ FromGroups(ts, s) /\ g = Alphabetical[k]
                           /\ (\A j \in s : Alphabetical[j] /= g)
                         => Apart(us) /\ FromGroups(us, s \cup {k})
<1> DEFINE source == {f \in OfKind("implementation", files) : Group(f) = g}
           new == SourceTask(Len(ts) + 1, source, risk)
           us == TakeGroup(ts, g, files, risk)
<1>1. CASE source = {}
  <2>1. us = ts
    BY <1>1 DEF TakeGroup
  <2> QED BY <2>1 DEF FromGroups
<1>2. CASE source /= {}
  <2>1. us = Append(ts, new)
    BY <1>2 DEF TakeGroup
  <2>2. Len(ts) + 1 \in Nat /\ source \in SUBSET files
    BY OfKindIn
  <2>3. new \in PlanTasks(files, risks) /\ new.files = source
    <3> DEFINE n == Len(ts) + 1
    <3>1. SourceTask(n, source, risk) \in PlanTasks(files, risks)
          /\ SourceTask(n, source, risk).files = source
      <4>1. n \in Nat
        BY <2>2
      <4> HIDE DEF source, n
      <4>2. source \in SUBSET files
        BY <2>2
      <4>3. <<"impl", n>> \in Keys /\ "implementation" \in Kinds
        BY <4>1 DEF Keys, KeyNames, Kinds
      <4> QED BY ONLY <4>2, <4>3, risk \in risks DEF SourceTask, PlanTasks
    <3> QED BY <3>1
  <2> HIDE DEF us, new
  <2>4. us \in Seq(PlanTasks(files, risks)) /\ Len(us) = Len(ts) + 1
    BY <2>1, <2>3
  <2>5. us[Len(ts) + 1] = new /\ \A n \in 1..Len(ts) : us[n] = ts[n]
    BY <2>1, <2>3
  <2>6. SourceList(us, files, risk)
    <3> SUFFICES ASSUME NEW n \in 1..Len(us)
                 PROVE  /\ us[n] = SourceTask(n, us[n].files, risk)
                        /\ us[n].files \subseteq OfKind("implementation", files)
      BY DEF SourceList
    <3>1. CASE n = Len(ts) + 1
      BY <3>1, <2>3, <2>5 DEF new
    <3>2. CASE n \in 1..Len(ts)
      BY <3>2, <2>5 DEF SourceList
    <3> QED BY <3>1, <3>2, <2>4
  <2>7. ASSUME NEW s, NEW k, Apart(ts), FromGroups(ts, s), g = Alphabetical[k],
               \A j \in s : Alphabetical[j] /= g
        PROVE  Apart(us) /\ FromGroups(us, s \cup {k})
    <3>1. ASSUME NEW i \in 1..Len(ts) PROVE us[i].files \cap new.files = {}
      <4> SUFFICES ASSUME NEW f \in us[i].files, f \in new.files PROVE FALSE
        OBVIOUS
      <4>1. Group(f) = g
        BY <2>3
      <4>2. PICK j \in s : Group(f) = Alphabetical[j]
        BY <2>5, <2>7 DEF FromGroups
      <4> QED BY <4>1, <4>2, <2>7
    <3>2. Apart(us)
      <4> SUFFICES ASSUME NEW i \in 1..Len(us), NEW j \in 1..Len(us), i /= j
                   PROVE  us[i].files \cap us[j].files = {}
        BY DEF Apart
      <4>1. CASE i = Len(ts) + 1
        <5>1. j \in 1..Len(ts)
          BY <4>1, <2>4
        <5> QED BY <4>1, <5>1, <3>1, <2>5
      <4>2. CASE j = Len(ts) + 1
        <5>1. i \in 1..Len(ts)
          BY <4>2, <2>4
        <5> QED BY <4>2, <5>1, <3>1, <2>5
      <4>3. CASE i \in 1..Len(ts) /\ j \in 1..Len(ts)
        BY <4>3, <2>5, <2>7 DEF Apart
      <4> QED BY <4>1, <4>2, <4>3, <2>4
    <3>3. FromGroups(us, s \cup {k})
      <4> SUFFICES ASSUME NEW n \in 1..Len(us), NEW f \in us[n].files
                   PROVE  \E j \in s \cup {k} : Group(f) = Alphabetical[j]
        BY DEF FromGroups
      <4>1. CASE n = Len(ts) + 1
        BY <4>1, <2>3, <2>5, <2>7
      <4>2. CASE n \in 1..Len(ts)
        BY <4>2, <2>5, <2>7 DEF FromGroups
      <4> QED BY <4>1, <4>2, <2>4
    <3> QED BY <3>2, <3>3
  <2>8. \A s, k : Apart(ts) /\ FromGroups(ts, s) /\ g = Alphabetical[k]
                    /\ (\A j \in s : Alphabetical[j] /= g)
                  => Apart(us) /\ FromGroups(us, s \cup {k})
    BY <2>7
  <2> QED BY <2>4, <2>6, <2>8 DEF us
<1> QED BY <1>1, <1>2

TakesGroups(g, files, risk) ==
  g = [s \in SUBSET DOMAIN Alphabetical |->
         IF s = {} THEN <<>>
         ELSE TakeGroup(g[s \ {Max(s)}], Alphabetical[Max(s)], files, risk)]

LEMMA SourceTasksApart ==
  ASSUME NEW files \in SUBSET Files, NEW risks, NEW risk \in risks
  PROVE  LET ts == SourceTasks(files, risk)
         IN ts \in Seq(PlanTasks(files, risks)) /\ SourceList(ts, files, risk) /\ Apart(ts)
<1> DEFINE D == DOMAIN Alphabetical
           R == {ts \in Seq(PlanTasks(files, risks)) : SourceList(ts, files, risk)}
           take(ts, i) == TakeGroup(ts, Alphabetical[i], files, risk)
           step == [p \in R \X D |-> take(p[1], p[2])]
           pick == LastFirst(Alphabetical)
<1>0. Alphabetical \in Seq(SourceModules) /\ IsInjective(Alphabetical)
  BY AlphabeticalListsModules
<1>1. ASSUME NEW ts \in R, NEW i \in D
      PROVE  take(ts, i) \in R
  BY TakeGroupKeeps
<1> HIDE DEF take
<1>2. step \in [R \X D -> R]
  BY <1>1
<1>3. <<>> \in R /\ Apart(<<>>) /\ FromGroups(<<>>, {})
  BY DEF SourceList, Apart, FromGroups
<1>4. IsFiniteSet(D) /\ Picks(pick, D)
  BY <1>0, MaxIsLast
<1>5. \A s \in SUBSET D : s /= {} => Max(s) \in s /\ pick[s] = Max(s)
  BY <1>0, MaxIsLast
<1>6. PICK g \in [SUBSET D -> R] : IsFold(g, D, <<>>, step, pick)
  <2> HIDE DEF step, pick, R, D
  <2> QED BY <1>2, <1>3, <1>4, FoldExists
<1>7. ASSUME NEW s \in SUBSET D
      PROVE  g[s] = IF s = {} THEN <<>> ELSE take(g[s \ {Max(s)}], Max(s))
  <2>1. CASE s = {}
    BY <2>1, <1>6 DEF IsFold
  <2>2. CASE s /= {}
    <3>1. Max(s) \in D /\ pick[s] = Max(s)
      BY <2>2, <1>5
    <3>2. g[s \ {Max(s)}] \in R
      OBVIOUS
    <3>3. step[<<g[s \ {Max(s)}], Max(s)>>] = take(g[s \ {Max(s)}], Max(s))
      <4> HIDE DEF R, D
      <4> QED BY <3>1, <3>2
    <3> HIDE DEF step, pick
    <3>4. g[s] = step[<<g[s \ {pick[s]}], pick[s]>>]
      BY <1>6, <2>2 DEF IsFold
    <3> QED BY <3>1, <3>3, <3>4, <2>2
  <2> QED BY <2>1, <2>2
<1> DEFINE iter == CHOOSE h : TakesGroups(h, files, risk)
<1>8. TakesGroups(g, files, risk)
  <2>1. \A s \in SUBSET D :
          g[s] = IF s = {} THEN <<>>
                 ELSE TakeGroup(g[s \ {Max(s)}], Alphabetical[Max(s)], files, risk)
    BY <1>7 DEF take
  <2> QED BY <2>1 DEF TakesGroups
<1>9. TakesGroups(iter, files, risk)
  BY <1>8
<1>10. SourceTasks(files, risk) = iter[D]
  BY DEF SourceTasks, FoldLeft, MapThenFoldSet, TakesGroups
<1>11. iter[D] \in R /\ Apart(iter[D])
  <2> DEFINE F == {s \in SUBSET D : iter[s] \in R /\ Apart(iter[s]) /\ FromGroups(iter[s], s)}
  <2> HIDE DEF iter
  <2>1. {} \in F
    BY <1>9, <1>3 DEF TakesGroups
  <2>2. ASSUME NEW s \in SUBSET D, s /= {}, s \ {Max(s)} \in F
        PROVE  s \in F
    <3> DEFINE k == Max(s)
               r == s \ {Max(s)}
    <3>1. iter[s] = take(iter[r], k)
      BY <1>9, <2>2 DEF TakesGroups, take
    <3>2. k \in D /\ k \in s
      BY <1>5, <2>2
    <3>3. iter[r] \in R /\ Apart(iter[r]) /\ FromGroups(iter[r], r)
      BY <2>2
    <3>4. \A j \in r : Alphabetical[j] /= Alphabetical[k]
      BY <1>0, <3>2 DEF IsInjective
    <3>5. r \cup {k} = s
      BY <3>2
    <3>6. iter[s] \in R
      <4> HIDE DEF R, D, k, r
      <4> QED BY <3>1, <3>2, <3>3, <1>1
    <3>7. Apart(iter[s]) /\ FromGroups(iter[s], s)
      <4>1. iter[r] \in Seq(PlanTasks(files, risks)) /\ SourceList(iter[r], files, risk)
        BY <3>3
      <4> HIDE DEF R, D, k, r
      <4>2. Apart(take(iter[r], k)) /\ FromGroups(take(iter[r], k), r \cup {k})
        BY <4>1, <3>3, <3>4, TakeGroupKeeps DEF take
      <4> QED BY <4>2, <3>1, <3>5
    <3> QED BY <3>6, <3>7
  <2>3. Grows(F, D)
    <3> HIDE DEF F
    <3> QED BY <2>2, <1>5 DEF Grows
  <2>4. SUBSET D \subseteq F
    <3> HIDE DEF F
    <3> QED BY <2>1, <2>3, <1>4, EverySubset
  <2> QED BY <2>4
<1> QED BY <1>10, <1>11

\* A plan in order: every task has a name of its own and files of its own, it waits for
\* earlier ones only, and for those of the source files when it has others.
Deposes(ts) ==
  \A i \in 1..Len(ts) : \A k \in ts[i].deps : \E j \in 1..(i - 1) : ts[j].key = k

Named(ts) == \A i, j \in 1..Len(ts) : i /= j => ts[i].key /= ts[j].key

HasSource(t) == \E f \in t.files : Kind(f) = "implementation"
HasOther(t)  == \E f \in t.files : Kind(f) /= "implementation"

Waits(ts) ==
  \A i, j \in 1..Len(ts) :
    HasSource(ts[i]) /\ HasOther(ts[j]) /\ i /= j => ts[i].key \in ts[j].deps

Sound(ts) == Apart(ts) /\ Named(ts) /\ Deposes(ts) /\ Waits(ts)

\* One more task at the end.
LEMMA AppendSound ==
  ASSUME NEW T, NEW ts \in Seq(T), Sound(ts), NEW t \in T,
         \A i \in 1..Len(ts) : ts[i].files \cap t.files = {} /\ ts[i].key /= t.key,
         \A k \in t.deps : \E j \in 1..Len(ts) : ts[j].key = k,
         HasSource(t) => \A i \in 1..Len(ts) : ~HasOther(ts[i]),
         HasOther(t) => \A i \in 1..Len(ts) : HasSource(ts[i]) => ts[i].key \in t.deps
  PROVE  Sound(Append(ts, t))
<1> DEFINE us == Append(ts, t)
           n == Len(ts) + 1
<1>1. us \in Seq(T) /\ Len(us) = n /\ us[n] = t /\ \A i \in 1..Len(ts) : us[i] = ts[i]
  OBVIOUS
<1>2. \A i \in 1..Len(us) : i = n \/ i \in 1..Len(ts)
  BY <1>1
<1>3. n \in Nat /\ n - 1 = Len(ts) /\ n \notin 1..Len(ts)
  OBVIOUS
<1> HIDE DEF us, n
<1>4. Apart(us)
  <2> SUFFICES ASSUME NEW i \in 1..Len(us), NEW j \in 1..Len(us), i /= j
               PROVE  us[i].files \cap us[j].files = {}
    BY DEF Apart
  <2>1. CASE i = n
    <3>1. j \in 1..Len(ts)
      BY <2>1, <1>2
    <3> QED BY <2>1, <3>1, <1>1
  <2>2. CASE j = n
    <3>1. i \in 1..Len(ts)
      BY <2>2, <1>2
    <3> QED BY <2>2, <3>1, <1>1
  <2>3. CASE i \in 1..Len(ts) /\ j \in 1..Len(ts)
    BY <2>3, <1>1 DEF Sound, Apart
  <2> QED BY <2>1, <2>2, <2>3, <1>2
<1>5. Named(us)
  <2> SUFFICES ASSUME NEW i \in 1..Len(us), NEW j \in 1..Len(us), i /= j
               PROVE  us[i].key /= us[j].key
    BY DEF Named
  <2>1. CASE i = n
    <3>1. j \in 1..Len(ts)
      BY <2>1, <1>2
    <3> QED BY <2>1, <3>1, <1>1
  <2>2. CASE j = n
    <3>1. i \in 1..Len(ts)
      BY <2>2, <1>2
    <3> QED BY <2>2, <3>1, <1>1
  <2>3. CASE i \in 1..Len(ts) /\ j \in 1..Len(ts)
    BY <2>3, <1>1 DEF Sound, Named
  <2> QED BY <2>1, <2>2, <2>3, <1>2
<1>6. Deposes(us)
  <2> SUFFICES ASSUME NEW i \in 1..Len(us), NEW k \in us[i].deps
               PROVE  \E j \in 1..(i - 1) : us[j].key = k
    BY DEF Deposes
  <2>1. CASE i = n
    <3>1. PICK j \in 1..Len(ts) : ts[j].key = k
      BY <2>1, <1>1
    <3> QED BY <3>1, <2>1, <1>1, <1>3
  <2>2. CASE i \in 1..Len(ts)
    <3>1. PICK j \in 1..(i - 1) : ts[j].key = k
      BY <2>2, <1>1 DEF Sound, Deposes
    <3>2. j \in 1..Len(ts)
      BY <2>2
    <3> QED BY <3>1, <3>2, <1>1
  <2> QED BY <2>1, <2>2, <1>2
<1>7. Waits(us)
  <2> SUFFICES ASSUME NEW i \in 1..Len(us), NEW j \in 1..Len(us), i /= j,
                      HasSource(us[i]), HasOther(us[j])
               PROVE  us[i].key \in us[j].deps
    BY DEF Waits
  <2>1. CASE i = n
    <3>1. j \in 1..Len(ts)
      BY <2>1, <1>2
    <3> QED BY <2>1, <3>1, <1>1
  <2>2. CASE i \in 1..Len(ts)
    <3>1. CASE j = n
      BY <2>2, <3>1, <1>1
    <3>2. CASE j \in 1..Len(ts)
      BY <2>2, <3>2, <1>1 DEF Sound, Waits
    <3> QED BY <3>1, <3>2, <1>2
  <2> QED BY <2>1, <2>2, <1>2
<1> QED BY <1>4, <1>5, <1>6, <1>7 DEF Sound, us

LEMMA SourcesSound ==
  ASSUME NEW files \in SUBSET Files, NEW risks, NEW risk \in risks
  PROVE  LET ts == SourceTasks(files, risk)
         IN /\ ts \in Seq(PlanTasks(files, risks)) /\ Sound(ts)
            /\ \A i \in 1..Len(ts) :
                 /\ ts[i].key = <<"impl", i>> /\ ~HasOther(ts[i])
                 /\ ts[i].files \subseteq OfKind("implementation", files)
<1> DEFINE ts == SourceTasks(files, risk)
<1>1. ts \in Seq(PlanTasks(files, risks)) /\ SourceList(ts, files, risk) /\ Apart(ts)
  BY SourceTasksApart
<1> HIDE DEF ts
<1>2. ASSUME NEW i \in 1..Len(ts)
      PROVE  /\ ts[i].key = <<"impl", i>> /\ ts[i].deps = {}
             /\ ~HasOther(ts[i]) /\ ts[i].files \subseteq OfKind("implementation", files)
  <2>1. ts[i] = SourceTask(i, ts[i].files, risk)
        /\ ts[i].files \subseteq OfKind("implementation", files)
    BY <1>1 DEF SourceList
  <2>2. ts[i].key = <<"impl", i>> /\ ts[i].deps = {}
    BY <2>1 DEF SourceTask
  <2>3. ~HasOther(ts[i])
    BY <2>1 DEF HasOther, OfKind
  <2> QED BY <2>1, <2>2, <2>3
<1>3. Named(ts)
  BY <1>2 DEF Named
<1>4. Deposes(ts) /\ Waits(ts)
  BY <1>2 DEF Deposes, Waits
<1> QED BY <1>1, <1>2, <1>3, <1>4 DEF Sound, ts

SpecialistTask(key, kind, files, keys, risk) ==
  [key |-> <<key, 0>>, type |-> kind, deps |-> keys, files |-> OfKind(kind, files),
   caps |-> {kind}, risk |-> risk]

\* The kinds and the keys of the tasks before a specialist's.
Earlier(ts, kinds, names) ==
  \A i \in 1..Len(ts) :
    /\ ts[i].key[1] \in names
    /\ \A f \in ts[i].files : Kind(f) \in kinds

LEMMA SpecialistSound ==
  ASSUME NEW files, NEW risks, NEW risk \in risks,
         NEW ts \in Seq(PlanTasks(files, risks)), Sound(ts),
         NEW keys \in SUBSET Keys, NEW kinds, NEW names,
         NEW key \in KeyNames, NEW kind \in {"docs", "test"},
         Earlier(ts, kinds, names), kind \notin kinds, key \notin names,
         \A k \in keys : \E j \in 1..Len(ts) : ts[j].key = k,
         \A i \in 1..Len(ts) : HasSource(ts[i]) => ts[i].key \in keys
  PROVE  LET us == ts \o Specialist(key, kind, files, keys, risk)
         IN /\ us \in Seq(PlanTasks(files, risks)) /\ Sound(us)
            /\ Earlier(us, kinds \cup {kind}, names \cup {key})
            /\ \A k \in keys : \E j \in 1..Len(us) : us[j].key = k
            /\ \A i \in 1..Len(us) : HasSource(us[i]) => us[i].key \in keys
<1> DEFINE t == SpecialistTask(key, kind, files, keys, risk)
           us == ts \o Specialist(key, kind, files, keys, risk)
<1>1. CASE OfKind(kind, files) = {}
  <2>1. us = ts
    BY <1>1 DEF Specialist
  <2>2. Earlier(ts, kinds \cup {kind}, names \cup {key})
    BY DEF Earlier
  <2> HIDE DEF us
  <2> QED BY <2>1, <2>2 DEF us
<1>2. CASE OfKind(kind, files) /= {}
  <2>1. /\ t \in PlanTasks(files, risks) /\ t.key = <<key, 0>> /\ t.deps = keys
        /\ t.files = OfKind(kind, files) /\ ~HasSource(t)
    <3>1. <<key, 0>> \in Keys /\ kind \in Kinds /\ OfKind(kind, files) \in SUBSET files
      BY OfKindIn DEF Keys, Kinds
    <3>2. t \in PlanTasks(files, risks)
      BY ONLY <3>1, keys \in SUBSET Keys, risk \in risks DEF PlanTasks, SpecialistTask
    <3>3. t.key = <<key, 0>> /\ t.deps = keys /\ t.files = OfKind(kind, files)
      BY DEF SpecialistTask
    <3> HIDE DEF t
    <3>4. ASSUME NEW f \in t.files PROVE Kind(f) /= "implementation"
      <4>1. Kind(f) = kind
        BY <3>3 DEF OfKind
      <4> QED BY <4>1
    <3>5. ~HasSource(t)
      BY <3>4 DEF HasSource
    <3> QED BY <3>2, <3>3, <3>5
  <2>2. us = Append(ts, t)
    <3>1. Specialist(key, kind, files, keys, risk) = <<t>>
      BY <1>2 DEF Specialist, SpecialistTask
    <3> HIDE DEF t
    <3>2. ts \o <<t>> = Append(ts, t)
      BY <2>1
    <3> QED BY <3>1, <3>2
  <2> HIDE DEF t, us
  <2>3. ASSUME NEW i \in 1..Len(ts)
        PROVE  ts[i].files \cap t.files = {} /\ ts[i].key /= t.key
    <3>1. ts[i].key[1] \in names /\ \A f \in ts[i].files : Kind(f) \in kinds
      BY DEF Earlier
    <3>2. t.key[1] = key
      BY <2>1
    <3>3. \A f \in t.files : Kind(f) = kind
      BY <2>1 DEF OfKind
    <3> QED BY <3>1, <3>2, <3>3
  <2>4. Sound(us)
    <3> DEFINE T == PlanTasks(files, risks)
    <3>1. HasOther(t) => \A i \in 1..Len(ts) : HasSource(ts[i]) => ts[i].key \in t.deps
      BY <2>1
    <3>2. \A k \in t.deps : \E j \in 1..Len(ts) : ts[j].key = k
      BY <2>1
    <3>3. \A i \in 1..Len(ts) : ts[i].files \cap t.files = {} /\ ts[i].key /= t.key
      BY <2>3
    <3>4. (HasSource(t) => \A i \in 1..Len(ts) : ~HasOther(ts[i])) /\ t \in T
      BY <2>1
    <3> HIDE DEF T
    <3>5. Sound(Append(ts, t))
      BY ONLY ts \in Seq(T), Sound(ts), <3>1, <3>2, <3>3, <3>4, AppendSound DEF T
    <3> QED BY <3>5, <2>2
  <2>5. us \in Seq(PlanTasks(files, risks)) /\ Len(us) = Len(ts) + 1 /\ us[Len(ts) + 1] = t
        /\ \A i \in 1..Len(ts) : us[i] = ts[i]
    BY <2>1, <2>2
  <2>6. \A i \in 1..Len(us) : i = Len(ts) + 1 \/ i \in 1..Len(ts)
    BY <2>5
  <2>7. Earlier(us, kinds \cup {kind}, names \cup {key})
    <3> SUFFICES ASSUME NEW i \in 1..Len(us)
                 PROVE  /\ us[i].key[1] \in names \cup {key}
                        /\ \A f \in us[i].files : Kind(f) \in kinds \cup {kind}
      BY DEF Earlier
    <3>1. CASE i = Len(ts) + 1
      <4>1. us[i] = t
        BY <3>1, <2>5
      <4> QED BY <4>1, <2>1 DEF OfKind
    <3>2. CASE i \in 1..Len(ts)
      BY <3>2, <2>5 DEF Earlier
    <3> QED BY <3>1, <3>2, <2>6
  <2>8. ASSUME NEW k \in keys PROVE \E j \in 1..Len(us) : us[j].key = k
    <3>1. PICK j \in 1..Len(ts) : ts[j].key = k
      OBVIOUS
    <3>2. j \in 1..Len(us) /\ us[j] = ts[j]
      BY <2>5
    <3> QED BY <3>1, <3>2
  <2>9. ASSUME NEW i \in 1..Len(us), HasSource(us[i]) PROVE us[i].key \in keys
    <3>1. i /= Len(ts) + 1
      BY <2>9, <2>1, <2>5
    <3>2. i \in 1..Len(ts) /\ us[i] = ts[i]
      BY <3>1, <2>5, <2>6
    <3> QED BY <3>2, <2>9
  <2> QED BY <2>4, <2>5, <2>7, <2>8, <2>9 DEF us
<1> QED BY <1>1, <1>2

\* What the planner decomposes an objective into is in order, and the name of the tail
\* is not taken.
LEMMA DecomposedSound ==
  ASSUME NEW files \in SUBSET Files, NEW risk \in Nat
  PROVE  LET ts == Decomposed(files, risk)
         IN /\ ts \in Seq(PlanTasks(files, 0..(risk + 100))) /\ Sound(ts)
            /\ \A i \in 1..Len(ts) : ts[i].key /= <<"tail", 0>>
<1> DEFINE risks == 0..(risk + 100)
<1>0. risk \in risks
  OBVIOUS
<1> HIDE DEF risks
<1>1. CASE files = {}
  <2> DEFINE t == [key |-> <<"implementation", 0>>, type |-> "implementation", deps |-> {},
                   files |-> {}, caps |-> {"implementation"}, risk |-> risk]
  <2>1. Decomposed(files, risk) = <<t>>
    BY <1>1 DEF Decomposed
  <2>2. t \in PlanTasks(files, risks)
    <3>1. <<"implementation", 0>> \in Keys
      BY DEF Keys, KeyNames
    <3> QED BY <3>1, <1>0, <1>1 DEF PlanTasks, Kinds
  <2>3. t.key /= <<"tail", 0>> /\ t.deps = {} /\ t.files = {}
    OBVIOUS
  <2> HIDE DEF t
  <2>4. <<t>> \in Seq(PlanTasks(files, risks)) /\ Len(<<t>>) = 1 /\ <<t>>[1] = t
    BY <2>2
  <2>5. Sound(<<t>>)
    BY <2>3, <2>4 DEF Sound, Apart, Named, Deposes, Waits
  <2> QED BY <2>1, <2>3, <2>4, <2>5 DEF risks
<1>2. CASE files /= {}
  <2> DEFINE source == SourceTasks(files, risk)
             keys == {source[i].key : i \in DOMAIN source}
             low == Larger(10, IF risk > 15 THEN risk - 15 ELSE 0)
             high == Smaller(100, risk + 10)
             ts == source \o Specialist("docs", "docs", files, keys, low)
             us == ts \o Specialist("tests", "test", files, keys, high)
  <2>1. Decomposed(files, risk) = us
    BY <1>2 DEF Decomposed
  <2>2. low \in risks /\ high \in risks
    BY DEF Larger, Smaller, risks
  <2>3. /\ source \in Seq(PlanTasks(files, risks)) /\ Sound(source)
        /\ \A i \in 1..Len(source) :
             /\ source[i].key = <<"impl", i>> /\ ~HasOther(source[i])
             /\ source[i].files \subseteq OfKind("implementation", files)
    BY <1>0, SourcesSound
  <2> HIDE DEF source
  <2>4. DOMAIN source = 1..Len(source) /\ Len(source) \in Nat
    BY <2>3
  <2>5. keys \in SUBSET Keys
    <3>1. ASSUME NEW i \in 1..Len(source) PROVE source[i].key \in Keys
      <4>1. source[i] \in PlanTasks(files, risks)
        BY <2>3
      <4> QED BY <4>1 DEF PlanTasks
    <3> QED BY <3>1, <2>4
  <2>6. \A k \in keys : \E j \in 1..Len(source) : source[j].key = k
    BY <2>4
  <2>7. \A i \in 1..Len(source) : HasSource(source[i]) => source[i].key \in keys
    BY <2>4
  <2>8. Earlier(source, {"implementation"}, {"impl"})
    BY <2>3 DEF Earlier, OfKind
  <2> HIDE DEF keys, low, high, ts, us
  <2>9. /\ ts \in Seq(PlanTasks(files, risks)) /\ Sound(ts)
        /\ Earlier(ts, {"implementation", "docs"}, {"impl", "docs"})
        /\ \A k \in keys : \E j \in 1..Len(ts) : ts[j].key = k
        /\ \A i \in 1..Len(ts) : HasSource(ts[i]) => ts[i].key \in keys
    <3> DEFINE kinds == {"implementation"}
               names == {"impl"}
    <3>1. "docs" \in KeyNames /\ "docs" \in {"docs", "test"} /\ "docs" \notin kinds /\ "docs" \notin names
      BY DEF KeyNames
    <3>2. Earlier(source, kinds, names)
      BY <2>8
    <3>3. kinds \cup {"docs"} = {"implementation", "docs"} /\ names \cup {"docs"} = {"impl", "docs"}
      OBVIOUS
    <3> HIDE DEF kinds, names
    <3>4. /\ ts \in Seq(PlanTasks(files, risks)) /\ Sound(ts)
          /\ Earlier(ts, kinds \cup {"docs"}, names \cup {"docs"})
          /\ \A k \in keys : \E j \in 1..Len(ts) : ts[j].key = k
          /\ \A i \in 1..Len(ts) : HasSource(ts[i]) => ts[i].key \in keys
      BY <1>0, <2>2, <2>3, <2>5, <2>6, <2>7, <3>1, <3>2, SpecialistSound DEF ts
    <3> QED BY <3>3, <3>4
  <2>10. /\ us \in Seq(PlanTasks(files, risks)) /\ Sound(us)
         /\ Earlier(us, {"implementation", "docs", "test"}, {"impl", "docs", "tests"})
    <3> DEFINE kinds == {"implementation", "docs"}
               names == {"impl", "docs"}
    <3>1. "tests" \in KeyNames /\ "test" \in {"docs", "test"} /\ "test" \notin kinds /\ "tests" \notin names
      BY DEF KeyNames
    <3>2. Earlier(ts, kinds, names)
      BY <2>9
    <3>3. kinds \cup {"test"} = {"implementation", "docs", "test"}
          /\ names \cup {"tests"} = {"impl", "docs", "tests"}
      OBVIOUS
    <3> HIDE DEF kinds, names
    <3>4. /\ us \in Seq(PlanTasks(files, risks)) /\ Sound(us)
          /\ Earlier(us, kinds \cup {"test"}, names \cup {"tests"})
      BY <1>0, <2>2, <2>5, <2>9, <3>1, <3>2, SpecialistSound DEF us
    <3> QED BY <3>3, <3>4
  <2>11. \A i \in 1..Len(us) : us[i].key /= <<"tail", 0>>
    <3> SUFFICES ASSUME NEW i \in 1..Len(us), us[i].key = <<"tail", 0>> PROVE FALSE
      OBVIOUS
    <3>1. us[i].key[1] \in {"impl", "docs", "tests"}
      BY <2>10 DEF Earlier
    <3>2. us[i].key[1] = "tail"
      OBVIOUS
    <3> QED BY <3>1, <3>2
  <2> QED BY <2>1, <2>10, <2>11 DEF risks
<1> QED BY <1>1, <1>2

LEMMA PrefixSound ==
  ASSUME NEW T, NEW ts \in Seq(T), NEW us \in Seq(T), Sound(ts),
         \A i \in 1..Len(us) : i \in 1..Len(ts) /\ us[i] = ts[i]
  PROVE  Sound(us)
<1>1. Apart(us) /\ Named(us) /\ Waits(us)
  BY DEF Sound, Apart, Named, Waits
<1>2. Deposes(us)
  <2> SUFFICES ASSUME NEW i \in 1..Len(us), NEW k \in us[i].deps
               PROVE  \E j \in 1..(i - 1) : us[j].key = k
    BY DEF Deposes
  <2>1. PICK j \in 1..(i - 1) : ts[j].key = k
    BY DEF Sound, Deposes
  <2>2. j \in 1..Len(us)
    BY <2>1
  <2> QED BY <2>1, <2>2
<1> QED BY <1>1, <1>2 DEF Sound

\* The tail keeps the order: what its tasks wait for in the head, it waits for.
LEMMA CompactedSound ==
  ASSUME NEW files, NEW range \in SUBSET Nat, NEW bound \in Nat, \A r \in range : r <= bound,
         NEW ts \in Seq(PlanTasks(files, range)), Sound(ts),
         \A i \in 1..Len(ts) : ts[i].key /= <<"tail", 0>>, NEW max \in Nat \ {0}
  PROVE  LET us == Compacted(ts, max)
         IN us \in Seq(PlanTasks(files, range)) /\ Sound(us) /\ Len(us) <= max
<1> DEFINE T == PlanTasks(files, range)
           us == Compacted(ts, max)
<1>0. ts \in Seq(T) /\ DOMAIN ts = 1..Len(ts) /\ Len(ts) \in Nat
  OBVIOUS
<1>1. CASE Len(ts) <= max
  BY <1>1 DEF Compacted
<1>2. CASE ~(Len(ts) <= max)
  <2> DEFINE head == SubSeq(ts, 1, max - 1)
             rest == Range(SubSeq(ts, max, Len(ts)))
             t == Tail_(ts, max)
  <2>0. us = Append(head, t)
    BY <1>2 DEF Compacted
  <2>1. max - 1 \in 0..Len(ts) /\ max \in 1..Len(ts)
    BY <1>2
  <2>2. /\ head \in Seq(T) /\ Len(head) = max - 1 /\ (\A i \in 1..(max - 1) : head[i] = ts[i])
        /\ Sound(head)
    <3>1. head \in Seq(T) /\ Len(head) = max - 1 /\ \A i \in 1..(max - 1) : head[i] = ts[i]
      <4> HIDE DEF T
      <4> QED BY <2>1, <1>0
    <3>2. \A i \in 1..Len(head) : i \in 1..Len(ts) /\ head[i] = ts[i]
      <4> HIDE DEF head
      <4> QED BY <3>1, <2>1
    <3>3. Sound(head)
      <4> HIDE DEF head, T
      <4> QED BY ONLY <1>0, Sound(ts), <3>1, <3>2, PrefixSound
    <3> QED BY <3>1, <3>3
  <2>3. rest = {ts[k] : k \in max..Len(ts)}
    <3> DEFINE vs == SubSeq(ts, max, Len(ts))
               m == Len(ts) - max + 1
    <3>1. DOMAIN vs = 1..m /\ m \in Nat /\ \A i \in 1..m : vs[i] = ts[max + i - 1]
      BY <2>1
    <3>2. ASSUME NEW k \in max..Len(ts) PROVE k - max + 1 \in 1..m /\ max + (k - max + 1) - 1 = k
      BY <2>1
    <3>3. ASSUME NEW i \in 1..m PROVE max + i - 1 \in max..Len(ts)
      BY <2>1
    <3> HIDE DEF vs, m
    <3>4. Range(vs) = {vs[i] : i \in 1..m}
      BY <3>1 DEF Range
    <3>5. ASSUME NEW k \in max..Len(ts) PROVE ts[k] \in Range(vs)
      <4> DEFINE i == k - max + 1
      <4>1. i \in 1..m /\ max + i - 1 = k
        BY <3>2
      <4>2. vs[i] = ts[k]
        BY <4>1, <3>1
      <4> HIDE DEF i
      <4> QED BY <4>1, <4>2, <3>4
    <3>6. ASSUME NEW x \in Range(vs) PROVE x \in {ts[k] : k \in max..Len(ts)}
      <4>1. PICK i \in 1..m : x = vs[i]
        BY <3>4
      <4> DEFINE k == max + i - 1
      <4>2. k \in max..Len(ts) /\ x = ts[k]
        BY <4>1, <3>1, <3>3
      <4> HIDE DEF k
      <4> QED BY <4>2
    <3> QED BY <3>5, <3>6 DEF vs
  <2> DEFINE types == {x.type : x \in rest}
             risks == {x.risk : x \in rest}
  <2>4. /\ t.key = <<"tail", 0>>
        /\ t.deps = (UNION {x.deps : x \in rest}) \cap {x.key : x \in Range(head)}
        /\ t.files = UNION {x.files : x \in rest}
        /\ t.type = IF Cardinality(types) = 1 THEN CHOOSE k \in types : TRUE ELSE "implementation"
        /\ t.caps = IF Cardinality(types) = 1 THEN UNION {x.caps : x \in rest} ELSE {}
        /\ t.risk = CHOOSE r \in risks : \A x \in rest : x.risk <= r
        /\ t = [key |-> t.key, type |-> t.type, deps |-> t.deps, files |-> t.files,
                caps |-> t.caps, risk |-> t.risk]
    <3> DEFINE key == <<"tail", 0>>
               deps == (UNION {x.deps : x \in rest}) \cap {x.key : x \in Range(head)}
               files_ == UNION {x.files : x \in rest}
               type == IF Cardinality(types) = 1 THEN CHOOSE k \in types : TRUE
                       ELSE "implementation"
               caps == IF Cardinality(types) = 1 THEN UNION {x.caps : x \in rest} ELSE {}
               risk == CHOOSE r \in risks : \A x \in rest : x.risk <= r
    <3>1. t = [key |-> key, type |-> type, deps |-> deps, files |-> files_,
               caps |-> caps, risk |-> risk]
      BY DEF Tail_
    <3> HIDE DEF t, key, deps, files_, type, caps, risk
    <3>2. /\ t.key = key /\ t.deps = deps /\ t.files = files_ /\ t.type = type
          /\ t.caps = caps /\ t.risk = risk
          /\ t = [key |-> t.key, type |-> t.type, deps |-> t.deps, files |-> t.files,
                  caps |-> t.caps, risk |-> t.risk]
      BY <3>1
    <3> QED BY <3>2 DEF key, deps, files_, type, caps, risk
  <2> HIDE DEF head, rest, t, us
  <2>5. rest \subseteq T /\ rest /= {}
    <3>1. \A k \in max..Len(ts) : ts[k] \in T
      <4> TAKE k \in max..Len(ts)
      <4>1. k \in 1..Len(ts)
        BY <2>1
      <4> HIDE DEF T
      <4> QED BY <4>1, <1>0
    <3>2. max \in max..Len(ts)
      BY <2>1
    <3> QED BY <3>1, <3>2, <2>3
  <2>6. \A x \in T : /\ x.key \in Keys /\ x.type \in Kinds /\ x.deps \in SUBSET Keys
                     /\ x.files \in SUBSET files /\ x.caps \in SUBSET Kinds
                     /\ x.risk \in range
    BY DEF PlanTasks
  <2> HIDE DEF T
  <2>7. t.type \in Kinds
    <3>1. types \subseteq Kinds /\ types /= {}
      BY <2>5, <2>6
    <3>2. (CHOOSE k \in types : TRUE) \in types
      <4> HIDE DEF types
      <4> QED BY <3>1
    <3>3. "implementation" \in Kinds
      BY DEF Kinds
    <3> HIDE DEF types
    <3> QED BY <3>1, <3>2, <3>3, <2>4
  <2>8. t.risk \in range
    <3>1. risks \in SUBSET Nat /\ risks /= {} /\ \A r \in risks : r <= bound
      BY <2>5, <2>6
    <3>2. Max(risks) \in risks /\ \A r \in risks : Max(risks) >= r
      <4> HIDE DEF risks
      <4> QED BY <3>1, GreatestNumber
    <3>3. \A x \in rest : x.risk <= Max(risks)
      <4> TAKE x \in rest
      <4>1. x.risk \in risks /\ Max(risks) >= x.risk
        BY <3>2
      <4> HIDE DEF risks
      <4>2. x.risk \in Nat /\ Max(risks) \in Nat
        BY <3>1, <3>2, <4>1
      <4> QED BY <4>1, <4>2
    <3>4. t.risk \in risks
      <4> DEFINE top == Max(risks)
      <4>1. top \in risks /\ \A x \in rest : x.risk <= top
        BY <3>2, <3>3
      <4> HIDE DEF risks, top
      <4> QED BY <4>1, <2>4
    <3> QED BY <3>4, <2>5, <2>6
  <2>9. t \in T
    <3>1. /\ t.key \in Keys /\ t.deps \in SUBSET Keys /\ t.files \in SUBSET files
          /\ t.caps \in SUBSET Kinds
      <4>1. <<"tail", 0>> \in Keys
        BY DEF Keys, KeyNames
      <4>2. UNION {x.deps : x \in rest} \subseteq Keys
        BY <2>5, <2>6
      <4>3. UNION {x.files : x \in rest} \subseteq files
        BY <2>5, <2>6
      <4>4. UNION {x.caps : x \in rest} \subseteq Kinds
        BY <2>5, <2>6
      <4> HIDE DEF types
      <4> QED BY <4>1, <4>2, <4>3, <4>4, <2>4
    <3>2. t = [key |-> t.key, type |-> t.type, deps |-> t.deps, files |-> t.files,
               caps |-> t.caps, risk |-> t.risk]
      BY <2>4
    <3> QED BY <3>1, <3>2, <2>7, <2>8 DEF T, PlanTasks
  <2>10. \A i \in 1..Len(head) : i \in 1..Len(ts) /\ i < max /\ head[i] = ts[i]
    BY <2>1, <2>2
  <2>11. \A k \in max..Len(ts) : k \in 1..Len(ts) /\ k >= max
    BY <2>1
  <2>12. \A i \in 1..Len(head) : head[i].files \cap t.files = {} /\ head[i].key /= t.key
    <3> TAKE i \in 1..Len(head)
    <3>1. head[i].key /= t.key
      BY <2>4, <2>10
    <3>2. ASSUME NEW k \in max..Len(ts) PROVE head[i].files \cap ts[k].files = {}
      <4>1. k \in 1..Len(ts) /\ i \in 1..Len(ts) /\ i /= k
        BY <2>10, <2>11
      <4> QED BY <4>1, <2>10 DEF Sound, Apart
    <3>3. head[i].files \cap t.files = {}
      BY <3>2, <2>3, <2>4
    <3> QED BY <3>1, <3>3
  <2>13. \A k \in t.deps : \E j \in 1..Len(head) : head[j].key = k
    <3> TAKE k \in t.deps
    <3>1. k \in {x.key : x \in Range(head)}
      BY <2>4
    <3>2. Range(head) = {head[j] : j \in 1..Len(head)}
      BY <2>2 DEF Range
    <3> QED BY <3>1, <3>2
  <2>14. ASSUME HasSource(t), NEW j \in 1..Len(head), HasOther(head[j]) PROVE FALSE
    <3>1. PICK f \in t.files : Kind(f) = "implementation"
      BY <2>14 DEF HasSource
    <3>2. PICK k \in max..Len(ts) : f \in ts[k].files
      BY <2>3, <2>4
    <3>3. HasSource(ts[k]) /\ k \in 1..Len(ts) /\ j \in 1..Len(ts) /\ j < k
      <4>1. k >= max /\ k \in 1..Len(ts)
        BY <2>11
      <4>2. j < max /\ j \in 1..Len(ts)
        BY <2>10
      <4>3. HasSource(ts[k])
        BY <3>1, <3>2 DEF HasSource
      <4> QED BY <4>1, <4>2, <4>3
    <3>4. HasOther(ts[j]) /\ j /= k
      BY <2>14, <2>10, <3>3
    <3>5. ts[k].key \in ts[j].deps
      BY <3>3, <3>4 DEF Sound, Waits
    <3>6. PICK m \in 1..(j - 1) : ts[m].key = ts[k].key
      BY <3>3, <3>5 DEF Sound, Deposes
    <3>7. m \in 1..Len(ts) /\ m /= k
      BY <3>3, <3>6
    <3> QED BY <3>3, <3>6, <3>7 DEF Sound, Named
  <2>15. ASSUME HasOther(t), NEW i \in 1..Len(head), HasSource(head[i])
         PROVE  head[i].key \in t.deps
    <3>1. PICK f \in t.files : Kind(f) /= "implementation"
      BY <2>15 DEF HasOther
    <3>2. PICK k \in max..Len(ts) : f \in ts[k].files
      BY <2>3, <2>4
    <3>3. HasOther(ts[k]) /\ k \in 1..Len(ts)
      BY <3>1, <3>2, <2>11 DEF HasOther
    <3>4. HasSource(ts[i]) /\ i \in 1..Len(ts) /\ i /= k /\ head[i] = ts[i]
      BY <2>15, <2>10, <2>11
    <3>5. ts[i].key \in ts[k].deps
      BY <3>3, <3>4 DEF Sound, Waits
    <3>6. ts[k] \in rest
      BY <2>3
    <3>7. head[i] \in Range(head)
      BY <2>2 DEF Range
    <3>8. head[i].key \in UNION {x.deps : x \in rest}
      BY <3>4, <3>5, <3>6
    <3>9. head[i].key \in {x.key : x \in Range(head)}
      BY <3>7
    <3> QED BY <3>8, <3>9, <2>4
  <2>16. Sound(us)
    <3>1. /\ HasSource(t) => \A j \in 1..Len(head) : ~HasOther(head[j])
          /\ HasOther(t) => \A i \in 1..Len(head) : HasSource(head[i]) => head[i].key \in t.deps
      BY <2>14, <2>15
    <3>2. head \in Seq(T) /\ Sound(head)
      BY <2>2
    <3>3. Sound(Append(head, t))
      BY ONLY <2>9, <2>12, <2>13, <3>1, <3>2, AppendSound
    <3> QED BY <3>3, <2>0
  <2>17. us \in Seq(T) /\ Len(us) <= max
    BY <2>0, <2>1, <2>2, <2>9
  <2> QED BY <2>16, <2>17 DEF us, T
<1> QED BY <1>1, <1>2

(***************************************************************************)
(* The plan, once it is made                                               *)
(***************************************************************************)

Risks == 0..(Risk + 100)

PlanInv ==
  plan \in Seq(PlanTasks(Files, Risks)) /\ Sound(plan) /\ Len(plan) <= MaxTasks

LEMMA PlanSound ==
  ASSUME NEW files \in SUBSET Files, NEW max \in 1..MaxTasks
  PROVE  LET ts == Plan(files, Risk, max)
         IN ts \in Seq(PlanTasks(Files, Risks)) /\ Sound(ts) /\ Len(ts) <= MaxTasks
<1> DEFINE ds == Decomposed(files, Risk)
           ts == Compacted(ds, max)
           range == 0..(Risk + 100)
           T == PlanTasks(files, range)
<1>0. Risk \in Nat /\ MaxTasks \in Nat /\ max \in Nat \ {0} /\ max <= MaxTasks
  BY BoundsPositive
<1>1. ds \in Seq(T) /\ Sound(ds) /\ \A i \in 1..Len(ds) : ds[i].key /= <<"tail", 0>>
  BY <1>0, DecomposedSound
<1> HIDE DEF ds
<1>2. ts \in Seq(T) /\ Sound(ts) /\ Len(ts) <= max
  <2> DEFINE bound == Risk + 100
  <2>1. range \in SUBSET Nat /\ bound \in Nat /\ \A r \in range : r <= bound
    BY <1>0
  <2> HIDE DEF range, bound
  <2> QED BY <1>0, <1>1, <2>1, CompactedSound
<1>3. T \subseteq PlanTasks(Files, Risks)
  BY DEF PlanTasks, Risks
<1> HIDE DEF T
<1>4. ts \in Seq(PlanTasks(Files, Risks))
  <2> HIDE DEF ts
  <2> QED BY <1>2, <1>3
<1>5. Len(ts) <= MaxTasks
  <2> HIDE DEF ts
  <2>1. Len(ts) \in Nat
    BY <1>2
  <2> QED BY <1>0, <1>2, <2>1
<1> QED BY <1>2, <1>4, <1>5 DEF Plan, ds, ts

LEMMA PlanIsMade ==
  ASSUME PlanInv, PlanObjective
  PROVE  PlanInv'
<1>1. PICK files \in SUBSET Files, max \in 1..MaxTasks : plan' = Plan(files, Risk, max)
  BY DEF PlanObjective
<1>2. LET ts == Plan(files, Risk, max)
      IN ts \in Seq(PlanTasks(Files, Risks)) /\ Sound(ts) /\ Len(ts) <= MaxTasks
  BY PlanSound
<1> QED BY <1>1, <1>2 DEF PlanInv

\* Everything else works from the plan that was made.
LEMMA PlanStays ==
  ASSUME [Next]_vars
  PROVE  plan' = plan \/ PlanObjective
BY DEF Next, vars, money, CreateTask, PlanBreaksOff, SelectBatch, Start, StartRefused,
       ContextDoesNotFit, AgentFails, Reject, Land, SomeoneAppends, SomeoneRevises,
       SessionSpends

\* A task's dependencies are the tasks with the keys it names.
LEMMA DepsAreEarlier ==
  ASSUME PlanInv, NEW i \in Defined
  PROVE  Deps(i) \subseteq 1..(i - 1) /\ Cardinality(Deps(i)) = Cardinality(plan[i].deps)
<1>0. Defined = 1..Len(plan) /\ Len(plan) \in Nat
  BY DEF PlanInv, Defined
<1>1. ASSUME NEW j \in Deps(i) PROVE j \in 1..(i - 1)
  <2>1. j \in 1..Len(plan) /\ plan[j].key \in plan[i].deps
    BY <1>0 DEF Deps
  <2>2. PICK k \in 1..(i - 1) : plan[k].key = plan[j].key
    BY <1>0, <2>1 DEF PlanInv, Sound, Deposes
  <2>3. k \in 1..Len(plan)
    BY <1>0, <2>2
  <2>4. k = j
    BY <2>1, <2>2, <2>3 DEF PlanInv, Sound, Named
  <2> QED BY <2>2, <2>4
<1> DEFINE S == Deps(i)
           T == plan[i].deps
           f == [j \in S |-> plan[j].key]
<1>2. \A j \in S : f[j] \in T
  BY DEF Deps
<1>3. \A j, k \in S : f[j] = f[k] => j = k
  <2> SUFFICES ASSUME NEW j \in S, NEW k \in S, f[j] = f[k] PROVE j = k
    OBVIOUS
  <2>1. j \in 1..Len(plan) /\ k \in 1..Len(plan)
    BY <1>0 DEF Deps
  <2> QED BY <2>1 DEF PlanInv, Sound, Named
<1>4. \A t \in T : \E j \in S : f[j] = t
  <2> TAKE t \in T
  <2>1. PICK j \in 1..(i - 1) : plan[j].key = t
    BY <1>0 DEF PlanInv, Sound, Deposes
  <2>2. j \in Defined
    BY <1>0, <2>1
  <2>3. j \in S
    BY <2>1, <2>2 DEF Deps
  <2> QED BY <2>1, <2>3
<1>5. IsFiniteSet(S)
  <2>1. IsFiniteSet(1..Len(plan))
    BY <1>0, FS_Interval
  <2>2. S \in SUBSET (1..Len(plan))
    BY <1>0 DEF Deps
  <2> HIDE DEF S
  <2> QED BY <2>1, <2>2, FS_Subset
<1>6. Cardinality(S) = Cardinality(T)
  <2> HIDE DEF S, T
  <2>1. f \in Injection(S, T) /\ f \in Surjection(S, T)
    BY <1>2, <1>3, <1>4 DEF Injection, Surjection, IsInjective
  <2> HIDE DEF f
  <2>2. ExistsBijection(S, T)
    BY <2>1 DEF Bijection, ExistsBijection
  <2> QED BY <1>5, <2>2, FS_Bijection
<1> QED BY <1>1, <1>6

LEMMA SoundPlan ==
  ASSUME PlanInv
  PROVE  PlanIsSound
<1>0. Defined = 1..Len(plan) /\ Len(plan) \in Nat /\ Len(plan) <= MaxTasks
  BY DEF PlanInv, Defined
<1> DEFINE files == UNION {plan[i].files : i \in Defined}
<1>1. ASSUME NEW i \in Defined, NEW j \in Defined, i /= j
      PROVE  plan[i].files \cap plan[j].files = {} /\ plan[i].key /= plan[j].key
  BY <1>0, <1>1 DEF PlanInv, Sound, Apart, Named
<1>2. ASSUME NEW f \in files
      PROVE  TaskOf(f) \in Defined /\ f \in plan[TaskOf(f)].files
  BY DEF TaskOf
<1>3. ASSUME NEW late \in files, NEW source \in OfKind("implementation", files),
             Kind(late) /= "implementation", TaskOf(late) /= TaskOf(source)
      PROVE  TaskOf(source) \in Deps(TaskOf(late))
  <2> DEFINE i == TaskOf(source)
             j == TaskOf(late)
  <2>1. source \in files /\ Kind(source) = "implementation"
    BY DEF OfKind
  <2>2. i \in 1..Len(plan) /\ j \in 1..Len(plan) /\ source \in plan[i].files
        /\ late \in plan[j].files
    BY <1>0, <1>2, <2>1
  <2>3. HasSource(plan[i]) /\ HasOther(plan[j])
    BY <1>3, <2>1, <2>2 DEF HasSource, HasOther
  <2>4. plan[i].key \in plan[j].deps
    BY <1>3, <2>2, <2>3 DEF PlanInv, Sound, Waits
  <2> QED BY <1>0, <2>2, <2>4 DEF Deps
<1>4. \A i \in Defined : /\ Deps(i) \subseteq 1..(i - 1)
                         /\ Cardinality(Deps(i)) = Cardinality(plan[i].deps)
  BY DepsAreEarlier
<1>5. Len(plan) <= MaxTasks
  BY <1>0
<1> HIDE DEF files
<1>6. \A late \in files, source \in OfKind("implementation", files) :
        Kind(late) /= "implementation" =>
          TaskOf(late) = TaskOf(source) \/ TaskOf(source) \in Deps(TaskOf(late))
  BY <1>3
<1>7. \A i, j \in Defined : i /= j =>
        plan[i].files \cap plan[j].files = {} /\ plan[i].key /= plan[j].key
  BY <1>1
<1> QED BY <1>4, <1>5, <1>6, <1>7 DEF PlanIsSound, files

(***************************************************************************)
(* The invariant of the runs                                               *)
(***************************************************************************)

Statuses == {"absent", "planned", "ready", "dispatched", "submitted", "failed", "done"}

RunRecords ==
  [at : {"none", "routed", "working", "landed", "stale"}, agent : Agents \cup {None},
   packet : PacketRecords, relevant : Nat, touched : Nat, drift : Nat]

Types ==
  /\ status \in [Tasks -> Statuses] /\ run \in [Tasks -> RunRecords]
  /\ spent \in [Tasks -> Nat] /\ charged \in Nat /\ exhausted \in BOOLEAN
  /\ revised \in [superseded : SUBSET Nat, disputed : SUBSET Nat]

Under == Routed \cup Working

\* What runs has been created, and what it waits for is done.
Ordered ==
  /\ \A i \in Tasks : status[i] /= "absent" => i \in Defined
  /\ \A i \in Routed : status[i] = "ready"
  /\ \A i \in Working : status[i] = "dispatched"
  /\ \A i \in Defined : status[i] \in {"ready", "dispatched"} =>
       \A d \in Deps(i) : status[d] = "done"

\* What runs was taken into one batch.
Selected ==
  /\ Cardinality(Under) <= MaxParallel
  /\ \A i \in Under : run[i].agent \in Agents
  /\ BatchIsSafe

\* Every run in flight may still record the cost of a turn.
Bounded ==
  /\ Total - charged + MaxCost * Cardinality(Working)
       <= HardProject - Estimate + MaxParallel * MaxCost
  /\ \A i \in Tasks : spent[i] - charged + (IF i \in Working THEN MaxCost ELSE 0)
                        <= HardTask - Estimate + MaxCost
  /\ Total >= HardProject => exhausted

\* The drift of a run counts what has happened to what it works from: at least one event,
\* which is its own, and more than that only when somebody has acted.  What is in
\* dispute although nobody has, was when the packet was compiled.
InForce(p) ==
  p.memories \cap revised.superseded = {} /\ p.memories \cap revised.disputed \subseteq p.disputed

Noticed(r) ==
  /\ r.relevant >= r.touched + 1
  /\ IsFiniteSet(r.packet.memories) /\ r.packet.disputed \subseteq r.packet.memories
  /\ r.drift = 0 => r.relevant <= 1 /\ r.touched = 0 /\ InForce(r.packet)

Watched ==
  /\ \A i \in Routed : run[i].relevant = 0 /\ run[i].touched = 0 /\ run[i].drift = 0
  /\ \A i \in Working :
       /\ Noticed(run[i])
       /\ \E authoritative \in Authoritative :
            Packed_(run[i].packet, authoritative, plan[i].risk, TokenBudget)

DispatchInv == PlanInv /\ Types /\ Ordered /\ Selected /\ Bounded /\ Watched

(***************************************************************************)
(* The first of an order                                                   *)
(***************************************************************************)

Orders(R, D) ==
  /\ \A x, y \in D : x = y \/ <<x, y>> \in R \/ <<y, x>> \in R
  /\ \A x, y, z \in D : <<x, y>> \in R /\ <<y, z>> \in R => <<x, z>> \in R

IsFirst(R, s, x) == x \in s /\ \A y \in s \ {x} : <<x, y>> \in R

HasFirst(R, s) == \E x : IsFirst(R, s, x)

LEMMA FirstExists ==
  ASSUME NEW D, IsFiniteSet(D), NEW R, Orders(R, D), NEW S \in SUBSET D, S /= {}
  PROVE  HasFirst(R, S)
<1> DEFINE F == {s \in SUBSET D : s /= {} => HasFirst(R, s)}
<1>1. {} \in F
  OBVIOUS
<1>2. ASSUME NEW s \in SUBSET D, s /= {}, NEW x \in s, s \ {x} \in F
      PROVE  s \in F
  <2>1. CASE s \ {x} = {}
    <3>1. IsFirst(R, s, x)
      BY <2>1 DEF IsFirst
    <3> QED BY <3>1 DEF HasFirst
  <2>2. CASE s \ {x} /= {}
    <3>1. PICK z : IsFirst(R, s \ {x}, z)
      BY <1>2, <2>2 DEF HasFirst
    <3>2. z \in D /\ x \in D /\ z \in s /\ z /= x
      BY <3>1 DEF IsFirst
    <3>3. CASE <<z, x>> \in R
      <4>1. IsFirst(R, s, z)
        BY <3>1, <3>2, <3>3 DEF IsFirst
      <4> QED BY <4>1 DEF HasFirst
    <3>4. CASE <<x, z>> \in R
      <4>1. ASSUME NEW y \in s \ {x} PROVE <<x, y>> \in R
        <5>1. y = z \/ <<z, y>> \in R
          BY <3>1 DEF IsFirst
        <5> QED BY <3>2, <3>4, <5>1 DEF Orders
      <4>2. IsFirst(R, s, x)
        BY <4>1 DEF IsFirst
      <4> QED BY <4>2 DEF HasFirst
    <3> QED BY <3>2, <3>3, <3>4 DEF Orders
  <2> QED BY <2>1, <2>2
<1>3. Grows(F, D)
  <2> SUFFICES ASSUME NEW s \in SUBSET D, s /= {}
               PROVE  \E x \in s : s \ {x} \in F => s \in F
    BY DEF Grows
  <2> HIDE DEF F
  <2>1. PICK x \in s : TRUE
    OBVIOUS
  <2>2. s \ {x} \in F => s \in F
    BY <1>2
  <2> QED BY <2>1, <2>2
<1>4. SUBSET D \subseteq F
  <2> HIDE DEF F
  <2> QED BY <1>1, <1>3, EverySubset
<1> QED BY <1>4

(***************************************************************************)
(* Routes                                                                  *)
(***************************************************************************)

LEMMA ScoreIsNumber ==
  ASSUME NEW a \in Agents, NEW task, IsFiniteSet(task.caps), NEW active \in Nat
  PROVE  RouteScore(a, task, active) \in Int
<1> DEFINE p == Profile[a]
           limit == IF p.limit > 1 THEN p.limit ELSE 1
           load == 250 * active
           share == load \div limit
<1>1. p.limit \in Nat \ {0} /\ p.quality \in Nat /\ p.cost \in Nat /\ Policy \in Policies
  BY AgentsConfigured
<1>2. Weights(p) \in Int
  <2>1. CASE Policy = "quality"
    BY <1>1, <2>1 DEF Weights
  <2>2. CASE Policy = "cost"
    BY <1>1, <2>2 DEF Weights
  <2>3. CASE Policy = "balanced"
    BY <1>1, <2>3 DEF Weights
  <2> QED BY <1>1, <2>1, <2>2, <2>3 DEF Policies
<1>3. limit \in Nat \ {0} /\ load \in Nat
  BY <1>1
<1>4. share \in Int
  <2> HIDE DEF limit, load
  <2> QED BY <1>3
<1>5. Cardinality(task.caps) \in Nat
  BY FS_CardinalityType
<1> DEFINE byType == IF task.type \in p.caps THEN 300 ELSE 0
           byRole == IF p.role = task.type THEN 200
                     ELSE IF p.role \in Generalists THEN 50 ELSE 0
           byName == IF a = Default THEN 10 ELSE 0
<1>6. RouteScore(a, task, active) =
        400 * Cardinality(task.caps) + byType + byRole + Weights(p) - share + byName
  BY DEF RouteScore
<1>7. byType \in Int /\ byRole \in Int /\ byName \in Int
  OBVIOUS
<1> HIDE DEF p, limit, load, share, byType, byRole, byName
<1> QED BY <1>2, <1>4, <1>5, <1>6, <1>7

LEMMA BestIsThere ==
  ASSUME NEW S \in SUBSET Agents, S /= {}, NEW task, IsFiniteSet(task.caps),
         NEW active \in [Agents -> Nat]
  PROVE  Best(S, task, active) \in S
<1> DEFINE score == [a \in Agents |-> RouteScore(a, task, active[a])]
           R == {p \in Agents \X Agents : \/ score[p[1]] > score[p[2]]
                                          \/ score[p[1]] = score[p[2]] /\ p[1] < p[2]}
<1>0. IsFiniteSet(Agents) /\ Agents \subseteq Nat
  BY AgentsConfigured
<1>1. score \in [Agents -> Int]
  <2>1. \A a \in Agents : RouteScore(a, task, active[a]) \in Int
    BY ScoreIsNumber
  <2> QED BY <2>1
<1>2. \A a \in Agents : score[a] = RouteScore(a, task, active[a])
  OBVIOUS
<1> HIDE DEF score
<1>3. \A x, y \in Agents : <<x, y>> \in R <=>
        score[x] > score[y] \/ (score[x] = score[y] /\ x < y)
  OBVIOUS
<1> HIDE DEF R
<1>4. Orders(R, Agents)
  <2>1. ASSUME NEW x \in Agents, NEW y \in Agents
        PROVE  x = y \/ <<x, y>> \in R \/ <<y, x>> \in R
    <3>1. score[x] \in Int /\ score[y] \in Int /\ x \in Nat /\ y \in Nat
      BY <1>0, <1>1
    <3> QED BY <3>1, <1>3
  <2>2. ASSUME NEW x \in Agents, NEW y \in Agents, NEW z \in Agents,
               <<x, y>> \in R, <<y, z>> \in R
        PROVE  <<x, z>> \in R
    <3>1. /\ score[x] \in Int /\ score[y] \in Int /\ score[z] \in Int
          /\ x \in Nat /\ y \in Nat /\ z \in Nat
      BY <1>0, <1>1
    <3> QED BY <3>1, <2>2, <1>3
  <2> QED BY <2>1, <2>2 DEF Orders
<1>5. PICK x : IsFirst(R, S, x)
  BY <1>0, <1>4, FirstExists DEF HasFirst
<1>6. x \in S /\ \A y \in S \ {x} : score[x] > score[y] \/ (score[x] = score[y] /\ x < y)
  BY <1>3, <1>5 DEF IsFirst
<1>7. \A y \in S \ {x} :
        \/ RouteScore(x, task, active[x]) > RouteScore(y, task, active[y])
        \/ RouteScore(x, task, active[x]) = RouteScore(y, task, active[y]) /\ x < y
  BY <1>2, <1>6
<1> QED BY <1>6, <1>7 DEF Best

\* A route is to an agent with room; to the mock only when no real agent could do it.
Routable(a, task, active) ==
  /\ a \in Agents /\ active[a] < Profile[a].limit
  /\ Profile[a].provider = "mock" => \A b \in Agents : ~SemanticallyEligible(b, task)

LEMMA RouteIsSafe ==
  ASSUME NEW task, IsFiniteSet(task.caps), NEW doctor, NEW active \in [Agents -> Nat],
         Route(task, doctor, active) /= None
  PROVE  Routable(Route(task, doctor, active), task, active)
<1> DEFINE able == Candidates(task, doctor, active)
           real == {a \in able : Profile[a].provider /= "mock"}
<1>1. /\ able \in SUBSET Agents /\ real \in SUBSET Agents /\ real \subseteq able
      /\ \A a \in able : active[a] < Profile[a].limit
      /\ \A a \in real : Profile[a].provider /= "mock"
  BY DEF Candidates
<1>2. Route(task, doctor, active) =
        IF real /= {} THEN Best(real, task, active)
        ELSE IF able = {} \/ \E a \in Agents : SemanticallyEligible(a, task) THEN None
        ELSE Best(able, task, active)
  BY DEF Route
<1> HIDE DEF able, real
<1>3. CASE real /= {}
  <2>1. Best(real, task, active) \in real
    BY <1>1, <1>3, BestIsThere
  <2> QED BY <1>1, <1>2, <1>3, <2>1 DEF Routable
<1>4. CASE real = {}
  <2>1. able /= {} /\ \A a \in Agents : ~SemanticallyEligible(a, task)
    BY <1>2, <1>4
  <2>2. Best(able, task, active) \in able
    BY <1>1, <2>1, BestIsThere
  <2> QED BY <1>1, <1>2, <1>4, <2>1, <2>2 DEF Routable
<1> QED BY <1>3, <1>4

(***************************************************************************)
(* Batches                                                                 *)
(***************************************************************************)

LEMMA TaskOfPlan ==
  ASSUME PlanInv, NEW i \in Defined
  PROVE  /\ plan[i] \in PlanTasks(Files, Risks) /\ plan[i].risk \in Nat
         /\ IsFiniteSet(plan[i].caps) /\ plan[i].files \subseteq Files
<1>1. plan[i] \in PlanTasks(Files, Risks)
  BY DEF PlanInv, Defined
<1>2. plan[i].caps \subseteq Kinds /\ plan[i].risk \in Risks /\ plan[i].files \subseteq Files
  BY <1>1 DEF PlanTasks
<1>3. IsFiniteSet(Kinds)
  <2>1. IsFiniteSet({}) BY FS_EmptySet
  <2>2. IsFiniteSet({} \cup {"implementation"}) BY <2>1, FS_AddElement
  <2>3. IsFiniteSet({} \cup {"implementation"} \cup {"docs"}) BY <2>2, FS_AddElement
  <2>4. IsFiniteSet({} \cup {"implementation"} \cup {"docs"} \cup {"test"})
    BY <2>3, FS_AddElement
  <2>5. {} \cup {"implementation"} \cup {"docs"} \cup {"test"} = Kinds
    BY DEF Kinds
  <2> QED BY <2>4, <2>5
<1>4. plan[i].risk \in Nat
  BY <1>2, BoundsPositive DEF Risks
<1> QED BY <1>1, <1>2, <1>3, <1>4, FS_Subset

LEMMA PlanIsFinite ==
  ASSUME PlanInv
  PROVE  /\ Defined = 1..Len(plan) /\ Len(plan) \in Nat /\ Len(plan) <= MaxTasks
         /\ IsFiniteSet(Defined) /\ Defined \subseteq Tasks /\ IsFiniteSet(Tasks)
<1>1. Defined = 1..Len(plan) /\ Len(plan) \in Nat /\ Len(plan) <= MaxTasks
  BY DEF PlanInv, Defined
<1>2. MaxTasks \in Nat
  BY BoundsPositive
<1>3. IsFiniteSet(1..Len(plan)) /\ IsFiniteSet(1..MaxTasks)
  BY <1>1, <1>2, FS_Interval
<1> QED BY <1>1, <1>2, <1>3 DEF Tasks

LEMMA LastIsThere ==
  ASSUME PlanInv, NEW S \in SUBSET Defined, S /= {}
  PROVE  LastOf(S) \in S
<1> DEFINE R == {p \in Defined \X Defined : Before(p[2], p[1])}
<1>0. IsFiniteSet(Defined) /\ Defined \subseteq Nat
  BY PlanIsFinite
<1>1. \A i \in Defined : plan[i].risk \in Nat
  BY TaskOfPlan
<1>2. \A i, j \in Defined : <<i, j>> \in R <=>
        plan[j].risk > plan[i].risk \/ (plan[j].risk = plan[i].risk /\ j < i)
  BY DEF Before
<1> HIDE DEF R
<1>3. Orders(R, Defined)
  <2>1. ASSUME NEW x \in Defined, NEW y \in Defined
        PROVE  x = y \/ <<x, y>> \in R \/ <<y, x>> \in R
    <3>1. plan[x].risk \in Nat /\ plan[y].risk \in Nat /\ x \in Nat /\ y \in Nat
      BY <1>0, <1>1
    <3> QED BY <3>1, <1>2
  <2>2. ASSUME NEW x \in Defined, NEW y \in Defined, NEW z \in Defined,
               <<x, y>> \in R, <<y, z>> \in R
        PROVE  <<x, z>> \in R
    <3>1. /\ plan[x].risk \in Nat /\ plan[y].risk \in Nat /\ plan[z].risk \in Nat
          /\ x \in Nat /\ y \in Nat /\ z \in Nat
      BY <1>0, <1>1
    <3> QED BY <3>1, <2>2, <1>2
  <2> QED BY <2>1, <2>2 DEF Orders
<1>4. PICK x : IsFirst(R, S, x)
  BY <1>0, <1>3, FirstExists DEF HasFirst
<1>5. x \in S /\ \A y \in S \ {x} :
        plan[y].risk > plan[x].risk \/ (plan[y].risk = plan[x].risk /\ y < x)
  BY <1>2, <1>4 DEF IsFirst
<1> QED BY <1>5 DEF LastOf, Before

\* What has been taken so far: no file twice, no agent beyond its load, the load within
\* its concurrency.
With(assigned, a) == {i \in DOMAIN assigned : assigned[i] = a}

GoodBatch(b) ==
  /\ DOMAIN b.agent \subseteq Ready /\ Cardinality(DOMAIN b.agent) <= MaxParallel
  /\ \A i \in DOMAIN b.agent : b.agent[i] \in Agents /\ plan[i].files \subseteq b.occupied
  /\ \A i, j \in DOMAIN b.agent : i /= j => plan[i].files \cap plan[j].files = {}
  /\ \A a \in Agents : /\ Cardinality(With(b.agent, a)) <= b.load[a]
                       /\ b.load[a] <= Profile[a].limit
  /\ \A i \in DOMAIN b.agent : Profile[b.agent[i]].provider = "mock" =>
       \A a \in Agents : ~SemanticallyEligible(a, plan[i])

Assignments == UNION {[s -> Agents] : s \in SUBSET Ready}
BatchRecords == [agent : Assignments, occupied : SUBSET Files, load : [Agents -> Nat]]
GoodBatches == {b \in BatchRecords : GoodBatch(b)}

LEMMA NoBatchIsGood == NoBatch \in GoodBatches
<1> DEFINE f == [i \in {} |-> None]
<1>1. f \in [{} -> Agents] /\ DOMAIN f = {}
  OBVIOUS
<1>2. f \in Assignments
  BY <1>1 DEF Assignments
<1>3. NoLoad \in [Agents -> Nat] /\ \A a \in Agents : NoLoad[a] = 0
  BY DEF NoLoad
<1> HIDE DEF f
<1>4. /\ NoBatch.agent = f /\ NoBatch.occupied = {} /\ NoBatch.load = NoLoad
      /\ NoBatch = [agent |-> f, occupied |-> {}, load |-> NoLoad]
  BY DEF NoBatch, f
<1>5. NoBatch \in BatchRecords
  BY <1>2, <1>3, <1>4 DEF BatchRecords
<1>6. \A a \in Agents : With(f, a) = {}
  BY <1>1 DEF With
<1>7. Cardinality({}) = 0 /\ MaxParallel \in Nat
  BY FS_EmptySet, BoundsPositive
<1>8. \A a \in Agents : Profile[a].limit \in Nat
  BY AgentsConfigured
<1>9. ASSUME NEW a \in Agents
      PROVE  Cardinality(With(f, a)) <= NoLoad[a] /\ NoLoad[a] <= Profile[a].limit
  <2>1. Cardinality(With(f, a)) = 0 /\ NoLoad[a] = 0 /\ Profile[a].limit \in Nat
    BY <1>3, <1>6, <1>7, <1>8
  <2> QED BY <2>1
<1>10. Cardinality(DOMAIN f) <= MaxParallel
  BY <1>1, <1>7
<1>11. GoodBatch(NoBatch)
  BY <1>1, <1>4, <1>9, <1>10 DEF GoodBatch
<1> QED BY <1>5, <1>11 DEF GoodBatches

LEMMA TakeKeepsGood ==
  ASSUME PlanInv, NEW b \in GoodBatches, NEW i \in Ready, NEW doctor
  PROVE  TakeIntoBatch(b, i, doctor) \in GoodBatches
<1> DEFINE a == Route(plan[i], doctor, b.load)
           S == DOMAIN b.agent
           T == S \cup {i}
           assigned == [j \in T |-> IF j = i THEN a ELSE b.agent[j]]
           load == [b.load EXCEPT ![a] = @ + 1]
           c == [agent |-> assigned, occupied |-> b.occupied \cup plan[i].files,
                 load |-> load]
           full == \/ Cardinality(S) >= MaxParallel
                   \/ plan[i].files \cap b.occupied /= {} \/ a = None
<1>1. TakeIntoBatch(b, i, doctor) = IF full THEN b ELSE c
  BY DEF TakeIntoBatch
<1>2. CASE full
  BY <1>1, <1>2
<1>3. CASE ~full
  <2>0. /\ b.agent \in [S -> Agents] /\ S \subseteq Ready /\ b.occupied \subseteq Files
        /\ b.load \in [Agents -> Nat] /\ GoodBatch(b)
    BY DEF GoodBatches, BatchRecords, Assignments
  <2>1. /\ Cardinality(S) < MaxParallel /\ plan[i].files \cap b.occupied = {} /\ a /= None
        /\ IsFiniteSet(S) /\ Cardinality(S) \in Nat
    <3>1. IsFiniteSet(Ready)
      BY PlanIsFinite, FS_Subset DEF Ready
    <3>2. IsFiniteSet(S) /\ Cardinality(S) \in Nat
      BY <2>0, <3>1, FS_Subset, FS_CardinalityType
    <3> QED BY <1>3, <3>2, BoundsPositive
  <2>2. i \in Defined
    BY DEF Ready
  <2>3. plan[i].files \subseteq Files /\ IsFiniteSet(plan[i].caps)
    BY <2>2, TaskOfPlan
  <2>4. Routable(a, plan[i], b.load)
    BY <2>0, <2>1, <2>3, RouteIsSafe
  <2> HIDE DEF a
  <2>5. a \in Agents /\ b.load[a] < Profile[a].limit /\ Profile[a].limit \in Nat
    BY <2>4, AgentsConfigured DEF Routable
  <2>6. /\ assigned \in [T -> Agents] /\ DOMAIN assigned = T /\ T \subseteq Ready
        /\ assigned[i] = a /\ \A j \in T : j /= i => j \in S /\ assigned[j] = b.agent[j]
    BY <2>0, <2>5
  <2>7. /\ load \in [Agents -> Nat] /\ load[a] = b.load[a] + 1
        /\ \A x \in Agents : x /= a => load[x] = b.load[x]
    BY <2>0, <2>5
  <2>8. /\ c.agent = assigned /\ c.occupied = b.occupied \cup plan[i].files /\ c.load = load
        /\ c \in BatchRecords
    <3>1. assigned \in Assignments
      BY <2>6 DEF Assignments
    <3>2. b.occupied \cup plan[i].files \in SUBSET Files
      BY <2>0, <2>3
    <3> HIDE DEF assigned, load
    <3> QED BY <3>1, <3>2, <2>7 DEF BatchRecords
  <2> HIDE DEF c, assigned, load, T
  <2>9. Cardinality(T) <= MaxParallel
    <3>1. Cardinality(T) = Cardinality(S) \/ Cardinality(T) = Cardinality(S) + 1
      BY <2>1, FS_AddElement DEF T
    <3> QED BY <2>1, <3>1, BoundsPositive
  <2>10. \A j \in T : c.agent[j] \in Agents /\ plan[j].files \subseteq c.occupied
    BY <2>0, <2>5, <2>6, <2>8 DEF GoodBatch
  <2>11. \A j, k \in T : j /= k => plan[j].files \cap plan[k].files = {}
    <3>1. \A j \in S : plan[j].files \cap plan[i].files = {}
      BY <2>0, <2>1 DEF GoodBatch
    <3> QED BY <2>0, <2>6, <3>1 DEF GoodBatch
  <2>12. ASSUME NEW x \in Agents
         PROVE  Cardinality(With(c.agent, x)) <= c.load[x] /\ c.load[x] <= Profile[x].limit
    <3>1. /\ Cardinality(With(b.agent, x)) <= b.load[x] /\ b.load[x] <= Profile[x].limit
          /\ b.load[x] \in Nat /\ IsFiniteSet(With(b.agent, x))
      <4>1. With(b.agent, x) \in SUBSET S
        BY DEF With
      <4> QED BY <2>0, <2>1, <4>1, FS_Subset DEF GoodBatch
    <3>2. Cardinality(With(b.agent, x)) \in Nat
      BY <3>1, FS_CardinalityType
    <3>3. CASE x = a
      <4>1. With(c.agent, x) \subseteq With(b.agent, x) \cup {i}
        BY <2>6, <2>8 DEF With
      <4>2. /\ IsFiniteSet(With(b.agent, x) \cup {i})
            /\ Cardinality(With(b.agent, x) \cup {i}) <= Cardinality(With(b.agent, x)) + 1
        <5> DEFINE W == With(b.agent, x)
        <5>1. IsFiniteSet(W) /\ Cardinality(W) \in Nat
          BY <3>1, <3>2
        <5> HIDE DEF W
        <5>2. /\ IsFiniteSet(W \cup {i})
              /\ \/ Cardinality(W \cup {i}) = Cardinality(W)
                 \/ Cardinality(W \cup {i}) = Cardinality(W) + 1
          BY <5>1, FS_AddElement
        <5>3. IsFiniteSet(W \cup {i}) /\ Cardinality(W \cup {i}) <= Cardinality(W) + 1
          BY <5>1, <5>2
        <5> QED BY <5>3 DEF W
      <4>3. Cardinality(With(c.agent, x)) <= Cardinality(With(b.agent, x) \cup {i})
        BY <4>1, <4>2, FS_Subset
      <4>4. /\ Cardinality(With(c.agent, x)) \in Nat
            /\ Cardinality(With(b.agent, x) \cup {i}) \in Nat
        BY <4>1, <4>2, FS_Subset, FS_CardinalityType
      <4> QED BY <2>5, <2>7, <2>8, <3>1, <3>2, <3>3, <4>2, <4>3, <4>4
    <3>4. CASE x /= a
      <4>1. With(c.agent, x) \subseteq With(b.agent, x)
        BY <2>6, <2>8, <3>4 DEF With
      <4>2. Cardinality(With(c.agent, x)) <= Cardinality(With(b.agent, x))
            /\ Cardinality(With(c.agent, x)) \in Nat
        BY <3>1, <4>1, FS_Subset, FS_CardinalityType
      <4> QED BY <2>7, <2>8, <3>1, <3>2, <3>4, <4>2
    <3> QED BY <3>3, <3>4
  <2>13. ASSUME NEW j \in T, Profile[c.agent[j]].provider = "mock", NEW x \in Agents
         PROVE  ~SemanticallyEligible(x, plan[j])
    <3>1. CASE j = i
      BY <2>4, <2>6, <2>8, <2>13, <3>1 DEF Routable
    <3>2. CASE j /= i
      BY <2>0, <2>6, <2>8, <2>13, <3>2 DEF GoodBatch
    <3> QED BY <3>1, <3>2
  <2>14. GoodBatch(c)
    <3>1. DOMAIN c.agent = T
      BY <2>6, <2>8
    <3> QED BY <3>1, <2>6, <2>9, <2>10, <2>11, <2>12, <2>13 DEF GoodBatch
  <2> QED BY <1>1, <1>3, <2>8, <2>14 DEF GoodBatches
<1> QED BY <1>2, <1>3

\* The loop's partial results, as MapThenFoldSet defines them.
Takes(h, doctor) ==
  h = [s \in SUBSET Ready |->
         IF s = {} THEN NoBatch
         ELSE TakeIntoBatch(h[s \ {LastOf(s)}], LastOf(s), doctor)]

LEMMA BatchIsGood ==
  ASSUME PlanInv, NEW doctor
  PROVE  Batch(doctor) \in GoodBatches
<1> DEFINE D == Ready
           R == GoodBatches
           take(b, i) == TakeIntoBatch(b, i, doctor)
           step == [p \in R \X D |-> take(p[1], p[2])]
           pick == [s \in SUBSET D |-> LastOf(s)]
<1>1. ASSUME NEW b \in R, NEW i \in D
      PROVE  take(b, i) \in R
  BY TakeKeepsGood
<1> HIDE DEF take
<1>2. step \in [R \X D -> R]
  BY <1>1
<1>3. NoBatch \in R
  BY NoBatchIsGood
<1>4. IsFiniteSet(D) /\ D \subseteq Defined
  BY PlanIsFinite, FS_Subset DEF Ready
<1>5. \A s \in SUBSET D : s /= {} => LastOf(s) \in s /\ pick[s] = LastOf(s)
  BY <1>4, LastIsThere
<1>6. PICK g \in [SUBSET D -> R] : IsFold(g, D, NoBatch, step, pick)
  <2>1. Picks(pick, D)
    BY <1>5 DEF Picks
  <2> HIDE DEF step, pick, R, D
  <2> QED BY <1>2, <1>3, <1>4, <2>1, FoldExists
<1>7. ASSUME NEW s \in SUBSET D
      PROVE  g[s] = IF s = {} THEN NoBatch ELSE take(g[s \ {LastOf(s)}], LastOf(s))
  <2>1. CASE s = {}
    BY <2>1, <1>6 DEF IsFold
  <2>2. CASE s /= {}
    <3>1. LastOf(s) \in D /\ pick[s] = LastOf(s)
      BY <2>2, <1>5
    <3>2. g[s \ {LastOf(s)}] \in R
      OBVIOUS
    <3>3. step[<<g[s \ {LastOf(s)}], LastOf(s)>>] = take(g[s \ {LastOf(s)}], LastOf(s))
      <4> HIDE DEF R, D
      <4> QED BY <3>1, <3>2
    <3> HIDE DEF step, pick
    <3>4. g[s] = step[<<g[s \ {pick[s]}], pick[s]>>]
      BY <1>6, <2>2 DEF IsFold
    <3> QED BY <3>1, <3>3, <3>4, <2>2
  <2> QED BY <2>1, <2>2
<1> DEFINE iter == CHOOSE h : Takes(h, doctor)
<1>8. Takes(g, doctor)
  BY <1>7 DEF Takes, take
<1>9. Takes(iter, doctor)
  BY <1>8
<1>10. Batch(doctor) = iter[D]
  BY DEF Batch, MapThenFoldSet, Takes
<1>11. iter[D] \in R
  <2> DEFINE F == {s \in SUBSET D : iter[s] \in R}
  <2> HIDE DEF iter, R
  <2>1. {} \in F
    BY <1>9, <1>3 DEF Takes
  <2>2. ASSUME NEW s \in SUBSET D, s /= {}, s \ {LastOf(s)} \in F
        PROVE  s \in F
    <3>1. iter[s] = take(iter[s \ {LastOf(s)}], LastOf(s))
      BY <1>9, <2>2 DEF Takes, take
    <3>2. LastOf(s) \in D
      BY <1>5, <2>2
    <3>3. iter[s \ {LastOf(s)}] \in R
      BY <2>2
    <3> HIDE DEF D
    <3>4. iter[s] \in R
      BY <3>1, <3>2, <3>3, <1>1
    <3> QED BY <3>4
  <2>3. Grows(F, D)
    <3> HIDE DEF F
    <3> QED BY <2>2, <1>5 DEF Grows
  <2>4. SUBSET D \subseteq F
    <3> HIDE DEF F
    <3> QED BY <2>1, <2>3, <1>4, EverySubset
  <2> QED BY <2>4
<1> QED BY <1>10, <1>11

(***************************************************************************)
(* Runs                                                                    *)
(***************************************************************************)

LEMMA NoRunTyped == NoRun \in RunRecords /\ NoRun.at = "none"
<1>1. EmptyPacket(0) \in PacketRecords
  BY DEF EmptyPacket, PacketRecords
<1> QED BY <1>1 DEF NoRun, RunRecords

\* A run that has noticed more events, and more drift.
Heard(r, relevant, touched, drift) ==
  [r EXCEPT !.relevant = @ + relevant, !.touched = @ + touched, !.drift = @ + drift]

Hears(q, r, a, b, c) ==
  /\ q.at = r.at /\ q.agent = r.agent /\ q.packet = r.packet
  /\ q.relevant = r.relevant + a /\ q.touched = r.touched + b /\ q.drift = r.drift + c

LEMMA HeardTyped ==
  ASSUME NEW r \in RunRecords, NEW a \in Nat, NEW b \in Nat, NEW c \in Nat
  PROVE  LET q == Heard(r, a, b, c)
         IN q \in RunRecords /\ Hears(q, r, a, b, c)
<1> DEFINE q == Heard(r, a, b, c)
<1>0. r = [at |-> r.at, agent |-> r.agent, packet |-> r.packet,
           relevant |-> r.relevant, touched |-> r.touched, drift |-> r.drift]
  BY DEF RunRecords
<1>1. /\ q.at = r.at /\ q.agent = r.agent /\ q.packet = r.packet
      /\ q.relevant = r.relevant + a /\ q.touched = r.touched + b /\ q.drift = r.drift + c
      /\ q = [at |-> q.at, agent |-> q.agent, packet |-> q.packet,
              relevant |-> q.relevant, touched |-> q.touched, drift |-> q.drift]
  <2> DEFINE x == r.relevant + a
             y == r.touched + b
             z == r.drift + c
  <2>1. q = [r EXCEPT !.relevant = x, !.touched = y, !.drift = z]
    BY DEF Heard
  <2> HIDE DEF q, x, y, z
  <2>2. q = [at |-> r.at, agent |-> r.agent, packet |-> r.packet,
             relevant |-> x, touched |-> y, drift |-> z]
    BY <1>0, <2>1
  <2> QED BY <2>2 DEF x, y, z
<1>2. /\ r.relevant + a \in Nat /\ r.touched + b \in Nat /\ r.drift + c \in Nat
      /\ r.at \in {"none", "routed", "working", "landed", "stale"}
      /\ r.agent \in Agents \cup {None} /\ r.packet \in PacketRecords
  BY DEF RunRecords
<1> HIDE DEF q
<1>3. q \in RunRecords
  BY <1>1, <1>2 DEF RunRecords
<1>4. Hears(q, r, a, b, c)
  BY <1>1 DEF Hears
<1> QED BY <1>3, <1>4 DEF q

\* What an event is to a working run of an agent.
Counted(event, i, agent) == Relevant(event, i, agent, Deps(i), plan[i].files)
Touching(event, i) == IF event.task \in Deps(i) THEN 1 ELSE 0

LEMMA CountsAreNumbers ==
  ASSUME NEW event, NEW i, NEW agent
  PROVE  Counted(event, i, agent) \in Nat /\ Touching(event, i) \in Nat
BY DEF Counted, Touching, Relevant

\* No event of another task is left out: what touches a dependency counts.
LEMMA TouchingCounts ==
  ASSUME NEW event, NEW i, NEW agent, event.task \in Deps(i) => event.task /= i
  PROVE  Counted(event, i, agent) >= Touching(event, i)
BY DEF Counted, Touching, Relevant

LEMMA NotedRuns ==
  ASSUME NEW runs \in [Tasks -> RunRecords], NEW event, NEW i \in Tasks
  PROVE  /\ runs[i].at /= "working" => Noted(runs, event)[i] = runs[i]
         /\ runs[i].at = "working" =>
              Noted(runs, event)[i] = Heard(runs[i], Counted(event, i, runs[i].agent), Touching(event, i), 0)
<1>1. Noted(runs, event)[i] =
        IF runs[i].at /= "working" THEN runs[i]
        ELSE [runs[i] EXCEPT !.relevant = @ + Counted(event, i, runs[i].agent),
                             !.touched  = @ + Touching(event, i)]
  BY DEF Noted, Counted, Touching
<1>2. runs[i] \in RunRecords /\ runs[i].drift \in Nat
  BY DEF RunRecords
<1>3. Counted(event, i, runs[i].agent) \in Nat /\ Touching(event, i) \in Nat
  BY CountsAreNumbers
<1> DEFINE r == runs[i]
           a == Counted(event, i, runs[i].agent)
           b == Touching(event, i)
<1>4. [r EXCEPT !.relevant = @ + a, !.touched = @ + b] = Heard(r, a, b, 0)
  <2>1. r \in RunRecords /\ r.drift + 0 = r.drift
    BY <1>2
  <2> HIDE DEF r, a, b
  <2> QED BY <2>1 DEF Heard, RunRecords
<1> QED BY <1>1, <1>4

LEMMA NotedTyped ==
  ASSUME NEW runs \in [Tasks -> RunRecords], NEW event
  PROVE  Noted(runs, event) \in [Tasks -> RunRecords]
<1>1. ASSUME NEW i \in Tasks PROVE Noted(runs, event)[i] \in RunRecords
  <2>1. CASE runs[i].at /= "working"
    BY <2>1, NotedRuns
  <2>2. CASE runs[i].at = "working"
    <3> DEFINE a == Counted(event, i, runs[i].agent)
               b == Touching(event, i)
               zero == 0
    <3>1. a \in Nat /\ b \in Nat /\ zero \in Nat /\ runs[i] \in RunRecords
      BY CountsAreNumbers
    <3>2. Noted(runs, event)[i] = Heard(runs[i], a, b, zero)
      BY <2>2, NotedRuns
    <3> HIDE DEF a, b, zero
    <3>3. Heard(runs[i], a, b, zero) \in RunRecords
      BY <3>1, HeardTyped
    <3> QED BY <3>2, <3>3
  <2> QED BY <2>1, <2>2
<1>2. Noted(runs, event) = [i \in Tasks |-> Noted(runs, event)[i]]
  BY DEF Noted
<1> DEFINE f == Noted(runs, event)
<1> HIDE DEF f
<1> QED BY <1>1, <1>2 DEF f

LEMMA DriftedRuns ==
  ASSUME NEW runs \in [Tasks -> RunRecords]
  PROVE  /\ Drifted(runs) \in [Tasks -> RunRecords]
         /\ \A i \in Tasks :
              /\ runs[i].at /= "working" => Drifted(runs)[i] = runs[i]
              /\ runs[i].at = "working" => Drifted(runs)[i] = Heard(runs[i], 0, 0, 1)
<1>1. ASSUME NEW r \in RunRecords
      PROVE  [r EXCEPT !.drift = @ + 1] = Heard(r, 0, 0, 1)
  <2>1. r.relevant + 0 = r.relevant /\ r.touched + 0 = r.touched
    BY DEF RunRecords
  <2> QED BY <2>1 DEF Heard, RunRecords
<1>2. ASSUME NEW i \in Tasks
      PROVE  /\ runs[i].at /= "working" => Drifted(runs)[i] = runs[i]
             /\ runs[i].at = "working" => Drifted(runs)[i] = Heard(runs[i], 0, 0, 1)
             /\ Drifted(runs)[i] \in RunRecords
  <2>1. Drifted(runs)[i] =
          IF runs[i].at = "working" THEN [runs[i] EXCEPT !.drift = @ + 1] ELSE runs[i]
    BY DEF Drifted
  <2>2. runs[i] \in RunRecords
    OBVIOUS
  <2>3. 0 \in Nat /\ 1 \in Nat
    OBVIOUS
  <2>4. Heard(runs[i], 0, 0, 1) \in RunRecords
    BY <2>2, <2>3, HeardTyped
  <2> QED BY <1>1, <2>1, <2>2, <2>4
<1>3. Drifted(runs) = [i \in Tasks |-> Drifted(runs)[i]]
  BY DEF Drifted
<1> DEFINE f == Drifted(runs)
<1> HIDE DEF f
<1>4. f \in [Tasks -> RunRecords]
  BY <1>2, <1>3 DEF f
<1> QED BY <1>2, <1>4 DEF f

\* What others do: working runs hear of it, and drift.
Shaken(runs, event) == Drifted(Noted(runs, event))

LEMMA ShakenRuns ==
  ASSUME NEW runs \in [Tasks -> RunRecords], NEW event
  PROVE  /\ Shaken(runs, event) \in [Tasks -> RunRecords]
         /\ \A i \in Tasks :
              /\ runs[i].at /= "working" => Shaken(runs, event)[i] = runs[i]
              /\ runs[i].at = "working" =>
                   Shaken(runs, event)[i] =
                     Heard(runs[i], Counted(event, i, runs[i].agent), Touching(event, i), 1)
<1> DEFINE mid == Noted(runs, event)
<1>1. mid \in [Tasks -> RunRecords]
  BY NotedTyped
<1>2. /\ Drifted(mid) \in [Tasks -> RunRecords]
      /\ \A i \in Tasks :
           /\ mid[i].at /= "working" => Drifted(mid)[i] = mid[i]
           /\ mid[i].at = "working" => Drifted(mid)[i] = Heard(mid[i], 0, 0, 1)
  <2> HIDE DEF mid
  <2> QED BY <1>1, DriftedRuns
<1>3. ASSUME NEW i \in Tasks, runs[i].at /= "working"
      PROVE  Drifted(mid)[i] = runs[i]
  <2>1. mid[i] = runs[i]
    BY <1>3, NotedRuns
  <2> QED BY <1>2, <1>3, <2>1
<1>4. ASSUME NEW i \in Tasks, runs[i].at = "working"
      PROVE  Drifted(mid)[i] = Heard(runs[i], Counted(event, i, runs[i].agent), Touching(event, i), 1)
  <2> DEFINE r == runs[i]
             a == Counted(event, i, runs[i].agent)
             b == Touching(event, i)
  <2>1. mid[i] = Heard(r, a, b, 0) /\ r \in RunRecords /\ r.at = "working"
    BY <1>4, NotedRuns
  <2>2. a \in Nat /\ b \in Nat /\ 0 \in Nat
    BY CountsAreNumbers
  <2> HIDE DEF mid, r, a, b
  <2>3. mid[i].at = "working"
    <3> DEFINE zero == 0
    <3>1. zero \in Nat /\ mid[i] = Heard(r, a, b, zero)
      BY <2>1
    <3> HIDE DEF zero
    <3>2. Hears(Heard(r, a, b, zero), r, a, b, zero)
      BY <2>1, <2>2, <3>1, HeardTyped
    <3> QED BY <2>1, <3>1, <3>2 DEF Hears
  <2>4. Drifted(mid)[i] = Heard(Heard(r, a, b, 0), 0, 0, 1)
    BY <1>2, <2>1, <2>3
  <2>5. Heard(Heard(r, a, b, 0), 0, 0, 1) = Heard(r, a, b, 1)
    <3>1. /\ (r.relevant + a) + 0 = r.relevant + a /\ (r.touched + b) + 0 = r.touched + b
          /\ (r.drift + 0) + 1 = r.drift + 1
      BY <2>1, <2>2 DEF RunRecords
    <3> QED BY <2>1, <3>1 DEF Heard, RunRecords
  <2> QED BY <2>4, <2>5 DEF r, a, b
<1> QED BY <1>2, <1>3, <1>4 DEF Shaken

LEMMA HeardNothing ==
  ASSUME NEW r \in RunRecords
  PROVE  Heard(r, 0, 0, 0) = r
<1>1. r.relevant + 0 = r.relevant /\ r.touched + 0 = r.touched /\ r.drift + 0 = r.drift
  BY DEF RunRecords
<1> QED BY <1>1 DEF Heard, RunRecords

\* The rest of the runs when one event is noted, or somebody acts.
LEMMA ShakenHears ==
  ASSUME NEW runs \in [Tasks -> RunRecords], NEW event, NEW i \in Tasks,
         runs[i].at = "working"
  PROVE  Hears(Shaken(runs, event)[i], runs[i], Counted(event, i, runs[i].agent), Touching(event, i), 1)
<1> DEFINE a == Counted(event, i, runs[i].agent)
           b == Touching(event, i)
           one == 1
<1>1. a \in Nat /\ b \in Nat /\ one \in Nat /\ runs[i] \in RunRecords
  BY CountsAreNumbers
<1>2. Shaken(runs, event)[i] = Heard(runs[i], a, b, one)
  BY ShakenRuns
<1> HIDE DEF a, b, one
<1>3. Hears(Heard(runs[i], a, b, one), runs[i], a, b, one)
  BY <1>1, HeardTyped
<1> QED BY <1>2, <1>3 DEF a, b, one

LEMMA DriftedHears ==
  ASSUME NEW runs \in [Tasks -> RunRecords], NEW i \in Tasks, runs[i].at = "working"
  PROVE  Hears(Drifted(runs)[i], runs[i], 0, 0, 1)
<1> DEFINE zero == 0
           one == 1
<1>1. zero \in Nat /\ one \in Nat /\ runs[i] \in RunRecords
  OBVIOUS
<1>2. Drifted(runs)[i] = Heard(runs[i], zero, zero, one)
  BY DriftedRuns
<1> HIDE DEF zero, one
<1>3. Hears(Heard(runs[i], zero, zero, one), runs[i], zero, zero, one)
  BY <1>1, HeardTyped
<1> QED BY <1>2, <1>3 DEF zero, one

\* A run's packet as it is compiled.
Served(p, i) ==
  /\ p \in PacketRecords /\ IsFiniteSet(p.memories) /\ p.disputed \subseteq p.memories
  /\ InForce(p)
  /\ \E authoritative \in Authoritative :
       Packed_(p, authoritative, plan[i].risk, TokenBudget)

LEMMA AsRevisedTyped ==
  ASSUME Types, NEW found \in Seq(Memory)
  PROVE  AsRevised(found) \in Seq(Memory) /\ InDoubt(AsRevised(found), revised.disputed)
<1> DEFINE doubted == revised.disputed
           now(m) == IF m.id \in doubted THEN [m EXCEPT !.status = "disputed"] ELSE m
<1>1. ASSUME NEW m \in Memory
      PROVE  now(m) \in Memory /\ now(m).id = m.id
             /\ (m.id \in doubted => now(m).status = "disputed")
  <2> HIDE DEF doubted
  <2> QED BY DEF Memory
<1> HIDE DEF now, doubted
<1>2. AsRevised(found) = [k \in 1..Len(found) |-> now(found[k])]
  BY DEF AsRevised, now, doubted
<1>3. \A k \in 1..Len(found) : found[k] \in Memory
  OBVIOUS
<1>4. \A k \in 1..Len(found) : now(found[k]) \in Memory
  BY <1>1, <1>3
<1>5. AsRevised(found) \in Seq(Memory)
  BY <1>2, <1>4
<1>6. \A k \in DOMAIN AsRevised(found) :
        AsRevised(found)[k].id \in doubted => AsRevised(found)[k].status = "disputed"
  BY <1>1, <1>2, <1>3
<1> QED BY <1>5, <1>6 DEF InDoubt, doubted

LEMMA CompiledServes ==
  ASSUME PlanInv, Types, NEW i \in Defined, NEW authoritative \in Authoritative,
         authoritative <= TokenBudget, NEW found \in Retrievals,
         NEW missed \in SUBSET revised.disputed
  PROVE  Served(Compile(authoritative, AsRevised(found), revised.superseded \cup missed,
                        SourceSizes, plan[i].risk, TokenBudget, 1), i)
<1> DEFINE risk == plan[i].risk
           one == 1
           gone == revised.superseded \cup missed
           doubted == revised.disputed
           now == AsRevised(found)
           p == Compile(authoritative, now, gone, SourceSizes, risk, TokenBudget, one)
<1>1. /\ TokenBudget \in Nat /\ authoritative \in Nat /\ risk \in Nat /\ found \in Seq(Memory)
      /\ SourceSizes \in Seq(Nat)
  BY BoundsPositive, InputsKnown, TaskOfPlan
<1>2. now \in Seq(Memory) /\ InDoubt(now, doubted)
  BY <1>1, AsRevisedTyped
<1>3. Meets(p, authoritative, gone, doubted, risk, TokenBudget)
  <2> HIDE DEF risk, one, gone, doubted, now
  <2> QED BY <1>1, <1>2, CompiledFits
<1> HIDE DEF p
<1>4. InForce(p)
  BY <1>3 DEF InForce, Meets
<1>5. Served(p, i)
  BY <1>3, <1>4 DEF Served, Meets
<1> QED BY <1>5 DEF p

Starting(r, p) == [r EXCEPT !.at = "working", !.packet = p]

LEMMA StartingTyped ==
  ASSUME NEW r \in RunRecords, NEW p \in PacketRecords
  PROVE  LET q == Starting(r, p)
         IN /\ q \in RunRecords /\ q.at = "working" /\ q.agent = r.agent /\ q.packet = p
            /\ q.relevant = r.relevant /\ q.touched = r.touched /\ q.drift = r.drift
BY DEF Starting, RunRecords

\* A run begins: its own event is the only one it has noticed, and nobody else's run
\* notices it, for what waits for this task has not begun.
Begins(i, p) ==
  /\ i \in Defined /\ run[i].at = "routed" /\ Served(p, i)
  /\ run' \in [Tasks -> RunRecords]
  /\ run'[i].at = "working" /\ run'[i].agent = run[i].agent /\ run'[i].packet = p
  /\ run'[i].relevant = 1 /\ run'[i].touched = 0 /\ run'[i].drift = 0
  /\ \A j \in Tasks \ {i} : run'[j] = run[j]

LEMMA StartBegins ==
  ASSUME DispatchInv, NEW i \in Tasks, Start(i)
  PROVE  \E p : Begins(i, p)
<1> DEFINE event == Event("context.policy_measured", None, i, NoFiles)
<1>0. PlanInv /\ Types /\ Ordered /\ Watched
  BY DEF DispatchInv
<1>1. run[i].at = "routed" /\ i \in Routed /\ i \in Defined /\ status[i] = "ready"
  BY <1>0 DEF Start, Routed, Ordered
<1>2. PICK authoritative \in Authoritative, found \in Retrievals,
           missed \in SUBSET revised.disputed :
        /\ authoritative <= TokenBudget
        /\ run' = Noted([run EXCEPT ![i].at = "working",
                           ![i].packet = Compile(authoritative, AsRevised(found),
                                                 revised.superseded \cup missed, SourceSizes,
                                                 plan[i].risk, TokenBudget, 1)], event)
  BY DEF Start
<1> DEFINE p == Compile(authoritative, AsRevised(found), revised.superseded \cup missed,
                        SourceSizes, plan[i].risk, TokenBudget, 1)
           r == [run[i] EXCEPT !.at = "working", !.packet = p]
           runs == [run EXCEPT ![i] = r]
<1>3. Served(p, i)
  BY <1>0, <1>1, <1>2, CompiledServes
<1>4. run \in [Tasks -> RunRecords] /\ run[i] \in RunRecords
  BY <1>0 DEF Types
<1>5. run' = Noted(runs, event)
  BY <1>2, <1>4
<1> HIDE DEF p
<1>6. /\ r \in RunRecords /\ r.at = "working" /\ r.agent = run[i].agent /\ r.packet = p
      /\ r.relevant = 0 /\ r.touched = 0 /\ r.drift = 0
  <2>1. run[i].relevant = 0 /\ run[i].touched = 0 /\ run[i].drift = 0
    BY <1>0, <1>1 DEF Watched
  <2>2. p \in PacketRecords
    BY <1>3 DEF Served
  <2>3. r = Starting(run[i], p)
    BY DEF Starting
  <2> HIDE DEF r
  <2>4. /\ r \in RunRecords /\ r.at = "working" /\ r.agent = run[i].agent /\ r.packet = p
        /\ r.relevant = run[i].relevant /\ r.touched = run[i].touched
        /\ r.drift = run[i].drift
    BY <1>4, <2>2, <2>3, StartingTyped
  <2> QED BY <2>1, <2>4
<1> HIDE DEF r
<1>7. /\ runs \in [Tasks -> RunRecords] /\ runs[i] = r
      /\ \A j \in Tasks \ {i} : runs[j] = run[j]
  BY <1>4, <1>6
<1> HIDE DEF runs
<1>8. event.kind \notin OwnExecution /\ event.task = i /\ event.files = {}
      /\ event.kind /= "project.constraint_added" /\ event.actor = None
  BY DEF Event, NoFiles, OwnExecution
<1> HIDE DEF event
<1>9. Counted(event, i, r.agent) = 1 /\ Touching(event, i) = 0
  <2>1. i \notin Deps(i)
    <3>1. Deps(i) \subseteq 1..(i - 1) /\ i \in Nat
      BY <1>0, <1>1, DepsAreEarlier, PlanIsFinite
    <3> QED BY <3>1
  <2>2. r.agent /= None
    BY <1>0, <1>1, <1>6, AgentsConfigured DEF DispatchInv, Selected, Under
  <2> QED BY <1>8, <2>1, <2>2 DEF Counted, Touching, Relevant
<1>10. ASSUME NEW j \in Tasks \ {i} PROVE run'[j] = run[j]
  <2>1. CASE run[j].at /= "working"
    BY <2>1, <1>5, <1>7, NotedRuns
  <2>2. CASE run[j].at = "working"
    <3>1. j \in Working /\ status[j] = "dispatched" /\ j \in Defined
      BY <2>2, <1>0 DEF Working, Ordered
    <3>2. i \notin Deps(j)
      BY <3>1, <1>0, <1>1 DEF Ordered
    <3>3. Counted(event, j, run[j].agent) = 0 /\ Touching(event, j) = 0
      BY <1>8, <3>2 DEF Counted, Touching, Relevant
    <3>4. run'[j] = Heard(run[j], 0, 0, 0)
      BY <1>5, <1>7, <2>2, <3>3, NotedRuns
    <3> QED BY <3>4, <1>4, HeardNothing
  <2> QED BY <2>1, <2>2
<1>11. Hears(run'[i], r, 1, 0, 0)
  <2> DEFINE one == 1
             zero == 0
  <2>1. run'[i] = Heard(r, one, zero, zero)
    BY <1>5, <1>6, <1>7, <1>9, NotedRuns
  <2>2. one \in Nat /\ zero \in Nat
    OBVIOUS
  <2> HIDE DEF one, zero
  <2>3. Hears(Heard(r, one, zero, zero), r, one, zero, zero)
    BY <1>6, <2>2, HeardTyped
  <2> QED BY <2>1, <2>3 DEF one, zero
<1>12. run' \in [Tasks -> RunRecords]
  BY <1>5, <1>7, NotedTyped
<1>13. /\ run'[i].at = "working" /\ run'[i].agent = run[i].agent /\ run'[i].packet = p
       /\ run'[i].relevant = 1 /\ run'[i].touched = 0 /\ run'[i].drift = 0
  BY <1>6, <1>11 DEF Hears
<1> QED BY <1>1, <1>3, <1>10, <1>12, <1>13 DEF Begins

\* A batch is chosen: its tasks are routed, every other run is over.
Chooses(b) ==
  /\ run' \in [Tasks -> RunRecords] /\ DOMAIN b.agent \subseteq Tasks
  /\ \A i \in DOMAIN b.agent :
       /\ run'[i].at = "routed" /\ run'[i].agent = b.agent[i]
       /\ run'[i].relevant = 0 /\ run'[i].touched = 0 /\ run'[i].drift = 0
  /\ \A i \in Tasks \ DOMAIN b.agent : run'[i].at = "none"

Directed(r, a) == [r EXCEPT !.at = "routed", !.agent = a]

LEMMA DirectedTyped ==
  ASSUME NEW r \in RunRecords, NEW a \in Agents
  PROVE  LET q == Directed(r, a)
         IN /\ q \in RunRecords /\ q.at = "routed" /\ q.agent = a
            /\ q.relevant = r.relevant /\ q.touched = r.touched /\ q.drift = r.drift
BY DEF Directed, RunRecords

RoutedTo(a) == Directed(NoRun, a)

LEMMA RoutedToTyped ==
  ASSUME NEW a \in Agents
  PROVE  LET r == RoutedTo(a)
         IN /\ r \in RunRecords /\ r.at = "routed" /\ r.agent = a
            /\ r.relevant = 0 /\ r.touched = 0 /\ r.drift = 0
<1>1. NoRun.relevant = 0 /\ NoRun.touched = 0 /\ NoRun.drift = 0
  BY DEF NoRun
<1> QED BY <1>1, NoRunTyped, DirectedTyped DEF RoutedTo

LEMMA SelectChooses ==
  ASSUME PlanInv, SelectBatch
  PROVE  \E b \in GoodBatches : Chooses(b)
<1>1. PICK found \in SUBSET RealProviders, authenticated \in SUBSET RealProviders :
        LET doctor == [a \in Agents |-> Doctor(Profile[a], found, authenticated)]
        IN run' = [i \in Tasks |->
                     IF i \in DOMAIN Batch(doctor).agent THEN RoutedTo(Batch(doctor).agent[i])
                     ELSE NoRun]
  BY DEF SelectBatch, RoutedTo, Directed
<1> DEFINE doctor == [a \in Agents |-> Doctor(Profile[a], found, authenticated)]
           b == Batch(doctor)
<1>2. b \in GoodBatches
  BY BatchIsGood
<1>3. run' = [i \in Tasks |-> IF i \in DOMAIN b.agent THEN RoutedTo(b.agent[i]) ELSE NoRun]
  BY <1>1
<1> HIDE DEF b
<1>4. DOMAIN b.agent \subseteq Tasks
  BY <1>2, PlanIsFinite DEF GoodBatches, GoodBatch, Ready
<1>5. \A i \in DOMAIN b.agent : b.agent[i] \in Agents
  BY <1>2 DEF GoodBatches, GoodBatch
<1>6. ASSUME NEW i \in DOMAIN b.agent
      PROVE  /\ run'[i] \in RunRecords /\ run'[i].at = "routed" /\ run'[i].agent = b.agent[i]
             /\ run'[i].relevant = 0 /\ run'[i].touched = 0 /\ run'[i].drift = 0
  <2> DEFINE a == b.agent[i]
  <2>1. run'[i] = RoutedTo(a) /\ a \in Agents
    BY <1>3, <1>4, <1>5
  <2> HIDE DEF a
  <2> QED BY <2>1, RoutedToTyped DEF a
<1>7. ASSUME NEW i \in Tasks \ DOMAIN b.agent
      PROVE  run'[i] \in RunRecords /\ run'[i].at = "none"
  <2>1. run'[i] = NoRun
    BY <1>3
  <2> QED BY <2>1, NoRunTyped
<1>8. run' \in [Tasks -> RunRecords]
  <2>1. \A i \in Tasks : run'[i] \in RunRecords
    BY <1>6, <1>7
  <2>2. run' = [i \in Tasks |-> run'[i]]
    BY <1>3
  <2> QED BY <2>1, <2>2
<1>9. Chooses(b)
  BY <1>4, <1>6, <1>7, <1>8 DEF Chooses
<1> QED BY <1>2, <1>9

\* A run is over.
Over(r) == r \in RunRecords /\ r.at \in {"none", "landed", "stale"}

Ends(i) ==
  /\ i \in Defined /\ run[i].at \in {"routed", "working"}
  /\ run' \in [Tasks -> RunRecords] /\ Over(run'[i])
  /\ \A j \in Tasks \ {i} : run'[j] = run[j]

\* The score of a run that has noticed what it should: what it lets pass was touched in no
\* dependency and disturbed at most twice, and what nobody disturbed is too stale only with
\* two memories disputed from the start.
LEMMA ScoreTells ==
  ASSUME Types, NEW i \in Tasks, Noticed(run[i])
  PROVE  /\ ~TooStale(Score(i)) =>
              /\ run[i].touched = 0
              /\ run[i].relevant + Cardinality(Superseded(i)) + Cardinality(Disputed(i)) <= 2
         /\ TooStale(Score(i)) =>
              run[i].drift > 0 \/ Cardinality(run[i].packet.disputed) >= 2
<1> DEFINE p == run[i].packet
           n == Cardinality(Superseded(i))
           d == Cardinality(Disputed(i))
           e == Cardinality(p.disputed)
           a == run[i].relevant
           b == run[i].touched
           c == run[i].drift
<1>1. a \in Nat /\ b \in Nat /\ c \in Nat
  BY DEF Types, RunRecords
<1>2. Superseded(i) = p.memories \cap revised.superseded
      /\ Disputed(i) = p.disputed \cup (p.memories \cap revised.disputed)
  BY DEF Superseded, Disputed
<1>3. IsFiniteSet(p.memories) /\ p.disputed \subseteq p.memories
  BY DEF Noticed
<1>4. n \in Nat /\ d \in Nat /\ e \in Nat
  <2> DEFINE S == Superseded(i)
             D == Disputed(i)
             E == p.disputed
  <2>1. S \subseteq p.memories /\ D \subseteq p.memories /\ E \subseteq p.memories
    BY <1>2, <1>3
  <2> HIDE DEF S, D, E, p
  <2>2. IsFiniteSet(S) /\ IsFiniteSet(D) /\ IsFiniteSet(E)
    BY <1>3, <2>1, FS_Subset
  <2>3. Cardinality(S) \in Nat /\ Cardinality(D) \in Nat /\ Cardinality(E) \in Nat
    BY <2>2, FS_CardinalityType
  <2> QED BY <2>3 DEF S, D, E
<1>5. a >= b + 1 /\ (c = 0 => a <= 1 /\ b = 0 /\ n = 0 /\ d = e)
  <2>1. a >= b + 1 /\ (c = 0 => a <= 1 /\ b = 0 /\ InForce(p))
    BY DEF Noticed
  <2>2. ASSUME InForce(p) PROVE Superseded(i) = {} /\ Disputed(i) = p.disputed
    BY <1>2, <2>2 DEF InForce
  <2>3. ASSUME c = 0 PROVE a <= 1 /\ b = 0 /\ n = 0 /\ d = e
    BY <2>1, <2>2, <2>3, FS_EmptySet
  <2> QED BY <2>1, <2>3
<1>6. TooStale(Score(i)) <=>
        (IF 3 * a + 4 * b + 5 * n + 4 * d < 10 THEN 3 * a + 4 * b + 5 * n + 4 * d ELSE 10) > 8
  BY DEF TooStale, Score, StalenessScore
<1> HIDE DEF p, n, d, e, a, b, c
<1>7. /\ ~TooStale(Score(i)) => b = 0 /\ a + n + d <= 2
      /\ TooStale(Score(i)) => c > 0 \/ e >= 2
  BY <1>1, <1>4, <1>5, <1>6
<1> QED BY <1>7 DEF p, n, d, e, a, b, c

\* The record of the verdict.
LEMMA VerdictIsOver ==
  ASSUME NEW verdict \in {"none", "landed", "stale"}
  PROVE  Over([NoRun EXCEPT !.at = verdict])
<1> DEFINE q == [NoRun EXCEPT !.at = verdict]
<1>1. NoRun \in RunRecords
  BY NoRunTyped
<1>2. q \in RunRecords /\ q.at = verdict
  BY <1>1 DEF RunRecords
<1> QED BY <1>2 DEF Over

LEMMA OneRunEnds ==
  ASSUME Types, NEW i \in Defined, i \in Tasks, run[i].at \in {"routed", "working"}, NEW r,
         Over(r), run' = [run EXCEPT ![i] = r]
  PROVE  Ends(i)
<1>1. r \in RunRecords /\ run \in [Tasks -> RunRecords]
  BY DEF Over, Types
<1>2. run' \in [Tasks -> RunRecords] /\ run'[i] = r /\ \A j \in Tasks \ {i} : run'[j] = run[j]
  BY <1>1
<1> QED BY <1>2 DEF Ends

LEMMA RunEnds ==
  ASSUME DispatchInv, NEW i \in Tasks,
         StartRefused(i) \/ ContextDoesNotFit(i) \/ AgentFails(i) \/ Reject(i) \/ Land(i)
  PROVE  Ends(i)
<1>0. Types /\ Ordered /\ Watched
  BY DEF DispatchInv
<1>1. run[i].at \in {"routed", "working"}
  BY DEF StartRefused, ContextDoesNotFit, AgentFails, Reject, Land
<1>2. i \in Defined
  BY <1>0, <1>1 DEF Ordered, Routed, Working
<1>3. Over(NoRun)
  BY NoRunTyped DEF Over
<1>4. CASE StartRefused(i) \/ ContextDoesNotFit(i) \/ AgentFails(i)
  <2>1. run' = [run EXCEPT ![i] = NoRun]
    BY <1>4 DEF StartRefused, ContextDoesNotFit, AgentFails
  <2> QED BY <2>1, <1>0, <1>1, <1>2, <1>3, OneRunEnds
<1>5. ASSUME NEW verdict \in {"none", "landed", "stale"},
             run' = [run EXCEPT ![i] = [NoRun EXCEPT !.at = verdict]]
      PROVE  Ends(i)
  <2> DEFINE r == [NoRun EXCEPT !.at = verdict]
  <2>1. Over(r) /\ run' = [run EXCEPT ![i] = r]
    BY <1>5, VerdictIsOver
  <2> HIDE DEF r
  <2> QED BY <2>1, <1>0, <1>1, <1>2, OneRunEnds
<1>6. CASE Reject(i)
  <2> DEFINE verdict == IF TooStale(Score(i)) THEN "stale" ELSE "none"
  <2>1. run' = [run EXCEPT ![i] = [NoRun EXCEPT !.at = verdict]]
    BY <1>6 DEF Reject
  <2>2. verdict \in {"none", "landed", "stale"}
    OBVIOUS
  <2> HIDE DEF verdict
  <2> QED BY <2>1, <2>2, <1>5
<1>7. CASE Land(i)
  BY <1>5, <1>7 DEF Land
<1> QED BY <1>4, <1>6, <1>7

\* Others act: every working run drifts, and what touches it is relevant to it.
Shakes(r, q) ==
  /\ q.at = r.at /\ q.agent = r.agent /\ q.packet = r.packet /\ q.drift = r.drift + 1
  /\ q.relevant - q.touched >= r.relevant - r.touched

OthersAct ==
  /\ run' \in [Tasks -> RunRecords]
  /\ \A i \in Tasks : IF run[i].at = "working" THEN Shakes(run[i], run'[i])
                      ELSE run'[i] = run[i]

LEMMA AppendsShake ==
  ASSUME PlanInv, Types, Ordered, SomeoneAppends
  PROVE  OthersAct
<1>1. PICK event : run' = Drifted(Noted(run, event))
  BY DEF SomeoneAppends
<1>2. run \in [Tasks -> RunRecords]
  BY DEF Types
<1>3. run' = Shaken(run, event)
  BY <1>1 DEF Shaken
<1>4. /\ run' \in [Tasks -> RunRecords]
      /\ \A i \in Tasks : run[i].at /= "working" => run'[i] = run[i]
  BY <1>2, <1>3, ShakenRuns
<1>5. ASSUME NEW i \in Tasks, run[i].at = "working"
      PROVE  Shakes(run[i], run'[i])
  <2> DEFINE r == run[i]
             q == run'[i]
             a == Counted(event, i, run[i].agent)
             b == Touching(event, i)
  <2>1. Hears(q, r, a, b, 1)
    BY <1>2, <1>3, <1>5, ShakenHears
  <2>2. a \in Nat /\ b \in Nat /\ r.relevant \in Nat /\ r.touched \in Nat
    BY <1>2, CountsAreNumbers DEF RunRecords
  <2>3. a >= b
    <3>1. i \in Defined
      BY <1>5 DEF Working, Ordered
    <3>2. Deps(i) \subseteq 1..(i - 1) /\ i \in Nat
      BY <3>1, DepsAreEarlier, PlanIsFinite
    <3>3. i \notin Deps(i)
      BY <3>2
    <3> QED BY <3>3, TouchingCounts
  <2> HIDE DEF a, b, r, q
  <2>4. Shakes(r, q)
    BY <2>1, <2>2, <2>3 DEF Hears, Shakes
  <2> QED BY <2>4 DEF r, q
<1> QED BY <1>4, <1>5 DEF OthersAct

LEMMA RevisesShake ==
  ASSUME Types, SomeoneRevises
  PROVE  OthersAct
<1>1. run' = Drifted(run) /\ run \in [Tasks -> RunRecords]
  BY DEF SomeoneRevises, Types
<1>2. /\ run' \in [Tasks -> RunRecords]
      /\ \A i \in Tasks : run[i].at /= "working" => run'[i] = run[i]
  BY <1>1, DriftedRuns
<1>3. ASSUME NEW i \in Tasks, run[i].at = "working"
      PROVE  Shakes(run[i], run'[i])
  <2> DEFINE r == run[i]
             q == run'[i]
  <2>1. Hears(q, r, 0, 0, 1)
    BY <1>1, <1>3, DriftedHears
  <2>2. r.relevant \in Nat /\ r.touched \in Nat
    BY <1>1 DEF RunRecords
  <2> HIDE DEF r, q
  <2>3. Shakes(r, q)
    BY <2>1, <2>2 DEF Hears, Shakes
  <2> QED BY <2>3 DEF r, q
<1> QED BY <1>2, <1>3 DEF OthersAct

(***************************************************************************)
(* Steps                                                                   *)
(***************************************************************************)

\* What a step does to the runs.
LEMMA BeginsSets ==
  ASSUME NEW i \in Tasks, NEW p, Begins(i, p)
  PROVE  Routed' = Routed \ {i} /\ Working' = Working \cup {i} /\ i \in Routed
BY DEF Begins, Routed, Working

LEMMA EndsSets ==
  ASSUME NEW i \in Tasks, Ends(i)
  PROVE  Routed' = Routed \ {i} /\ Working' = Working \ {i} /\ i \in Under
BY DEF Ends, Over, Routed, Working, Under

LEMMA OthersSets ==
  ASSUME OthersAct
  PROVE  Routed' = Routed /\ Working' = Working
<1>1. \A i \in Tasks : run'[i].at = run[i].at
  BY DEF OthersAct, Shakes
<1> QED BY <1>1 DEF Routed, Working

LEMMA ChoosesSets ==
  ASSUME NEW b \in GoodBatches, Chooses(b)
  PROVE  Routed' = DOMAIN b.agent /\ Working' = {}
BY DEF Chooses, Routed, Working

LEMMA StepsOfRuns ==
  ASSUME DispatchInv, [Next]_vars
  PROVE  \/ run' = run /\ revised' = revised
         \/ SelectBatch /\ \E b \in GoodBatches : Chooses(b)
         \/ \E i \in Tasks : Start(i) /\ \E p : Begins(i, p)
         \/ \E i \in Tasks : Ends(i) /\ revised' = revised
         \/ OthersAct /\ UNCHANGED <<plan, status, spent, charged, exhausted>>
<1>0. PlanInv /\ Types /\ Ordered
  BY DEF DispatchInv
<1>1. CASE SelectBatch
  BY <1>0, <1>1, SelectChooses
<1>2. ASSUME NEW i \in Tasks, Start(i)
      PROVE  \E p : Begins(i, p)
  BY <1>2, StartBegins
<1>3. ASSUME NEW i \in Tasks,
             StartRefused(i) \/ ContextDoesNotFit(i) \/ AgentFails(i) \/ Reject(i) \/ Land(i)
      PROVE  Ends(i) /\ revised' = revised
  <2>1. revised' = revised
    BY <1>3 DEF StartRefused, ContextDoesNotFit, AgentFails, Reject, Land
  <2> QED BY <1>3, <2>1, RunEnds
<1>4. CASE SomeoneAppends
  <2>1. OthersAct
    BY <1>0, <1>4, AppendsShake
  <2> QED BY <1>4, <2>1 DEF SomeoneAppends, money
<1>5. CASE SomeoneRevises
  <2>1. OthersAct
    BY <1>0, <1>5, RevisesShake
  <2> QED BY <1>5, <2>1 DEF SomeoneRevises, money
<1>6. CASE PlanObjective \/ CreateTask \/ PlanBreaksOff \/ SessionSpends \/ UNCHANGED vars
  BY <1>6 DEF PlanObjective, CreateTask, PlanBreaksOff, SessionSpends, vars
<1> QED BY <1>1, <1>2, <1>3, <1>4, <1>5, <1>6 DEF Next

\* The plan of what runs stays.
LEMMA PlanOfRunsStays ==
  ASSUME DispatchInv, [Next]_vars
  PROVE  plan' = plan \/ (PlanObjective /\ Defined = {} /\ Under = {} /\ run' = run)
<1>0. PlanInv /\ Ordered /\ Types
  BY DEF DispatchInv
<1>1. CASE PlanObjective
  <2>1. plan = <<>> /\ run' = run
    BY <1>1 DEF PlanObjective
  <2>2. Defined = {}
    BY <2>1 DEF Defined
  <2>3. \A i \in Tasks : status[i] = "absent"
    BY <1>0, <2>2 DEF Ordered
  <2>4. Under = {}
    BY <1>0, <2>3 DEF Ordered, Under, Routed, Working
  <2> QED BY <1>1, <2>1, <2>2, <2>4
<1> QED BY <1>1, PlanStays

LEMMA RecordTyped ==
  ASSUME Types, NEW i \in Tasks, NEW cost \in Costs, Record(i, cost)
  PROVE  /\ spent' \in [Tasks -> Nat] /\ exhausted' \in BOOLEAN
         /\ Total \in Nat /\ Total' = Total + cost /\ spent'[i] = spent[i] + cost
         /\ \A j \in Tasks \ {i} : spent'[j] = spent[j]
         /\ Total' >= HardProject => exhausted'
<1>0. spent \in [Tasks -> Nat] /\ cost \in Nat /\ IsFiniteSet(Tasks)
  <2>1. MaxTasks \in Nat
    BY BoundsPositive
  <2>2. IsFiniteSet(1..MaxTasks)
    BY <2>1, FS_Interval
  <2>3. spent \in [Tasks -> Nat] /\ cost \in Nat
    BY InputsKnown DEF Types
  <2> QED BY <2>2, <2>3 DEF Tasks
<1> DEFINE v == spent[i] + cost
<1>1. v \in Nat /\ spent' = [spent EXCEPT ![i] = v]
  BY <1>0 DEF Record
<1>2. SumFunction([spent EXCEPT ![i] = v]) = SumFunction(spent) - spent[i] + v
  <2> HIDE DEF v
  <2> QED BY <1>0, <1>1, SumOfChange
<1>3. Total \in Nat
  BY <1>0, SumIsNumber DEF Total
<1>4. Total' = Total + cost
  <2>1. Total' = SumFunction([spent EXCEPT ![i] = v])
    BY <1>1 DEF Total
  <2>2. Total' = Total - spent[i] + v /\ spent[i] \in Nat
    BY <1>0, <1>2, <2>1 DEF Total
  <2> QED BY <2>2, <1>0, <1>3
<1>5. /\ spent' \in [Tasks -> Nat] /\ spent'[i] = v
      /\ \A j \in Tasks \ {i} : spent'[j] = spent[j]
  BY <1>0, <1>1
<1>6. exhausted' = (exhausted \/ Total + cost >= HardProject)
  BY DEF Record
<1>7. exhausted' \in BOOLEAN
  BY <1>6, Zenon
<1>8. Total' >= HardProject => exhausted'
  BY <1>4, <1>6
<1> QED BY <1>3, <1>4, <1>5, <1>7, <1>8

LEMMA TypesKept ==
  ASSUME DispatchInv, [Next]_vars
  PROVE  Types'
<1>0. PlanInv /\ Types /\ Ordered
  BY DEF DispatchInv
<1>1. run' \in [Tasks -> RunRecords]
  <2>1. run \in [Tasks -> RunRecords]
    BY <1>0 DEF Types
  <2> QED BY <2>1, StepsOfRuns DEF Chooses, Begins, Ends, OthersAct
<1>2. status' \in [Tasks -> Statuses]
  <2>0. status \in [Tasks -> Statuses]
    BY <1>0 DEF Types
  <2>1. ASSUME NEW i, NEW s \in Statuses, status' = [status EXCEPT ![i] = s]
        PROVE  status' \in [Tasks -> Statuses]
    BY <2>0, <2>1
  <2>2. CASE CreateTask
    <3>1. PICK i \in Defined :
            status' = [status EXCEPT ![i] = IF \A d \in Deps(i) : status[d] = "done"
                                            THEN "ready" ELSE "planned"]
      BY <2>2 DEF CreateTask
    <3> DEFINE s == IF \A d \in Deps(i) : status[d] = "done" THEN "ready" ELSE "planned"
    <3>2. s \in Statuses
      BY DEF Statuses
    <3>3. status' = [status EXCEPT ![i] = s]
      BY <3>1
    <3> HIDE DEF s
    <3> QED BY <2>1, <3>2, <3>3
  <2>3. ASSUME NEW i \in Tasks, Start(i) \/ ContextDoesNotFit(i) \/ AgentFails(i)
        PROVE  status' \in [Tasks -> Statuses]
    <3>1. \/ status' = [status EXCEPT ![i] = "dispatched"]
          \/ status' = [status EXCEPT ![i] = "failed"]
      BY <2>3 DEF Start, ContextDoesNotFit, AgentFails
    <3> QED BY <2>0, <3>1 DEF Statuses
  <2>4. ASSUME NEW i \in Tasks, Reject(i)
        PROVE  status' \in [Tasks -> Statuses]
    <3>1. \/ status' = [status EXCEPT ![i] = "ready"]
          \/ status' = [status EXCEPT ![i] = "submitted"]
      BY <2>4 DEF Reject
    <3> QED BY <2>0, <3>1 DEF Statuses
  <2>5. ASSUME NEW i \in Tasks, Land(i)
        PROVE  status' \in [Tasks -> Statuses]
    <3>1. status' = Completed(i)
      BY <2>5 DEF Land
    <3> QED BY <2>0, <3>1 DEF Completed, Statuses
  <2>6. CASE \/ PlanObjective \/ PlanBreaksOff \/ SelectBatch
             \/ (\E i \in Tasks : StartRefused(i))
             \/ SomeoneAppends \/ SomeoneRevises \/ SessionSpends \/ UNCHANGED vars
    <3>1. status' = status
      BY <2>6 DEF PlanObjective, PlanBreaksOff, SelectBatch, StartRefused, SomeoneAppends,
                  SomeoneRevises, SessionSpends, vars
    <3> QED BY <2>0, <3>1
  <2> QED BY <2>2, <2>3, <2>4, <2>5, <2>6 DEF Next
<1>3. /\ spent' \in [Tasks -> Nat] /\ charged' \in Nat /\ exhausted' \in BOOLEAN
      /\ revised' \in [superseded : SUBSET Nat, disputed : SUBSET Nat]
  <2>0. /\ spent \in [Tasks -> Nat] /\ charged \in Nat /\ exhausted \in BOOLEAN
        /\ revised \in [superseded : SUBSET Nat, disputed : SUBSET Nat] /\ Costs \subseteq Nat /\ Defined \subseteq Tasks
    BY <1>0, InputsKnown, PlanIsFinite DEF Types
  <2>1. ASSUME NEW i \in Tasks, AgentFails(i) \/ Reject(i) \/ Land(i)
        PROVE  /\ spent' \in [Tasks -> Nat] /\ charged' \in Nat /\ exhausted' \in BOOLEAN
               /\ revised' \in [superseded : SUBSET Nat, disputed : SUBSET Nat]
    <3>1. PICK cost \in Costs : Record(i, cost)
      BY <2>1 DEF AgentFails, Reject, Land
    <3>2. charged' = charged /\ revised' = revised
      BY <2>1 DEF AgentFails, Reject, Land
    <3> QED BY <1>0, <2>0, <3>1, <3>2, RecordTyped
  <2>2. CASE SessionSpends
    <3>1. PICK i \in Defined, cost \in Costs : Record(i, cost) /\ charged' = charged + cost
      BY <2>2 DEF SessionSpends
    <3>2. revised' = revised
      BY <2>2 DEF SessionSpends
    <3>3. charged' \in Nat /\ i \in Tasks
      BY <2>0, <3>1
    <3> QED BY <1>0, <2>0, <3>1, <3>2, <3>3, RecordTyped
  <2>3. CASE SomeoneRevises
    <3>0. PICK found \in Retrievals : \E k \in DOMAIN found :
            \/ revised' = [revised EXCEPT !.superseded = @ \cup {found[k].id}]
            \/ revised' = [revised EXCEPT !.disputed = @ \cup {found[k].id}]
      BY <2>3 DEF SomeoneRevises
    <3>1. PICK k \in DOMAIN found :
            \/ revised' = [revised EXCEPT !.superseded = @ \cup {found[k].id}]
            \/ revised' = [revised EXCEPT !.disputed = @ \cup {found[k].id}]
      BY <3>0
    <3>2. found[k].id \in Nat
      <4>1. found \in Seq(Memory)
        BY InputsKnown
      <4>2. found[k] \in Memory
        BY <4>1
      <4> QED BY <4>2 DEF Memory
    <3>3. spent' = spent /\ charged' = charged /\ exhausted' = exhausted
      BY <2>3 DEF SomeoneRevises, money
    <3> QED BY <2>0, <3>1, <3>2, <3>3
  <2>4. CASE \/ PlanObjective \/ CreateTask \/ PlanBreaksOff \/ SelectBatch
             \/ (\E i \in Tasks : Start(i) \/ StartRefused(i) \/ ContextDoesNotFit(i))
             \/ SomeoneAppends \/ UNCHANGED vars
    <3>1. UNCHANGED <<spent, charged, exhausted, revised>>
      BY <2>4 DEF PlanObjective, CreateTask, PlanBreaksOff, SelectBatch, Start,
                  StartRefused, ContextDoesNotFit, SomeoneAppends, vars, money
    <3> QED BY <2>0, <3>1
  <2> QED BY <2>1, <2>2, <2>3, <2>4 DEF Next
<1> QED BY <1>1, <1>2, <1>3 DEF Types

LEMMA OrderedKept ==
  ASSUME DispatchInv, [Next]_vars
  PROVE  Ordered'
<1>0. /\ PlanInv /\ Types /\ Ordered /\ status \in [Tasks -> Statuses]
      /\ Defined \subseteq Tasks
  BY PlanIsFinite DEF DispatchInv, Types
<1>1. CASE PlanObjective
  <2>1. /\ status' = status /\ \A i \in Tasks : status[i] = "absent"
        /\ Routed' = {} /\ Working' = {}
    <3>1. Defined = {} /\ Under = {} /\ run' = run
      <4>1. plan = <<>> /\ run' = run
        BY <1>1 DEF PlanObjective
      <4>2. Defined = {}
        BY <4>1 DEF Defined
      <4>3. \A i \in Tasks : status[i] = "absent"
        BY <1>0, <4>2 DEF Ordered
      <4> QED BY <1>0, <4>1, <4>2, <4>3 DEF Ordered, Under, Routed, Working
    <3>2. Routed' = Routed /\ Working' = Working
      BY <3>1 DEF Routed, Working
    <3>3. status' = status
      BY <1>1 DEF PlanObjective
    <3> QED BY <1>0, <3>1, <3>2, <3>3 DEF Ordered, Under
  <2>2. Defined' \subseteq Tasks
    <3>1. PlanInv'
      BY <1>0, <1>1, PlanIsMade
    <3>2. Len(plan') \in Nat /\ Len(plan') <= MaxTasks /\ Defined' = 1..Len(plan')
      BY <3>1 DEF PlanInv, Defined
    <3> QED BY <3>2, BoundsPositive DEF Tasks
  <2>3. \A i \in Defined' : status'[i] = "absent"
    BY <2>1, <2>2
  <2> QED BY <2>1, <2>3 DEF Ordered
<1>2. ASSUME plan' = plan, ~PlanObjective
      PROVE  Ordered'
  <2>0. Defined' = Defined /\ \A i : Deps(i)' = Deps(i)
    BY <1>2 DEF Defined, Deps
  <2>1. CASE CreateTask
    <3>1. PICK i \in Defined :
            /\ status[i] = "absent"
            /\ status' = [status EXCEPT ![i] = IF \A d \in Deps(i) : status[d] = "done"
                                               THEN "ready" ELSE "planned"]
      BY <2>1 DEF CreateTask
    <3>2. Routed' = Routed /\ Working' = Working
      BY <2>1 DEF CreateTask, Routed, Working
    <3>3. \A j \in Tasks \ {i} : status'[j] = status[j]
      BY <1>0, <3>1
    <3>4. /\ status'[i] \in {"ready", "planned"}
          /\ status'[i] = "ready" => \A d \in Deps(i) : status[d] = "done"
      BY <1>0, <3>1
    <3>5. \A j \in Tasks : status[j] = "done" => status'[j] = "done"
      BY <3>1, <3>3
    <3>6. \A j \in Defined : Deps(j) \subseteq Tasks
      BY <1>0 DEF Deps
    <3>7. i \notin Routed /\ i \notin Working
      BY <1>0, <3>1 DEF Ordered
    <3>8. Routed \subseteq Tasks /\ Working \subseteq Tasks
      BY DEF Routed, Working
    <3>9. \A j \in Tasks : status'[j] /= "absent" => j \in Defined
      BY <1>0, <3>1, <3>3 DEF Ordered
    <3>10. \A j \in Routed : status'[j] = "ready"
      BY <1>0, <3>3, <3>7, <3>8 DEF Ordered
    <3>11. \A j \in Working : status'[j] = "dispatched"
      BY <1>0, <3>3, <3>7, <3>8 DEF Ordered
    <3>12. ASSUME NEW j \in Defined, status'[j] \in {"ready", "dispatched"}, NEW d \in Deps(j)
           PROVE  status'[d] = "done"
      <4>1. status[d] = "done"
        BY <1>0, <3>3, <3>4, <3>12 DEF Ordered
      <4> QED BY <3>5, <3>6, <4>1
    <3> QED BY <2>0, <3>2, <3>9, <3>10, <3>11, <3>12 DEF Ordered
  <2>2. ASSUME NEW i \in Tasks, Start(i)
        PROVE  Ordered'
    <3>1. PICK p : Begins(i, p)
      BY <2>2, StartBegins
    <3>2. Routed' = Routed \ {i} /\ Working' = Working \cup {i} /\ i \in Routed
      BY <3>1, BeginsSets
    <3>3. status' = [status EXCEPT ![i] = "dispatched"]
      BY <2>2 DEF Start
    <3>4. status[i] = "ready" /\ i \in Defined
      BY <1>0, <3>2 DEF Ordered
    <3>5. /\ status'[i] = "dispatched" /\ \A j \in Tasks \ {i} : status'[j] = status[j]
          /\ Routed \subseteq Tasks /\ Working \subseteq Tasks
          /\ \A j \in Defined : Deps(j) \subseteq Tasks
      BY <1>0, <3>3 DEF Routed, Working, Deps
    <3>6. \A j \in Tasks : status[j] = "done" => status'[j] = "done"
      BY <3>4, <3>5
    <3>7. ASSUME NEW j \in Defined, status'[j] \in {"ready", "dispatched"}, NEW d \in Deps(j)
          PROVE  status'[d] = "done"
      <4>1. status[d] = "done"
        BY <1>0, <3>4, <3>5, <3>7 DEF Ordered
      <4> QED BY <3>5, <3>6, <4>1
    <3>8. \A j \in Tasks : status'[j] /= "absent" => j \in Defined
      BY <1>0, <3>4, <3>5 DEF Ordered
    <3>9. \A j \in Routed \ {i} : status'[j] = "ready"
      BY <1>0, <3>5 DEF Ordered
    <3>10. \A j \in Working \cup {i} : status'[j] = "dispatched"
      BY <1>0, <3>5 DEF Ordered
    <3> QED BY <2>0, <3>2, <3>7, <3>8, <3>9, <3>10 DEF Ordered
  <2>3. ASSUME NEW i \in Tasks,
               StartRefused(i) \/ ContextDoesNotFit(i) \/ AgentFails(i) \/ Reject(i)
        PROVE  Ordered'
    <3>1. Ends(i)
      BY <2>3, RunEnds
    <3>2. Routed' = Routed \ {i} /\ Working' = Working \ {i} /\ i \in Under
      BY <3>1, EndsSets
    <3>3. status[i] \in {"ready", "dispatched"} /\ i \in Defined
      BY <1>0, <3>1, <3>2 DEF Ordered, Under, Ends
    <3>4. /\ status'[i] \in Statuses \ {"absent"}
          /\ \A j \in Tasks \ {i} : status'[j] = status[j]
      <4>1. CASE StartRefused(i)
        <5>1. status' = status
          BY <4>1 DEF StartRefused
        <5> QED BY <5>1, <3>3 DEF Statuses
      <4>2. CASE ContextDoesNotFit(i) \/ AgentFails(i)
        <5>1. \/ status' = [status EXCEPT ![i] = "dispatched"]
              \/ status' = [status EXCEPT ![i] = "failed"]
          BY <4>2 DEF ContextDoesNotFit, AgentFails
        <5> QED BY <5>1, <1>0 DEF Statuses
      <4>3. CASE Reject(i)
        <5>1. \/ status' = [status EXCEPT ![i] = "ready"]
              \/ status' = [status EXCEPT ![i] = "submitted"]
          BY <4>3 DEF Reject
        <5> QED BY <5>1, <1>0 DEF Statuses
      <4> QED BY <2>3, <4>1, <4>2, <4>3
    <3>5. /\ Routed \subseteq Tasks /\ Working \subseteq Tasks
          /\ \A j \in Defined : Deps(j) \subseteq Tasks
      BY <1>0 DEF Routed, Working, Deps
    <3>6. \A j \in Tasks : status[j] = "done" => status'[j] = "done"
      BY <3>3, <3>4
    <3>7. ASSUME NEW j \in Defined, status'[j] \in {"ready", "dispatched"}, NEW d \in Deps(j)
          PROVE  status'[d] = "done"
      <4>1. status[d] = "done"
        BY <1>0, <3>3, <3>4, <3>7 DEF Ordered
      <4> QED BY <3>5, <3>6, <4>1
    <3>8. \A j \in Tasks : status'[j] /= "absent" => j \in Defined
      BY <1>0, <3>3, <3>4 DEF Ordered
    <3>9. \A j \in Routed \ {i} : status'[j] = "ready"
      BY <1>0, <3>4, <3>5 DEF Ordered
    <3>10. \A j \in Working \ {i} : status'[j] = "dispatched"
      BY <1>0, <3>4, <3>5 DEF Ordered
    <3> QED BY <2>0, <3>2, <3>7, <3>8, <3>9, <3>10 DEF Ordered
  <2>4. ASSUME NEW i \in Tasks, Land(i)
        PROVE  Ordered'
    <3>1. Ends(i)
      BY <2>4, RunEnds
    <3>2. Routed' = Routed \ {i} /\ Working' = Working \ {i} /\ i \in Defined
      BY <3>1, EndsSets DEF Ends
    <3>3. status' = Completed(i)
      BY <2>4 DEF Land
    <3>4. \A j \in Tasks :
            \/ j = i /\ status'[j] = "done"
            \/ /\ j /= i /\ status[j] = "planned" /\ status'[j] = "ready"
               /\ \A d \in Deps(j) \ {i} : status[d] = "done"
            \/ j /= i /\ status'[j] = status[j]
      BY <3>3 DEF Completed
    <3>5. /\ Routed \subseteq Tasks /\ Working \subseteq Tasks
          /\ \A j \in Defined : Deps(j) \subseteq Tasks
      BY <1>0 DEF Routed, Working, Deps
    <3>6. \A j \in Tasks : status[j] = "done" \/ j = i => status'[j] = "done"
      BY <3>4
    <3>7. ASSUME NEW j \in Defined, status'[j] \in {"ready", "dispatched"}, NEW d \in Deps(j)
          PROVE  status'[d] = "done"
      <4>1. d = i \/ status[d] = "done"
        BY <1>0, <3>4, <3>7 DEF Ordered
      <4> QED BY <3>5, <3>6, <4>1
    <3>8. \A j \in Tasks : status'[j] /= "absent" => j \in Defined
      BY <1>0, <3>2, <3>4 DEF Ordered
    <3>9. \A j \in Routed \ {i} : status'[j] = "ready"
      BY <1>0, <3>4, <3>5 DEF Ordered
    <3>10. \A j \in Working \ {i} : status'[j] = "dispatched"
      BY <1>0, <3>4, <3>5 DEF Ordered
    <3> QED BY <2>0, <3>2, <3>7, <3>8, <3>9, <3>10 DEF Ordered
  <2>5. CASE SelectBatch
    <3>1. PICK b \in GoodBatches : Chooses(b)
      BY <1>0, <2>5, SelectChooses
    <3>2. Routed' = DOMAIN b.agent /\ Working' = {} /\ status' = status
      BY <2>5, <3>1, ChoosesSets DEF SelectBatch
    <3>3. \A i \in DOMAIN b.agent : status[i] = "ready"
      BY <3>1 DEF GoodBatches, GoodBatch, Ready
    <3> QED BY <1>0, <2>0, <3>2, <3>3 DEF Ordered
  <2>6. CASE PlanBreaksOff \/ SomeoneAppends \/ SomeoneRevises \/ SessionSpends
             \/ UNCHANGED vars
    <3>1. status' = status
      BY <2>6 DEF PlanBreaksOff, SomeoneAppends, SomeoneRevises, SessionSpends, vars
    <3>2. Routed' = Routed /\ Working' = Working
      <4>1. CASE PlanBreaksOff \/ SessionSpends \/ UNCHANGED vars
        BY <4>1 DEF PlanBreaksOff, SessionSpends, vars, Routed, Working
      <4>2. CASE SomeoneAppends \/ SomeoneRevises
        BY <1>0, <4>2, AppendsShake, RevisesShake, OthersSets
      <4> QED BY <2>6, <4>1, <4>2
    <3> QED BY <1>0, <2>0, <3>1, <3>2 DEF Ordered
  <2> QED BY <1>2, <2>1, <2>2, <2>3, <2>4, <2>5, <2>6 DEF Next
<1> QED BY <1>1, <1>2, PlanStays

LEMMA UnderIsFinite ==
  ASSUME NEW S \in SUBSET Tasks
  PROVE  IsFiniteSet(S) /\ Cardinality(S) \in Nat
         /\ \A T \in SUBSET S : IsFiniteSet(T) /\ Cardinality(T) \in Nat
                                /\ Cardinality(T) <= Cardinality(S)
<1>1. IsFiniteSet(Tasks)
  <2>1. MaxTasks \in Nat
    BY BoundsPositive
  <2>2. IsFiniteSet(1..MaxTasks)
    BY <2>1, FS_Interval
  <2> QED BY <2>2 DEF Tasks
<1>2. IsFiniteSet(S)
  BY <1>1, FS_Subset
<1> QED BY <1>2, FS_Subset, FS_CardinalityType

\* What may run side by side, with which agents; and that a part of it may.
By(S, runs, a) == {i \in S : runs[i].agent = a}

Side(S, runs, tasks) ==
  /\ S \subseteq Tasks /\ Cardinality(S) <= MaxParallel
  /\ \A i \in S : runs[i].agent \in Agents
  /\ \A i, j \in S : i /= j => tasks[i].files \cap tasks[j].files = {}
  /\ \A a \in Agents : Cardinality(By(S, runs, a)) <= Profile[a].limit
  /\ \A i \in S : Profile[runs[i].agent].provider = "mock" =>
       \A a \in Agents : ~SemanticallyEligible(a, tasks[i])

LEMMA SelectedIsSide ==
  /\ Selected <=> Side(Under, run, plan)
  /\ Selected' <=> Side(Under', run', plan')
<1>1. Under \subseteq Tasks /\ Under' \subseteq Tasks
  BY DEF Under, Routed, Working
<1>2. BatchIsSafe <=>
        /\ \A i, j \in Under : i /= j => plan[i].files \cap plan[j].files = {}
        /\ \A a \in Agents : Cardinality(By(Under, run, a)) <= Profile[a].limit
        /\ \A i \in Under : Profile[run[i].agent].provider = "mock" =>
             \A a \in Agents : ~SemanticallyEligible(a, plan[i])
  BY DEF BatchIsSafe, Under, By
<1>3. BatchIsSafe' <=>
        /\ \A i, j \in Under' : i /= j => plan'[i].files \cap plan'[j].files = {}
        /\ \A a \in Agents : Cardinality(By(Under', run', a)) <= Profile[a].limit
        /\ \A i \in Under' : Profile[run'[i].agent].provider = "mock" =>
             \A a \in Agents : ~SemanticallyEligible(a, plan'[i])
  BY DEF BatchIsSafe, Under, By
<1>4. Selected <=> Side(Under, run, plan)
  BY <1>1, <1>2 DEF Selected, Side
<1>5. Selected' <=> Side(Under', run', plan')
  BY <1>1, <1>3 DEF Selected, Side
<1> QED BY <1>4, <1>5

Alike(S, runs, runs2, tasks, tasks2) ==
  \A i \in S : runs2[i].agent = runs[i].agent /\ tasks2[i] = tasks[i]

LEMMA SideShrinks ==
  ASSUME NEW S, NEW T \in SUBSET S, NEW runs, NEW runs2, NEW tasks, NEW tasks2,
         Side(S, runs, tasks), Alike(T, runs, runs2, tasks, tasks2)
  PROVE  Side(T, runs2, tasks2)
<1>1. S \in SUBSET Tasks /\ T \in SUBSET Tasks
  BY DEF Side
<1>2. Cardinality(T) <= MaxParallel
  <2>1. /\ Cardinality(T) \in Nat /\ Cardinality(S) \in Nat
        /\ Cardinality(T) <= Cardinality(S)
    BY <1>1, UnderIsFinite
  <2>2. Cardinality(S) <= MaxParallel /\ MaxParallel \in Nat
    BY BoundsPositive DEF Side
  <2> QED BY <2>1, <2>2
<1>3. ASSUME NEW a \in Agents PROVE Cardinality(By(T, runs2, a)) <= Profile[a].limit
  <2> DEFINE A == By(S, runs, a)
             B == By(T, runs2, a)
  <2>1. A \in SUBSET Tasks /\ B \in SUBSET A
    BY <1>1 DEF By, Alike
  <2>2. Cardinality(A) <= Profile[a].limit /\ Profile[a].limit \in Nat
    BY AgentsConfigured DEF Side
  <2> HIDE DEF A, B
  <2>3. /\ Cardinality(A) \in Nat /\ Cardinality(B) \in Nat
        /\ Cardinality(B) <= Cardinality(A)
    BY <2>1, UnderIsFinite
  <2>4. Cardinality(B) <= Profile[a].limit
    BY <2>2, <2>3
  <2> QED BY <2>4 DEF B
<1>4. \A i \in T : runs2[i].agent \in Agents
  BY DEF Side, Alike
<1>5. \A i, j \in T : i /= j => tasks2[i].files \cap tasks2[j].files = {}
  BY DEF Side, Alike
<1>6. \A i \in T : Profile[runs2[i].agent].provider = "mock" =>
        \A a \in Agents : ~SemanticallyEligible(a, tasks2[i])
  BY DEF Side, Alike
<1> QED BY <1>1, <1>2, <1>3, <1>4, <1>5, <1>6 DEF Side

LEMMA SelectedKept ==
  ASSUME DispatchInv, [Next]_vars
  PROVE  Selected'
<1>0. PlanInv /\ Side(Under, run, plan)
  BY SelectedIsSide DEF DispatchInv
<1>1. ASSUME Under' \subseteq Under, \A i \in Under' : run'[i].agent = run[i].agent
      PROVE  Selected'
  <2>1. \A i \in Under' : plan'[i] = plan[i]
    BY <1>1, PlanOfRunsStays
  <2>2. Alike(Under', run, run', plan, plan')
    BY <1>1, <2>1 DEF Alike
  <2> DEFINE T == Under'
  <2>3. T \in SUBSET Under /\ Alike(T, run, run', plan, plan')
    BY <1>1, <2>2
  <2> HIDE DEF T
  <2>4. Side(T, run', plan')
    BY <1>0, <2>3, SideShrinks
  <2> QED BY <2>4, SelectedIsSide DEF T
<1>2. CASE run' = run
  <2>1. Under' = Under
    BY <1>2 DEF Under, Routed, Working
  <2> QED BY <1>1, <1>2, <2>1
<1>3. CASE SelectBatch /\ \E b \in GoodBatches : Chooses(b)
  <2>1. PICK b \in GoodBatches : Chooses(b)
    BY <1>3
  <2> DEFINE T == DOMAIN b.agent
  <2>2. Under' = T /\ plan' = plan
    BY <1>3, <2>1, ChoosesSets DEF Under, SelectBatch
  <2>3. /\ GoodBatch(b) /\ b.load \in [Agents -> Nat] /\ T \in SUBSET Tasks
        /\ \A i \in T : run'[i].agent = b.agent[i]
    BY <2>1 DEF GoodBatches, BatchRecords, Chooses
  <2>4. ASSUME NEW a \in Agents PROVE Cardinality(By(T, run', a)) <= Profile[a].limit
    <3>1. By(T, run', a) = With(b.agent, a)
      BY <2>3 DEF By, With
    <3>2. With(b.agent, a) \in SUBSET Tasks
      BY <2>3 DEF With
    <3>3. Cardinality(With(b.agent, a)) \in Nat
      BY <3>2, UnderIsFinite
    <3>4. /\ Cardinality(With(b.agent, a)) <= b.load[a] /\ b.load[a] <= Profile[a].limit
          /\ b.load[a] \in Nat /\ Profile[a].limit \in Nat
      BY <2>3, AgentsConfigured DEF GoodBatch
    <3> QED BY <3>1, <3>3, <3>4
  <2>5. /\ Cardinality(T) <= MaxParallel /\ \A i \in T : run'[i].agent \in Agents
        /\ \A i, j \in T : i /= j => plan[i].files \cap plan[j].files = {}
        /\ \A i \in T : Profile[run'[i].agent].provider = "mock" =>
             \A a \in Agents : ~SemanticallyEligible(a, plan[i])
    BY <2>3 DEF GoodBatch
  <2> HIDE DEF T
  <2>6. Side(T, run', plan)
    BY <2>3, <2>4, <2>5 DEF Side
  <2> QED BY <2>2, <2>6, SelectedIsSide
<1>4. CASE \E i \in Tasks : Start(i) /\ \E p : Begins(i, p)
  <2>0. PICK i \in Tasks : \E p : Begins(i, p)
    BY <1>4
  <2>1. PICK p : Begins(i, p)
    BY <2>0
  <2>2. Under' = Under
    BY <2>1, BeginsSets DEF Under
  <2>3. \A j \in Tasks : run'[j].agent = run[j].agent
    BY <2>1 DEF Begins
  <2>4. Under \subseteq Tasks
    BY DEF Under, Routed, Working
  <2> QED BY <1>1, <2>2, <2>3, <2>4
<1>5. CASE \E i \in Tasks : Ends(i) /\ revised' = revised
  <2>1. PICK i \in Tasks : Ends(i)
    BY <1>5
  <2>2. Under' \subseteq Under \ {i}
    BY <2>1, EndsSets DEF Under
  <2>3. \A j \in Under' : run'[j].agent = run[j].agent
    BY <2>1, <2>2 DEF Ends, Under, Routed, Working
  <2> QED BY <1>1, <2>2, <2>3
<1>6. CASE OthersAct
  <2>1. Under' = Under
    BY <1>6, OthersSets DEF Under
  <2>2. \A j \in Tasks : run'[j].agent = run[j].agent
    BY <1>6 DEF OthersAct, Shakes
  <2>3. Under \subseteq Tasks
    BY DEF Under, Routed, Working
  <2> QED BY <1>1, <2>1, <2>2, <2>3
<1> QED BY <1>2, <1>3, <1>4, <1>5, <1>6, StepsOfRuns

(***************************************************************************)
(* Money                                                                   *)
(***************************************************************************)

LEMMA MaxCostBounds == MaxCost \in Nat /\ \A c \in Costs : c \in Nat /\ c <= MaxCost
<1> DEFINE R == {p \in Costs \X Costs : p[1] >= p[2]}
<1>0. Costs \subseteq Nat /\ Costs /= {} /\ IsFiniteSet(Costs)
  BY InputsKnown
<1>1. \A x, y \in Costs : <<x, y>> \in R <=> x >= y
  OBVIOUS
<1> HIDE DEF R
<1>2. Orders(R, Costs)
  <2>1. ASSUME NEW x \in Costs, NEW y \in Costs
        PROVE  x = y \/ <<x, y>> \in R \/ <<y, x>> \in R
    <3>1. x \in Nat /\ y \in Nat
      BY <1>0
    <3> QED BY <3>1, <1>1
  <2>2. ASSUME NEW x \in Costs, NEW y \in Costs, NEW z \in Costs,
               <<x, y>> \in R, <<y, z>> \in R
        PROVE  <<x, z>> \in R
    <3>1. x \in Nat /\ y \in Nat /\ z \in Nat
      BY <1>0
    <3> QED BY <3>1, <2>2, <1>1
  <2> QED BY <2>1, <2>2 DEF Orders
<1>3. PICK x : IsFirst(R, Costs, x)
  BY <1>0, <1>2, FirstExists DEF HasFirst
<1>4. x \in Costs /\ \A d \in Costs : d <= x
  <2>1. x \in Costs /\ \A y \in Costs \ {x} : x >= y
    BY <1>1, <1>3 DEF IsFirst
  <2>2. \A y \in Costs : y \in Nat
    BY <1>0
  <2> QED BY <2>1, <2>2
<1>5. MaxCost \in Costs /\ \A d \in Costs : d <= MaxCost
  BY <1>4 DEF MaxCost
<1> QED BY <1>0, <1>5

LEMMA Times ==
  ASSUME NEW m \in Nat, NEW n \in Nat
  PROVE  m * (n + 1) = m * n + m /\ m * n \in Nat /\ \A k \in Nat : k <= n => m * k <= m * n
<1>1. m * (n + 1) = m * n + m /\ m * n \in Nat
  OBVIOUS
<1>2. ASSUME NEW k \in Nat, k <= n PROVE m * k <= m * n
  BY <1>2
<1> QED BY <1>1, <1>2

\* Nothing is spent, and no run begins to work.
LEMMA BoundedRests ==
  ASSUME Types, Bounded, UNCHANGED <<spent, charged, exhausted>>, Working' \subseteq Working
  PROVE  Bounded'
<1> DEFINE n == Cardinality(Working)
           k == Cardinality(Working')
           m == MaxCost
<1>1. n \in Nat /\ k \in Nat /\ k <= n /\ m \in Nat /\ m * k <= m * n
  <2>1. Working \in SUBSET Tasks /\ Working' \in SUBSET Working
    BY DEF Working
  <2>2. n \in Nat /\ k \in Nat /\ k <= n
    <3> DEFINE W == Working'
    <3>1. W \in SUBSET Working
      BY <2>1
    <3> HIDE DEF W
    <3>2. Cardinality(W) \in Nat /\ Cardinality(W) <= Cardinality(Working)
      BY <2>1, <3>1, UnderIsFinite
    <3> QED BY <2>1, <3>2, UnderIsFinite DEF W
  <2>3. m \in Nat
    BY MaxCostBounds
  <2> HIDE DEF n, k, m
  <2> QED BY <2>2, <2>3, Times
<1>2. Total' = Total /\ Total \in Nat /\ charged' = charged /\ charged \in Nat
  <2>1. Total' = Total
    BY DEF Total
  <2>2. Total \in Nat
    <3>1. IsFiniteSet(Tasks) /\ spent \in [Tasks -> Nat]
      BY UnderIsFinite DEF Types
    <3> QED BY <3>1, SumIsNumber DEF Total
  <2> QED BY <2>1, <2>2 DEF Types
<1>3. Total' - charged' + m * k <= HardProject - Estimate + MaxParallel * m
  <2>1. Total - charged + m * n <= HardProject - Estimate + MaxParallel * m
    BY DEF Bounded
  <2> DEFINE all == MaxParallel * m
             a == m * k
             b == m * n
  <2>2. all \in Nat /\ HardProject \in Nat /\ Estimate \in Nat /\ a \in Nat /\ b \in Nat
    BY <1>1, BoundsPositive, Times DEF Estimate
  <2>3. a <= b /\ Total - charged + b <= HardProject - Estimate + all
    BY <1>1, <2>1
  <2> HIDE DEF all, n, k, a, b
  <2>4. Total' - charged' + a <= HardProject - Estimate + all
    BY <1>2, <2>2, <2>3
  <2> QED BY <2>4 DEF all, a
<1>4. ASSUME NEW i \in Tasks
      PROVE  spent'[i] - charged' + (IF i \in Working' THEN MaxCost ELSE 0)
               <= HardTask - Estimate + MaxCost
  <2>1. spent[i] - charged + (IF i \in Working THEN MaxCost ELSE 0)
          <= HardTask - Estimate + MaxCost
    BY DEF Bounded
  <2>2. i \in Working' => i \in Working
    OBVIOUS
  <2>3. /\ MaxCost \in Nat /\ spent[i] \in Nat /\ charged \in Nat /\ HardTask \in Nat
        /\ Estimate \in Nat
    BY MaxCostBounds, BoundsPositive DEF Types, Estimate
  <2> QED BY <2>1, <2>2, <2>3
<1>5. Total' >= HardProject => exhausted'
  BY <1>2 DEF Bounded
<1> HIDE DEF n, m
<1> QED BY <1>3, <1>4, <1>5 DEF Bounded, m

\* A run begins when one more estimate is within the ceilings.
LEMMA BoundedStarts ==
  ASSUME Types, Selected, Selected', Bounded, NEW i \in Tasks, CanSpend(i),
         UNCHANGED <<spent, charged, exhausted>>, Working' = Working \cup {i}
  PROVE  Bounded'
<1> DEFINE k == Cardinality(Working')
           m == MaxCost
<1>1. k \in Nat /\ k <= MaxParallel /\ m \in Nat /\ m * k <= m * MaxParallel
  <2> DEFINE U == Under'
             W == Working'
  <2>1. U \in SUBSET Tasks /\ W \in SUBSET U
    BY DEF Under, Routed, Working
  <2>2. Cardinality(U) <= MaxParallel /\ MaxParallel \in Nat /\ m \in Nat
    BY MaxCostBounds, BoundsPositive DEF Selected
  <2> HIDE DEF U, W
  <2>3. Cardinality(U) \in Nat /\ Cardinality(W) \in Nat /\ Cardinality(W) <= Cardinality(U)
    BY <2>1, UnderIsFinite
  <2>4. k \in Nat /\ k <= MaxParallel
    BY <2>2, <2>3 DEF W
  <2> HIDE DEF k, m
  <2> QED BY <2>2, <2>4, Times
<1>2. Total' = Total /\ Total \in Nat /\ charged' = charged /\ charged \in Nat
  <2>1. Total' = Total
    BY DEF Total
  <2>2. IsFiniteSet(Tasks) /\ spent \in [Tasks -> Nat]
    BY UnderIsFinite DEF Types
  <2>3. Total \in Nat
    BY <2>2, SumIsNumber DEF Total
  <2> QED BY <2>1, <2>3 DEF Types
<1>3. Total' - charged' + m * k <= HardProject - Estimate + MaxParallel * m
  <2> DEFINE all == m * MaxParallel
             a == m * k
  <2>1. /\ all \in Nat /\ HardProject \in Nat /\ a \in Nat /\ a <= all
        /\ MaxParallel * m = all
    BY <1>1, BoundsPositive, Times
  <2>2. Total + 1 <= HardProject
    BY DEF CanSpend, Estimate
  <2> HIDE DEF all, a
  <2>3. Total' - charged' + a <= HardProject - 1 + all
    BY <1>2, <2>1, <2>2
  <2> QED BY <2>1, <2>3 DEF a, Estimate
<1>4. ASSUME NEW j \in Tasks
      PROVE  spent'[j] - charged' + (IF j \in Working' THEN MaxCost ELSE 0)
               <= HardTask - Estimate + MaxCost
  <2>1. spent[j] - charged + (IF j \in Working THEN MaxCost ELSE 0)
          <= HardTask - Estimate + MaxCost
    BY DEF Bounded
  <2>2. j \in Working' => j \in Working \/ j = i
    OBVIOUS
  <2>3. /\ MaxCost \in Nat /\ spent[j] \in Nat /\ charged \in Nat /\ HardTask \in Nat
        /\ Estimate \in Nat
    BY MaxCostBounds, BoundsPositive DEF Types, Estimate
  <2>4. spent[i] + Estimate <= HardTask
    BY DEF CanSpend
  <2> QED BY <2>1, <2>2, <2>3, <2>4
<1>5. Total' >= HardProject => exhausted'
  BY <1>2 DEF Bounded
<1> HIDE DEF m
<1> QED BY <1>3, <1>4, <1>5 DEF Bounded, m

\* A run that ends records at most what was held back for it.
LEMMA BoundedRecords ==
  ASSUME Types, Bounded, NEW i \in Working, NEW cost \in Costs, Record(i, cost),
         charged' = charged, Working' = Working \ {i}
  PROVE  Bounded'
<1>0. i \in Tasks
  BY DEF Working
<1> DEFINE n == Cardinality(Working)
           k == Cardinality(Working')
           m == MaxCost
<1>1. n \in Nat /\ k \in Nat /\ n = k + 1 /\ m \in Nat
  <2>1. Working \in SUBSET Tasks /\ Working \ {i} \in SUBSET Working
    BY DEF Working
  <2>2. IsFiniteSet(Working) /\ n \in Nat /\ Cardinality(Working \ {i}) \in Nat
    BY <2>1, UnderIsFinite
  <2>3. Cardinality(Working \ {i}) = n - 1
    BY <2>2, FS_RemoveElement
  <2>4. m \in Nat
    BY MaxCostBounds
  <2> QED BY <2>2, <2>3, <2>4
<1>2. /\ Total \in Nat /\ Total' = Total + cost /\ spent'[i] = spent[i] + cost
      /\ \A j \in Tasks \ {i} : spent'[j] = spent[j]
      /\ Total' >= HardProject => exhausted'
  BY <1>0, RecordTyped
<1>3. cost \in Nat /\ cost <= m /\ charged \in Nat
  BY MaxCostBounds DEF Types
<1>4. Total' - charged' + m * k <= HardProject - Estimate + MaxParallel * m
  <2>1. Total - charged + m * n <= HardProject - Estimate + MaxParallel * m
    BY DEF Bounded
  <2> DEFINE all == MaxParallel * m
             a == m * k
             b == m * n
  <2>2. b = a + m /\ a \in Nat
    <3> HIDE DEF n, k, m
    <3> QED BY <1>1, Times
  <2>3. all \in Nat /\ HardProject \in Nat /\ Estimate \in Nat
    BY <1>1, BoundsPositive DEF Estimate
  <2>4. Total - charged + b <= HardProject - Estimate + all
    BY <2>1
  <2> HIDE DEF all, n, k, a, b, m
  <2>5. Total' - charged' + a <= HardProject - Estimate + all
    BY <1>1, <1>2, <1>3, <2>2, <2>3, <2>4
  <2> QED BY <2>5 DEF all, a
<1>5. ASSUME NEW j \in Tasks
      PROVE  spent'[j] - charged' + (IF j \in Working' THEN MaxCost ELSE 0)
               <= HardTask - Estimate + MaxCost
  <2>1. spent[j] - charged + (IF j \in Working THEN MaxCost ELSE 0)
          <= HardTask - Estimate + MaxCost
    BY DEF Bounded
  <2>2. (j \in Working' <=> j \in Working /\ j /= i) /\ (j = i => j \in Working)
    OBVIOUS
  <2>3. /\ MaxCost \in Nat /\ spent[j] \in Nat /\ charged \in Nat /\ HardTask \in Nat
        /\ Estimate \in Nat
    BY MaxCostBounds, BoundsPositive DEF Types, Estimate
  <2>4. spent'[j] = IF j = i THEN spent[j] + cost ELSE spent[j]
    BY <1>2
  <2> QED BY <1>3, <2>1, <2>2, <2>3, <2>4 DEF m
<1> HIDE DEF m
<1> QED BY <1>2, <1>4, <1>5 DEF Bounded, m

\* What a session spends is charged.
LEMMA BoundedCharges ==
  ASSUME Types, Bounded, NEW i \in Tasks, NEW cost \in Costs, Record(i, cost),
         charged' = charged + cost, Working' = Working
  PROVE  Bounded'
<1>2. /\ Total \in Nat /\ Total' = Total + cost /\ spent'[i] = spent[i] + cost
      /\ \A j \in Tasks \ {i} : spent'[j] = spent[j]
      /\ Total' >= HardProject => exhausted'
  BY RecordTyped
<1>3. cost \in Nat /\ charged \in Nat
  BY MaxCostBounds DEF Types
<1>4. Total' - charged' + MaxCost * Cardinality(Working')
        <= HardProject - Estimate + MaxParallel * MaxCost
  <2>1. Total' - charged' = Total - charged
    BY <1>2, <1>3
  <2> QED BY <2>1 DEF Bounded
<1>5. ASSUME NEW j \in Tasks
      PROVE  spent'[j] - charged' + (IF j \in Working' THEN MaxCost ELSE 0)
               <= HardTask - Estimate + MaxCost
  <2>1. spent[j] - charged + (IF j \in Working THEN MaxCost ELSE 0)
          <= HardTask - Estimate + MaxCost
    BY DEF Bounded
  <2>3. /\ MaxCost \in Nat /\ spent[j] \in Nat /\ charged \in Nat /\ HardTask \in Nat
        /\ Estimate \in Nat
    BY MaxCostBounds, BoundsPositive DEF Types, Estimate
  <2>4. spent'[j] = IF j = i THEN spent[j] + cost ELSE spent[j]
    BY <1>2
  <2> QED BY <1>3, <2>1, <2>3, <2>4
<1> QED BY <1>2, <1>4, <1>5 DEF Bounded

LEMMA BoundedKept ==
  ASSUME DispatchInv, [Next]_vars
  PROVE  Bounded'
<1>0. PlanInv /\ Types /\ Selected /\ Bounded /\ Defined \subseteq Tasks
  BY PlanIsFinite DEF DispatchInv
<1>1. CASE SelectBatch
  <2>1. PICK b \in GoodBatches : Chooses(b)
    BY <1>0, <1>1, SelectChooses
  <2>2. Working' = {} /\ UNCHANGED <<spent, charged, exhausted>>
    BY <1>1, <2>1, ChoosesSets DEF SelectBatch, money
  <2> QED BY <1>0, <2>2, BoundedRests
<1>2. ASSUME NEW i \in Tasks, Start(i)
      PROVE  Bounded'
  <2>1. PICK p : Begins(i, p)
    BY <1>2, StartBegins
  <2>2. Working' = Working \cup {i}
    BY <2>1, BeginsSets
  <2>3. CanSpend(i) /\ UNCHANGED <<spent, charged, exhausted>>
    BY <1>2 DEF Start, money
  <2> QED BY <1>0, <2>2, <2>3, SelectedKept, BoundedStarts
<1>3. ASSUME NEW i \in Tasks, StartRefused(i) \/ ContextDoesNotFit(i)
      PROVE  Bounded'
  <2>1. Working' = Working \ {i}
    BY <1>3, RunEnds, EndsSets
  <2>2. UNCHANGED <<spent, charged, exhausted>>
    BY <1>3 DEF StartRefused, ContextDoesNotFit, money
  <2> QED BY <1>0, <2>1, <2>2, BoundedRests
<1>4. ASSUME NEW i \in Tasks, AgentFails(i) \/ Reject(i) \/ Land(i)
      PROVE  Bounded'
  <2>1. Working' = Working \ {i}
    BY <1>4, RunEnds, EndsSets
  <2>2. PICK cost \in Costs : Record(i, cost)
    BY <1>4 DEF AgentFails, Reject, Land
  <2>3. charged' = charged /\ i \in Working
    BY <1>4 DEF AgentFails, Reject, Land, Working
  <2> QED BY <1>0, <2>1, <2>2, <2>3, BoundedRecords
<1>5. CASE SomeoneAppends \/ SomeoneRevises
  <2>1. OthersAct
    BY <1>0, <1>5, AppendsShake, RevisesShake DEF DispatchInv
  <2>2. UNCHANGED <<spent, charged, exhausted>>
    BY <1>5 DEF SomeoneAppends, SomeoneRevises, money
  <2> QED BY <1>0, <2>1, <2>2, OthersSets, BoundedRests
<1>6. CASE SessionSpends
  <2>1. PICK i \in Defined, cost \in Costs : Record(i, cost) /\ charged' = charged + cost
    BY <1>6 DEF SessionSpends
  <2>2. Working' = Working
    BY <1>6 DEF SessionSpends, Working
  <2>3. i \in Tasks
    BY <1>0, <2>1
  <2> QED BY <1>0, <2>1, <2>2, <2>3, BoundedCharges
<1>7. CASE PlanObjective \/ CreateTask \/ PlanBreaksOff \/ UNCHANGED vars
  <2>1. UNCHANGED <<spent, charged, exhausted>> /\ run' = run
    BY <1>7 DEF PlanObjective, CreateTask, PlanBreaksOff, vars, money
  <2>2. Working' = Working
    BY <2>1 DEF Working
  <2> QED BY <1>0, <2>1, <2>2, BoundedRests
<1> QED BY <1>1, <1>2, <1>3, <1>4, <1>5, <1>6, <1>7 DEF Next

(***************************************************************************)
(* What a run works from                                                   *)
(***************************************************************************)

\* Packed as the budget allows.
Packs(p, risk) ==
  \E authoritative \in Authoritative : Packed_(p, authoritative, risk, TokenBudget)

LEMMA WatchedKept ==
  ASSUME DispatchInv, [Next]_vars
  PROVE  Watched'
<1>0. /\ PlanInv /\ Types /\ Watched /\ Types' /\ run \in [Tasks -> RunRecords]
  BY TypesKept DEF DispatchInv, Types
<1>1. /\ \A i \in Routed : run[i].relevant = 0 /\ run[i].touched = 0 /\ run[i].drift = 0
      /\ \A i \in Working : Noticed(run[i]) /\ Packs(run[i].packet, plan[i].risk)
  BY <1>0 DEF Watched, Packs
<1>2. ASSUME \A i \in Routed' :
               run'[i].relevant = 0 /\ run'[i].touched = 0 /\ run'[i].drift = 0,
             \A i \in Working' : Noticed(run[i])' /\ Packs(run'[i].packet, plan'[i].risk)
      PROVE  Watched'
  BY <1>2 DEF Watched, Packs
<1>3. \A i \in Under : plan'[i].risk = plan[i].risk
  BY PlanOfRunsStays
<1>4. Working \subseteq Under /\ Working \subseteq Tasks /\ Routed \subseteq Tasks
      /\ Working' \subseteq Tasks /\ Routed' \subseteq Tasks
  BY DEF Under, Working, Routed
<1>5. ASSUME NEW i \in Working, revised' = revised, run'[i] = run[i]
      PROVE  Noticed(run[i])' /\ Packs(run'[i].packet, plan'[i].risk)
  <2>1. Noticed(run[i]) /\ Packs(run[i].packet, plan[i].risk)
    BY <1>1
  <2>2. plan'[i].risk = plan[i].risk
    BY <1>3, <1>4
  <2> QED BY <1>5, <2>1, <2>2 DEF Noticed, InForce
<1>6. CASE run' = run /\ revised' = revised
  <2>1. Routed' = Routed /\ Working' = Working
    BY <1>6 DEF Routed, Working
  <2> QED BY <1>1, <1>2, <1>5, <1>6, <2>1
<1>7. CASE SelectBatch /\ \E b \in GoodBatches : Chooses(b)
  <2>1. PICK b \in GoodBatches : Chooses(b)
    BY <1>7
  <2>2. Routed' = DOMAIN b.agent /\ Working' = {}
    BY <2>1, ChoosesSets
  <2>4. \A i \in Routed' : run'[i].relevant = 0 /\ run'[i].touched = 0 /\ run'[i].drift = 0
    BY <2>1, <2>2 DEF Chooses
  <2> QED BY <1>2, <2>2, <2>4
<1>8. ASSUME NEW i \in Tasks, Start(i)
      PROVE  Watched'
  <2>1. PICK p : Begins(i, p)
    BY <1>8, StartBegins
  <2>2. Routed' = Routed \ {i} /\ Working' = Working \cup {i} /\ i \in Routed
    BY <2>1, BeginsSets
  <2>3. revised' = revised /\ plan' = plan
    BY <1>8 DEF Start
  <2>4. \A j \in Tasks \ {i} : run'[j] = run[j]
    BY <2>1 DEF Begins
  <2>5. \A j \in Routed' : run'[j].relevant = 0 /\ run'[j].touched = 0 /\ run'[j].drift = 0
    BY <1>1, <1>4, <2>2, <2>4
  <2>6. Noticed(run[i])' /\ Packs(run'[i].packet, plan'[i].risk)
    <3> DEFINE r == run'[i]
    <3>1. /\ r.relevant = 1 /\ r.touched = 0 /\ r.packet = p /\ Served(p, i)
      BY <2>1 DEF Begins
    <3> HIDE DEF r
    <3>2. Noticed(r) /\ Packs(r.packet, plan[i].risk)
      BY <3>1 DEF Served, Noticed, Packs
    <3> QED BY <2>3, <3>2 DEF Noticed, InForce, r
  <2>8. \A j \in Working' : Noticed(run[j])' /\ Packs(run'[j].packet, plan'[j].risk)
    <3> SUFFICES ASSUME NEW j \in Working \cup {i}
                 PROVE  Noticed(run[j])' /\ Packs(run'[j].packet, plan'[j].risk)
      BY <2>2
    <3>1. CASE j = i
      BY <2>6, <3>1
    <3>2. CASE j /= i
      BY <1>4, <1>5, <2>3, <2>4, <3>2
    <3> QED BY <3>1, <3>2
  <2> QED BY <1>2, <2>5, <2>8
<1>9. ASSUME NEW i \in Tasks, Ends(i), revised' = revised
      PROVE  Watched'
  <2>1. Routed' = Routed \ {i} /\ Working' = Working \ {i}
    BY <1>9, EndsSets
  <2>2. \A j \in Tasks \ {i} : run'[j] = run[j]
    BY <1>9 DEF Ends
  <2>4. \A j \in Routed' : run'[j].relevant = 0 /\ run'[j].touched = 0 /\ run'[j].drift = 0
    BY <1>1, <1>4, <2>1, <2>2
  <2>5. \A j \in Working' : Noticed(run[j])' /\ Packs(run'[j].packet, plan'[j].risk)
    <3> SUFFICES ASSUME NEW j \in Working \ {i}
                 PROVE  Noticed(run[j])' /\ Packs(run'[j].packet, plan'[j].risk)
      BY <2>1
    <3> QED BY <1>4, <1>5, <1>9, <2>2
  <2> QED BY <1>2, <2>4, <2>5
<1>10. CASE OthersAct /\ UNCHANGED <<plan, status, spent, charged, exhausted>>
  <2>1. Routed' = Routed /\ Working' = Working /\ plan' = plan
    BY <1>10, OthersSets
  <2>2. \A i \in Tasks : run[i].at /= "working" => run'[i] = run[i]
    BY <1>10 DEF OthersAct
  <2>5. \A j \in Routed' : run'[j].relevant = 0 /\ run'[j].touched = 0 /\ run'[j].drift = 0
    <3>1. \A j \in Routed : run'[j] = run[j]
      BY <1>4, <2>2 DEF Routed
    <3> QED BY <1>1, <2>1, <3>1
  <2>6. ASSUME NEW j \in Working
        PROVE  Noticed(run[j])' /\ Packs(run'[j].packet, plan'[j].risk)
    <3> DEFINE r == run[j]
               q == run'[j]
    <3>1. /\ Shakes(r, q) /\ r \in RunRecords /\ q \in RunRecords
      BY <1>0, <1>10 DEF OthersAct, Working
    <3>2. Noticed(r) /\ Packs(r.packet, plan[j].risk)
      BY <1>1
    <3>3. /\ r.relevant \in Nat /\ r.touched \in Nat /\ r.drift \in Nat
          /\ q.relevant \in Nat /\ q.touched \in Nat /\ q.drift \in Nat
      BY <3>1 DEF RunRecords
    <3> HIDE DEF r, q
    <3>4. q.relevant >= q.touched + 1 /\ q.drift /= 0 /\ q.packet = r.packet
      BY <3>1, <3>2, <3>3 DEF Shakes, Noticed
    <3>5. IsFiniteSet(q.packet.memories) /\ q.packet.disputed \subseteq q.packet.memories
      BY <3>2, <3>4 DEF Noticed
    <3>6. Noticed(run[j])'
      BY <3>4, <3>5 DEF Noticed, q
    <3> QED BY <2>1, <3>2, <3>4, <3>6 DEF q
  <2> QED BY <1>2, <2>1, <2>5, <2>6
<1>11. CASE \E i \in Tasks : Start(i) /\ \E p : Begins(i, p)
  BY <1>8, <1>11
<1>12. CASE \E i \in Tasks : Ends(i) /\ revised' = revised
  BY <1>9, <1>12
<1> QED BY <1>6, <1>7, <1>10, <1>11, <1>12, StepsOfRuns

(***************************************************************************)
(* The invariant                                                           *)
(***************************************************************************)

LEMMA DispatchInit == Init => DispatchInv
<1> SUFFICES ASSUME Init PROVE DispatchInv
  OBVIOUS
<1>1. PlanInv
  BY BoundsPositive DEF Init, PlanInv, Sound, Apart, Named, Deposes, Waits
<1>2. Defined = {} /\ run = [i \in Tasks |-> NoRun] /\ \A i \in Tasks : run[i] = NoRun
  BY DEF Init, Defined
<1>3. Routed = {} /\ Working = {} /\ Under = {}
  BY <1>2, NoRunTyped DEF Routed, Working, Under
<1>4. Types
  BY <1>2, NoRunTyped DEF Init, Types, Statuses
<1>5. Ordered
  BY <1>2, <1>3 DEF Init, Ordered
<1>6. Cardinality({}) = 0
  BY FS_EmptySet
<1>7. Selected
  <2>1. \A a \in Agents : By(Under, run, a) = {}
    BY <1>3 DEF By
  <2>2. \A a \in Agents : Profile[a].limit \in Nat
    BY AgentsConfigured
  <2>3. \A a \in Agents : Cardinality(By(Under, run, a)) <= Profile[a].limit
    <3> SUFFICES ASSUME NEW a \in Agents
                 PROVE  Cardinality(By(Under, run, a)) <= Profile[a].limit
      OBVIOUS
    <3>1. Cardinality(By(Under, run, a)) = 0 /\ Profile[a].limit \in Nat
      BY <1>6, <2>1, <2>2
    <3> QED BY <3>1
  <2>4. Cardinality(Under) <= MaxParallel
    BY <1>3, <1>6, BoundsPositive
  <2>5. Side(Under, run, plan)
    BY <1>3, <2>3, <2>4 DEF Side
  <2> QED BY <2>5, SelectedIsSide
<1>8. Bounded
  <2>1. Total = 0
    <3>1. IsFiniteSet(Tasks) /\ spent = [i \in Tasks |-> 0]
      BY UnderIsFinite DEF Init
    <3> QED BY <3>1, SumOfNothing DEF Total
  <2>2. /\ MaxCost \in Nat /\ MaxParallel \in Nat /\ HardProject \in Nat \ {0}
        /\ HardTask \in Nat \ {0}
    BY MaxCostBounds, BoundsPositive
  <2>3. Cardinality(Working) = 0 /\ MaxParallel * MaxCost \in Nat /\ MaxCost * 0 = 0
    BY <1>3, <1>6, <2>2, Times
  <2>4. Total - charged + MaxCost * Cardinality(Working)
          <= HardProject - Estimate + MaxParallel * MaxCost
    <3> DEFINE all == MaxParallel * MaxCost
    <3>1. all \in Nat /\ charged = 0 /\ MaxCost * Cardinality(Working) = 0
      BY <2>3 DEF Init
    <3> HIDE DEF all
    <3>2. Total - charged + 0 <= HardProject - Estimate + all
      BY <2>1, <2>2, <3>1 DEF Estimate
    <3> QED BY <3>1, <3>2 DEF all
  <2>5. \A i \in Tasks : spent[i] - charged + (IF i \in Working THEN MaxCost ELSE 0)
                           <= HardTask - Estimate + MaxCost
    BY <1>3, <2>2 DEF Init, Estimate
  <2>6. ~(Total >= HardProject)
    BY <2>1, <2>2
  <2> QED BY <2>4, <2>5, <2>6 DEF Bounded
<1>9. Watched
  BY <1>2, <1>3, NoRunTyped DEF Watched
<1> QED BY <1>1, <1>4, <1>5, <1>7, <1>8, <1>9 DEF DispatchInv

LEMMA DispatchInvariant == Spec => []DispatchInv
<1>1. DispatchInv /\ [Next]_vars => DispatchInv'
  <2> SUFFICES ASSUME DispatchInv, [Next]_vars PROVE DispatchInv'
    OBVIOUS
  <2>1. PlanInv'
    <3>1. PlanInv
      BY DEF DispatchInv
    <3>2. CASE PlanObjective
      BY <3>1, <3>2, PlanIsMade
    <3>3. CASE plan' = plan
      BY <3>1, <3>3 DEF PlanInv
    <3> QED BY <3>2, <3>3, PlanStays
  <2> QED BY <2>1, TypesKept, OrderedKept, SelectedKept, BoundedKept, WatchedKept
          DEF DispatchInv
<1> QED BY DispatchInit, <1>1, PTL DEF Spec

\* Every plan is in order, for every set of declared files and every bound on the number
\* of its tasks (planner.py).
THEOREM PlansAreSound == Spec => []PlanIsSound
<1>1. DispatchInv => PlanIsSound
  BY SoundPlan DEF DispatchInv
<1> QED BY <1>1, DispatchInvariant, PTL

\* Tasks, runs and money keep their types, in whatever order rounds, runs and other
\* writers act (application/orchestration.py, runtime/orchestrator.py).
THEOREM DispatchKeepsTypes == Spec => []Types
<1>1. DispatchInv => Types
  BY DEF DispatchInv
<1> QED BY <1>1, DispatchInvariant, PTL

\* A task runs only after everything it waits for is done, and one that is under way is
\* one that has been created (orchestrator.py, projections).
THEOREM RunsAreOrdered == Spec => []Ordered
<1>1. DispatchInv => Ordered
  BY DEF DispatchInv
<1> QED BY <1>1, DispatchInvariant, PTL

\* What runs side by side shares no file, keeps to every agent's concurrency, and leaves
\* no configured real agent's work to the mock (_select_batch and AgentRouter.route).
THEOREM BatchesAreSafe == Spec => []BatchIsSafe
<1>1. DispatchInv => BatchIsSafe
  BY DEF DispatchInv, Selected
<1> QED BY <1>1, DispatchInvariant, PTL

\* The ceilings are passed by no more than the runs in flight may cost (can_spend before
\* a run, record_consumption after it; budgets.py).
THEOREM OverspendingIsBounded == Spec => []OverspendIsBounded
<1>1. DispatchInv => OverspendIsBounded
  <2> SUFFICES ASSUME DispatchInv PROVE OverspendIsBounded
    OBVIOUS
  <2>0. Types /\ Bounded
    BY DEF DispatchInv
  <2> DEFINE n == Cardinality(Working)
             m == MaxCost
             all == MaxParallel * m
             a == m * n
  <2>1. n \in Nat /\ m \in Nat /\ a \in Nat /\ all \in Nat
    <3>1. Working \in SUBSET Tasks
      BY DEF Working
    <3>2. n \in Nat /\ m \in Nat /\ MaxParallel \in Nat
      BY <3>1, UnderIsFinite, MaxCostBounds, BoundsPositive
    <3> HIDE DEF n, m
    <3> QED BY <3>2, Times
  <2>2. Total \in Nat /\ charged \in Nat /\ HardProject \in Nat
    <3>1. IsFiniteSet(Tasks) /\ spent \in [Tasks -> Nat]
      BY <2>0, UnderIsFinite DEF Types
    <3> QED BY <2>0, <3>1, SumIsNumber, BoundsPositive DEF Total, Types
  <2>3. Total - charged + a <= HardProject - Estimate + all
    BY <2>0 DEF Bounded
  <2>4. Total - charged <= HardProject - Estimate + MaxParallel * MaxCost
    <3> HIDE DEF n, a, all
    <3>1. Total - charged <= HardProject - Estimate + all
      BY <2>1, <2>2, <2>3 DEF Estimate
    <3> QED BY <3>1 DEF all
  <2>5. ASSUME NEW i \in Tasks
        PROVE  spent[i] - charged <= HardTask - Estimate + MaxCost
    <3>1. spent[i] - charged + (IF i \in Working THEN MaxCost ELSE 0)
            <= HardTask - Estimate + MaxCost
      BY <2>0 DEF Bounded
    <3>2. /\ MaxCost \in Nat /\ spent[i] \in Nat /\ charged \in Nat /\ HardTask \in Nat
      BY <2>0, MaxCostBounds, BoundsPositive DEF Types
    <3> QED BY <3>1, <3>2 DEF Estimate
  <2>6. Total >= HardProject => exhausted
    BY <2>0 DEF Bounded
  <2> QED BY <2>4, <2>5, <2>6 DEF OverspendIsBounded
<1> QED BY <1>1, DispatchInvariant, PTL

\* Every packet fits its token budget and the caps of its classes, whatever retrieval
\* finds and however large the files are (ContextCompiler.compile).
THEOREM PacketsFit == Spec => []PacketFits
<1>1. DispatchInv => PacketFits
  <2> SUFFICES ASSUME DispatchInv, NEW i \in Tasks, run[i].at = "working"
               PROVE  LET p == run[i].packet
                          used == p.code + SumFunction(p.used)
                      IN /\ \E authoritative \in Authoritative :
                              authoritative + used + p.remaining = TokenBudget
                         /\ \A b \in Buckets :
                              p.used[b] <= Cap(b, plan[i].risk, TokenBudget)
                         /\ p.code <= CodeCap(plan[i].risk, TokenBudget)
    BY DEF PacketFits
  <2>1. \E authoritative \in Authoritative :
          Packed_(run[i].packet, authoritative, plan[i].risk, TokenBudget)
    BY DEF DispatchInv, Watched, Working
  <2> QED BY <2>1 DEF Packed_
<1> QED BY <1>1, DispatchInvariant, PTL

\* Nothing lands over a dependency that was touched, nor over three events and memories
\* that count, its own event among them; what nobody disturbed is stale only when it was
\* compiled with two disputed memories (StalenessDetector and the gate).
THEOREM NothingStaleLands == Spec => StaleWorkNeverLands
<1> DEFINE Judged(i) ==
             /\ run'[i].at = "landed" =>
                  /\ run[i].touched = 0
                  /\ run[i].relevant + Cardinality(Superseded(i)) + Cardinality(Disputed(i)) <= 2
             /\ run'[i].at = "stale" =>
                  run[i].drift > 0 \/ Cardinality(run[i].packet.disputed) >= 2
<1>1. ASSUME DispatchInv, [Next]_vars, NEW i \in Working
      PROVE  Judged(i)
  <2>0. /\ PlanInv /\ Types /\ Ordered /\ i \in Tasks /\ run[i].at = "working"
        /\ run \in [Tasks -> RunRecords] /\ Noticed(run[i])
    BY <1>1 DEF DispatchInv, Types, Watched, Working
  <2>1. /\ ~TooStale(Score(i)) =>
             /\ run[i].touched = 0
             /\ run[i].relevant + Cardinality(Superseded(i)) + Cardinality(Disputed(i)) <= 2
        /\ TooStale(Score(i)) => run[i].drift > 0 \/ Cardinality(run[i].packet.disputed) >= 2
    BY <2>0, ScoreTells
  <2>2. ASSUME run'[i].at \notin {"landed", "stale"}
        PROVE  Judged(i)
    BY <2>2
  <2>3. CASE run' = run
    BY <2>0, <2>2, <2>3
  <2>4. CASE SelectBatch
    BY <2>0, <2>4 DEF SelectBatch, Working
  <2>5. ASSUME NEW j \in Tasks, Start(j)
        PROVE  Judged(i)
    <3>1. PICK p : Begins(j, p)
      BY <1>1, <2>5, StartBegins
    <3> QED BY <2>0, <2>2, <3>1 DEF Begins
  <2>6. ASSUME NEW j \in Tasks, StartRefused(j) \/ ContextDoesNotFit(j) \/ AgentFails(j)
        PROVE  Judged(i)
    <3>1. run' = [run EXCEPT ![j] = NoRun]
      BY <2>6 DEF StartRefused, ContextDoesNotFit, AgentFails
    <3>2. run'[i].at \in {"none", "working"}
      BY <2>0, <3>1, NoRunTyped
    <3> QED BY <2>2, <3>2
  <2>7. ASSUME NEW j \in Tasks, NEW verdict \in {"none", "landed", "stale"},
               run' = [run EXCEPT ![j] = [NoRun EXCEPT !.at = verdict]]
        PROVE  run'[i].at = IF i = j THEN verdict ELSE "working"
    <3> DEFINE q == [NoRun EXCEPT !.at = verdict]
    <3>1. q.at = verdict
      BY DEF NoRun
    <3> HIDE DEF q
    <3>2. run' = [run EXCEPT ![j] = q]
      BY <2>7 DEF q
    <3> QED BY <2>0, <3>1, <3>2
  <2>8. ASSUME NEW j \in Tasks, Reject(j)
        PROVE  Judged(i)
    <3> DEFINE verdict == IF TooStale(Score(j)) THEN "stale" ELSE "none"
    <3>1. run' = [run EXCEPT ![j] = [NoRun EXCEPT !.at = verdict]]
      BY <2>8 DEF Reject
    <3>2. verdict \in {"none", "landed", "stale"} /\ verdict /= "landed"
          /\ (verdict = "stale" => TooStale(Score(j)))
      OBVIOUS
    <3> HIDE DEF verdict
    <3>3. run'[i].at = IF i = j THEN verdict ELSE "working"
      BY <2>7, <3>1, <3>2
    <3> QED BY <2>1, <2>2, <3>2, <3>3
  <2>9. ASSUME NEW j \in Tasks, Land(j)
        PROVE  Judged(i)
    <3>1. run' = [run EXCEPT ![j] = [NoRun EXCEPT !.at = "landed"]] /\ ~TooStale(Score(j))
      BY <2>9 DEF Land
    <3>2. run'[i].at = IF i = j THEN "landed" ELSE "working"
      BY <2>7, <3>1
    <3> QED BY <2>1, <2>2, <3>1, <3>2
  <2>10. CASE SomeoneAppends \/ SomeoneRevises
    <3>1. OthersAct
      BY <2>0, <2>10, AppendsShake, RevisesShake
    <3> QED BY <2>0, <2>2, <3>1 DEF OthersAct, Shakes
  <2>11. CASE PlanObjective \/ CreateTask \/ PlanBreaksOff \/ SessionSpends \/ UNCHANGED vars
    <3>1. run' = run
      BY <2>11 DEF PlanObjective, CreateTask, PlanBreaksOff, SessionSpends, vars
    <3> QED BY <2>3, <3>1
  <2> QED BY <1>1, <2>4, <2>5, <2>6, <2>8, <2>9, <2>10, <2>11 DEF Next
<1>2. DispatchInv /\ [Next]_vars => [\A i \in Working : Judged(i)]_vars
  BY <1>1
<1> QED BY <1>2, DispatchInvariant, PTL DEF Spec, StaleWorkNeverLands

=============================================================================
