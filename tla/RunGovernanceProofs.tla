------------------------ MODULE RunGovernanceProofs ------------------------
(***************************************************************************)
(* A run's memory, and the run under all its bounds, for any number of     *)
(* runs, any pool, growths, threads and slots.                             *)
(*                                                                         *)
(* RunMemory: what makes a denial sound is that the delta taken back from  *)
(* the charge is exactly what was to be reserved, which holds because a    *)
(* run that is not growing holds its whole charge.  That the pool has      *)
(* given out the sum of what the runs hold is carried by three facts about *)
(* sums over a finite set, proved first.                                   *)
(*                                                                         *)
(* RunGovernance: a run's stage says which resources it has, and the       *)
(* queue of the blocking pool has each of its jobs once.                   *)
(***************************************************************************)
EXTENDS RunGovernance, FiniteSetTheorems, WellFoundedInduction, Integers, TLAPS

-----------------------------------------------------------------------------
(* Sums over a finite set *)

\* A nonempty set of naturals has a least member: the library's induction
\* theorems take a predicate as a parameter, this fact a set.
LEMMA LeastNumber ==
  ASSUME NEW T \in SUBSET Nat, T # {}
  PROVE  \E n \in T : \A m \in T : n <= m
<1> DEFINE Less == {p \in Nat \X Nat : p[1] < p[2]}
<1>1. IsWellFoundedOn(Less, Nat)
  BY NatLessThanWellFounded DEF OpToRel
<1>2. \A x, y \in Nat : <<y, x>> \in Less <=> y < x
  OBVIOUS
<1> HIDE DEF Less
<1>3. PICK n \in T : \A m \in T : ~ (<<m, n>> \in Less)
  BY <1>1, WFMin
<1>4. \A m \in T : ~ (m < n)
  BY <1>2, <1>3, Zenon
<1>5. \A m \in T : n <= m
  BY <1>4
<1> QED BY <1>5

\* The member a sum over a set takes next, and what the sum is then.
AnyOf(s) == CHOOSE x \in s : TRUE
SumOf(h, S) == MapThenSumSet(LAMBDA r : h[r], S)
SumStep(h, g, s) == IF s = {} THEN 0 ELSE h[AnyOf(s)] + g[s \ {AnyOf(s)}]

\* It is a member.
LEMMA AnyOfIn == ASSUME NEW s, s # {} PROVE AnyOf(s) \in s
BY DEF AnyOf

\* The recursion of a sum over a finite set has a solution: on the sets of at
\* most n members for every n, and so on all of them.
LEMMA SumExists ==
  ASSUME NEW S, IsFiniteSet(S), NEW h \in [S -> Int]
  PROVE  \E g \in [SUBSET S -> Int] : g = [s \in SUBSET S |-> SumStep(h, g, s)]
<1> DEFINE Upto(n) == {s \in SUBSET S : Cardinality(s) <= n}
           Has(n) == \E g \in [Upto(n) -> Int] : \A s \in Upto(n) : g[s] = SumStep(h, g, s)
           Lacks == {n \in Nat : ~Has(n)}
<1>0. \A s \in SUBSET S : IsFiniteSet(s) /\ Cardinality(s) \in Nat
  BY FS_Subset, FS_CardinalityType
<1>1. Has(0)
  <2>1. Upto(0) = {{}}
    BY <1>0, FS_EmptySet
  <2> DEFINE g == [s \in Upto(0) |-> 0]
  <2>2. g \in [Upto(0) -> Int] /\ \A s \in Upto(0) : g[s] = SumStep(h, g, s)
    BY <2>1 DEF SumStep
  <2> QED BY <2>2
<1>2. ASSUME NEW n \in Nat, Has(n) PROVE Has(n + 1)
  <2>1. PICK g \in [Upto(n) -> Int] : \A s \in Upto(n) : g[s] = SumStep(h, g, s)
    BY <1>2
  <2> DEFINE f == [s \in Upto(n + 1) |-> SumStep(h, g, s)]
  <2>2. ASSUME NEW s \in Upto(n + 1), s # {} PROVE s \ {AnyOf(s)} \in Upto(n) /\ AnyOf(s) \in S
    <3>1. AnyOf(s) \in s
      BY <2>2, AnyOfIn
    <3>2. Cardinality(s \ {AnyOf(s)}) = Cardinality(s) - 1
      BY <1>0, <3>1, FS_RemoveElement
    <3> QED BY <1>0, <3>1, <3>2
  <2>3. f \in [Upto(n + 1) -> Int]
    BY <2>2 DEF SumStep
  <2>4. \A s \in Upto(n) : s \in Upto(n + 1) /\ f[s] = g[s]
    BY <1>0, <2>1
  <2>5. \A s \in Upto(n + 1) : f[s] = SumStep(h, f, s)
    <3> SUFFICES ASSUME NEW s \in Upto(n + 1), s # {} PROVE SumStep(h, g, s) = SumStep(h, f, s)
      BY DEF SumStep
    <3> HIDE DEF f
    <3> QED BY <2>2, <2>4 DEF SumStep
  <2> HIDE DEF f, Upto
  <2> QED BY <2>3, <2>5
<1>3. Lacks = {}
  <2> SUFFICES ASSUME Lacks # {} PROVE FALSE
    OBVIOUS
  <2> HIDE DEF Has
  <2>1. PICK n \in Lacks : \A m \in Lacks : n <= m
    BY LeastNumber
  <2>2. n \in Nat /\ n # 0
    BY <1>1
  <2>3. n - 1 \in Nat /\ n - 1 \notin Lacks
    BY <2>1, <2>2
  <2>4. Has((n - 1) + 1)
    BY <1>2, <2>3
  <2> QED BY <2>2, <2>4
<1>4. Cardinality(S) \in Nat /\ Upto(Cardinality(S)) = SUBSET S
  <2>1. \A s \in SUBSET S : Cardinality(s) <= Cardinality(S)
    BY FS_Subset
  <2> QED BY <1>0, <2>1
<1>5. Has(Cardinality(S))
  BY <1>3, <1>4
<1>6. PICK g \in [SUBSET S -> Int] : \A s \in SUBSET S : g[s] = SumStep(h, g, s)
  BY <1>4, <1>5
<1> QED BY <1>6

\* What holds of the empty set, and of a set whenever it holds of that set
\* without one member, holds of every subset of a finite set.
LEMMA SubsetInduction ==
  ASSUME NEW S, IsFiniteSet(S), NEW Good, {} \in Good,
         \A s \in SUBSET S : s # {} /\ s \ {AnyOf(s)} \in Good => s \in Good
  PROVE  SUBSET S \subseteq Good
<1> DEFINE Bad == {n \in Nat : \E s \in SUBSET S : s \notin Good /\ Cardinality(s) = n}
<1>1. \A s \in SUBSET S : IsFiniteSet(s) /\ Cardinality(s) \in Nat
  BY FS_Subset, FS_CardinalityType
<1>2. Bad = {}
  <2> SUFFICES ASSUME Bad # {} PROVE FALSE
    OBVIOUS
  <2>1. PICK n \in Bad : \A m \in Bad : n <= m
    BY LeastNumber
  <2>2. PICK s \in SUBSET S : s \notin Good /\ Cardinality(s) = n
    BY <2>1
  <2>3. s # {} /\ AnyOf(s) \in s
    BY <2>2, AnyOfIn
  <2>4. s \ {AnyOf(s)} \in SUBSET S /\ Cardinality(s \ {AnyOf(s)}) = n - 1
    BY <1>1, <2>2, <2>3, FS_RemoveElement
  <2>5. s \ {AnyOf(s)} \notin Good
    BY <2>2, <2>3
  <2>6. n - 1 \in Bad
    BY <1>1, <2>4, <2>5
  <2> QED BY <2>1, <2>6
<1> QED BY <1>1, <1>2

\* g gives the sum of h over every subset of S.
Sums(g, h, S) ==
  /\ g \in [SUBSET S -> Int]
  /\ g[{}] = 0
  /\ \A s \in SUBSET S : s # {} => g[s] = h[AnyOf(s)] + g[s \ {AnyOf(s)}]

\* MapThenSumSet, as PoolAccounted uses it, is such a g.
LEMMA SumRecursive ==
  ASSUME NEW S, IsFiniteSet(S), NEW h \in [S -> Int]
  PROVE  \E g : Sums(g, h, S) /\ SumOf(h, S) = g[S]
<1> DEFINE g == CHOOSE f : f = [s \in SUBSET S |-> SumStep(h, f, s)]
<1>1. SumOf(h, S) = g[S]
  BY DEF SumOf, MapThenSumSet, MapThenFoldSet, SumStep, AnyOf
<1>2. g = [s \in SUBSET S |-> SumStep(h, g, s)]
  BY SumExists
<1> HIDE DEF g
<1>3. g[{}] = 0 /\ \A s \in SUBSET S : s # {} => g[s] = h[AnyOf(s)] + g[s \ {AnyOf(s)}]
  <2>1. \A s \in SUBSET S : g[s] = SumStep(h, g, s)
    BY <1>2
  <2>2. {} \in SUBSET S /\ SumStep(h, g, {}) = 0
    BY DEF SumStep
  <2>3. \A s \in SUBSET S : s # {} => SumStep(h, g, s) = h[AnyOf(s)] + g[s \ {AnyOf(s)}]
    BY DEF SumStep
  <2> QED BY <2>1, <2>2, <2>3
<1> DEFINE Good == {s \in SUBSET S : g[s] \in Int}
<1>4. {} \in Good
  BY <1>3
<1>5. ASSUME NEW s \in SUBSET S, s # {}, s \ {AnyOf(s)} \in Good PROVE s \in Good
  <2>1. AnyOf(s) \in S
    BY <1>5, AnyOfIn
  <2>2. h[AnyOf(s)] \in Int /\ g[s \ {AnyOf(s)}] \in Int
    BY <1>5, <2>1
  <2>3. g[s] = h[AnyOf(s)] + g[s \ {AnyOf(s)}]
    BY <1>3, <1>5
  <2> QED BY <2>2, <2>3
<1> HIDE DEF Good
<1>6. SUBSET S \subseteq Good
  BY <1>4, <1>5, SubsetInduction
<1>7. g \in [SUBSET S -> Int]
  BY <1>2, <1>6 DEF Good
<1> QED BY <1>1, <1>3, <1>7 DEF Sums

\* When one summand changes, the sum changes by as much.
LEMMA SumUpdate ==
  ASSUME NEW S, IsFiniteSet(S), NEW h \in [S -> Int], NEW k \in [S -> Int], NEW r \in S,
         \A x \in S \ {r} : k[x] = h[x]
  PROVE  SumOf(k, S) = SumOf(h, S) - h[r] + k[r]
<1> DEFINE v == k[r]
<1>1. v \in Int /\ k[r] = v /\ \A x \in S : x # r => k[x] = h[x]
  OBVIOUS
<1> HIDE DEF v
<1>2. PICK g : Sums(g, h, S) /\ SumOf(h, S) = g[S]
  BY SumRecursive
<1>3. PICK f : Sums(f, k, S) /\ SumOf(k, S) = f[S]
  BY <1>1, SumRecursive
<1> DEFINE Good == {s \in SUBSET S : f[s] = g[s] + IF r \in s THEN v - h[r] ELSE 0}
<1>4. {} \in Good
  BY <1>2, <1>3 DEF Sums
<1>5. ASSUME NEW s \in SUBSET S, s # {}, s \ {AnyOf(s)} \in Good PROVE s \in Good
  <2> DEFINE x == AnyOf(s)
             t == s \ {x}
  <2>1. x \in s /\ x \in S /\ t \in SUBSET S
    BY <1>5, AnyOfIn
  <2>2. g[s] = h[x] + g[t] /\ f[s] = k[x] + f[t]
    BY <1>2, <1>3, <1>5 DEF Sums
  <2>3. f[t] = g[t] + IF r \in t THEN v - h[r] ELSE 0
    BY <1>5
  <2>4. g[t] \in Int /\ f[t] \in Int /\ h[x] \in Int /\ h[r] \in Int
    BY <1>2, <1>3, <2>1 DEF Sums
  <2>5. CASE x = r
    BY <1>1, <2>1, <2>2, <2>3, <2>4, <2>5
  <2>6. CASE x # r
    <3>1. r \in t <=> r \in s
      BY <2>6
    <3> HIDE DEF x, t
    <3> QED BY <1>1, <2>1, <2>2, <2>3, <2>4, <2>6, <3>1
  <2> QED BY <2>5, <2>6
<1> HIDE DEF Good
<1>6. SUBSET S \subseteq Good
  BY <1>4, <1>5, SubsetInduction
<1>7. f[S] = g[S] + (v - h[r]) /\ g[S] \in Int /\ h[r] \in Int
  BY <1>2, <1>6 DEF Good, Sums
<1>8. SumOf(k, S) = SumOf(h, S) - h[r] + v
  BY <1>1, <1>2, <1>3, <1>7
<1> QED BY <1>8 DEF v

\* With nothing elsewhere the sum is the one summand.
LEMMA SumOfOne ==
  ASSUME NEW S, IsFiniteSet(S), NEW h \in [S -> Nat], NEW r \in S, \A x \in S \ {r} : h[x] = 0
  PROVE  SumOf(h, S) = h[r]
<1>0. h \in [S -> Int]
  OBVIOUS
<1>1. PICK g : Sums(g, h, S) /\ SumOf(h, S) = g[S]
  BY <1>0, SumRecursive
<1> DEFINE Good == {s \in SUBSET S : g[s] = IF r \in s THEN h[r] ELSE 0}
<1>2. {} \in Good
  BY <1>1 DEF Sums
<1>3. ASSUME NEW s \in SUBSET S, s # {}, s \ {AnyOf(s)} \in Good PROVE s \in Good
  <2> DEFINE x == AnyOf(s)
             t == s \ {x}
  <2>1. x \in s /\ x \in S /\ t \in SUBSET S
    BY <1>3, AnyOfIn
  <2>2. g[s] = h[x] + g[t]
    BY <1>1, <1>3 DEF Sums
  <2>3. g[t] = IF r \in t THEN h[r] ELSE 0
    BY <1>3
  <2>4. CASE x = r
    BY <2>1, <2>2, <2>3, <2>4
  <2>5. CASE x # r
    <3>1. r \in t <=> r \in s
      BY <2>5
    <3> HIDE DEF x, t
    <3> QED BY <2>1, <2>2, <2>3, <2>5, <3>1
  <2> QED BY <2>4, <2>5
<1> HIDE DEF Good
<1>4. SUBSET S \subseteq Good
  BY <1>2, <1>3, SubsetInduction
<1> QED BY <1>1, <1>4 DEF Good

\* A sum of naturals is one.
LEMMA SumNat ==
  ASSUME NEW S, IsFiniteSet(S), NEW h \in [S -> Nat]
  PROVE  SumOf(h, S) \in Nat
<1>0. h \in [S -> Int]
  OBVIOUS
<1>1. PICK g : Sums(g, h, S) /\ SumOf(h, S) = g[S]
  BY <1>0, SumRecursive
<1> DEFINE Good == {s \in SUBSET S : g[s] \in Nat}
<1>2. {} \in Good
  BY <1>1 DEF Sums
<1>3. ASSUME NEW s \in SUBSET S, s # {}, s \ {AnyOf(s)} \in Good PROVE s \in Good
  BY <1>1, <1>3, AnyOfIn DEF Sums
<1> HIDE DEF Good
<1>4. SUBSET S \subseteq Good
  BY <1>2, <1>3, SubsetInduction
<1> QED BY <1>1, <1>4 DEF Good

-----------------------------------------------------------------------------
(* RunMemory *)

\* TypeOK but for the sign of used.
Types ==
  /\ used \in Int
  /\ hold \in [Runs -> Nat]
  /\ charged \in [Runs -> Nat]
  /\ need \in [Runs -> Nat]
  /\ delta \in [Runs -> Nat]
  /\ late \in [Runs -> BOOLEAN]
  /\ answer \in [Runs -> Answers]
  /\ pc \in [Runs -> States]

\* The growth in progress is exactly what is still to be reserved.
DeltaIsNeed == \A r \in Runs : delta[r] = need[r]

\* A run without a store holds nothing.
IdleHoldsNothing == \A r \in Runs : pc[r] = "idle" => hold[r] = 0

\* Whoever was denied is past its deadline.
DeniedOnlyLate == \A r \in Runs : answer[r] = "pool" => late[r]

\* The inductive invariant.
Inv ==
  /\ Types /\ DeltaIsNeed /\ HoldIsCharge /\ NoLostWakeup /\ DeniedOnlyLate
  /\ IdleHoldsNothing

\* No run holds, needs or waits for anything at first.
LEMMA InitInv == Init => Inv
BY SizesNatural DEF Init, Inv, Types, Answers, States, DeltaIsNeed, HoldIsCharge, NoLostWakeup, DeniedOnlyLate, IdleHoldsNothing

-----------------------------------------------------------------------------
(* Steps that reserve and release nothing *)

\* A run begins, or its deadline passes.
LEMMA ClockKeepsInv ==
  ASSUME Inv, NEW r \in Runs, Start(r) \/ DeadlinePasses(r)
  PROVE  Inv'
<1> USE SizesNatural DEF Inv
<1>1. CASE Start(r)
  <2>1. Types' /\ DeltaIsNeed' /\ IdleHoldsNothing'
    BY <1>1 DEF Start, Types, Answers, States, DeltaIsNeed, IdleHoldsNothing
  <2>2. HoldIsCharge'
    BY <1>1 DEF Start, Types, HoldIsCharge
  <2>3. NoLostWakeup' /\ DeniedOnlyLate'
    BY <1>1 DEF Start, Types, NoLostWakeup, Fits, DeniedOnlyLate
  <2> QED BY <2>1, <2>2, <2>3
<1>2. CASE DeadlinePasses(r)
  <2>1. Types' /\ DeltaIsNeed' /\ IdleHoldsNothing'
    BY <1>2 DEF DeadlinePasses, Types, DeltaIsNeed, IdleHoldsNothing
  <2>2. HoldIsCharge'
    BY <1>2 DEF DeadlinePasses, Types, HoldIsCharge
  <2>3. NoLostWakeup' /\ DeniedOnlyLate'
    BY <1>2 DEF DeadlinePasses, Types, NoLostWakeup, Fits, DeniedOnlyLate
  <2> QED BY <2>1, <2>2, <2>3
<1> QED BY <1>1, <1>2

\* A growth is answered at once or charged; a run that is not growing holds
\* its charge, so what it must reserve is the growth.
LEMMA GrowKeepsInv ==
  ASSUME Inv, NEW r \in Runs, NEW d \in Deltas,
         GrowOverCeiling(r, d) \/ GrowCovered(r, d) \/ Grow(r, d)
  PROVE  Inv'
<1> USE SizesNatural DEF Inv
<1>0. d \in Nat
  OBVIOUS
<1>1. CASE GrowOverCeiling(r, d)
  <2>1. Types' /\ DeltaIsNeed' /\ IdleHoldsNothing'
    BY <1>1 DEF GrowOverCeiling, Types, Answers, DeltaIsNeed, IdleHoldsNothing
  <2>2. HoldIsCharge'
    BY <1>1 DEF GrowOverCeiling, HoldIsCharge
  <2>3. NoLostWakeup' /\ DeniedOnlyLate'
    BY <1>1 DEF GrowOverCeiling, Types, NoLostWakeup, Fits, DeniedOnlyLate
  <2> QED BY <2>1, <2>2, <2>3
<1>2. CASE GrowCovered(r, d)
  <2>1. d = 0
    BY <1>0, <1>2 DEF GrowCovered, Types, HoldIsCharge
  <2>2. Types' /\ DeltaIsNeed' /\ IdleHoldsNothing'
    BY <1>0, <1>2 DEF GrowCovered, Types, Answers, DeltaIsNeed, IdleHoldsNothing
  <2>3. HoldIsCharge'
    BY <1>2, <2>1 DEF GrowCovered, Types, HoldIsCharge
  <2>4. NoLostWakeup' /\ DeniedOnlyLate'
    BY <1>2 DEF GrowCovered, Types, NoLostWakeup, Fits, DeniedOnlyLate
  <2> QED BY <2>2, <2>3, <2>4
<1>3. CASE Grow(r, d)
  <2>1. charged[r] = hold[r] /\ charged[r] \in Nat
    BY <1>3 DEF Grow, Types, HoldIsCharge
  <2>2. need' = [need EXCEPT ![r] = d]
    <3>1. charged[r] + d - hold[r] = d
      BY <1>0, <2>1
    <3> QED BY <1>3, <3>1 DEF Grow
  <2>3. Types' /\ DeltaIsNeed' /\ IdleHoldsNothing'
    BY <1>0, <1>3, <2>2 DEF Grow, Types, States, DeltaIsNeed, IdleHoldsNothing
  <2>4. HoldIsCharge'
    BY <1>0, <1>3, <2>1, <2>2 DEF Grow, UnderCeiling, Types, HoldIsCharge
  <2>5. NoLostWakeup' /\ DeniedOnlyLate'
    BY <1>3 DEF Grow, Types, NoLostWakeup, Fits, DeniedOnlyLate
  <2> QED BY <2>3, <2>4, <2>5
<1> QED BY <1>1, <1>2, <1>3

-----------------------------------------------------------------------------
(* The pool *)

\* A reservation is given, denied, or waits; whoever sleeps could not be
\* served, and giving bytes out only makes that more so.
LEMMA ReserveKeepsInv ==
  ASSUME Inv, NEW r \in Runs,
         Reserve(r) \/ Deny(r) \/ Sleep(r) \/ TimedOut(r) \/ SpuriousWake(r)
  PROVE  Inv'
<1> USE SizesNatural DEF Inv
<1>1. CASE Reserve(r)
  <2>1. Types' /\ DeltaIsNeed' /\ IdleHoldsNothing'
    BY <1>1 DEF Reserve, Answer, Types, Answers, States, DeltaIsNeed, IdleHoldsNothing
  <2>2. HoldIsCharge'
    BY <1>1 DEF Reserve, Answer, Types, HoldIsCharge
  <2>3. NoLostWakeup'
    BY <1>1 DEF Reserve, Answer, Types, NoLostWakeup, Fits
  <2>4. DeniedOnlyLate'
    BY <1>1 DEF Reserve, Answer, Types, DeniedOnlyLate
  <2> QED BY <2>1, <2>2, <2>3, <2>4
<1>2. CASE Deny(r)
  <2>1. charged[r] - delta[r] = hold[r]
    BY <1>2 DEF Deny, Types, DeltaIsNeed, HoldIsCharge
  <2>2. Types' /\ DeltaIsNeed' /\ IdleHoldsNothing'
    BY <1>2, <2>1 DEF Deny, Answer, Types, Answers, States, DeltaIsNeed, IdleHoldsNothing
  <2>3. HoldIsCharge'
    BY <1>2, <2>1 DEF Deny, Answer, Types, HoldIsCharge
  <2>4. NoLostWakeup' /\ DeniedOnlyLate'
    BY <1>2 DEF Deny, Answer, Types, NoLostWakeup, Fits, DeniedOnlyLate
  <2> QED BY <2>2, <2>3, <2>4
<1>3. CASE Sleep(r)
  <2>1. Types' /\ DeltaIsNeed' /\ IdleHoldsNothing' /\ DeniedOnlyLate'
    BY <1>3 DEF Sleep, Types, States, DeltaIsNeed, IdleHoldsNothing, DeniedOnlyLate
  <2>2. HoldIsCharge' /\ NoLostWakeup'
    BY <1>3 DEF Sleep, Types, HoldIsCharge, NoLostWakeup, Fits
  <2> QED BY <2>1, <2>2
<1>4. CASE TimedOut(r) \/ SpuriousWake(r)
  <2>1. Types' /\ DeltaIsNeed' /\ IdleHoldsNothing' /\ DeniedOnlyLate'
    BY <1>4 DEF TimedOut, SpuriousWake, Types, States, DeltaIsNeed, IdleHoldsNothing, DeniedOnlyLate
  <2>2. HoldIsCharge' /\ NoLostWakeup'
    BY <1>4 DEF TimedOut, SpuriousWake, Types, HoldIsCharge, NoLostWakeup, Fits
  <2> QED BY <2>1, <2>2
<1> QED BY <1>1, <1>2, <1>3, <1>4

\* A store drops: if it gives anything back every sleeper wakes, and
\* otherwise nothing a sleeper waits for has changed.
LEMMA DropKeepsInv ==
  ASSUME Inv, NEW r \in Runs, Drop(r)
  PROVE  Inv'
<1> USE SizesNatural DEF Inv
<1>1. /\ pc' \in [Runs -> States]
      /\ \A x \in Runs : pc'[x] = "asleep" => pc[x] = "asleep"
      /\ \A x \in Runs \ {r} : pc'[x] = "idle" => pc[x] = "idle"
      /\ \A x \in Runs : pc'[x] \in {"idle", "running"} => pc[x] \in {"idle", "running"}
      /\ hold[r] > 0 => \A x \in Runs : pc'[x] # "asleep"
  BY DEF Drop, WakeAll, Types, States
<1>2. /\ used' = used - hold[r]
      /\ hold' = [hold EXCEPT ![r] = 0]
      /\ charged' = [charged EXCEPT ![r] = 0]
      /\ late' = [late EXCEPT ![r] = FALSE]
      /\ answer' = [answer EXCEPT ![r] = "none"]
      /\ need' = need /\ delta' = delta
      /\ pc[r] = "running"
  BY DEF Drop
<1>3. Types' /\ DeltaIsNeed' /\ IdleHoldsNothing'
  BY <1>1, <1>2 DEF Types, Answers, DeltaIsNeed, IdleHoldsNothing
<1>4. HoldIsCharge'
  BY <1>1, <1>2 DEF Types, HoldIsCharge
<1>5. NoLostWakeup'
  BY <1>1, <1>2 DEF Types, NoLostWakeup, Fits
<1>6. DeniedOnlyLate'
  BY <1>2 DEF Types, DeniedOnlyLate
<1> QED BY <1>3, <1>4, <1>5, <1>6

-----------------------------------------------------------------------------

\* Every step of every run keeps the invariant.
LEMMA NextKeepsInv == Inv /\ [Next]_vars => Inv'
<1> SUFFICES ASSUME Inv, [Next]_vars PROVE Inv'
  OBVIOUS
<1>1. CASE \E r \in Runs : Start(r) \/ DeadlinePasses(r)
  BY <1>1, ClockKeepsInv
<1>2. CASE \E r \in Runs, d \in Deltas : GrowOverCeiling(r, d) \/ GrowCovered(r, d) \/ Grow(r, d)
  BY <1>2, GrowKeepsInv
<1>3. CASE \E r \in Runs : Reserve(r) \/ Deny(r) \/ Sleep(r) \/ TimedOut(r) \/ SpuriousWake(r)
  BY <1>3, ReserveKeepsInv
<1>4. CASE \E r \in Runs : Drop(r)
  BY <1>4, DropKeepsInv
<1>5. CASE UNCHANGED vars
  BY <1>5 DEF vars, Inv, Types, IdleHoldsNothing, DeltaIsNeed, HoldIsCharge, NoLostWakeup, Fits, DeniedOnlyLate
<1> QED BY <1>1, <1>2, <1>3, <1>4, <1>5 DEF Next

-----------------------------------------------------------------------------
(* What the pool has given out *)

\* PoolAccounted, with the sum by its name.
Accounted ==
  /\ used = SumOf(hold, Runs)
  /\ used <= PoolTotal

\* It is the property the runs check.
LEMMA AccountedIsPool == Accounted <=> PoolAccounted
BY DEF Accounted, PoolAccounted, SumOf

\* Nothing is given out at first.
LEMMA InitAccounted == Init => Accounted
<1> SUFFICES ASSUME Init PROVE Accounted
  OBVIOUS
<1>1. hold \in [Runs -> Nat] /\ used = 0 /\ PoolTotal \in Nat
  BY SizesNatural DEF Init
<1>2. SumOf(hold, Runs) = 0
  <2>1. CASE Runs = {}
    <3>1. hold \in [Runs -> Int]
      BY <1>1
    <3>2. PICK g : Sums(g, hold, Runs) /\ SumOf(hold, Runs) = g[Runs]
      BY <3>1, RunsFinite, SumRecursive
    <3> QED BY <2>1, <3>2 DEF Sums
  <2>2. CASE Runs # {}
    <3>1. PICK r \in Runs : TRUE
      BY <2>2
    <3>2. \A x \in Runs : hold[x] = 0
      BY DEF Init
    <3> QED BY <1>1, <3>1, <3>2, RunsFinite, SumOfOne
  <2> QED BY <2>1, <2>2
<1> QED BY <1>1, <1>2 DEF Accounted

\* A step that moves the hold of one run, and used by as much.
LEMMA MovedIsAccounted ==
  ASSUME Inv, Accounted, NEW r \in Runs, NEW v \in Nat,
         hold' = [hold EXCEPT ![r] = v], used' = used + v - hold[r], used' <= PoolTotal
  PROVE  Accounted'
<1>1. /\ hold \in [Runs -> Int] /\ hold' \in [Runs -> Int]
      /\ hold'[r] = v /\ \A x \in Runs \ {r} : hold'[x] = hold[x]
  BY DEF Inv, Types
<1>2. SumOf(hold', Runs) = SumOf(hold, Runs) - hold[r] + hold'[r]
  <2>1. PICK h \in [Runs -> Int] : h = hold
    BY <1>1
  <2>2. PICK k \in [Runs -> Int] : k = hold'
    BY <1>1
  <2>3. \A x \in Runs \ {r} : k[x] = h[x]
    BY <1>1, <2>1, <2>2
  <2>4. SumOf(k, Runs) = SumOf(h, Runs) - h[r] + k[r]
    BY ONLY <2>3, RunsFinite, SumUpdate
  <2> QED BY ONLY <2>1, <2>2, <2>4
<1>3. used = SumOf(hold, Runs) /\ used \in Int /\ hold[r] \in Int
  BY <1>1 DEF Accounted, Inv, Types
<1>4. used' = SumOf(hold', Runs)
  BY <1>1, <1>2, <1>3
<1> QED BY <1>4 DEF Accounted

\* The pool's count follows the holds: bytes move only by a reservation that
\* fits and by the drop of a store.
LEMMA NextKeepsAccounted == Inv /\ Accounted /\ [Next]_vars => Accounted'
<1> SUFFICES ASSUME Inv, Accounted, [Next]_vars PROVE Accounted'
  OBVIOUS
<1>1. CASE UNCHANGED <<used, hold>>
  BY <1>1 DEF Accounted
<1>2. ASSUME NEW r \in Runs, Start(r) PROVE Accounted'
  <2>1. hold[r] = 0 /\ hold \in [Runs -> Nat]
    BY <1>2 DEF Inv, IdleHoldsNothing, Types, Start
  <2>2. hold' = hold /\ used' = used
    BY <1>2, <2>1 DEF Start
  <2> QED BY <2>2 DEF Accounted
<1>3. ASSUME NEW r \in Runs, Reserve(r) PROVE Accounted'
  <2>1. hold[r] \in Nat /\ need[r] \in Nat /\ used \in Int
    BY DEF Inv, Types
  <2>2. hold' = [hold EXCEPT ![r] = hold[r] + need[r]] /\ used' = used + need[r] /\ used' <= PoolTotal
    BY <1>3 DEF Reserve, Fits
  <2>3. hold[r] + need[r] \in Nat /\ used' = used + (hold[r] + need[r]) - hold[r]
    BY <2>1, <2>2
  <2> QED BY <2>2, <2>3, MovedIsAccounted
<1>4. ASSUME NEW r \in Runs, Drop(r) PROVE Accounted'
  <2>1. hold[r] \in Nat /\ used \in Int /\ used <= PoolTotal /\ PoolTotal \in Nat
    BY SizesNatural DEF Inv, Types, Accounted
  <2>2. hold' = [hold EXCEPT ![r] = 0] /\ used' = used - hold[r]
    BY <1>4 DEF Drop
  <2>3. used' = used + 0 - hold[r] /\ used' <= PoolTotal
    BY <2>1, <2>2
  <2> QED BY <2>2, <2>3, MovedIsAccounted
<1>5. ASSUME NEW r \in Runs, DeadlinePasses(r) PROVE Accounted'
  BY <1>1, <1>5 DEF DeadlinePasses
<1>6. ASSUME NEW r \in Runs, NEW d \in Deltas, GrowOverCeiling(r, d) \/ GrowCovered(r, d) \/ Grow(r, d)
      PROVE  Accounted'
  BY <1>1, <1>6 DEF GrowOverCeiling, GrowCovered, Grow
<1>7. ASSUME NEW r \in Runs, Deny(r) \/ Sleep(r) \/ TimedOut(r) \/ SpuriousWake(r) PROVE Accounted'
  BY <1>1, <1>7 DEF Deny, Sleep, TimedOut, SpuriousWake
<1>8. CASE UNCHANGED vars
  BY <1>1, <1>8 DEF vars
<1> QED BY <1>2, <1>3, <1>4, <1>5, <1>6, <1>7, <1>8 DEF Next

-----------------------------------------------------------------------------
(* What holds of the memory *)

\* The strengthening holds throughout.
THEOREM Invariance == Spec => []Inv
BY InitInv, NextKeepsInv, PTL DEF Spec

\* A run's reservation is its charge and stays under the per-run ceiling,
\* whatever growths were denied (charge's rollback in RunLimiter).
THEOREM HoldMatchesCharge == Spec => []HoldIsCharge
<1>1. Inv => HoldIsCharge
  BY DEF Inv
<1> QED BY Invariance, <1>1, PTL

\* MemPool's condition variable never leaves a run asleep on bytes that are
\* there.
THEOREM WakeupsNotLost == Spec => []NoLostWakeup
<1>1. Inv => NoLostWakeup
  BY DEF Inv
<1> QED BY Invariance, <1>1, PTL

\* reserve denies a growth only after the run's wait deadline, and only if its
\* bytes are not there at that moment, whatever woke it.
THEOREM DeniedForCause == Spec => DeniedOnlyShort
<1>1. Inv /\ [Next]_vars =>
        [\A r \in Runs :
           pc[r] \in {"reserving", "asleep"} /\ pc'[r] = "running" /\ answer'[r] = "pool" =>
             late[r] /\ ~Fits(r)]_vars
  <2> SUFFICES ASSUME Inv, Next, NEW r \in Runs, pc[r] \in {"reserving", "asleep"},
                      pc'[r] = "running", answer'[r] = "pool"
               PROVE  late[r] /\ ~Fits(r)
    OBVIOUS
  <2>1. Types
    BY DEF Inv
  <2>2. ASSUME NEW q \in Runs,
               \/ Start(q) \/ DeadlinePasses(q) \/ Drop(q) \/ Sleep(q) \/ TimedOut(q) \/ SpuriousWake(q)
               \/ \E d \in Deltas : GrowOverCeiling(q, d) \/ GrowCovered(q, d) \/ Grow(q, d)
        PROVE  FALSE
    BY <2>1, <2>2 DEF Types, Start, DeadlinePasses, Drop, WakeAll, Sleep, TimedOut, SpuriousWake,
                      GrowOverCeiling, GrowCovered, Grow
  <2>3. ASSUME NEW q \in Runs, Reserve(q) PROVE FALSE
    BY <2>1, <2>3 DEF Types, Reserve, Answer
  <2>4. ASSUME NEW q \in Runs, Deny(q) PROVE late[r] /\ ~Fits(r)
    BY <2>1, <2>4 DEF Types, Deny, Answer
  <2> QED BY <2>2, <2>3, <2>4 DEF Next
<1> QED BY Invariance, <1>1, PTL DEF Spec, DeniedOnlyShort

\* What the pool has given out is exactly what the live runs hold, and never
\* more than it has: reserve, release, charge's rollback and PoolHold's drop
\* lose and double no byte.
THEOREM PoolIsAccounted == Spec => []PoolAccounted
<1>1. Spec => []Accounted
  BY Invariance, InitAccounted, NextKeepsAccounted, PTL DEF Spec
<1>2. Accounted => PoolAccounted
  BY AccountedIsPool
<1> QED BY <1>1, <1>2, PTL

\* The memory's types; that used is never negative is the accounting's.
THEOREM MemoryTypes == Spec => []TypeOK
<1>1. Inv /\ PoolAccounted => TypeOK
  <2> SUFFICES ASSUME Inv, PoolAccounted PROVE TypeOK
    OBVIOUS
  <2>1. used \in Nat
    BY RunsFinite, SumNat, AccountedIsPool DEF Accounted, Inv, Types
  <2> QED BY <2>1 DEF Inv, Types, TypeOK
<1> QED BY Invariance, PoolIsAccounted, <1>1, PTL

\* With the pool at least as large as the ceiling (Wasmtime::new's check), a
\* run alone on it never waits: whoever sleeps in reserve sleeps on bytes
\* that some other run holds.
THEOREM SleepersWaitOnOthers == Spec => []SleepsOnOthers
<1>1. Inv /\ PoolAccounted => SleepsOnOthers
  <2> SUFFICES ASSUME Inv, PoolAccounted, NEW r \in Runs, pc[r] = "asleep",
                      \A x \in Runs \ {r} : ~(hold[x] > 0)
               PROVE  FALSE
    BY DEF SleepsOnOthers
  <2>1. hold \in [Runs -> Nat] /\ need[r] \in Nat /\ charged[r] \in Nat
    BY DEF Inv, Types
  <2>2. \A x \in Runs \ {r} : hold[x] = 0
    BY <2>1
  <2>3. used = hold[r]
    BY <2>1, <2>2, RunsFinite, SumOfOne, AccountedIsPool DEF Accounted
  <2>4. hold[r] + need[r] <= Limit
    BY DEF Inv, HoldIsCharge
  <2>5. Limit <= PoolTotal
    BY SizesNatural, ConfigAccepted DEF Accepted
  <2>6. ~(used + need[r] <= PoolTotal)
    BY DEF Inv, NoLostWakeup, Fits
  <2>7. hold[r] \in Nat /\ Limit \in Nat /\ PoolTotal \in Nat
    BY <2>1, SizesNatural
  <2> QED BY <2>1, <2>3, <2>4, <2>5, <2>6, <2>7
<1> QED BY Invariance, PoolIsAccounted, <1>1, PTL

-----------------------------------------------------------------------------
(* RunGovernance: what a run's stage says of its resources *)

HasStep == {"engine", "slot", "run", "await", "linger", "ending", "leaving"}
HasSlot == {"run", "await", "linger", "ending"}
HasStore == {"run", "await", "linger"}

GovTypes ==
  /\ limited \in SUBSET Runs /\ granted \in SUBSET Runs /\ lingers \in SUBSET Runs
  /\ stage \in [Runs -> Stages]
  /\ jobs \in Seq(Jobs)
  /\ busy \in SUBSET Jobs
  /\ out \in [Runs -> SUBSET Sends]
  /\ steps \in SUBSET Runs /\ in \in SUBSET Runs /\ waiting \in SUBSET Runs
  /\ cut \in [Runs -> BOOLEAN]

\* A step slot is held from the grant to the closure's end, by the runs of a
\* limited step all that time.
StepsHeld ==
  /\ \A r \in Runs : r \in steps => stage[r] \in HasStep
  /\ \A r \in Runs : r \in limited /\ stage[r] \in HasStep => r \in steps
  /\ Cardinality(steps) <= Concurrency

\* A run has a slot from the grant to its release, and queues at no other
\* time than while it asks for one.
SlotsHeld ==
  /\ \A r \in Runs : r \in waiting => stage[r] = "slot"
  /\ \A r \in Runs : r \in in => stage[r] = "slot" \/ stage[r] \in HasSlot
  /\ \A r \in Runs : stage[r] \in HasSlot => r \in in
  /\ in \intersect waiting = {}
  /\ Cardinality(in) <= MaxRuns

\* Only a run with a store grows.
StoresHeld == \A r \in Runs : pc[r] # "idle" => stage[r] \in HasStore

\* A queued closure is its run's present step; a job is queued once.
JobsQueued ==
  /\ \A i \in 1 .. Len(jobs) : \A r \in Runs : jobs[i] = RunJob(r) => stage[r] = "queued"
  /\ \A i, k \in 1 .. Len(jobs) : jobs[i] = jobs[k] => i = k

\* A closure has a thread once it has begun, until it ends.
ThreadsHeld == \A r \in Runs : RunJob(r) \in busy => stage[r] \notin {"queued", "done"}

\* The inductive invariant, beside the memory's.
GovInv == GovTypes /\ StepsHeld /\ SlotsHeld /\ StoresHeld /\ JobsQueued /\ ThreadsHeld

\* The closures of different runs, and closures and sends, are told apart.
LEMMA JobShapes ==
  /\ \A r \in Runs : RunJob(r) \in Jobs /\ RunJob(r) \notin SendJobs /\ RunJob(r)[2] = r
  /\ \A r, q \in Runs : RunJob(r) = RunJob(q) => r = q
  /\ \A r \in Runs, s \in Sends : SendJob(r, s) \in SendJobs /\ SendJob(r, s) \in Jobs
  /\ \A j \in Jobs : j \in SendJobs \/ \E r \in Runs : j = RunJob(r)
  /\ \A j \in SendJobs : j[2] \in Runs
<1>1. \A r \in Runs : RunJob(r) \in Jobs /\ RunJob(r)[2] = r
  BY DEF RunJob, Jobs
<1>2. \A r \in Runs, q \in Runs, s \in Sends : RunJob(r) # SendJob(q, s)
  <2> SUFFICES ASSUME NEW r \in Runs, NEW q \in Runs, NEW s \in Sends PROVE RunJob(r) # SendJob(q, s)
    OBVIOUS
  <2>1. RunJob(r)[1] = "run" /\ SendJob(q, s)[1] = "send"
    BY DEF RunJob, SendJob
  <2> QED BY <2>1
<1>3. \A r \in Runs : RunJob(r) \notin SendJobs
  BY <1>2 DEF SendJobs
<1>4. \A r, q \in Runs : RunJob(r) = RunJob(q) => r = q
  BY DEF RunJob
<1>5. \A r \in Runs, s \in Sends : SendJob(r, s) \in SendJobs /\ SendJob(r, s) \in Jobs
  BY DEF SendJobs, Jobs
<1>6. \A j \in Jobs : j \in SendJobs \/ \E r \in Runs : j = RunJob(r)
  BY DEF Jobs
<1>7. \A j \in SendJobs : j[2] \in Runs
  BY DEF SendJobs, SendJob
<1> QED BY <1>1, <1>3, <1>4, <1>5, <1>6, <1>7

\* The sets of runs are finite.
LEMMA RunSetsFinite ==
  ASSUME GovTypes
  PROVE  /\ IsFiniteSet(steps) /\ Cardinality(steps) \in Nat
         /\ IsFiniteSet(in) /\ Cardinality(in) \in Nat
BY RunsFinite, FS_Subset, FS_CardinalityType DEF GovTypes

\* One run more or fewer.
LEMMA OneRunMoved ==
  ASSUME NEW S \in SUBSET Runs, NEW x
  PROVE  /\ Cardinality(S) \in Nat
         /\ Cardinality(S \union {x}) \in Nat /\ Cardinality(S \union {x}) <= Cardinality(S) + 1
         /\ Cardinality(S \ {x}) \in Nat /\ Cardinality(S \ {x}) <= Cardinality(S)
         /\ x \in S => Cardinality(S \ {x}) = Cardinality(S) - 1
<1>1. IsFiniteSet(S) /\ IsFiniteSet(S \union {x}) /\ IsFiniteSet(S \ {x})
  BY RunsFinite, FS_Subset, FS_AddElement, FS_RemoveElement
<1>2. Cardinality(S) \in Nat /\ Cardinality(S \union {x}) \in Nat /\ Cardinality(S \ {x}) \in Nat
  BY <1>1, FS_CardinalityType
<1>3. Cardinality(S \union {x}) = IF x \in S THEN Cardinality(S) ELSE Cardinality(S) + 1
  BY <1>1, FS_AddElement
<1>4. Cardinality(S \ {x}) = IF x \in S THEN Cardinality(S) - 1 ELSE Cardinality(S)
  BY <1>1, FS_RemoveElement
<1> QED BY <1>2, <1>3, <1>4

\* Nothing is queued, held or running at first.
LEMMA GovInitInv == GovInit => GovInv
<1> SUFFICES ASSUME GovInit PROVE GovInv
  OBVIOUS
<1> USE DEF GovInit
<1>1. GovTypes
  BY MixesOfRuns DEF GovTypes, Stages, Slots!SlotsInit
<1>2. StepsHeld /\ SlotsHeld
  BY FS_EmptySet, BoundsPositive DEF StepsHeld, SlotsHeld, HasStep, HasSlot, Slots!SlotsInit
<1>3. StoresHeld /\ JobsQueued /\ ThreadsHeld
  BY DEF Init, StoresHeld, JobsQueued, ThreadsHeld
<1> QED BY <1>1, <1>2, <1>3 DEF GovInv

-----------------------------------------------------------------------------
(* Steps that move no run to another stage *)

\* The threads' growths and the clock.
LEMMA SameStageKeepsInv ==
  ASSUME GovInv, Inv, NEW r \in Runs,
         WaitDeadline(r) \/ Grows(r) \/ Reserves(r) \/ WakesLate(r) \/ RunDeadlinePasses(r)
  PROVE  GovInv'
<1> USE DEF GovInv
<1>1. /\ UNCHANGED <<given, stage, jobs, busy, out, steps, in, waiting>>
      /\ cut' \in [Runs -> BOOLEAN]
  BY DEF WaitDeadline, Grows, Reserves, WakesLate, RunDeadlinePasses, slotState, GovTypes
<1>2. StoresHeld'
  <2>1. CASE UNCHANGED pc
    BY <1>1, <2>1 DEF StoresHeld
  <2>2. CASE Grows(r)
    BY <1>1, <2>2 DEF Grows, GrowOverCeiling, GrowCovered, Grow, SpuriousWake, StoresHeld, HasStore, Inv, Types
  <2>3. CASE Reserves(r)
    BY <1>1, <2>3 DEF Reserves, Reserve, Deny, Sleep, Answer, StoresHeld, Inv, Types
  <2>4. CASE WakesLate(r)
    BY <1>1, <2>4 DEF WakesLate, TimedOut, StoresHeld, Inv, Types
  <2> QED BY <2>1, <2>2, <2>3, <2>4 DEF WaitDeadline, RunDeadlinePasses, DeadlinePasses, vars
<1>3. GovTypes' /\ StepsHeld' /\ SlotsHeld'
  BY <1>1 DEF GovTypes, StepsHeld, SlotsHeld, given
<1>4. JobsQueued' /\ ThreadsHeld'
  BY <1>1 DEF JobsQueued, ThreadsHeld
<1> QED BY <1>2, <1>3, <1>4

-----------------------------------------------------------------------------
(* The blocking pool *)

\* A job joins the queue, where it is not: a run's closure, or a send.
LEMMA AppendKeepsQueue ==
  ASSUME GovTypes, JobsQueued, NEW j \in Jobs, jobs' = Append(jobs, j),
         \A i \in 1 .. Len(jobs) : jobs[i] # j,
         \A q \in Runs : stage[q] = "queued" \/ j = RunJob(q) => stage'[q] = "queued"
  PROVE  JobsQueued'
<1>1. /\ Len(jobs') = Len(jobs) + 1 /\ Len(jobs) \in Nat
      /\ \A i \in 1 .. Len(jobs) : jobs'[i] = jobs[i]
      /\ jobs'[Len(jobs) + 1] = j
  BY DEF GovTypes
<1>2. ASSUME NEW i \in 1 .. Len(jobs'), NEW q \in Runs, jobs'[i] = RunJob(q)
      PROVE  stage'[q] = "queued"
  <2>1. CASE i = Len(jobs) + 1
    BY <1>1, <1>2, <2>1
  <2>2. CASE i \in 1 .. Len(jobs)
    BY <1>1, <1>2, <2>2 DEF JobsQueued
  <2> QED BY <1>1, <2>1, <2>2
<1>3. \A i, k \in 1 .. Len(jobs') : jobs'[i] = jobs'[k] => i = k
  BY <1>1 DEF JobsQueued
<1> QED BY <1>2, <1>3 DEF JobsQueued

\* A run's closure is submitted, or a send of its guest.
LEMMA QueueKeepsInv ==
  ASSUME GovInv, NEW r \in Runs, Submit(r) \/ \E s \in Sends : SendHttp(r, s)
  PROVE  GovInv'
<1> USE DEF GovInv
<1>1. CASE Submit(r)
  <2>1. /\ stage[r] = "done" /\ stage' = [stage EXCEPT ![r] = "queued"]
        /\ jobs' = Append(jobs, RunJob(r))
        /\ UNCHANGED <<pc, given, busy, out, steps, in, waiting, cut>>
    BY <1>1 DEF Submit, Goes, vars, slotState
  <2>2. GovTypes'
    BY <2>1, JobShapes DEF GovTypes, Stages, given
  <2>3. StepsHeld' /\ SlotsHeld' /\ StoresHeld' /\ ThreadsHeld'
    <3>1. StepsHeld' /\ SlotsHeld'
      BY <2>1 DEF GovTypes, StepsHeld, SlotsHeld, HasStep, HasSlot, given
    <3>2. StoresHeld' /\ ThreadsHeld'
      BY <2>1 DEF GovTypes, StoresHeld, ThreadsHeld, HasStore
    <3> QED BY <3>1, <3>2
  <2>4. \A i \in 1 .. Len(jobs) : jobs[i] # RunJob(r)
    BY <2>1 DEF JobsQueued
  <2>5. \A q \in Runs : stage[q] = "queued" \/ RunJob(r) = RunJob(q) => stage'[q] = "queued"
    BY <2>1, JobShapes DEF GovTypes
  <2>6. JobsQueued'
    BY <2>1, <2>4, <2>5, AppendKeepsQueue, JobShapes
  <2> QED BY <2>2, <2>3, <2>6
<1>2. ASSUME NEW s \in Sends, SendHttp(r, s) PROVE GovInv'
  <2>1. /\ jobs' = Append(jobs, SendJob(r, s)) /\ out' = [out EXCEPT ![r] = @ \union {s}]
        /\ UNCHANGED <<pc, given, stage, busy, steps, in, waiting, cut>>
        /\ SendJob(r, s) \in Jobs /\ SendJob(r, s) \in SendJobs
    BY <1>2, JobShapes DEF SendHttp, vars, slotState
  <2>2. GovTypes'
    BY <2>1 DEF GovTypes, given
  <2>3. StepsHeld' /\ SlotsHeld' /\ StoresHeld' /\ ThreadsHeld'
    BY <2>1 DEF StepsHeld, SlotsHeld, StoresHeld, ThreadsHeld, given
  <2>4. \A i \in 1 .. Len(jobs) : jobs[i] # SendJob(r, s)
    BY <1>2 DEF SendHttp, Range, GovTypes
  <2>5. \A q \in Runs : stage[q] = "queued" \/ SendJob(r, s) = RunJob(q) => stage'[q] = "queued"
    BY <2>1, JobShapes
  <2>6. JobsQueued'
    BY <2>1, <2>4, <2>5, AppendKeepsQueue
  <2> QED BY <2>2, <2>3, <2>6
<1> QED BY <1>1, <1>2

\* A thread takes the oldest job, which goes: a closure that begins is in the
\* queue no more.
LEMMA PickKeepsInv ==
  ASSUME GovInv, Pick
  PROVE  GovInv'
<1> USE DEF GovInv
<1>1. PICK j \in Jobs : j = Head(jobs)
  BY DEF Pick, GovTypes
<1>2. /\ jobs # <<>> /\ jobs' = Tail(jobs) /\ busy' = busy \union {j}
      /\ UNCHANGED <<pc, given, out, steps, in, waiting>>
  BY <1>1 DEF Pick, vars, slotState
<1>3. /\ Len(jobs) \in Nat /\ Len(jobs) > 0 /\ jobs[1] = j
      /\ Len(jobs') = Len(jobs) - 1
      /\ \A i \in 1 .. Len(jobs') : i + 1 \in 1 .. Len(jobs) /\ jobs'[i] = jobs[i + 1]
  BY <1>1, <1>2 DEF GovTypes
<1>4. \A i, k \in 1 .. Len(jobs') : jobs'[i] = jobs'[k] => i = k
  BY <1>3 DEF JobsQueued
<1>5. \A i \in 1 .. Len(jobs') : jobs'[i] # j
  <2> SUFFICES ASSUME NEW i \in 1 .. Len(jobs') PROVE jobs'[i] # j
    OBVIOUS
  <2>1. jobs'[i] = jobs[i + 1] /\ i + 1 \in 1 .. Len(jobs) /\ i + 1 # 1 /\ 1 \in 1 .. Len(jobs)
    BY <1>3
  <2> QED BY <1>3, <2>1 DEF JobsQueued
<1>6. CASE j \in SendJobs
  <2>1. UNCHANGED <<stage, cut>>
    <3>1. j[2] \in Runs
      BY <1>6, JobShapes
    <3>2. j # RunJob(j[2])
      BY <1>6, <3>1, JobShapes
    <3> QED BY <1>1, <3>2 DEF Pick
  <2>2. GovTypes' /\ StepsHeld' /\ SlotsHeld' /\ StoresHeld'
    <3>1. GovTypes'
      BY <1>2, <2>1 DEF GovTypes, given
    <3>2. StepsHeld' /\ SlotsHeld' /\ StoresHeld'
      BY <1>2, <2>1 DEF StepsHeld, SlotsHeld, StoresHeld, given
    <3> QED BY <3>1, <3>2
  <2>3. ThreadsHeld'
    BY <1>2, <1>6, <2>1, JobShapes DEF ThreadsHeld
  <2>4. JobsQueued'
    <3>1. ASSUME NEW i \in 1 .. Len(jobs'), NEW q \in Runs, jobs'[i] = RunJob(q)
          PROVE  stage'[q] = "queued"
      BY <1>3, <2>1, <3>1 DEF JobsQueued
    <3> QED BY <1>4, <3>1 DEF JobsQueued
  <2> QED BY <2>2, <2>3, <2>4
<1>7. ASSUME NEW r \in Runs, j = RunJob(r) PROVE GovInv'
  <2>1. PICK s \in {"step", "engine"} :
          /\ stage' = [stage EXCEPT ![r] = s] /\ cut' \in [Runs -> BOOLEAN]
          /\ s = "engine" => r \notin limited
    <3>1. j[2] = r /\ j \notin SendJobs
      BY <1>7, JobShapes
    <3> QED BY <1>1, <3>1 DEF Pick, Goes, WaitOver, GovTypes
  <2>2. stage[r] = "queued"
    BY <1>3, <1>7 DEF JobsQueued
  <2>3. GovTypes'
    BY <1>2, <2>1 DEF GovTypes, Stages, given
  <2>4. StepsHeld'
    BY <1>2, <2>1, <2>2 DEF GovTypes, StepsHeld, HasStep, given
  <2>5. SlotsHeld' /\ StoresHeld'
    BY <1>2, <2>1, <2>2 DEF GovTypes, SlotsHeld, StoresHeld, HasSlot, HasStore
  <2>6. ThreadsHeld'
    BY <1>2, <1>7, <2>1, JobShapes DEF GovTypes, ThreadsHeld
  <2>7. JobsQueued'
    <3>1. ASSUME NEW i \in 1 .. Len(jobs'), NEW q \in Runs, jobs'[i] = RunJob(q)
          PROVE  stage'[q] = "queued"
      <4>1. q # r
        BY <1>5, <1>7, <3>1
      <4>2. stage[q] = "queued"
        BY <1>3, <3>1 DEF JobsQueued
      <4> QED BY <2>1, <4>1, <4>2 DEF GovTypes
    <3> QED BY <1>4, <3>1 DEF JobsQueued
  <2> QED BY <2>3, <2>4, <2>5, <2>6, <2>7
<1> QED BY <1>6, <1>7, JobShapes

-----------------------------------------------------------------------------
(* The other stages *)

\* A run moves on while it has its thread and nothing in the queue.
LEMMA MovedKeepsQueue ==
  ASSUME GovInv, NEW r \in Runs, NEW s \in Stages,
         stage[r] # "queued", stage' = [stage EXCEPT ![r] = s], jobs' = jobs
  PROVE  JobsQueued'
BY DEF GovInv, GovTypes, JobsQueued

\* The step slot is taken or refused.
LEMMA StepKeepsInv ==
  ASSUME GovInv, NEW r \in Runs, TakeStep(r) \/ RefuseStep(r)
  PROVE  GovInv'
<1> USE DEF GovInv
<1>1. CASE TakeStep(r)
  <2>1. /\ stage[r] = "step" /\ stage' = [stage EXCEPT ![r] = "engine"]
        /\ steps' = steps \union {r} /\ Cardinality(steps) < Concurrency
        /\ cut' = [cut EXCEPT ![r] = FALSE]
        /\ UNCHANGED <<pc, given, jobs, busy, out, in, waiting>>
    BY <1>1 DEF TakeStep, Goes, WaitOver, StepFree, vars, slotState
  <2>2. Cardinality(steps') <= Concurrency
    <3>1. Cardinality(steps \union {r}) <= Cardinality(steps) + 1 /\ Cardinality(steps) \in Nat
      BY OneRunMoved DEF GovTypes
    <3>2. Cardinality(steps \union {r}) \in Nat
      BY OneRunMoved DEF GovTypes
    <3> QED BY <2>1, <3>1, <3>2, BoundsPositive
  <2>3. GovTypes'
    BY <2>1 DEF GovTypes, Stages, given
  <2>4. StepsHeld'
    BY <2>1, <2>2 DEF GovTypes, StepsHeld, HasStep, given
  <2>5. SlotsHeld' /\ StoresHeld' /\ ThreadsHeld'
    BY <2>1 DEF GovTypes, SlotsHeld, StoresHeld, ThreadsHeld, HasSlot, HasStore
  <2>6. JobsQueued'
    BY <2>1, MovedKeepsQueue DEF Stages
  <2> QED BY <2>3, <2>4, <2>5, <2>6
<1>2. CASE RefuseStep(r)
  <2>1. /\ stage[r] = "step" /\ stage' = [stage EXCEPT ![r] = "done"]
        /\ busy' = busy \ {RunJob(r)}
        /\ cut' = [cut EXCEPT ![r] = FALSE]
        /\ UNCHANGED <<pc, given, jobs, out, steps, in, waiting>>
    BY <1>2 DEF RefuseStep, Goes, WaitOver, vars, slotState
  <2>2. GovTypes'
    BY <2>1 DEF GovTypes, Stages, given
  <2>3. StepsHeld' /\ SlotsHeld' /\ StoresHeld'
    BY <2>1 DEF GovTypes, StepsHeld, SlotsHeld, StoresHeld, HasStep, HasSlot, HasStore, given
  <2>4. ThreadsHeld'
    BY <2>1, JobShapes DEF GovTypes, ThreadsHeld
  <2>5. JobsQueued'
    BY <2>1, MovedKeepsQueue DEF Stages
  <2> QED BY <2>2, <2>3, <2>4, <2>5
<1> QED BY <1>1, <1>2

\* RunSlots counts the way this module does.
LEMMA SameCardinality == \A S : Slots!Cardinality(S) = Cardinality(S)
BY DEF Cardinality, Slots!Cardinality

\* The run slot is taken, waited for, granted by another run, or given up.
LEMMA SlotKeepsInv ==
  ASSUME GovInv, Inv, NEW r \in Runs,
         EnterSlot(r) \/ QueueForSlot(r) \/ SlotGranted(r) \/ GiveUpSlot(r)
  PROVE  GovInv'
<1> USE DEF GovInv
<1>0. /\ UNCHANGED <<given, jobs, busy, out, steps>>
      /\ cut' \in [Runs -> BOOLEAN]
      /\ stage[r] \in {"engine", "slot"}
  BY DEF EnterSlot, QueueForSlot, SlotGranted, GiveUpSlot, WaitOver, GovTypes
<1>1. PICK s \in {"slot", "run", "leaving"} : stage' = [stage EXCEPT ![r] = s]
  BY DEF EnterSlot, QueueForSlot, SlotGranted, GiveUpSlot, Goes
<1>2. GovTypes'
  <2>1. in' \in SUBSET Runs /\ waiting' \in SUBSET Runs
    BY DEF EnterSlot, QueueForSlot, SlotGranted, GiveUpSlot, GovTypes, slotState,
           Slots!Enter, Slots!Wait, Slots!GiveUp
  <2> QED BY <1>0, <1>1, <2>1 DEF GovTypes, Stages, given
<1>3. StepsHeld'
  BY <1>0, <1>1 DEF GovTypes, StepsHeld, HasStep, given
<1>4. JobsQueued' /\ ThreadsHeld'
  <2>1. JobsQueued'
    BY <1>0, <1>1, MovedKeepsQueue DEF Stages
  <2>2. ThreadsHeld'
    BY <1>0, <1>1 DEF GovTypes, ThreadsHeld
  <2> QED BY <2>1, <2>2
<1>5. StoresHeld'
  <2>1. CASE EnterSlot(r) \/ SlotGranted(r)
    <3>1. pc' = [pc EXCEPT ![r] = "running"] /\ stage' = [stage EXCEPT ![r] = "run"]
      BY <2>1 DEF EnterSlot, SlotGranted, Start, Goes
    <3> QED BY <3>1 DEF GovTypes, StoresHeld, HasStore, Inv, Types
  <2>2. CASE QueueForSlot(r) \/ GiveUpSlot(r)
    BY <2>2 DEF QueueForSlot, GiveUpSlot, vars, Goes, GovTypes, StoresHeld, HasStore
  <2> QED BY <2>1, <2>2
<1>6. SlotsHeld'
  <2>1. CASE EnterSlot(r)
    <3>1. Cardinality(in) < MaxRuns /\ in' = in \union {r}
      BY <2>1, SameCardinality DEF EnterSlot, Slots!Enter
    <3>2. Cardinality(in \union {r}) <= Cardinality(in) + 1 /\ Cardinality(in) \in Nat
      BY OneRunMoved DEF GovTypes
    <3>3. Cardinality(in \union {r}) \in Nat
      BY OneRunMoved DEF GovTypes
    <3>4. Cardinality(in') <= MaxRuns
      BY <3>1, <3>2, <3>3, BoundsPositive
    <3> QED BY <2>1, <3>4 DEF EnterSlot, Slots!Enter, Goes, GovTypes, SlotsHeld, HasSlot
  <2>2. CASE QueueForSlot(r)
    BY <2>2 DEF QueueForSlot, Slots!Wait, Goes, GovTypes, SlotsHeld, HasSlot
  <2>3. CASE SlotGranted(r)
    BY <2>3 DEF SlotGranted, slotState, Goes, GovTypes, SlotsHeld, HasSlot
  <2>4. CASE GiveUpSlot(r)
    BY <2>4 DEF GiveUpSlot, Slots!GiveUp, Goes, GovTypes, SlotsHeld, HasSlot
  <2> QED BY <2>1, <2>2, <2>3, <2>4
<1> QED BY <1>2, <1>3, <1>4, <1>5, <1>6

\* A guest waits, for an answer or elsewhere, and goes on; a send returns,
\* whose run may be over.
LEMMA GuestKeepsInv ==
  ASSUME GovInv, NEW r \in Runs,
         Await(r) \/ Linger(r) \/ GoOn(r) \/ \E s \in Sends : SendReturns(r, s)
  PROVE  GovInv'
<1> USE DEF GovInv
<1>1. /\ UNCHANGED <<pc, given, jobs, steps, in, waiting, cut>>
      /\ busy' \subseteq busy /\ out' \in [Runs -> SUBSET Sends]
  BY DEF Await, Linger, GoOn, SendReturns, vars, slotState, GovTypes
<1>2. \A q \in Runs : stage'[q] = stage[q] \/ (stage[q] \in HasStore /\ stage'[q] \in HasStore)
  <2>1. CASE stage' = stage
    BY <2>1
  <2>2. ASSUME NEW x \in HasStore, stage[r] \in HasStore, stage' = [stage EXCEPT ![r] = x]
        PROVE  \A q \in Runs : stage'[q] = stage[q] \/ (stage[q] \in HasStore /\ stage'[q] \in HasStore)
    BY <2>2 DEF GovTypes
  <2>3. \/ stage' = stage
        \/ \E x \in HasStore : stage[r] \in HasStore /\ stage' = [stage EXCEPT ![r] = x]
    BY DEF Await, Linger, GoOn, SendReturns, Goes, HasStore
  <2> QED BY <2>1, <2>2, <2>3
<1>3. stage' \in [Runs -> Stages]
  BY DEF Await, Linger, GoOn, SendReturns, Goes, Stages, GovTypes
<1>4. GovTypes'
  BY <1>1, <1>3 DEF GovTypes, given
<1>5. StepsHeld' /\ SlotsHeld' /\ StoresHeld'
  <2>1. StepsHeld'
    BY <1>1, <1>2 DEF StepsHeld, HasStep, HasStore, given
  <2>2. SlotsHeld'
    BY <1>1, <1>2 DEF SlotsHeld, HasSlot, HasStore
  <2>3. StoresHeld'
    BY <1>1, <1>2 DEF StoresHeld
  <2> QED BY <2>1, <2>2, <2>3
<1>6. JobsQueued' /\ ThreadsHeld'
  BY <1>1, <1>2 DEF JobsQueued, ThreadsHeld, HasStore
<1> QED BY <1>4, <1>5, <1>6

\* The guest is over and its store drops, whatever it has in flight.
LEMMA EndKeepsInv ==
  ASSUME GovInv, Inv, NEW r \in Runs, EndRun(r)
  PROVE  GovInv'
<1> USE DEF GovInv
<1>1. /\ UNCHANGED <<given, jobs, busy, steps, in, waiting, cut>>
      /\ out' = [out EXCEPT ![r] = {}]
      /\ stage[r] = "run" /\ stage' = [stage EXCEPT ![r] = "ending"]
  BY DEF EndRun, Goes, slotState
<1>2. GovTypes' /\ StepsHeld' /\ SlotsHeld'
  <2>1. GovTypes'
    BY <1>1 DEF GovTypes, Stages, given
  <2>2. StepsHeld'
    BY <1>1 DEF GovTypes, StepsHeld, HasStep, given
  <2>3. SlotsHeld'
    BY <1>1 DEF GovTypes, SlotsHeld, HasSlot
  <2> QED BY <2>1, <2>2, <2>3
<1>3. JobsQueued'
  BY <1>1, MovedKeepsQueue DEF Stages
<1>4. ThreadsHeld'
  BY <1>1 DEF GovTypes, ThreadsHeld
<1>5. StoresHeld'
  <2>1. pc'[r] = "idle" /\ \A x \in Runs : pc'[x] # "idle" => pc[x] # "idle"
    BY DEF EndRun, Drop, WakeAll, Inv, Types
  <2> QED BY <1>1, <2>1 DEF GovTypes, StoresHeld
<1> QED BY <1>2, <1>3, <1>4, <1>5

\* The run slot goes to whoever waits, then the step slot and the thread.
LEMMA LeaveKeepsInv ==
  ASSUME GovInv, NEW r \in Runs, ReleaseSlot(r) \/ ReleaseStep(r)
  PROVE  GovInv'
<1> USE DEF GovInv
<1>1. CASE ReleaseSlot(r)
  <2>1. /\ stage[r] = "ending" /\ stage' = [stage EXCEPT ![r] = "leaving"]
        /\ UNCHANGED <<pc, given, jobs, busy, out, steps, cut>>
    BY <1>1 DEF ReleaseSlot, Goes, vars
  <2>2. \/ in' = in \ {r} /\ waiting' = waiting
        \/ \E w \in waiting : in' = (in \ {r}) \union {w} /\ waiting' = waiting \ {w}
    BY <1>1 DEF ReleaseSlot, Slots!Leave, Slots!PassOn
  <2>3. r \in in
    BY <2>1 DEF SlotsHeld, HasSlot
  <2>4. GovTypes'
    BY <2>1, <2>2 DEF GovTypes, Stages, given
  <2>5. Cardinality(in') <= MaxRuns
    <3>1. /\ Cardinality(in) \in Nat /\ Cardinality(in \ {r}) \in Nat
          /\ Cardinality(in \ {r}) = Cardinality(in) - 1
      BY <2>3, OneRunMoved DEF GovTypes
    <3>2. ASSUME NEW w
          PROVE  /\ Cardinality((in \ {r}) \union {w}) \in Nat
                 /\ Cardinality((in \ {r}) \union {w}) <= Cardinality(in)
      <4>1. in \ {r} \in SUBSET Runs
        BY DEF GovTypes
      <4>2. /\ Cardinality((in \ {r}) \union {w}) \in Nat
            /\ Cardinality((in \ {r}) \union {w}) <= Cardinality(in \ {r}) + 1
        BY <4>1, OneRunMoved
      <4> QED BY <3>1, <4>2
    <3>3. Cardinality(in) <= MaxRuns /\ MaxRuns \in Nat
      BY BoundsPositive DEF SlotsHeld
    <3>4. CASE in' = in \ {r}
      BY <3>1, <3>3, <3>4
    <3>5. ASSUME NEW w, in' = (in \ {r}) \union {w} PROVE Cardinality(in') <= MaxRuns
      <4>1. PICK c : c = Cardinality((in \ {r}) \union {w})
        OBVIOUS
      <4>2. c \in Nat /\ c <= Cardinality(in)
        BY <3>2, <4>1, Zenon
      <4>3. c <= MaxRuns
        BY <3>1, <3>3, <4>2
      <4> QED BY <3>5, <4>1, <4>3
    <3> QED BY <2>2, <3>4, <3>5
  <2>6. SlotsHeld'
    BY <2>1, <2>2, <2>5 DEF GovTypes, SlotsHeld, HasSlot
  <2>7. StepsHeld' /\ StoresHeld' /\ ThreadsHeld'
    BY <2>1 DEF GovTypes, StepsHeld, StoresHeld, ThreadsHeld, HasStep, HasStore, given
  <2>8. JobsQueued'
    BY <2>1, MovedKeepsQueue DEF Stages
  <2> QED BY <2>4, <2>6, <2>7, <2>8
<1>2. CASE ReleaseStep(r)
  <2>1. /\ stage[r] = "leaving" /\ stage' = [stage EXCEPT ![r] = "done"]
        /\ steps' = steps \ {r} /\ busy' = busy \ {RunJob(r)}
        /\ UNCHANGED <<pc, given, jobs, out, in, waiting, cut>>
    BY <1>2 DEF ReleaseStep, Goes, vars, slotState
  <2>2. Cardinality(steps') <= Concurrency
    <3>1. Cardinality(steps \ {r}) <= Cardinality(steps) /\ Cardinality(steps) \in Nat
      BY OneRunMoved DEF GovTypes
    <3>2. Cardinality(steps \ {r}) \in Nat
      BY OneRunMoved DEF GovTypes
    <3> QED BY <2>1, <3>1, <3>2, BoundsPositive DEF StepsHeld
  <2>3. GovTypes'
    BY <2>1 DEF GovTypes, Stages, given
  <2>4. StepsHeld'
    BY <2>1, <2>2 DEF GovTypes, StepsHeld, HasStep, given
  <2>5. SlotsHeld' /\ StoresHeld'
    BY <2>1 DEF GovTypes, SlotsHeld, StoresHeld, HasSlot, HasStore
  <2>6. ThreadsHeld'
    BY <2>1, JobShapes DEF GovTypes, ThreadsHeld
  <2>7. JobsQueued'
    BY <2>1, MovedKeepsQueue DEF Stages
  <2> QED BY <2>3, <2>4, <2>5, <2>6, <2>7
<1> QED BY <1>1, <1>2

\* Every step of every run, and of the blocking pool.
LEMMA GovNextKeepsInv == GovInv /\ Inv /\ [GovNext]_govVars => GovInv'
<1> SUFFICES ASSUME GovInv, Inv, [GovNext]_govVars PROVE GovInv'
  OBVIOUS
<1>1. CASE Pick
  BY <1>1, PickKeepsInv
<1>2. CASE \E r \in Runs : Submit(r) \/ \E s \in Sends : SendHttp(r, s)
  BY <1>2, QueueKeepsInv
<1>3. CASE \E r \in Runs : WaitDeadline(r) \/ Grows(r) \/ Reserves(r) \/ WakesLate(r) \/ RunDeadlinePasses(r)
  BY <1>3, SameStageKeepsInv
<1>4. CASE \E r \in Runs : TakeStep(r) \/ RefuseStep(r)
  BY <1>4, StepKeepsInv
<1>5. CASE \E r \in Runs : EnterSlot(r) \/ QueueForSlot(r) \/ SlotGranted(r) \/ GiveUpSlot(r)
  BY <1>5, SlotKeepsInv
<1>6. CASE \E r \in Runs : Await(r) \/ Linger(r) \/ GoOn(r) \/ \E s \in Sends : SendReturns(r, s)
  BY <1>6, GuestKeepsInv
<1>9. CASE \E r \in Runs : EndRun(r)
  BY <1>9, EndKeepsInv
<1>7. CASE \E r \in Runs : ReleaseSlot(r) \/ ReleaseStep(r)
  BY <1>7, LeaveKeepsInv
<1>8. CASE UNCHANGED govVars
  <2>1. UNCHANGED <<pc, given, stage, jobs, busy, out, steps, in, waiting, cut>>
    BY <1>8 DEF govVars, vars, slotState
  <2>2. GovTypes' /\ StepsHeld' /\ SlotsHeld'
    BY <2>1 DEF GovInv, GovTypes, StepsHeld, SlotsHeld, given
  <2>3. StoresHeld' /\ JobsQueued' /\ ThreadsHeld'
    BY <2>1 DEF GovInv, StoresHeld, JobsQueued, ThreadsHeld
  <2> QED BY <2>2, <2>3 DEF GovInv
<1> QED BY <1>1, <1>2, <1>3, <1>4, <1>5, <1>6, <1>7, <1>8, <1>9 DEF GovNext

-----------------------------------------------------------------------------
(* What holds of the runs together *)

\* To the memory pool a governed run is a run: every step of run, charge and
\* the store's drop is one of RunMemory's, or leaves the pool alone.
THEOREM GovernedRunsUsePool == GovSpec => Spec
<1>1. GovInit => Init
  BY DEF GovInit
<1>2. [GovNext]_govVars => [Next]_vars
  <2> SUFFICES ASSUME [GovNext]_govVars PROVE [Next]_vars
    OBVIOUS
  <2>1. CASE Pick \/ UNCHANGED govVars
    BY <2>1 DEF Pick, govVars, vars
  <2>2. ASSUME NEW r \in Runs,
               \/ Submit(r) \/ WaitDeadline(r) \/ TakeStep(r) \/ RefuseStep(r)
               \/ QueueForSlot(r) \/ GiveUpSlot(r) \/ Await(r) \/ Linger(r) \/ GoOn(r)
               \/ \E s \in Sends : SendHttp(r, s) \/ SendReturns(r, s)
               \/ ReleaseSlot(r) \/ ReleaseStep(r)
        PROVE  UNCHANGED vars
    BY <2>2 DEF Submit, WaitDeadline, TakeStep, RefuseStep, QueueForSlot, GiveUpSlot,
                Await, Linger, GoOn, SendHttp, SendReturns, ReleaseSlot, ReleaseStep, vars
  <2>3. ASSUME NEW r \in Runs,
               \/ EnterSlot(r) \/ SlotGranted(r) \/ Grows(r) \/ Reserves(r)
               \/ WakesLate(r) \/ RunDeadlinePasses(r) \/ EndRun(r)
        PROVE  Next
    BY <2>3 DEF EnterSlot, SlotGranted, Grows, Reserves, WakesLate, RunDeadlinePasses, EndRun, Next
  <2> QED BY <2>1, <2>2, <2>3 DEF GovNext
<1> QED BY <1>1, <1>2, PTL DEF GovSpec, Spec

\* To the scheduler it is a caller of RunSlots, which FairScheduler
\* implements: a slot is entered, waited for, given up, left or passed on.
THEOREM GovernedRunsUseSlots == GovSpec => Slots!SlotsSpec
<1>1. GovInit => Slots!SlotsInit
  BY DEF GovInit
<1>2. [GovNext]_govVars => [Slots!SlotsNext]_(Slots!slotVars)
  <2> SUFFICES ASSUME [GovNext]_govVars PROVE Slots!SlotsNext \/ UNCHANGED <<in, waiting>>
    BY DEF Slots!slotVars
  <2>1. CASE Pick \/ UNCHANGED govVars
    BY <2>1 DEF Pick, govVars, slotState
  <2>2. ASSUME NEW r \in Runs,
               \/ Submit(r) \/ WaitDeadline(r) \/ TakeStep(r) \/ RefuseStep(r)
               \/ SlotGranted(r) \/ Grows(r) \/ Reserves(r) \/ WakesLate(r)
               \/ RunDeadlinePasses(r) \/ Await(r) \/ Linger(r) \/ GoOn(r)
               \/ \E s \in Sends : SendHttp(r, s) \/ SendReturns(r, s)
               \/ EndRun(r) \/ ReleaseStep(r)
        PROVE  UNCHANGED <<in, waiting>>
    BY <2>2 DEF Submit, WaitDeadline, TakeStep, RefuseStep, SlotGranted, Grows, Reserves, WakesLate,
                RunDeadlinePasses, Await, Linger, GoOn, SendHttp, SendReturns, EndRun, ReleaseStep, slotState
  <2>3. ASSUME NEW r \in Runs, EnterSlot(r) \/ QueueForSlot(r) \/ GiveUpSlot(r) \/ ReleaseSlot(r)
        PROVE  Slots!SlotsNext
    BY <2>3 DEF EnterSlot, QueueForSlot, GiveUpSlot, ReleaseSlot, Slots!SlotsNext
  <2> QED BY <2>1, <2>2, <2>3 DEF GovNext
<1> QED BY <1>1, <1>2, PTL DEF GovSpec, Slots!SlotsSpec

\* A run's stage says what it has, at every point of every interleaving.
THEOREM GovInvariance == GovSpec => []GovInv
BY GovernedRunsUsePool, Invariance, GovInitInv, GovNextKeepsInv, PTL DEF GovSpec

\* The runs of a step with limits.concurrency never take or queue for more
\* run slots than that: the guard lives in the closure around engine.run.
THEOREM StepTakesItsShare == GovSpec => []StepShare
<1>1. GovInv => StepShare
  <2> SUFFICES ASSUME GovInv PROVE StepShare
    OBVIOUS
  <2>1. (in \union waiting) \intersect limited \subseteq steps
    BY DEF GovInv, GovTypes, StepsHeld, SlotsHeld, HasStep, HasSlot
  <2>2. Cardinality((in \union waiting) \intersect limited) <= Cardinality(steps)
    BY <2>1, RunSetsFinite, FS_Subset DEF GovInv
  <2>3. Cardinality((in \union waiting) \intersect limited) \in Nat
    BY <2>1, RunSetsFinite, FS_Subset, FS_CardinalityType DEF GovInv
  <2> QED BY <2>2, <2>3, RunSetsFinite, BoundsPositive DEF GovInv, StepsHeld, StepShare
<1> QED BY GovInvariance, <1>1, PTL

\* However a run ends, with sends in flight or without, a request that is
\* over, or has not begun, has no slot, memory or place in the scheduler's
\* queue, and its closure no thread.
THEOREM RunsKeepNothing == GovSpec => []NothingKept
<1>1. GovInv /\ Inv => NothingKept
  <2> SUFFICES ASSUME GovInv, Inv, NEW r \in Runs, stage[r] \in {"queued", "done"}
               PROVE  /\ r \notin steps \union in \union waiting
                      /\ hold[r] = 0
                      /\ RunJob(r) \notin busy
    BY DEF NothingKept
  <2>1. r \notin steps \union in \union waiting
    BY DEF GovInv, StepsHeld, SlotsHeld, HasStep, HasSlot
  <2>2. hold[r] = 0
    BY DEF GovInv, Inv, StoresHeld, HasStore, IdleHoldsNothing
  <2>3. RunJob(r) \notin busy
    BY DEF GovInv, ThreadsHeld
  <2> QED BY <2>1, <2>2, <2>3
<1> QED BY GovInvariance, GovernedRunsUsePool, Invariance, <1>1, PTL

\* The guests that run at the same time.
Running == {r \in Runs : stage[r] \in HasStore}

\* A guest runs only on a slot (engine.run takes one before it makes the
\* store and keeps it past the store's drop): --max-concurrent-runs bounds
\* the stores there are, suspended sends included.
THEOREM GuestsBounded == GovSpec => [](Cardinality(Running) <= MaxRuns)
<1>1. GovInv => Cardinality(Running) <= MaxRuns
  <2> SUFFICES ASSUME GovInv PROVE Cardinality(Running) <= MaxRuns
    OBVIOUS
  <2>1. Running \subseteq in
    BY DEF GovInv, SlotsHeld, HasSlot, HasStore, Running
  <2>2. Cardinality(Running) <= Cardinality(in) /\ Cardinality(Running) \in Nat
    BY <2>1, RunSetsFinite, FS_Subset, FS_CardinalityType DEF GovInv
  <2> QED BY <2>2, RunSetsFinite, BoundsPositive DEF GovInv, SlotsHeld
<1> QED BY GovInvariance, <1>1, PTL
=============================================================================
