-------------------------- MODULE StepSlotsProofs --------------------------
(***************************************************************************)
(* The per-step bound for any number of runs, keys, entries and any        *)
(* capacities.  An entry's count is the number of runs that hold a slot of *)
(* it, whether or not the map still has it.  That one key has one bound    *)
(* needs more: a run that waits on an entry keeps the sweep off it, since  *)
(* the entry was seen when the run cloned it and no wait is longer than    *)
(* the sweep's idle time; that is the hypothesis of OneBoundPerKey.        *)
(***************************************************************************)
EXTENDS StepSlots, FiniteSetTheorems, Integers, TLAPS

HoldersAt(e) == {r \in Runs : pc[r] = "holding" /\ at[r] = e}
AwakeAt(e) == {r \in Runs : pc[r] = "awake" /\ at[r] = e}

\* A run has a clone of an entry unless it is idle.
CloneKept == \A r \in Runs : at[r] = NoEntry <=> pc[r] = "idle"

\* held counts the runs that hold a slot, within the capacity.
HeldCounted == \A e \in Entries : held[e] = Cardinality(HoldersAt(e)) /\ held[e] <= capacity[e]

\* NoLostWakeup for every entry, cloned or not.
WakersEnough ==
  \A e \in Entries : Sleepers(e) # {} => capacity[e] <= held[e] + Cardinality(AwakeAt(e))

\* The invariant that needs no hypothesis.
Inv == TypeOK /\ CloneKept /\ HeldCounted /\ WakersEnough

-----------------------------------------------------------------------------
(* Facts about the operators *)

\* A set of runs is finite and has a number of members.
LEMMA RunsCounted ==
  ASSUME NEW S \in SUBSET Runs
  PROVE  IsFiniteSet(S) /\ Cardinality(S) \in Nat
<1>1. IsFiniteSet(S)
  BY RunsFinite, FS_Subset
<1> QED BY <1>1, FS_CardinalityType

\* One run more.
LEMMA OneMore ==
  ASSUME NEW S \in SUBSET Runs, NEW r \in Runs \ S
  PROVE  Cardinality(S \union {r}) = Cardinality(S) + 1
BY RunsCounted, FS_AddElement

\* One run less.
LEMMA OneLess ==
  ASSUME NEW S \in SUBSET Runs, NEW r \in S
  PROVE  Cardinality(S \ {r}) = Cardinality(S) - 1
BY RunsCounted, FS_RemoveElement

\* What the entry of a run that is not idle is.
LEMMA AtEntry ==
  ASSUME TypeOK, CloneKept, NEW r \in Runs, pc[r] # "idle"
  PROVE  at[r] \in Entries
BY DEF TypeOK, CloneKept

\* Capacities and counts are numbers.
LEMMA CountsNatural ==
  ASSUME TypeOK, NEW e \in Entries
  PROVE  capacity[e] \in Nat /\ held[e] \in Nat
<1>1. capacity[e] \in Capacities \union {0} /\ held[e] \in Nat
  BY DEF TypeOK
<1>2. \A n \in Capacities \union {0} : n \in Nat
  BY CapacitiesPositive
<1> QED BY <1>1, <1>2

\* Nothing that the invariant is about has changed.
LEMMA StutterKeepsCounts ==
  ASSUME Inv, UNCHANGED <<capacity, held, at, pc>>
  PROVE  CloneKept' /\ HeldCounted' /\ WakersEnough'
BY DEF Inv, CloneKept, HeldCounted, WakersEnough, HoldersAt, AwakeAt, Sleepers

-----------------------------------------------------------------------------
(* Action by action *)

\* No entry and no clone at first.
LEMMA InitInv == Init => Inv
<1> SUFFICES ASSUME Init PROVE Inv
  OBVIOUS
<1>1. TypeOK
  BY TicksNatural, KeysExist DEF Init, TypeOK, States
<1>2. CloneKept
  BY DEF Init, CloneKept
<1>3. \A e \in Entries : HoldersAt(e) = {} /\ Sleepers(e) = {}
  BY DEF Init, HoldersAt, Sleepers
<1>4. HeldCounted /\ WakersEnough
  BY <1>3, FS_EmptySet DEF Init, HeldCounted, WakersEnough
<1> QED BY <1>1, <1>2, <1>4 DEF Inv

\* The first acquire makes an entry of one nobody refers to.
LEMMA AcquireFirstKeepsInv ==
  ASSUME Inv, NEW r \in Runs, NEW k \in Keys, NEW n \in Capacities, AcquireFirst(r, k, n)
  PROVE  Inv'
<1> USE DEF Inv
<1> DEFINE e == CHOOSE x \in Unreferenced : TRUE
<1>1. e \in Unreferenced
  BY DEF AcquireFirst
<1>2. e \in Entries /\ \A q \in Runs : at[q] # e
  BY <1>1, NoEntryOutside DEF Unreferenced, Cloned
<1> HIDE DEF e
<1>3. /\ pc[r] = "idle"
      /\ entries' = [entries EXCEPT ![k] = e]
      /\ capacity' = [capacity EXCEPT ![e] = n]
      /\ held' = [held EXCEPT ![e] = 0]
      /\ at' = [at EXCEPT ![r] = e]
      /\ key' = [key EXCEPT ![r] = k]
      /\ age' = [age EXCEPT ![e] = 0]
      /\ waited' = [waited EXCEPT ![r] = 0]
      /\ pc' = [pc EXCEPT ![r] = "awake"]
  BY DEF AcquireFirst, Clone, e
<1>4. TypeOK'
  BY <1>2, <1>3, TicksNatural DEF TypeOK, States
<1>5. CloneKept'
  BY <1>2, <1>3, NoEntryOutside DEF CloneKept, TypeOK
<1>6. n \in Nat \ {0}
  BY CapacitiesPositive
<1>7. ASSUME NEW x \in Entries
      PROVE  /\ held'[x] = Cardinality(HoldersAt(x)') /\ held'[x] <= capacity'[x]
             /\ Sleepers(x)' # {} => capacity'[x] <= held'[x] + Cardinality(AwakeAt(x)')
  <2>1. CASE x = e
    <3>1. HoldersAt(x)' = {} /\ Sleepers(x)' = {}
      BY <1>2, <1>3, <2>1 DEF HoldersAt, Sleepers, TypeOK
    <3>2. held'[x] = 0 /\ capacity'[x] = n
      BY <1>2, <1>3, <2>1 DEF TypeOK
    <3> QED BY <1>6, <3>1, <3>2, FS_EmptySet
  <2>2. CASE x # e
    <3>1. HoldersAt(x)' = HoldersAt(x) /\ Sleepers(x)' = Sleepers(x) /\ AwakeAt(x)' = AwakeAt(x)
      <4>1. at[r] # x
        BY <1>3, NoEntryOutside DEF CloneKept
      <4>2. \A q \in Runs : at'[q] = x <=> at[q] = x
        BY <1>3, <2>2, <4>1 DEF TypeOK
      <4>3. \A q \in Runs : at[q] = x => pc'[q] = pc[q]
        BY <1>3, <4>1 DEF TypeOK
      <4> QED BY <4>2, <4>3 DEF HoldersAt, Sleepers, AwakeAt
    <3>2. held'[x] = held[x] /\ capacity'[x] = capacity[x]
      BY <1>3, <2>2 DEF TypeOK
    <3> QED BY <3>1, <3>2 DEF HeldCounted, WakersEnough
  <2> QED BY <2>1, <2>2
<1>8. HeldCounted' /\ WakersEnough'
  BY <1>7 DEF HeldCounted, WakersEnough
<1> QED BY <1>4, <1>5, <1>8

\* A later one adds a run that is awake.
LEMMA AcquireAgainKeepsInv ==
  ASSUME Inv, NEW r \in Runs, NEW k \in Keys, AcquireAgain(r, k)
  PROVE  Inv'
<1> USE DEF Inv
<1> DEFINE e == entries[k]
<1>1. e \in Entries /\ pc[r] = "idle" /\ at[r] = NoEntry
  BY DEF AcquireAgain, TypeOK, CloneKept
<1>2. /\ at' = [at EXCEPT ![r] = e]
      /\ pc' = [pc EXCEPT ![r] = "awake"]
      /\ UNCHANGED <<capacity, held>>
  BY DEF AcquireAgain, Clone
<1>3. TypeOK'
  BY <1>1, TicksNatural DEF AcquireAgain, Clone, TypeOK, States
<1>4. CloneKept'
  BY <1>1, <1>2, NoEntryOutside DEF CloneKept, TypeOK
<1> HIDE DEF e
<1>5. ASSUME NEW x \in Entries
      PROVE  /\ HoldersAt(x)' = HoldersAt(x)
             /\ Sleepers(x)' = Sleepers(x)
             /\ AwakeAt(x) \subseteq AwakeAt(x)'
  <2>1. at[r] # x
    BY <1>1, NoEntryOutside
  <2>2. \A q \in Runs : q # r => at'[q] = at[q] /\ pc'[q] = pc[q]
    BY <1>2 DEF TypeOK
  <2>3. pc'[r] = "awake"
    BY <1>2 DEF TypeOK
  <2> QED BY <2>1, <2>2, <2>3 DEF HoldersAt, Sleepers, AwakeAt
<1>6. ASSUME NEW x \in Entries
      PROVE  Cardinality(AwakeAt(x)) <= Cardinality(AwakeAt(x)')
  <2>1. AwakeAt(x) \in SUBSET Runs /\ AwakeAt(x)' \in SUBSET Runs
    BY DEF AwakeAt
  <2> QED BY <1>5, <2>1, RunsCounted, FS_Subset
<1>7. HeldCounted'
  BY <1>2, <1>5 DEF HeldCounted
<1>8. WakersEnough'
  <2> SUFFICES ASSUME NEW x \in Entries, Sleepers(x)' # {}
               PROVE  capacity'[x] <= held'[x] + Cardinality(AwakeAt(x)')
    BY DEF WakersEnough
  <2>1. capacity[x] <= held[x] + Cardinality(AwakeAt(x))
    BY <1>5 DEF WakersEnough
  <2>2. capacity[x] \in Nat /\ held[x] \in Nat
    BY CountsNatural
  <2>3. AwakeAt(x) \in SUBSET Runs /\ AwakeAt(x)' \in SUBSET Runs
    BY DEF AwakeAt
  <2>4. Cardinality(AwakeAt(x)) \in Nat /\ Cardinality(AwakeAt(x)') \in Nat
    BY <2>3, RunsCounted
  <2> QED BY <1>2, <1>6, <2>1, <2>2, <2>4
<1> QED BY <1>3, <1>4, <1>7, <1>8

\* A step of the runs of one entry is no other entry's business.
LEMMA ElsewhereSame ==
  ASSUME NEW e \in Entries,
         \A q \in Runs : at[q] # e => at'[q] = at[q] /\ pc'[q] = pc[q],
         \A q \in Runs : at[q] = e => at'[q] \in {e, NoEntry},
         NEW x \in Entries, x # e
  PROVE  HoldersAt(x)' = HoldersAt(x) /\ Sleepers(x)' = Sleepers(x) /\ AwakeAt(x)' = AwakeAt(x)
<1>1. \A q \in Runs : at'[q] = x <=> at[q] = x
  BY NoEntryOutside
<1>2. \A q \in Runs : at[q] = x => pc'[q] = pc[q]
  OBVIOUS
<1> QED BY <1>1, <1>2 DEF HoldersAt, Sleepers, AwakeAt

\* So the counts need to be looked at for that entry alone.
LEMMA OneEntryKeepsCounts ==
  ASSUME Inv, NEW e \in Entries, TypeOK', CloneKept', capacity' = capacity,
         \A q \in Runs : at[q] # e => at'[q] = at[q] /\ pc'[q] = pc[q],
         \A q \in Runs : at[q] = e => at'[q] \in {e, NoEntry},
         \A x \in Entries : x # e => held'[x] = held[x],
         held'[e] = Cardinality(HoldersAt(e)'), held'[e] <= capacity[e],
         Sleepers(e)' # {} => capacity[e] <= held'[e] + Cardinality(AwakeAt(e)')
  PROVE  Inv'
<1> USE DEF Inv
<1>1. ASSUME NEW x \in Entries
      PROVE  /\ held'[x] = Cardinality(HoldersAt(x)') /\ held'[x] <= capacity'[x]
             /\ Sleepers(x)' # {} => capacity'[x] <= held'[x] + Cardinality(AwakeAt(x)')
  <2>1. CASE x = e
    BY <2>1
  <2>2. CASE x # e
    <3>1. HoldersAt(x)' = HoldersAt(x) /\ Sleepers(x)' = Sleepers(x) /\ AwakeAt(x)' = AwakeAt(x)
      BY <2>2, ElsewhereSame
    <3> QED BY <2>2, <3>1 DEF HeldCounted, WakersEnough
  <2> QED BY <2>1, <2>2
<1>2. HeldCounted' /\ WakersEnough'
  BY <1>1 DEF HeldCounted, WakersEnough
<1> QED BY <1>2

\* A slot is taken only when one is free: the sleepers that are left lose a
\* waker and gain a holder.
LEMMA TakeKeepsInv ==
  ASSUME Inv, NEW r \in Runs, Take(r) \/ TimeoutTake(r)
  PROVE  Inv'
<1> USE DEF Inv
<1>1. PICK e \in Entries : e = at[r]
  BY AtEntry DEF Take, TimeoutTake
<1>2. /\ pc[r] \in {"awake", "asleep"} /\ held[e] < capacity[e]
      /\ held' = [held EXCEPT ![e] = @ + 1]
      /\ pc' = [pc EXCEPT ![r] = "holding"]
      /\ UNCHANGED <<entries, capacity, age, at, key, waited>>
  BY <1>1 DEF Take, TimeoutTake, HasSlot
<1>3. TypeOK'
  BY <1>1, <1>2 DEF TypeOK, States
<1>4. CloneKept'
  BY <1>1, <1>2 DEF CloneKept, TypeOK
<1>5. capacity[e] \in Nat /\ held[e] \in Nat /\ held'[e] = held[e] + 1
  BY <1>1, <1>2, CountsNatural DEF TypeOK
<1>6. HoldersAt(e)' = HoldersAt(e) \union {r} /\ r \in Runs \ HoldersAt(e)
  BY <1>1, <1>2 DEF HoldersAt, TypeOK
<1>7. Cardinality(HoldersAt(e)') = Cardinality(HoldersAt(e)) + 1
  <2>1. HoldersAt(e) \in SUBSET Runs
    BY DEF HoldersAt
  <2> QED BY <1>6, <2>1, OneMore
<1>8. Sleepers(e)' # {} => capacity[e] <= held'[e] + Cardinality(AwakeAt(e)')
  <2>1. AwakeAt(e)' = AwakeAt(e) \ {r} /\ Sleepers(e)' \subseteq Sleepers(e)
    BY <1>1, <1>2 DEF AwakeAt, Sleepers, TypeOK
  <2>2. AwakeAt(e) \in SUBSET Runs
    BY DEF AwakeAt
  <2>3. Cardinality(AwakeAt(e)) \in Nat
    BY <2>2, RunsCounted
  <2>4. CASE r \in AwakeAt(e)
    <3>1. Cardinality(AwakeAt(e)') = Cardinality(AwakeAt(e)) - 1
      BY <2>1, <2>2, <2>4, OneLess
    <3> QED BY <1>1, <1>5, <2>1, <2>3, <3>1 DEF WakersEnough
  <2>5. CASE r \notin AwakeAt(e)
    <3>1. AwakeAt(e)' = AwakeAt(e)
      BY <2>1, <2>5
    <3>2. Sleepers(e) # {} => capacity[e] <= held[e] + Cardinality(AwakeAt(e))
      BY DEF WakersEnough
    <3> QED BY <1>5, <2>1, <2>3, <3>1, <3>2
  <2> QED BY <2>4, <2>5
<1>9. held'[e] = Cardinality(HoldersAt(e)') /\ held'[e] <= capacity[e]
  BY <1>1, <1>2, <1>5, <1>7 DEF HeldCounted
<1>10. /\ \A q \in Runs : at[q] # e => at'[q] = at[q] /\ pc'[q] = pc[q]
       /\ \A q \in Runs : at[q] = e => at'[q] \in {e, NoEntry}
       /\ \A x \in Entries : x # e => held'[x] = held[x]
  BY <1>1, <1>2 DEF TypeOK
<1> QED BY <1>1, <1>2, <1>3, <1>4, <1>8, <1>9, <1>10, OneEntryKeepsCounts

\* A run sleeps, or is refused, only when no slot is free.
LEMMA FullKeepsInv ==
  ASSUME Inv, NEW r \in Runs, Sleep(r) \/ Refuse(r)
  PROVE  Inv'
<1> USE DEF Inv
<1>1. PICK e \in Entries : e = at[r]
  BY AtEntry DEF Sleep, Refuse
<1>2. /\ pc[r] \in {"awake", "asleep"} /\ ~(held[e] < capacity[e])
      /\ \/ pc' = [pc EXCEPT ![r] = "asleep"] /\ at' = at
         \/ pc' = [pc EXCEPT ![r] = "idle"] /\ at' = [at EXCEPT ![r] = NoEntry]
      /\ UNCHANGED <<entries, capacity, held, age, key>>
  BY <1>1 DEF Sleep, Refuse, HasSlot
<1>3. TypeOK'
  <2>1. CASE Sleep(r)
    BY <2>1 DEF Sleep, TypeOK, States
  <2>2. CASE Refuse(r)
    BY <2>2, TicksNatural DEF Refuse, TypeOK, States
  <2> QED BY <2>1, <2>2
<1>4. CloneKept'
  BY <1>1, <1>2 DEF CloneKept, TypeOK
<1>5. capacity[e] \in Nat /\ held[e] \in Nat
  BY CountsNatural
<1>6. HoldersAt(e)' = HoldersAt(e)
  BY <1>1, <1>2, NoEntryOutside DEF HoldersAt, TypeOK
<1>7. capacity[e] <= held'[e] + Cardinality(AwakeAt(e)')
  <2>1. AwakeAt(e)' \in SUBSET Runs
    BY DEF AwakeAt
  <2>2. Cardinality(AwakeAt(e)') \in Nat
    BY <2>1, RunsCounted
  <2> QED BY <1>1, <1>2, <1>5, <2>2
<1>8. held'[e] = Cardinality(HoldersAt(e)') /\ held'[e] <= capacity[e]
  BY <1>1, <1>2, <1>6 DEF HeldCounted
<1>9. /\ \A q \in Runs : at[q] # e => at'[q] = at[q] /\ pc'[q] = pc[q]
      /\ \A q \in Runs : at[q] = e => at'[q] \in {e, NoEntry}
      /\ \A x \in Entries : x # e => held'[x] = held[x]
  BY <1>1, <1>2 DEF TypeOK
<1> QED BY <1>1, <1>2, <1>3, <1>4, <1>7, <1>8, <1>9, OneEntryKeepsCounts

\* A run that wakes for no reason is one more waker.
LEMMA SpuriousWakeKeepsInv ==
  ASSUME Inv, NEW r \in Runs, SpuriousWake(r)
  PROVE  Inv'
<1> USE DEF Inv
<1>1. PICK e \in Entries : e = at[r]
  BY AtEntry DEF SpuriousWake
<1>2. /\ pc[r] = "asleep"
      /\ pc' = [pc EXCEPT ![r] = "awake"]
      /\ UNCHANGED <<entries, capacity, held, age, at, key, waited>>
  BY DEF SpuriousWake
<1>3. TypeOK'
  BY <1>1, <1>2 DEF TypeOK, States
<1>4. CloneKept'
  BY <1>1, <1>2 DEF CloneKept, TypeOK
<1>5. capacity[e] \in Nat /\ held[e] \in Nat
  BY CountsNatural
<1>6. /\ HoldersAt(e)' = HoldersAt(e) /\ Sleepers(e)' \subseteq Sleepers(e)
      /\ AwakeAt(e)' = AwakeAt(e) \union {r} /\ r \in Runs \ AwakeAt(e)
  BY <1>1, <1>2 DEF HoldersAt, AwakeAt, Sleepers, TypeOK
<1>7. Sleepers(e)' # {} => capacity[e] <= held'[e] + Cardinality(AwakeAt(e)')
  <2>1. AwakeAt(e) \in SUBSET Runs
    BY DEF AwakeAt
  <2>2. Cardinality(AwakeAt(e)) \in Nat /\ Cardinality(AwakeAt(e)') = Cardinality(AwakeAt(e)) + 1
    BY <1>6, <2>1, RunsCounted, OneMore
  <2> QED BY <1>1, <1>2, <1>5, <1>6, <2>2 DEF WakersEnough
<1>8. held'[e] = Cardinality(HoldersAt(e)') /\ held'[e] <= capacity[e]
  BY <1>1, <1>2, <1>6 DEF HeldCounted
<1>9. /\ \A q \in Runs : at[q] # e => at'[q] = at[q] /\ pc'[q] = pc[q]
      /\ \A q \in Runs : at[q] = e => at'[q] \in {e, NoEntry}
      /\ \A x \in Entries : x # e => held'[x] = held[x]
  BY <1>1, <1>2 DEF TypeOK
<1> QED BY <1>1, <1>2, <1>3, <1>4, <1>7, <1>8, <1>9, OneEntryKeepsCounts

\* A slot given back has a waker for it, if anyone sleeps.
LEMMA DropKeepsInv ==
  ASSUME Inv, NEW r \in Runs, Drop(r)
  PROVE  Inv'
<1> USE DEF Inv
<1>1. PICK e \in Entries : e = at[r]
  BY AtEntry DEF Drop
<1>2. /\ pc[r] = "holding"
      /\ held' = [held EXCEPT ![e] = @ - 1]
      /\ at' = [at EXCEPT ![r] = NoEntry]
      /\ waited' = [waited EXCEPT ![r] = 0]
      /\ UNCHANGED <<entries, capacity, age, key>>
  BY <1>1 DEF Drop
<1>3. \/ Sleepers(e) = {} /\ pc' = [pc EXCEPT ![r] = "idle"]
      \/ \E s \in Sleepers(e) : pc' = [pc EXCEPT ![r] = "idle", ![s] = "awake"]
  BY <1>1 DEF Drop
<1>4. HoldersAt(e)' = HoldersAt(e) \ {r} /\ r \in HoldersAt(e)
  BY <1>1, <1>2, <1>3, NoEntryOutside DEF HoldersAt, Sleepers, TypeOK
<1>5. HoldersAt(e) \in SUBSET Runs
  BY DEF HoldersAt
<1>6. /\ capacity[e] \in Nat /\ held[e] \in Nat /\ held[e] = Cardinality(HoldersAt(e))
      /\ held[e] <= capacity[e] /\ held'[e] = held[e] - 1
  BY <1>1, <1>2, CountsNatural DEF TypeOK, HeldCounted
<1>7. Cardinality(HoldersAt(e)') = Cardinality(HoldersAt(e)) - 1 /\ Cardinality(HoldersAt(e)') \in Nat
  <2>1. HoldersAt(e)' \in SUBSET Runs
    BY <1>4, <1>5
  <2> QED BY <1>4, <1>5, <2>1, OneLess, RunsCounted
<1>8. pc' \in [Runs -> States]
  BY <1>3 DEF TypeOK, States
<1>9. TypeOK'
  <2>1. held' \in [Entries -> Nat]
    BY <1>1, <1>2, <1>6, <1>7 DEF TypeOK
  <2>2. waited' \in [Runs -> 0..MaxWait] /\ at' \in [Runs -> Entries \union {NoEntry}]
    BY <1>2, TicksNatural DEF TypeOK
  <2> QED BY <1>2, <1>8, <2>1, <2>2 DEF TypeOK
<1>10. /\ \A q \in Runs : at[q] # e => at'[q] = at[q] /\ pc'[q] = pc[q]
       /\ \A q \in Runs : at[q] = e => at'[q] \in {e, NoEntry}
       /\ \A q \in Runs : q # r => at'[q] = at[q] /\ (pc'[q] = "idle" <=> pc[q] = "idle")
       /\ at'[r] = NoEntry /\ pc'[r] = "idle"
       /\ \A x \in Entries : x # e => held'[x] = held[x]
  BY <1>1, <1>2, <1>3 DEF TypeOK, Sleepers
<1>11. CloneKept'
  BY <1>10 DEF CloneKept
<1>12. Sleepers(e)' # {} => capacity[e] <= held'[e] + Cardinality(AwakeAt(e)')
  <2>1. CASE Sleepers(e) = {}
    BY <1>1, <1>2, <1>3, <2>1 DEF Sleepers, TypeOK
  <2>2. ASSUME NEW s \in Sleepers(e), pc' = [pc EXCEPT ![r] = "idle", ![s] = "awake"]
        PROVE  capacity[e] <= held'[e] + Cardinality(AwakeAt(e)')
    <3>1. AwakeAt(e)' = AwakeAt(e) \union {s} /\ s \in Runs \ AwakeAt(e)
      BY <1>1, <1>2, <2>2, NoEntryOutside DEF AwakeAt, Sleepers, TypeOK
    <3>2. AwakeAt(e) \in SUBSET Runs
      BY DEF AwakeAt
    <3>3. Cardinality(AwakeAt(e)) \in Nat /\ Cardinality(AwakeAt(e)') = Cardinality(AwakeAt(e)) + 1
      BY <3>1, <3>2, RunsCounted, OneMore
    <3> QED BY <1>1, <1>6, <3>3 DEF WakersEnough
  <2> QED BY <1>3, <2>1, <2>2
<1> QED BY <1>1, <1>2, <1>6, <1>7, <1>9, <1>10, <1>11, <1>12, OneEntryKeepsCounts

\* The sweep and the clock touch no entry's count.
LEMMA SweepKeepsInv ==
  ASSUME Inv, SweepIdle \/ Tick
  PROVE  Inv'
<1>1. CloneKept' /\ HeldCounted' /\ WakersEnough'
  BY StutterKeepsCounts DEF SweepIdle, Tick
<1>2. CASE SweepIdle
  <2>1. TypeOK'
    BY <1>2 DEF Inv, SweepIdle, TypeOK
  <2> QED BY <1>1, <2>1 DEF Inv
<1>3. CASE Tick
  <2>1. age' \in [Entries -> 0..(IdleAfter + 1)]
    BY <1>3, TicksNatural DEF Inv, Tick, TypeOK
  <2>2. waited' \in [Runs -> 0..MaxWait]
    BY <1>3, TicksNatural DEF Inv, Tick, TypeOK, InAcquire
  <2>3. TypeOK'
    BY <1>3, <2>1, <2>2 DEF Inv, Tick, TypeOK
  <2> QED BY <1>1, <2>3 DEF Inv
<1> QED BY <1>2, <1>3

-----------------------------------------------------------------------------
(* One bound per key *)

\* A run in acquire cloned its entry when it began to wait, or someone has
\* asked for it since.
SeenSince == \A r \in Runs : InAcquire(r) => age[at[r]] <= waited[r]

\* The map has the entry of every run that waits or holds, for its own key.
StillMapped == \A r \in Runs : pc[r] # "idle" => entries[key[r]] = at[r]

\* The invariant when no wait is longer than the sweep's idle time.
PinInv == SeenSince /\ StillMapped

\* An entry some run holds a slot of has a count.
LEMMA HolderCounts ==
  ASSUME Inv, NEW r \in Runs, pc[r] = "holding"
  PROVE  at[r] \in Entries /\ held[at[r]] # 0
<1> USE DEF Inv
<1>1. PICK e \in Entries : e = at[r]
  BY AtEntry
<1>2. HoldersAt(e) \in SUBSET Runs /\ r \in HoldersAt(e)
  BY <1>1 DEF HoldersAt
<1>3. Cardinality(HoldersAt(e)) # 0
  BY <1>2, RunsCounted, FS_EmptySet
<1> QED BY <1>1, <1>3 DEF HeldCounted

\* The sweep takes no entry that a run waits on or holds a slot of.
LEMMA NotSwept ==
  ASSUME MaxWait <= IdleAfter, Inv, PinInv, NEW r \in Runs, pc[r] # "idle"
  PROVE  ~Idle(at[r])
<1>1. at[r] \in Entries
  BY AtEntry DEF Inv
<1>2. CASE pc[r] = "holding"
  BY <1>2, HolderCounts DEF Idle
<1>3. CASE InAcquire(r)
  <2>1. age[at[r]] <= waited[r]
    BY <1>3 DEF PinInv, SeenSince
  <2>2. waited[r] \in 0..MaxWait /\ age[at[r]] \in 0..(IdleAfter + 1)
    BY <1>1 DEF Inv, TypeOK
  <2> QED BY <2>1, <2>2, TicksNatural DEF Idle
<1> QED BY <1>2, <1>3 DEF InAcquire, Inv, TypeOK, States

\* Every step keeps the entry of every run in the map.
LEMMA NextPinned ==
  ASSUME MaxWait <= IdleAfter, Inv, PinInv, [Next]_vars
  PROVE  PinInv'
<1> USE DEF Inv, PinInv
<1>1. ASSUME NEW r \in Runs, NEW k \in Keys, NEW n \in Capacities, AcquireFirst(r, k, n)
      PROVE  PinInv'
  <2> DEFINE e == CHOOSE x \in Unreferenced : TRUE
  <2>1. e \in Entries /\ \A q \in Runs : at[q] # e
    BY <1>1, NoEntryOutside DEF AcquireFirst, Unreferenced, Cloned
  <2> HIDE DEF e
  <2>2. /\ pc[r] = "idle" /\ entries[k] = NoEntry
        /\ entries' = [entries EXCEPT ![k] = e]
        /\ at' = [at EXCEPT ![r] = e]
        /\ key' = [key EXCEPT ![r] = k]
        /\ age' = [age EXCEPT ![e] = 0]
        /\ waited' = [waited EXCEPT ![r] = 0]
        /\ pc' = [pc EXCEPT ![r] = "awake"]
    BY <1>1 DEF AcquireFirst, Clone, e
  <2>3. SeenSince'
    BY <2>1, <2>2 DEF SeenSince, InAcquire, TypeOK
  <2>4. StillMapped'
    <3> SUFFICES ASSUME NEW q \in Runs, pc'[q] # "idle" PROVE entries'[key'[q]] = at'[q]
      BY DEF StillMapped
    <3>1. CASE q = r
      BY <2>2, <3>1 DEF TypeOK
    <3>2. CASE q # r
      <4>1. entries[key[q]] = at[q] /\ at[q] \in Entries
        BY <2>2, <3>2, AtEntry DEF StillMapped, TypeOK
      <4>2. key[q] # k
        BY <2>2, <4>1, NoEntryOutside
      <4> QED BY <2>2, <3>2, <4>1, <4>2 DEF TypeOK
    <3> QED BY <3>1, <3>2
  <2> QED BY <2>3, <2>4
<1>2. ASSUME NEW r \in Runs, NEW k \in Keys, AcquireAgain(r, k)
      PROVE  PinInv'
  <2>1. entries[k] \in Entries
    BY <1>2 DEF AcquireAgain, TypeOK
  <2>2. SeenSince'
    BY <1>2, <2>1, TicksNatural DEF AcquireAgain, Clone, SeenSince, InAcquire, TypeOK
  <2>3. StillMapped'
    BY <1>2 DEF AcquireAgain, Clone, StillMapped, TypeOK
  <2> QED BY <2>2, <2>3
<1>3. ASSUME NEW r \in Runs,
             Take(r) \/ Sleep(r) \/ TimeoutTake(r) \/ Refuse(r) \/ SpuriousWake(r) \/ Drop(r)
      PROVE  PinInv'
  <2>1. /\ UNCHANGED <<entries, key, age>>
        /\ \A q \in Runs : pc'[q] # "idle" => pc[q] # "idle" /\ at'[q] = at[q]
        /\ \A q \in Runs : InAcquire(q)' => InAcquire(q) /\ waited'[q] = waited[q]
    BY <1>3 DEF Take, Sleep, TimeoutTake, Refuse, SpuriousWake, Drop, Sleepers, InAcquire, TypeOK
  <2>2. SeenSince'
    BY <2>1 DEF SeenSince, InAcquire
  <2>3. StillMapped'
    BY <2>1 DEF StillMapped
  <2> QED BY <2>2, <2>3
<1>4. CASE SweepIdle
  <2>1. SeenSince'
    BY <1>4 DEF SweepIdle, SeenSince, InAcquire
  <2>2. StillMapped'
    <3> SUFFICES ASSUME NEW q \in Runs, pc[q] # "idle" PROVE entries'[key[q]] = at[q]
      BY <1>4 DEF SweepIdle, StillMapped
    <3>1. entries[key[q]] = at[q] /\ ~Idle(at[q]) /\ key[q] \in Keys
      BY NotSwept DEF StillMapped, TypeOK
    <3> QED BY <1>4, <3>1 DEF SweepIdle
  <2> QED BY <2>1, <2>2
<1>5. CASE Tick
  <2>1. SeenSince'
    <3> SUFFICES ASSUME NEW q \in Runs, InAcquire(q) PROVE age'[at[q]] <= waited'[q]
      BY <1>5 DEF Tick, SeenSince, InAcquire
    <3>1. at[q] \in Entries
      BY AtEntry DEF InAcquire
    <3>2. age[at[q]] <= waited[q] /\ age[at[q]] \in Nat /\ waited[q] \in Nat
      BY <3>1, TicksNatural DEF SeenSince, TypeOK
    <3>3. waited'[q] = waited[q] + 1
      BY <1>5 DEF Tick
    <3>4. age'[at[q]] = age[at[q]] + 1 \/ age'[at[q]] = age[at[q]]
      BY <1>5, <3>1 DEF Tick
    <3> QED BY <3>2, <3>3, <3>4
  <2>2. StillMapped'
    BY <1>5 DEF Tick, StillMapped
  <2> QED BY <2>1, <2>2
<1>6. CASE UNCHANGED vars
  BY <1>6 DEF vars, SeenSince, InAcquire, StillMapped
<1> QED BY <1>1, <1>2, <1>3, <1>4, <1>5, <1>6 DEF Next

-----------------------------------------------------------------------------
(* The theorems *)

\* Every step keeps the counts.
LEMMA NextInv == Inv /\ [Next]_vars => Inv'
<1> SUFFICES ASSUME Inv, [Next]_vars PROVE Inv'
  OBVIOUS
<1>1. CASE UNCHANGED vars
  <2>1. CloneKept' /\ HeldCounted' /\ WakersEnough'
    BY <1>1, StutterKeepsCounts DEF vars
  <2> QED BY <1>1, <2>1 DEF vars, Inv, TypeOK
<1> QED BY <1>1, AcquireFirstKeepsInv, AcquireAgainKeepsInv, TakeKeepsInv, FullKeepsInv,
           SpuriousWakeKeepsInv, DropKeepsInv, SweepKeepsInv DEF Next

\* The counts are right in every state.
THEOREM StepSlotsInvariant == Spec => []Inv
BY InitInv, NextInv, PTL DEF Spec

\* Every variable keeps its type: held never underflows at a guard's drop.
THEOREM StepSlotsTypes == Spec => []TypeOK
<1>1. Inv => TypeOK
  BY DEF Inv
<1> QED BY <1>1, StepSlotsInvariant, PTL

\* StepGuard's notify_one: for any number of runs and entries every free slot
\* of an entry with sleepers has a thread awake to take it.
THEOREM WakeupsNotLost == Spec => []NoLostWakeup
<1>1. Inv => NoLostWakeup
  BY DEF Inv, WakersEnough, AwakeAt, NoLostWakeup, Cloned, TypeOK
<1> QED BY <1>1, StepSlotsInvariant, PTL

\* sweep_idle and acquire: where no wait is longer than the sweep's idle time,
\* the runs of a key all hold slots of the one entry the map has for it, and
\* at most its capacity of them.
THEOREM OneBoundPerKey ==
  ASSUME MaxWait <= IdleAfter
  PROVE  Spec => []OneBound
<1>1. Init => PinInv
  BY DEF Init, PinInv, SeenSince, StillMapped, InAcquire
<1>2. Inv /\ PinInv /\ [Next]_vars => PinInv'
  BY NextPinned
<1>3. Inv /\ PinInv => OneBound
  <2> SUFFICES ASSUME Inv, PinInv, NEW k \in Keys, Holders(k) # {}
               PROVE  /\ entries[k] # NoEntry
                      /\ \A r \in Holders(k) : at[r] = entries[k]
                      /\ Cardinality(Holders(k)) <= capacity[entries[k]]
    BY DEF OneBound
  <2>1. \A r \in Holders(k) : at[r] = entries[k]
    BY DEF Holders, PinInv, StillMapped
  <2>2. entries[k] \in Entries
    BY <2>1, AtEntry DEF Inv, Holders
  <2>3. Holders(k) \subseteq HoldersAt(entries[k]) /\ HoldersAt(entries[k]) \in SUBSET Runs
    BY <2>1 DEF Holders, HoldersAt
  <2>4. Cardinality(Holders(k)) <= Cardinality(HoldersAt(entries[k]))
    BY <2>3, RunsCounted, FS_Subset
  <2>5. Cardinality(HoldersAt(entries[k])) <= capacity[entries[k]]
    BY <2>2 DEF Inv, HeldCounted
  <2>6. Cardinality(Holders(k)) \in Nat /\ Cardinality(HoldersAt(entries[k])) \in Nat
    BY <2>3, RunsCounted
  <2>7. capacity[entries[k]] \in Nat
    BY <2>2, CountsNatural DEF Inv
  <2> QED BY <2>1, <2>2, <2>4, <2>5, <2>6, <2>7, NoEntryOutside
<1> QED BY <1>1, <1>2, <1>3, StepSlotsInvariant, PTL DEF Spec
=============================================================================
