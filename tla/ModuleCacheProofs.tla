------------------------- MODULE ModuleCacheProofs -------------------------
(***************************************************************************)
(* The module cache, for any number of requests, digests and permits.      *)
(*                                                                         *)
(* What holds the argument together is that a cell's waiters are exactly   *)
(* the requests in it, each once: whoever leaves, by success, failure,     *)
(* timeout or a dropped future, takes its own place and no other.          *)
(***************************************************************************)
EXTENDS ModuleCache, FiniteSetTheorems, SequenceTheorems, NaturalsInduction, WellFoundedInduction, TLAPS

-----------------------------------------------------------------------------
(* Leaving a queue *)

\* A nonempty set of naturals has a least member: the library's induction
\* theorems take a predicate as a parameter, this fact a set.
LEMMA LeastNumber ==
  ASSUME NEW T \in SUBSET Nat, T # {}
  PROVE  \E n \in T : \A m \in T : n <= m
<1> DEFINE Less == {p \in Nat \X Nat : p[1] < p[2]}
<1>1. IsWellFoundedOn(Less, Nat)
  BY NatLessThanWellFounded DEF OpToRel
<1>2. \A x, y \in Nat : <<y, x>> \in Less <=> y < x
  OBVIOUS
<1> HIDE DEF Less
<1>3. PICK n \in T : \A m \in T : ~ (<<m, n>> \in Less)
  BY <1>1, WFMin
<1>4. \A m \in T : ~ (m < n)
  BY <1>2, <1>3, Zenon
<1>5. \A m \in T : n <= m
  BY <1>4
<1> QED BY <1>5

\* What is left of a sequence that had e at place k.
Without(s, k) == [i \in 1 .. (Len(s) - 1) |-> IF i < k THEN s[i] ELSE s[i + 1]]

\* RemoveFirst takes out one occurrence, and is the identity without one.
LEMMA RemoveFirstIs ==
  ASSUME NEW S, NEW s \in Seq(S), NEW e
  PROVE  /\ RemoveFirst(s, e) \in Seq(S)
         /\ ~Contains(s, e) => RemoveFirst(s, e) = s
         /\ Contains(s, e) => \E k \in 1 .. Len(s) :
              /\ s[k] = e
              /\ Len(RemoveFirst(s, e)) = Len(s) - 1
              /\ \A i \in 1 .. (Len(s) - 1) : RemoveFirst(s, e)[i] = Without(s, k)[i]
<1>1. CASE ~Contains(s, e)
  BY <1>1 DEF Contains, RemoveFirst
<1>2. CASE Contains(s, e)
  <2> DEFINE I == {i \in 1 .. Len(s) : s[i] = e}
  <2>1. RemoveFirst(s, e) = RemoveAt(s, Min(I))
    BY <1>2 DEF RemoveFirst, SelectInSeq, Contains
  <2>2. Min(I) \in I
    <3>1. PICK i \in I : TRUE
      BY <1>2 DEF Contains
    <3>2. \E m \in I : \A n \in I : m <= n
      <4>1. I \in SUBSET Nat /\ I # {}
        BY <3>1
      <4> HIDE DEF I
      <4> QED BY <4>1, LeastNumber
    <3> QED BY <3>2 DEF Min
  <2>3. PICK k \in 1 .. Len(s) : k = Min(I) /\ s[k] = e
    BY <2>2
  <2>4. RemoveFirst(s, e) = SubSeq(s, 1, k - 1) \o SubSeq(s, k + 1, Len(s))
    BY <2>1, <2>3 DEF RemoveAt
  <2> HIDE DEF I
  <2>5. \A i \in 1 .. Len(s) : s[i] \in S
    OBVIOUS
  <2>6. PICK front : front = SubSeq(s, 1, k - 1)
    OBVIOUS
  <2>7. /\ front \in Seq(S) /\ Len(front) = k - 1
        /\ \A i \in 1 .. (k - 1) : front[i] = s[i]
    <3>1. \A i \in 1 .. (k - 1) : s[i] \in S
      BY <2>5
    <3>2. /\ front \in Seq(S) /\ Len(front) = IF 1 <= k - 1 THEN (k - 1) - 1 + 1 ELSE 0
          /\ \A i \in 1 .. (k - 1) - 1 + 1 : front[i] = s[1 + i - 1]
      BY <2>6, <3>1, SubSeqProperties
    <3> QED BY <3>2
  <2>8. PICK rest : rest = SubSeq(s, k + 1, Len(s))
    OBVIOUS
  <2>9. /\ rest \in Seq(S) /\ Len(rest) = Len(s) - k
        /\ \A i \in 1 .. (Len(s) - k) : rest[i] = s[k + i]
    <3>1. \A i \in (k + 1) .. Len(s) : s[i] \in S
      BY <2>5
    <3>2. /\ rest \in Seq(S) /\ Len(rest) = IF k + 1 <= Len(s) THEN Len(s) - (k + 1) + 1 ELSE 0
          /\ \A i \in 1 .. Len(s) - (k + 1) + 1 : rest[i] = s[(k + 1) + i - 1]
      BY <2>8, <3>1, SubSeqProperties
    <3> QED BY <3>2
  <2>10. PICK both : both = front \o rest
    OBVIOUS
  <2>11. /\ both \in Seq(S) /\ Len(both) = Len(front) + Len(rest)
         /\ \A i \in 1 .. Len(front) + Len(rest) :
              both[i] = IF i <= Len(front) THEN front[i] ELSE rest[i - Len(front)]
    BY <2>7, <2>9, <2>10, ConcatProperties
  <2>12. RemoveFirst(s, e) = both
    BY <2>4, <2>6, <2>8, <2>10
  <2>13. Len(both) = Len(s) - 1
    BY <2>7, <2>9, <2>11
  <2>14. \A i \in 1 .. (Len(s) - 1) : both[i] = Without(s, k)[i]
    <3> SUFFICES ASSUME NEW i \in 1 .. (Len(s) - 1) PROVE both[i] = Without(s, k)[i]
      OBVIOUS
    <3>1. both[i] = IF i <= k - 1 THEN front[i] ELSE rest[i - (k - 1)]
      BY <2>7, <2>9, <2>11
    <3>2. CASE i < k
      BY <2>7, <3>1, <3>2 DEF Without
    <3>3. CASE ~(i < k)
      <4>1. i - (k - 1) \in 1 .. (Len(s) - k) /\ k + (i - (k - 1)) = i + 1
        BY <3>3
      <4>2. both[i] = s[i + 1]
        BY <2>9, <3>1, <3>3, <4>1
      <4> QED BY <3>3, <4>2 DEF Without
    <3> QED BY <3>2, <3>3
  <2> QED BY <1>2, <2>3, <2>11, <2>12, <2>13, <2>14
<1> QED BY <1>1, <1>2

-----------------------------------------------------------------------------
(* The invariant *)

InCell(c) == pc[c] = "joined" \/ InLoad(c)

Types ==
  /\ setting \in Settings
  /\ entries \in Seq(Digests)
  /\ loading \in [Digests -> Cells \union {None}]
  /\ removed \in SUBSET Digests
  /\ waiters \in [Cells -> Seq(Calls)]
  /\ filled \in SUBSET Cells
  /\ disk \in SUBSET Digests
  /\ free \in Nat
  /\ queue \in Seq(Calls)
  /\ task \in [Calls -> {"none", "running", "ok", "err"}]
  /\ digest \in [Calls -> Digests \union {None}]
  /\ cell \in [Calls -> Cells \union {None}]
  /\ result \in [Calls -> {"none", "ok", "err"}]
  /\ pc \in [Calls -> States]

\* A call has no task before it has a permit, a digest from its miss on, and
\* a cell exactly while it is in one.
Phases ==
  \A c \in Calls :
    /\ pc[c] \in {"missed", "joined", "mapping", "permit"} => task[c] = "none"
    /\ pc[c] # "idle" \/ task[c] = "running" => digest[c] \in Digests
    /\ InCell(c) <=> cell[c] # None

\* The waiters of a cell are the calls in it, each once, and only the first
\* is past the wait.
Turns ==
  /\ \A x \in Cells : \A i \in 1 .. Len(waiters[x]) :
       cell[waiters[x][i]] = x /\ (i = 1 \/ pc[waiters[x][i]] = "joined")
  /\ \A x \in Cells : \A i, k \in 1 .. Len(waiters[x]) : waiters[x][i] = waiters[x][k] => i = k
  /\ \A c \in Calls : cell[c] # None => \E i \in 1 .. Len(waiters[cell[c]]) : waiters[cell[c]][i] = c

\* A cell is one digest's, and the one in the loading map until it has been
\* removed from there.
Flights ==
  /\ \A c, b \in Calls : cell[c] # None /\ cell[c] = cell[b] => digest[c] = digest[b]
  /\ \A c \in Calls, d \in Digests : cell[c] # None /\ loading[d] = cell[c] => digest[c] = d
  /\ \A d, e \in Digests : loading[d] # None /\ loading[d] = loading[e] => d = e
  /\ \A c \in Calls : cell[c] # None /\ digest[c] \notin removed => cell[c] = loading[digest[c]]

\* Where nothing fails: a call that maps a module, or is past its load, has
\* it on disk.
HandedStored ==
  \A c \in Calls :
    /\ pc[c] \in {"mapping", "settled", "promoting"} => digest[c] \in disk
    /\ pc[c] = "settled" => result[c] = "ok"
    /\ task[c] = "ok" => digest[c] \in disk

\* Tasks are those of the calls that wait for them.
TasksHeard ==
  \A c \in Calls : (pc[c] = "compiling" <=> task[c] # "none") /\ task[c] # "err"

\* A filled cell's module is on disk.
FilledStored ==
  /\ \A c \in Calls : cell[c] \in filled => digest[c] \in disk
  /\ \A d \in Digests : loading[d] \in filled => d \in disk

\* What is being fetched is not, and until it is there is one flight for it.
FetchedOnce ==
  /\ \A c \in Calls : pc[c] = "permit" \/ task[c] = "running" => digest[c] \notin disk
  /\ \A c \in Calls : InCell(c) /\ digest[c] \notin disk => cell[c] = loading[digest[c]]

Stored == Faults = {} => HandedStored /\ TasksHeard /\ FilledStored /\ FetchedOnce

\* The inductive invariant.
Inv == Types /\ Phases /\ PermitsAccounted /\ Turns /\ Flights /\ Stored

LEMMA InitInv == Init => Inv
<1> SUFFICES ASSUME Init PROVE Inv
  OBVIOUS
<1> USE DEF Init
<1>1. Types
  BY SettingsKnown DEF Types, States, MaxCompiles
<1>2. Phases
  BY DEF Phases, InCell, InLoad
<1>3. PermitsAccounted
  <2>1. Running = {}
    BY DEF Running
  <2>2. MaxCompiles \in Nat
    BY SettingsKnown DEF MaxCompiles
  <2> QED BY <2>1, <2>2, FS_EmptySet DEF PermitsAccounted
<1>4. Turns
  BY DEF Turns
<1>5. Flights
  BY DEF Flights
<1>6. Stored
  BY NoneOutside DEF Stored, HandedStored, TasksHeard, FilledStored, FetchedOnce, InCell, InLoad
<1> QED BY <1>1, <1>2, <1>3, <1>4, <1>5, <1>6 DEF Inv

-----------------------------------------------------------------------------
(* What the steps have in common *)

\* Permits stay accounted for while no task starts or ends.
LEMMA SamePermits ==
  ASSUME PermitsAccounted, UNCHANGED <<free, setting>>,
         \A c \in Calls : task'[c] = "running" <=> task[c] = "running"
  PROVE  PermitsAccounted'
<1>1. Running' = Running
  BY DEF Running
<1>2. MaxCompiles' = MaxCompiles
  BY DEF MaxCompiles
<1> QED BY <1>1, <1>2 DEF PermitsAccounted

\* One task more or less is one running compile more or less.
LEMMA OneTask ==
  ASSUME NEW c \in Calls, NEW S \in SUBSET Calls, NEW T \in SUBSET Calls,
         c \notin S, T = S \union {c}
  PROVE  /\ Cardinality(S) \in Nat /\ Cardinality(T) \in Nat
         /\ Cardinality(T) = Cardinality(S) + 1
<1>1. IsFiniteSet(S) /\ IsFiniteSet(T)
  BY CallsFinite, FS_Subset
<1>2. Cardinality(S) \in Nat /\ Cardinality(T) \in Nat
  BY <1>1, FS_CardinalityType
<1> QED BY <1>1, <1>2, FS_AddElement

\* A call in a cell is a waiter of it, and in load only as the first.
LEMMA FirstLoads ==
  ASSUME Types, Phases, Turns, NEW c \in Calls, InCell(c)
  PROVE  /\ cell[c] \in Cells
         /\ \E i \in 1 .. Len(waiters[cell[c]]) : waiters[cell[c]][i] = c
         /\ InLoad(c) => Len(waiters[cell[c]]) >= 1 /\ waiters[cell[c]][1] = c
<1>1. cell[c] \in Cells
  BY DEF Types, Phases
<1>2. PICK i \in 1 .. Len(waiters[cell[c]]) : waiters[cell[c]][i] = c
  BY <1>1, NoneOutside DEF Turns
<1>3. InLoad(c) => i = 1
  BY <1>1, <1>2 DEF Turns, InLoad
<1>4. Len(waiters[cell[c]]) \in Nat
  BY <1>1 DEF Types
<1> QED BY <1>1, <1>2, <1>3, <1>4

\* A call that leaves its cell takes its own place among the waiters.
LEMMA LeaveKeepsTurns ==
  ASSUME Types, Turns, NEW c \in Calls, cell[c] # None, Leave(c),
         \A b \in Calls \ {c} : pc'[b] = pc[b]
  PROVE  waiters' \in [Cells -> Seq(Calls)] /\ Turns'
<1> DEFINE x == cell[c]
           s == waiters[x]
           r == RemoveFirst(s, c)
<1>1. x \in Cells /\ s \in Seq(Calls)
  BY DEF Types
<1>2. /\ waiters' = [waiters EXCEPT ![x] = r]
      /\ cell' = [cell EXCEPT ![c] = None]
  BY DEF Leave
<1>3. PICK k \in 1 .. Len(s) : s[k] = c
  BY <1>1 DEF Turns
<1>4. Contains(s, c)
  BY <1>3 DEF Contains
<1>5. \A i \in 1 .. Len(s) : s[i] = c => i = k
  BY <1>1, <1>3 DEF Turns
<1>6. /\ r \in Seq(Calls) /\ Len(r) = Len(s) - 1
      /\ \A i \in 1 .. (Len(s) - 1) : r[i] = Without(s, k)[i]
  <2>1. PICK j \in 1 .. Len(s) :
          /\ s[j] = c /\ Len(r) = Len(s) - 1
          /\ \A i \in 1 .. (Len(s) - 1) : r[i] = Without(s, j)[i]
    <3> HIDE DEF s
    <3>1. \E j \in 1 .. Len(s) :
            /\ s[j] = c /\ Len(RemoveFirst(s, c)) = Len(s) - 1
            /\ \A i \in 1 .. (Len(s) - 1) : RemoveFirst(s, c)[i] = Without(s, j)[i]
      BY ONLY <1>1, <1>4, RemoveFirstIs
    <3> QED BY <3>1
  <2>2. j = k
    BY <1>5, <2>1
  <2>3. r \in Seq(Calls)
    BY <1>1, RemoveFirstIs
  <2> QED BY <2>1, <2>2, <2>3
<1>7. \A i \in 1 .. (Len(s) - 1) : r[i] = IF i < k THEN s[i] ELSE s[i + 1]
  BY <1>6 DEF Without
<1>8. Len(s) \in Nat /\ Len(r) = Len(s) - 1
  BY <1>1, <1>6
<1>9. \A y \in Cells : waiters'[y] = IF y = x THEN r ELSE waiters[y]
  BY <1>1, <1>2 DEF Types
<1>10. \A b \in Calls : cell'[b] = IF b = c THEN None ELSE cell[b]
  BY <1>2 DEF Types
<1>11. \A y \in Cells : \A i \in 1 .. Len(waiters'[y]) :
         cell'[waiters'[y][i]] = y /\ (i = 1 \/ pc'[waiters'[y][i]] = "joined")
  <2> SUFFICES ASSUME NEW y \in Cells, NEW i \in 1 .. Len(waiters'[y])
               PROVE  cell'[waiters'[y][i]] = y /\ (i = 1 \/ pc'[waiters'[y][i]] = "joined")
    OBVIOUS
  <2>1. CASE y = x
    <3>1. waiters'[y] = r
      BY <1>9, <2>1
    <3>2. i \in 1 .. (Len(s) - 1)
      BY <1>8, <3>1
    <3>3. PICK j \in 1 .. Len(s) : j # k /\ r[i] = s[j] /\ (i = 1 \/ j # 1)
      <4>1. CASE i < k
        BY <1>7, <1>8, <3>2, <4>1
      <4>2. CASE ~(i < k)
        BY <1>7, <1>8, <3>2, <4>2
      <4> QED BY <4>1, <4>2
    <3>4. s[j] # c /\ s[j] \in Calls
      BY <1>1, <1>5, <3>3
    <3>5. cell[s[j]] = x /\ (j = 1 \/ pc[s[j]] = "joined")
      BY <1>1 DEF Turns
    <3> QED BY <1>10, <2>1, <3>1, <3>3, <3>4, <3>5
  <2>2. CASE y # x
    <3>1. waiters'[y] = waiters[y] /\ waiters[y] \in Seq(Calls)
      BY <1>9, <2>2 DEF Types
    <3>2. waiters[y][i] \in Calls
      BY <3>1
    <3>3. cell[waiters[y][i]] = y /\ (i = 1 \/ pc[waiters[y][i]] = "joined")
      BY <3>1 DEF Turns
    <3> QED BY <1>10, <2>2, <3>1, <3>2, <3>3
  <2> QED BY <2>1, <2>2
<1>12. \A y \in Cells : \A i, j \in 1 .. Len(waiters'[y]) : waiters'[y][i] = waiters'[y][j] => i = j
  <2> SUFFICES ASSUME NEW y \in Cells, NEW i \in 1 .. Len(waiters'[y]), NEW j \in 1 .. Len(waiters'[y]),
                      waiters'[y][i] = waiters'[y][j]
               PROVE  i = j
    OBVIOUS
  <2>1. CASE y = x
    <3>1. waiters'[y] = r
      BY <1>9, <2>1
    <3>2. i \in 1 .. (Len(s) - 1) /\ j \in 1 .. (Len(s) - 1)
      BY <1>8, <3>1
    <3>3. \A m, n \in 1 .. Len(s) : s[m] = s[n] => m = n
      BY <1>1 DEF Turns
    <3>4. r[i] = r[j]
      BY <3>1
    <3> HIDE DEF r, s
    <3> QED BY <1>7, <1>8, <3>2, <3>3, <3>4
  <2>2. CASE y # x
    BY <1>9, <2>2 DEF Turns
  <2> QED BY <2>1, <2>2
<1>13. \A b \in Calls : cell'[b] # None =>
         \E i \in 1 .. Len(waiters'[cell'[b]]) : waiters'[cell'[b]][i] = b
  <2> SUFFICES ASSUME NEW b \in Calls, cell'[b] # None
               PROVE  \E i \in 1 .. Len(waiters'[cell'[b]]) : waiters'[cell'[b]][i] = b
    OBVIOUS
  <2>1. b # c /\ cell'[b] = cell[b] /\ cell[b] \in Cells
    BY <1>10 DEF Types
  <2>2. PICK i \in 1 .. Len(waiters[cell[b]]) : waiters[cell[b]][i] = b
    BY <2>1 DEF Turns
  <2>3. CASE cell[b] = x
    <3>1. waiters'[cell'[b]] = r
      BY <1>9, <2>1, <2>3
    <3>2. i \in 1 .. Len(s) /\ s[i] = b /\ i # k
      BY <1>3, <2>1, <2>2, <2>3
    <3> HIDE DEF r, s
    <3>3. CASE i < k
      <4>1. i \in 1 .. (Len(s) - 1) /\ r[i] = b
        BY <1>7, <1>8, <3>2, <3>3
      <4> QED BY <1>8, <3>1, <4>1
    <3>4. CASE ~(i < k)
      <4>1. i - 1 \in 1 .. (Len(s) - 1) /\ r[i - 1] = b
        BY <1>7, <1>8, <3>2, <3>4
      <4> QED BY <1>8, <3>1, <4>1
    <3> QED BY <3>3, <3>4
  <2>4. CASE cell[b] # x
    BY <1>9, <2>1, <2>2, <2>4
  <2> QED BY <2>3, <2>4
<1>14. waiters' \in [Cells -> Seq(Calls)]
  BY <1>1, <1>2, <1>6 DEF Types
<1> HIDE DEF x, s, r
<1> QED BY <1>11, <1>12, <1>13, <1>14 DEF Turns

-----------------------------------------------------------------------------
(* The steps *)

\* memory_get hits, or misses and drops what has expired.
LEMMA GetKeeps ==
  ASSUME Inv, NEW c \in Calls, Get(c), UNCHANGED setting
  PROVE  Inv'
<1> USE DEF Inv
<1>1. PICK d \in setting.digests, n \in 0 .. Len(entries) : MemoryHit(c, d, n) \/ MemoryMiss(c, d, n)
  BY DEF Get
<1>2. d \in Digests
  BY SettingsKnown DEF Types
<1>3. Unexpired(n) \in Seq(Digests)
  <2>1. \A i \in (n + 1) .. Len(entries) : entries[i] \in Digests
    BY DEF Types
  <2>2. n + 1 \in Int /\ Len(entries) \in Int
    BY DEF Types
  <2> QED BY <2>1, <2>2, SubSeqProperties DEF Unexpired
<1>4. CASE MemoryHit(c, d, n)
  <2>1. /\ entries' = Touch(Unexpired(n), d)
        /\ UNCHANGED <<loading, removed, waiters, filled, disk, free, queue, task, digest, cell, result, pc>>
    BY <1>4 DEF MemoryHit, local
  <2>2. entries' \in Seq(Digests)
    <3>1. RemoveFirst(Unexpired(n), d) \in Seq(Digests)
      BY <1>3, RemoveFirstIs
    <3> QED BY <1>2, <2>1, <3>1 DEF Touch
  <2>3. Types'
    BY <2>1, <2>2 DEF Types, Touch
  <2>4. PermitsAccounted'
    BY <2>1, SamePermits
  <2> QED BY <2>1, <2>3, <2>4 DEF Phases, Turns, Flights, Stored, HandedStored, TasksHeard, FilledStored,
                                 FetchedOnce, InCell, InLoad, Faults
<1>5. CASE MemoryMiss(c, d, n)
  <2>1. /\ pc[c] = "idle" /\ task[c] = "none"
        /\ entries' = Unexpired(n)
        /\ digest' = [digest EXCEPT ![c] = d]
        /\ pc' = [pc EXCEPT ![c] = "missed"]
        /\ UNCHANGED <<loading, removed, waiters, filled, disk, free, queue, task, cell, result>>
    BY <1>5 DEF MemoryMiss, Goto
  <2>2. cell[c] = None
    BY <2>1 DEF Phases, InCell, InLoad
  <2>3. Types'
    BY <1>2, <1>3, <2>1 DEF Types, States
  <2>4. PermitsAccounted'
    BY <2>1, SamePermits
  <2>5. Phases'
    BY <1>2, <2>1 DEF Types, Phases, InCell, InLoad
  <2>6. Turns'
    <3>1. \A x \in Cells : \A i \in 1 .. Len(waiters[x]) : waiters[x][i] # c
      BY <2>2, NoneOutside DEF Turns
    <3> QED BY <2>1, <3>1 DEF Types, Turns
  <2>7. Flights'
    BY <2>1, <2>2 DEF Types, Flights
  <2>8. Stored'
    BY <2>1, <2>2, NoneOutside DEF Types, Stored, HandedStored, TasksHeard, FilledStored, FetchedOnce, InCell, InLoad, Faults
  <2> QED BY <2>3, <2>4, <2>5, <2>6, <2>7, <2>8
<1> QED BY <1>1, <1>4, <1>5

\* The first call of a flight, in a cell nobody refers to.
LEMMA OpenKeeps ==
  ASSUME Inv, NEW c \in Calls, Open(c), UNCHANGED setting
  PROVE  Inv'
<1> USE DEF Inv
<1>1. PICK x \in Unreferenced : x = CHOOSE y \in Unreferenced : TRUE
  BY DEF Open
<1>2. /\ pc[c] = "missed" /\ loading[digest[c]] = None
      /\ loading' = [loading EXCEPT ![digest[c]] = x]
      /\ cell' = [cell EXCEPT ![c] = x]
      /\ waiters' = [waiters EXCEPT ![x] = <<c>>]
      /\ filled' = filled \ {x}
      /\ removed' = IF \E b \in Calls : cell[b] # None /\ digest[b] = digest[c]
                    THEN removed ELSE removed \ {digest[c]}
      /\ pc' = [pc EXCEPT ![c] = "joined"]
      /\ UNCHANGED <<entries, disk, free, queue, task, digest, result>>
  BY <1>1 DEF Open, Goto
<1>3. /\ x \in Cells /\ x # None
      /\ \A d \in Digests : loading[d] # x
      /\ \A b \in Calls : cell[b] # x
  BY NoneOutside DEF Unreferenced
<1>4. digest[c] \in Digests /\ cell[c] = None /\ task[c] = "none"
  BY <1>2 DEF Phases, InCell, InLoad
<1>5. <<c>> \in Seq(Calls) /\ Len(<<c>>) = 1 /\ <<c>>[1] = c
  OBVIOUS
<1>6. Types'
  BY <1>2, <1>3, <1>4, <1>5 DEF Types, States
<1>7. PermitsAccounted'
  BY <1>2, SamePermits
<1>8. Phases'
  BY <1>2, <1>3, <1>4 DEF Types, Phases, InCell, InLoad
<1>9. Turns'
  <2>1. \A y \in Cells \ {x} : waiters'[y] = waiters[y]
    BY <1>2 DEF Types
  <2>2. waiters'[x] = <<c>>
    BY <1>2, <1>3 DEF Types
  <2>3. \A b \in Calls : b # c => cell'[b] = cell[b] /\ pc'[b] = pc[b]
    BY <1>2 DEF Types
  <2>4. cell'[c] = x /\ pc'[c] = "joined"
    BY <1>2 DEF Types
  <2>5. \A y \in Cells : \A i \in 1 .. Len(waiters[y]) : waiters[y][i] # c /\ waiters[y][i] \in Calls
    BY <1>4, NoneOutside DEF Types, Turns
  <2>6. \A y \in Cells : \A i \in 1 .. Len(waiters'[y]) :
          cell'[waiters'[y][i]] = y /\ (i = 1 \/ pc'[waiters'[y][i]] = "joined")
    BY <1>5, <2>1, <2>2, <2>3, <2>4, <2>5 DEF Turns
  <2>7. \A y \in Cells : \A i, k \in 1 .. Len(waiters'[y]) : waiters'[y][i] = waiters'[y][k] => i = k
    BY <1>5, <2>1, <2>2 DEF Turns
  <2>8. \A b \in Calls : cell'[b] # None => \E i \in 1 .. Len(waiters'[cell'[b]]) : waiters'[cell'[b]][i] = b
    <3> SUFFICES ASSUME NEW b \in Calls, cell'[b] # None
                 PROVE  \E i \in 1 .. Len(waiters'[cell'[b]]) : waiters'[cell'[b]][i] = b
      OBVIOUS
    <3>1. CASE b = c
      BY <1>5, <2>2, <2>4, <3>1
    <3>2. CASE b # c
      <4>1. cell'[b] = cell[b] /\ cell[b] \in Cells \ {x}
        BY <1>3, <2>3, <3>2 DEF Types
      <4>2. waiters'[cell'[b]] = waiters[cell[b]]
        BY <2>1, <4>1
      <4> QED BY <4>1, <4>2 DEF Turns
    <3> QED BY <3>1, <3>2
  <2> QED BY <2>6, <2>7, <2>8 DEF Turns
<1>10. Flights'
  <2>1. /\ \A a, b \in Calls : cell'[a] # None /\ cell'[a] = cell'[b] => digest'[a] = digest'[b]
        /\ \A b \in Calls, d \in Digests : cell'[b] # None /\ loading'[d] = cell'[b] => digest'[b] = d
        /\ \A d, e \in Digests : loading'[d] # None /\ loading'[d] = loading'[e] => d = e
    BY <1>2, <1>3, <1>4 DEF Types, Flights
  <2>2. ASSUME NEW b \in Calls, cell'[b] # None, digest'[b] \notin removed'
        PROVE  cell'[b] = loading'[digest'[b]]
    <3>1. CASE b = c
      BY <1>2, <1>4, <3>1 DEF Types
    <3>2. CASE b # c
      <4>1. cell'[b] = cell[b] /\ digest'[b] = digest[b]
        BY <1>2, <3>2 DEF Types
      <4>2. digest[b] = digest[c] => FALSE
        BY <1>2, <2>2, <4>1 DEF Flights
      <4>3. digest[b] \notin removed
        BY <1>2, <2>2, <4>1, <4>2
      <4>4. digest[b] \in Digests
        BY <2>2, <4>1 DEF Phases, InCell, InLoad
      <4> QED BY <1>2, <2>2, <4>1, <4>2, <4>3, <4>4 DEF Types, Flights
    <3> QED BY <3>1, <3>2
  <2> QED BY <2>1, <2>2 DEF Flights
<1>11. Stored'
  <2> SUFFICES ASSUME Faults = {} PROVE (HandedStored /\ TasksHeard /\ FilledStored /\ FetchedOnce)'
    BY DEF Stored, Faults
  <2>1. HandedStored /\ TasksHeard /\ FilledStored /\ FetchedOnce
    BY DEF Stored
  <2>2. HandedStored' /\ TasksHeard'
    BY <1>2, <2>1 DEF Types, HandedStored, TasksHeard
  <2>3. FilledStored'
    BY <1>2, <1>3, <1>4, <2>1 DEF Types, FilledStored
  <2>4. FetchedOnce'
    <3>1. \A b \in Calls : pc'[b] = "permit" \/ task'[b] = "running" => digest'[b] \notin disk'
      BY <1>2, <2>1 DEF Types, FetchedOnce
    <3>2. \A b \in Calls : InCell(b)' /\ digest'[b] \notin disk' => cell'[b] = loading'[digest'[b]]
      <4> SUFFICES ASSUME NEW b \in Calls, InCell(b)', digest'[b] \notin disk'
                   PROVE  cell'[b] = loading'[digest'[b]]
        OBVIOUS
      <4>1. CASE b = c
        BY <1>2, <1>4, <4>1 DEF Types
      <4>2. CASE b # c
        <5>1. InCell(b) /\ digest[b] \notin disk /\ digest'[b] = digest[b] /\ cell'[b] = cell[b]
          BY <1>2, <4>2 DEF Types, InCell, InLoad
        <5>2. cell[b] = loading[digest[b]] /\ cell[b] # None
          BY <2>1, <5>1 DEF FetchedOnce, Phases
        <5> QED BY <1>2, <5>1, <5>2 DEF Types
      <4> QED BY <4>1, <4>2
    <3> QED BY <3>1, <3>2 DEF FetchedOnce
  <2> QED BY <2>2, <2>3, <2>4
<1> QED BY <1>6, <1>7, <1>8, <1>9, <1>10, <1>11

\* A later call, behind whoever is in the cell.
LEMMA JoinKeeps ==
  ASSUME Inv, NEW c \in Calls, Join(c), UNCHANGED setting
  PROVE  Inv'
<1> USE DEF Inv
<1>1. PICK x : x = loading[digest[c]]
  OBVIOUS
<1>2. /\ pc[c] = "missed" /\ x # None
      /\ cell' = [cell EXCEPT ![c] = x]
      /\ waiters' = [waiters EXCEPT ![x] = Append(waiters[x], c)]
      /\ pc' = [pc EXCEPT ![c] = "joined"]
      /\ UNCHANGED <<entries, loading, removed, filled, disk, free, queue, task, digest, result>>
  BY <1>1 DEF Join, Goto
<1>3. digest[c] \in Digests /\ cell[c] = None /\ task[c] = "none"
  BY <1>2 DEF Phases, InCell, InLoad
<1>4. x \in Cells /\ waiters[x] \in Seq(Calls)
  BY <1>1, <1>2, <1>3 DEF Types
<1>5. PICK s \in Seq(Calls) : s = waiters[x]
  BY <1>4
<1>6. /\ waiters'[x] = Append(s, c) /\ Append(s, c) \in Seq(Calls) /\ Len(Append(s, c)) = Len(s) + 1
      /\ \A i \in 1 .. Len(s) : Append(s, c)[i] = s[i]
      /\ Append(s, c)[Len(s) + 1] = c
  BY <1>2, <1>4, <1>5 DEF Types
<1>7. Types'
  BY <1>2, <1>4, <1>5, <1>6 DEF Types, States
<1>8. PermitsAccounted'
  BY <1>2, SamePermits
<1>9. Phases'
  BY <1>2, <1>3 DEF Types, Phases, InCell, InLoad
<1>10. Turns'
  <2>1. \A y \in Cells \ {x} : waiters'[y] = waiters[y]
    BY <1>2 DEF Types
  <2>2. PICK q : q = waiters'[x]
    OBVIOUS
  <2>3. /\ Len(s) \in Nat /\ Len(q) = Len(s) + 1
        /\ \A i \in 1 .. Len(s) : q[i] = s[i]
        /\ q[Len(s) + 1] = c
    BY <1>6, <2>2
  <2>4. \A b \in Calls : b # c => cell'[b] = cell[b] /\ pc'[b] = pc[b]
    BY <1>2 DEF Types
  <2>5. cell'[c] = x /\ pc'[c] = "joined"
    BY <1>2 DEF Types
  <2>6. \A y \in Cells : \A i \in 1 .. Len(waiters[y]) : waiters[y][i] # c /\ waiters[y][i] \in Calls
    BY <1>3, NoneOutside DEF Types, Turns
  <2>7. \A i \in 1 .. Len(s) : s[i] # c /\ s[i] \in Calls /\ cell[s[i]] = x /\ (i = 1 \/ pc[s[i]] = "joined")
    BY <1>4, <1>5, <2>6 DEF Turns
  <2>8. \A y \in Cells : \A i \in 1 .. Len(waiters'[y]) :
          cell'[waiters'[y][i]] = y /\ (i = 1 \/ pc'[waiters'[y][i]] = "joined")
    <3> SUFFICES ASSUME NEW y \in Cells, NEW i \in 1 .. Len(waiters'[y])
                 PROVE  cell'[waiters'[y][i]] = y /\ (i = 1 \/ pc'[waiters'[y][i]] = "joined")
      OBVIOUS
    <3>1. CASE y = x
      <4>1. waiters'[y] = q /\ i \in 1 .. (Len(s) + 1)
        BY <2>2, <2>3, <3>1
      <4>2. CASE i = Len(s) + 1
        BY <2>3, <2>5, <3>1, <4>1, <4>2
      <4>3. CASE i \in 1 .. Len(s)
        BY <2>3, <2>4, <2>7, <3>1, <4>1, <4>3
      <4> QED BY <2>3, <4>1, <4>2, <4>3
    <3>2. CASE y # x
      BY <2>1, <2>4, <2>6, <3>2 DEF Turns
    <3> QED BY <3>1, <3>2
  <2>9. \A y \in Cells : \A i, k \in 1 .. Len(waiters'[y]) : waiters'[y][i] = waiters'[y][k] => i = k
    <3> SUFFICES ASSUME NEW y \in Cells, NEW i \in 1 .. Len(waiters'[y]), NEW k \in 1 .. Len(waiters'[y]),
                        waiters'[y][i] = waiters'[y][k]
                 PROVE  i = k
      OBVIOUS
    <3>1. CASE y = x
      <4>1. i \in 1 .. (Len(s) + 1) /\ k \in 1 .. (Len(s) + 1) /\ q[i] = q[k]
        BY <2>2, <2>3, <3>1
      <4>2. \A m, n \in 1 .. Len(s) : s[m] = s[n] => m = n
        BY <1>4, <1>5 DEF Turns
      <4> QED BY ONLY <2>3, <2>7, <4>1, <4>2
    <3>2. CASE y # x
      BY <2>1, <3>2 DEF Turns
    <3> QED BY <3>1, <3>2
  <2>10. \A b \in Calls : cell'[b] # None => \E i \in 1 .. Len(waiters'[cell'[b]]) : waiters'[cell'[b]][i] = b
    <3> SUFFICES ASSUME NEW b \in Calls, cell'[b] # None
                 PROVE  \E i \in 1 .. Len(waiters'[cell'[b]]) : waiters'[cell'[b]][i] = b
      OBVIOUS
    <3>1. CASE b = c
      BY <2>2, <2>3, <2>5, <3>1
    <3>2. CASE b # c
      <4>1. cell'[b] = cell[b] /\ cell[b] \in Cells
        BY <2>4, <3>2 DEF Types
      <4>2. PICK i \in 1 .. Len(waiters[cell[b]]) : waiters[cell[b]][i] = b
        BY <4>1 DEF Turns
      <4>3. CASE cell[b] = x
        <5>1. i \in 1 .. Len(s) /\ s[i] = b /\ waiters'[cell'[b]] = q
          BY <1>5, <2>2, <4>1, <4>2, <4>3
        <5>2. i \in 1 .. Len(q) /\ q[i] = b
          BY <2>3, <5>1
        <5> QED BY <5>1, <5>2
      <4>4. CASE cell[b] # x
        BY <2>1, <4>1, <4>2, <4>4
      <4> QED BY <4>3, <4>4
    <3> QED BY <3>1, <3>2
  <2> QED BY <2>8, <2>9, <2>10 DEF Turns
<1>11. Flights'
  BY <1>1, <1>2, <1>3, <1>4 DEF Types, Flights
<1>12. Stored'
  BY <1>1, <1>2, <1>3 DEF Types, Stored, HandedStored, TasksHeard, FilledStored, FetchedOnce, InCell, InLoad, Faults
<1> QED BY <1>7, <1>8, <1>9, <1>10, <1>11, <1>12

\* load starts or goes on to the permits: only the pc and the queue move.
LEMMA LoadKeeps ==
  ASSUME Inv, NEW c \in Calls, LoadFromDisk(c) \/ LoadCold(c) \/ MapRefused(c), UNCHANGED setting
  PROVE  Inv'
<1> USE DEF Inv
<1>1. PICK p \in {"mapping", "permit"} :
        /\ (pc[c] = "joined" /\ HasTurn(c)) \/ pc[c] = "mapping"
        /\ pc' = [pc EXCEPT ![c] = p]
        /\ queue' = queue \/ queue' = Append(queue, c)
        /\ p = "mapping" => digest[c] \in disk
        /\ p = "permit" => digest[c] \notin disk \/ Faults # {}
        /\ UNCHANGED <<entries, loading, removed, waiters, filled, disk, free, task, digest, cell, result>>
  <2>1. CASE LoadFromDisk(c)
    BY <2>1 DEF LoadFromDisk, Goto, local
  <2>2. CASE LoadCold(c)
    BY <2>2 DEF LoadCold, Goto, local
  <2>3. CASE MapRefused(c)
    BY <2>3 DEF MapRefused, Goto, local
  <2> QED BY <2>1, <2>2, <2>3
<1>2. Types'
  <2>1. queue' \in Seq(Calls)
    <3>1. queue \in Seq(Calls) /\ Append(queue, c) \in Seq(Calls)
      BY DEF Types
    <3> QED BY <1>1, <3>1
  <2>2. pc' \in [Calls -> States]
    BY <1>1 DEF Types, States
  <2> QED BY <1>1, <2>1, <2>2 DEF Types
<1>3. PermitsAccounted'
  BY <1>1, SamePermits
<1>4. Phases'
  BY <1>1 DEF Types, Phases, InCell, InLoad
<1>5. Turns'
  <2>1. InCell(c)
    BY <1>1 DEF InCell, InLoad
  <2>2. cell[c] \in Cells
    BY <2>1, FirstLoads
  <2>3. waiters[cell[c]] # <<>> /\ waiters[cell[c]][1] = c
    <3>1. CASE pc[c] = "joined" /\ HasTurn(c)
      BY <2>2, <3>1 DEF HasTurn, Types
    <3>2. CASE pc[c] = "mapping"
      BY <2>1, <2>2, <3>2, FirstLoads DEF InLoad, Types
    <3> QED BY <1>1, <3>1, <3>2
  <2>4. \A x \in Cells : \A i \in 1 .. Len(waiters[x]) : waiters[x][i] = c => i = 1
    <3> SUFFICES ASSUME NEW x \in Cells, NEW i \in 1 .. Len(waiters[x]), waiters[x][i] = c PROVE i = 1
      OBVIOUS
    <3>1. x = cell[c]
      BY DEF Turns
    <3>2. 1 \in 1 .. Len(waiters[x])
      BY DEF Types
    <3> QED BY <2>3, <3>1, <3>2 DEF Turns
  <2> QED BY <1>1, <2>4 DEF Types, Turns
<1>6. Flights'
  BY <1>1 DEF Flights
<1>7. Stored'
  <2> SUFFICES ASSUME Faults = {} PROVE (HandedStored /\ TasksHeard /\ FilledStored /\ FetchedOnce)'
    BY DEF Stored, Faults
  <2>1. HandedStored /\ TasksHeard /\ FilledStored /\ FetchedOnce
    BY DEF Stored
  <2>2. HandedStored' /\ TasksHeard' /\ FilledStored'
    BY <1>1, <2>1 DEF Types, HandedStored, TasksHeard, FilledStored
  <2>3. InCell(c) /\ \A b \in Calls : InCell(b)' => InCell(b)
    BY <1>1 DEF Types, InCell, InLoad
  <2>4. FetchedOnce'
    BY <1>1, <2>1, <2>3 DEF Types, FetchedOnce
  <2> QED BY <2>2, <2>4
<1> QED BY <1>2, <1>3, <1>4, <1>5, <1>6, <1>7

\* The permit goes into the task.
LEMMA SpawnKeeps ==
  ASSUME Inv, NEW c \in Calls, Spawn(c), UNCHANGED setting
  PROVE  Inv'
<1> USE DEF Inv
<1>1. /\ pc[c] = "permit" /\ free > 0
      /\ queue' = RemoveFirst(queue, c)
      /\ free' = free - 1
      /\ task' = [task EXCEPT ![c] = "running"]
      /\ pc' = [pc EXCEPT ![c] = "compiling"]
      /\ UNCHANGED <<entries, loading, removed, waiters, filled, disk, digest, cell, result>>
  <2>1. free > 0
    BY DEF Spawn, Types
  <2> QED BY <2>1 DEF Spawn, Goto, local
<1>2. task[c] = "none" /\ digest[c] \in Digests
  BY <1>1 DEF Phases
<1>3. queue' \in Seq(Calls)
  BY <1>1, RemoveFirstIs DEF Types
<1>4. Types'
  BY <1>1, <1>3 DEF Types, States
<1>5. PermitsAccounted'
  <2>1. c \notin Running /\ Running' = Running \union {c} /\ Running \subseteq Calls
    BY <1>1, <1>2 DEF Types, Running
  <2>2. Cardinality(Running) \in Nat /\ Cardinality(Running') = Cardinality(Running) + 1
    BY <2>1, OneTask
  <2>3. MaxCompiles' = MaxCompiles /\ MaxCompiles \in Nat
    BY SettingsKnown DEF MaxCompiles, Types
  <2>4. free \in Nat
    BY DEF Types
  <2> QED BY <1>1, <2>2, <2>3, <2>4 DEF PermitsAccounted
<1>6. Phases'
  BY <1>1, <1>2 DEF Types, Phases, InCell, InLoad
<1>7. Turns'
  BY <1>1 DEF Types, Turns
<1>8. Flights'
  BY <1>1 DEF Flights
<1>9. Stored'
  BY <1>1, <1>2 DEF Types, Stored, HandedStored, TasksHeard, FilledStored, FetchedOnce, InCell, InLoad, Faults
<1> QED BY <1>4, <1>5, <1>6, <1>7, <1>8, <1>9

\* Where nothing fails, two calls that fetch one module are one call.
LEMMA OneFetch ==
  ASSUME Inv, Faults = {}, NEW b \in Calls, NEW c \in Calls, digest[b] = digest[c],
         pc[b] = "permit" \/ task[b] = "running", pc[c] = "permit" \/ task[c] = "running"
  PROVE  b = c
<1> USE DEF Inv
<1>1. TasksHeard /\ FetchedOnce
  BY DEF Stored
<1>2. InLoad(b) /\ InLoad(c) /\ InCell(b) /\ InCell(c)
  BY <1>1 DEF TasksHeard, InCell, InLoad
<1>3. cell[b] = loading[digest[b]] /\ cell[c] = loading[digest[c]]
  BY <1>1, <1>2 DEF FetchedOnce
<1>4. cell[b] = cell[c]
  BY <1>3
<1> QED BY <1>2, <1>4, FirstLoads

\* A task ends and drops its permit.
LEMMA TaskEndKeeps ==
  ASSUME Inv, NEW c \in Calls, TaskOk(c) \/ TaskFails(c), UNCHANGED setting
  PROVE  Inv'
<1> USE DEF Inv
<1>1. /\ task[c] = "running" /\ free' = free + 1
      /\ UNCHANGED <<entries, loading, removed, waiters, filled, queue, digest, cell, result, pc>>
  BY DEF TaskOk, TaskFails, local
<1>2. digest[c] \in Digests
  BY <1>1 DEF Phases
<1>3. PICK how \in {"none", "ok", "err"} :
        /\ task' = [task EXCEPT ![c] = how]
        /\ how # "none" <=> pc[c] = "compiling"
        /\ how = "err" => Faults # {}
        /\ Faults = {} => disk' = disk \union {digest[c]}
        /\ disk' = disk \union {digest[c]} \/ disk' = disk
  <2>1. CASE TaskOk(c)
    BY <2>1 DEF TaskOk
  <2>2. CASE TaskFails(c)
    BY <2>2 DEF TaskFails
  <2> QED BY <2>1, <2>2
<1>4. Types'
  BY <1>1, <1>2, <1>3 DEF Types
<1>5. PermitsAccounted'
  <2>1. c \notin Running' /\ Running = Running' \union {c} /\ Running' \subseteq Calls /\ Running \subseteq Calls
    BY <1>1, <1>3 DEF Types, Running
  <2>2. Cardinality(Running') \in Nat /\ Cardinality(Running) = Cardinality(Running') + 1
    BY <2>1, OneTask
  <2>3. MaxCompiles' = MaxCompiles /\ MaxCompiles \in Nat
    BY SettingsKnown DEF MaxCompiles, Types
  <2>4. free \in Nat
    BY DEF Types
  <2> QED BY <1>1, <2>2, <2>3, <2>4 DEF PermitsAccounted
<1>6. Phases'
  BY <1>1, <1>3 DEF Types, Phases, InCell, InLoad
<1>7. Turns' /\ Flights'
  BY <1>1 DEF Turns, Flights
<1>8. Stored'
  <2> SUFFICES ASSUME Faults = {} PROVE (HandedStored /\ TasksHeard /\ FilledStored /\ FetchedOnce)'
    BY DEF Stored, Faults
  <2>1. HandedStored /\ TasksHeard /\ FilledStored /\ FetchedOnce
    BY DEF Stored
  <2>2. disk' = disk \union {digest[c]}
    BY <1>3
  <2>3. HandedStored' /\ TasksHeard' /\ FilledStored'
    BY <1>1, <1>3, <2>1, <2>2 DEF Types, HandedStored, TasksHeard, FilledStored
  <2>4. \A b \in Calls : pc'[b] = "permit" \/ task'[b] = "running" => digest'[b] \notin disk'
    <3> SUFFICES ASSUME NEW b \in Calls, pc'[b] = "permit" \/ task'[b] = "running"
                 PROVE  digest'[b] \notin disk'
      OBVIOUS
    <3>1. b # c /\ (pc[b] = "permit" \/ task[b] = "running")
      BY <1>1, <1>3, <2>1 DEF Types, TasksHeard
    <3> HIDE DEF Inv
    <3>2. digest[b] # digest[c]
      BY <1>1, <3>1, OneFetch
    <3> QED BY <1>1, <2>1, <2>2, <3>1, <3>2 DEF FetchedOnce
  <2>5. \A b \in Calls : InCell(b)' /\ digest'[b] \notin disk' => cell'[b] = loading'[digest'[b]]
    BY <1>1, <2>1, <2>2 DEF FetchedOnce, InCell, InLoad
  <2> QED BY <2>3, <2>4, <2>5 DEF FetchedOnce
<1> QED BY <1>4, <1>5, <1>6, <1>7, <1>8

\* An artifact goes: the environment is one in which things fail.
LEMMA SweepKeeps ==
  ASSUME Inv, NEW d \in Digests, Sweep(d), UNCHANGED setting
  PROVE  Inv'
<1> USE DEF Inv
<1>1. /\ disk' = disk \ {d} /\ Faults # {}
      /\ UNCHANGED <<entries, loading, removed, waiters, filled, free, queue, task, digest, cell, result, pc>>
  BY DEF Sweep, local
<1>2. PermitsAccounted'
  BY <1>1, SamePermits
<1>3. Types' /\ Stored'
  BY <1>1 DEF Types, Stored, Faults
<1>4. Phases' /\ Turns' /\ Flights'
  BY <1>1 DEF Phases, Turns, Flights, InCell, InLoad
<1> QED BY <1>2, <1>3, <1>4

\* The end of get: the digest's flight is removed, whichever is there, or the
\* module promoted.
LEMMA SettleKeeps ==
  ASSUME Inv, NEW c \in Calls, SettleErr(c) \/ SettleOk(c), UNCHANGED setting
  PROVE  Inv'
<1> USE DEF Inv
<1>1. /\ pc[c] = "settled"
      /\ loading' = [loading EXCEPT ![digest[c]] = None]
      /\ removed' = removed \union {digest[c]}
      /\ filled' \subseteq filled
      /\ UNCHANGED <<entries, waiters, disk, free, queue, task>>
  BY DEF SettleErr, SettleOk, Kept
<1>2. cell[c] = None /\ digest[c] \in Digests
  BY <1>1 DEF Phases, InCell, InLoad
<1>3. PICK p \in {"idle", "promoting"}, d \in {digest[c], None}, r \in {"none", "ok", "err"} :
        /\ pc' = [pc EXCEPT ![c] = p] /\ digest' = [digest EXCEPT ![c] = d]
        /\ cell' = cell /\ result' = [result EXCEPT ![c] = r]
        /\ p = "promoting" \/ task[c] = "running" => d = digest[c]
        /\ p = "idle" => result[c] = "err"
  <2>1. CASE SettleErr(c)
    BY <1>2, <2>1 DEF SettleErr, Forget, Goto, Types
  <2>2. CASE SettleOk(c)
    BY <1>2, <2>2 DEF SettleOk, Goto, Types, local
  <2> QED BY <2>1, <2>2
<1>4. Types'
  BY <1>1, <1>2, <1>3 DEF Types, States
<1>5. PermitsAccounted'
  BY <1>1, SamePermits
<1>6. Phases'
  BY <1>1, <1>2, <1>3 DEF Types, Phases, InCell, InLoad
<1>7. Turns'
  <2>1. \A x \in Cells : \A i \in 1 .. Len(waiters[x]) : waiters[x][i] # c
    BY <1>2, NoneOutside DEF Turns
  <2> QED BY <1>1, <1>3, <2>1 DEF Types, Turns
<1>8. Flights'
  BY <1>1, <1>2, <1>3 DEF Types, Flights
<1>9. Stored'
  <2> SUFFICES ASSUME Faults = {} PROVE (HandedStored /\ TasksHeard /\ FilledStored /\ FetchedOnce)'
    BY DEF Stored, Faults
  <2>1. HandedStored /\ TasksHeard /\ FilledStored /\ FetchedOnce
    BY DEF Stored
  <2>2. result[c] = "ok" /\ digest[c] \in disk
    BY <1>1, <2>1 DEF HandedStored
  <2>3. digest' = digest /\ p = "promoting"
    BY <1>3, <2>2 DEF Types
  <2>4. HandedStored' /\ TasksHeard' /\ FilledStored'
    BY <1>1, <1>2, <1>3, <2>1, <2>2, <2>3, NoneOutside DEF Types, HandedStored, TasksHeard, FilledStored
  <2>5. FetchedOnce'
    BY <1>1, <1>2, <1>3, <2>1, <2>2, <2>3 DEF Types, FetchedOnce, InCell, InLoad
  <2> QED BY <2>4, <2>5
<1> QED BY <1>4, <1>5, <1>6, <1>7, <1>8, <1>9

\* The module goes to memory and the call is over.
LEMMA PromoteKeeps ==
  ASSUME Inv, NEW c \in Calls, Promote(c), UNCHANGED setting
  PROVE  Inv'
<1> USE DEF Inv
<1>1. /\ pc[c] = "promoting"
      /\ UNCHANGED <<loading, removed, waiters, filled, disk, free, queue, task>>
  BY DEF Promote
<1>2. cell[c] = None /\ digest[c] \in Digests
  BY <1>1 DEF Phases, InCell, InLoad
<1>3. PICK d \in {digest[c], None} :
        /\ pc' = [pc EXCEPT ![c] = "idle"] /\ digest' = [digest EXCEPT ![c] = d]
        /\ cell' = cell /\ result' = [result EXCEPT ![c] = "none"]
        /\ task[c] = "running" => d = digest[c]
  BY <1>2 DEF Promote, Forget, Goto, Types
<1>4. entries' \in Seq(Digests)
  <2>1. CASE NoMemory
    BY <2>1 DEF Promote, Types
  <2>2. CASE ~NoMemory
    <3>1. PICK put : put = Touch(entries, digest[c])
      OBVIOUS
    <3>2. RemoveFirst(entries, digest[c]) \in Seq(Digests)
      BY RemoveFirstIs DEF Types
    <3>3. put \in Seq(Digests)
      BY <1>2, <3>1, <3>2 DEF Touch
    <3>4. PICK over \in Nat : entries' = SubSeq(put, over + 1, Len(put))
      <4>1. Len(put) \in Nat
        BY <3>3
      <4>2. entries' = Evicted(entries, digest[c])
        BY <2>2 DEF Promote
      <4> DEFINE over == IF MaxEntries > 0 /\ Len(put) > MaxEntries THEN Len(put) - MaxEntries ELSE 0
      <4>3. over \in Nat
        BY <4>1, LimitsNatural
      <4>4. Evicted(entries, digest[c]) = SubSeq(put, over + 1, Len(put))
        BY <3>1 DEF Evicted
      <4> QED BY <4>2, <4>3, <4>4
    <3>5. /\ over + 1 \in Int /\ Len(put) \in Int
          /\ \A i \in (over + 1) .. Len(put) : put[i] \in Digests
      BY <3>3
    <3> QED BY <3>4, <3>5, SubSeqProperties
  <2> QED BY <2>1, <2>2
<1>5. Types'
  BY <1>1, <1>2, <1>3, <1>4 DEF Types, States
<1>6. PermitsAccounted'
  BY <1>1, SamePermits
<1>7. Phases'
  BY <1>1, <1>2, <1>3 DEF Types, Phases, InCell, InLoad
<1>8. Turns'
  <2>1. \A x \in Cells : \A i \in 1 .. Len(waiters[x]) : waiters[x][i] # c
    BY <1>2, NoneOutside DEF Turns
  <2> QED BY <1>1, <1>3, <2>1 DEF Types, Turns
<1>9. Flights'
  BY <1>1, <1>2, <1>3 DEF Types, Flights
<1>10. Stored'
  <2> SUFFICES ASSUME Faults = {} PROVE (HandedStored /\ TasksHeard /\ FilledStored /\ FetchedOnce)'
    BY DEF Stored, Faults
  <2>1. HandedStored /\ TasksHeard /\ FilledStored /\ FetchedOnce
    BY DEF Stored
  <2>2. task[c] = "none"
    BY <1>1, <2>1 DEF TasksHeard
  <2>3. HandedStored' /\ TasksHeard' /\ FilledStored'
    BY <1>1, <1>2, <1>3, <2>1, <2>2, NoneOutside DEF Types, HandedStored, TasksHeard, FilledStored
  <2>4. FetchedOnce'
    BY <1>1, <1>2, <1>3, <2>1, <2>2 DEF Types, FetchedOnce, InCell, InLoad
  <2> QED BY <2>3, <2>4
<1> QED BY <1>5, <1>6, <1>7, <1>8, <1>9, <1>10

\* get_or_try_init is over: the cell is full, or its initialiser succeeded,
\* failed, or gave up waiting for its task.
LEMMA LeavingKeeps ==
  ASSUME Inv, NEW c \in Calls, Ready(c) \/ Mapped(c) \/ Joined(c) \/ Timeout(c), UNCHANGED setting
  PROVE  Inv'
<1> USE DEF Inv
<1>1. InCell(c)
  BY DEF Ready, Mapped, Joined, Timeout, InCell, InLoad
<1>2. cell[c] \in Cells /\ cell[c] # None
  BY <1>1, FirstLoads, NoneOutside
<1>3. /\ Leave(c) /\ pc' = [pc EXCEPT ![c] = "settled"]
      /\ filled' \subseteq filled \union {cell[c]}
      /\ UNCHANGED <<entries, loading, removed, disk, free, queue, digest>>
  BY DEF Ready, Mapped, Joined, Timeout, Return, Goto, Kept
<1>4. PICK r \in {"ok", "err"}, how \in {task[c], "none"} :
        /\ result' = [result EXCEPT ![c] = r]
        /\ task' = [task EXCEPT ![c] = how]
        /\ how = "running" <=> task[c] = "running"
        /\ Faults = {} => r = "ok" /\ how = "none" /\ digest[c] \in disk
  <2>1. CASE Ready(c)
    <3>1. /\ pc[c] = "joined" /\ cell[c] \in filled /\ task' = task
          /\ result' = [result EXCEPT ![c] = "ok"]
      BY <2>1 DEF Ready
    <3> QED BY <3>1 DEF Types, Phases, Stored, FilledStored
  <2>2. CASE Mapped(c)
    <3>1. /\ pc[c] = "mapping" /\ digest[c] \in disk /\ task' = task
          /\ result' = [result EXCEPT ![c] = "ok"]
      BY <2>2 DEF Mapped, Return
    <3> QED BY <3>1 DEF Types, Phases
  <2>3. CASE Joined(c)
    <3>1. /\ pc[c] = "compiling" /\ task[c] \in {"ok", "err"}
          /\ task' = [task EXCEPT ![c] = "none"]
          /\ result' = [result EXCEPT ![c] = task[c]]
      BY <2>3 DEF Joined, Return
    <3> QED BY <3>1 DEF Types, Stored, HandedStored, TasksHeard
  <2>4. CASE Timeout(c)
    <3>1. task' = task /\ result' = [result EXCEPT ![c] = "err"] /\ Faults # {}
      BY <2>4 DEF Timeout, Return
    <3> QED BY <3>1 DEF Types
  <2> QED BY <2>1, <2>2, <2>3, <2>4
<1>5. cell' = [cell EXCEPT ![c] = None]
  BY <1>3 DEF Leave
<1>6. waiters' \in [Cells -> Seq(Calls)] /\ Turns'
  BY <1>2, <1>3, LeaveKeepsTurns DEF Types
<1>7. Types'
  BY <1>2, <1>3, <1>4, <1>5, <1>6 DEF Types, States
<1>8. PermitsAccounted'
  BY <1>3, <1>4, SamePermits DEF Types
<1>9. Phases'
  BY <1>1, <1>3, <1>4, <1>5 DEF Types, Phases, InCell, InLoad
<1>10. Flights'
  BY <1>3, <1>5 DEF Types, Flights
<1>11. Stored'
  <2> SUFFICES ASSUME Faults = {} PROVE (HandedStored /\ TasksHeard /\ FilledStored /\ FetchedOnce)'
    BY DEF Stored, Faults
  <2>1. HandedStored /\ TasksHeard /\ FilledStored /\ FetchedOnce
    BY DEF Stored
  <2>2. HandedStored' /\ TasksHeard'
    BY <1>3, <1>4, <2>1 DEF Types, HandedStored, TasksHeard
  <2>3. FilledStored'
    BY <1>2, <1>3, <1>4, <1>5, <2>1, NoneOutside DEF Types, Flights, FilledStored
  <2>4. FetchedOnce'
    BY <1>3, <1>4, <1>5, <2>1 DEF Types, FetchedOnce, InCell, InLoad
  <2> QED BY <2>2, <2>3, <2>4
<1> QED BY <1>6, <1>7, <1>8, <1>9, <1>10, <1>11

\* The request's future is dropped at the await it is at.
LEMMA CancelKeeps ==
  ASSUME Inv, NEW c \in Calls, Cancel(c), UNCHANGED setting
  PROVE  Inv'
<1> USE DEF Inv
<1>1. /\ pc[c] # "idle" /\ Faults # {}
      /\ pc' = [pc EXCEPT ![c] = "idle"]
      /\ queue' = RemoveFirst(queue, c)
      /\ cell' = [cell EXCEPT ![c] = None]
      /\ result' = [result EXCEPT ![c] = "none"]
      /\ filled' \subseteq filled
      /\ UNCHANGED <<entries, loading, removed, disk, free>>
  BY DEF Cancel, Forget, Goto, Kept
<1>2. PICK how \in {"running", "none"}, d \in {digest[c], None} :
        /\ task' = [task EXCEPT ![c] = how] /\ digest' = [digest EXCEPT ![c] = d]
        /\ how = "running" <=> task[c] = "running"
        /\ task[c] = "running" => d = digest[c]
  BY DEF Cancel, Forget, Types
<1>3. queue' \in Seq(Calls)
  BY <1>1, RemoveFirstIs DEF Types
<1>4. waiters' \in [Cells -> Seq(Calls)] /\ Turns'
  <2>1. CASE cell[c] = None
    <3>1. waiters' = waiters /\ cell' = cell
      BY <1>1, <2>1 DEF Cancel, Types
    <3>2. \A x \in Cells : \A i \in 1 .. Len(waiters[x]) : waiters[x][i] # c
      BY <2>1, NoneOutside DEF Turns
    <3> QED BY <1>1, <3>1, <3>2 DEF Types, Turns
  <2>2. CASE cell[c] # None
    <3>1. Leave(c)
      BY <1>1, <2>2 DEF Cancel, Leave
    <3>2. \A b \in Calls \ {c} : pc'[b] = pc[b]
      BY <1>1 DEF Types
    <3> QED BY <2>2, <3>1, <3>2, LeaveKeepsTurns
  <2> QED BY <2>1, <2>2
<1>5. Types'
  BY <1>1, <1>2, <1>3, <1>4 DEF Types, States
<1>6. PermitsAccounted'
  BY <1>1, <1>2, SamePermits DEF Types
<1>7. Phases'
  BY <1>1, <1>2 DEF Types, Phases, InCell, InLoad
<1>8. Flights'
  BY <1>1, <1>2 DEF Types, Flights
<1>9. Stored'
  BY <1>1 DEF Stored, Faults
<1> QED BY <1>4, <1>5, <1>6, <1>7, <1>8, <1>9

-----------------------------------------------------------------------------
(* The theorems *)

LEMMA NextKeeps == Inv /\ [Next]_vars => Inv'
<1> SUFFICES ASSUME Inv, [Next]_vars PROVE Inv'
  OBVIOUS
<1>1. CASE Next
  <2>1. UNCHANGED setting
    BY <1>1 DEF Next
  <2>2. ASSUME NEW c \in Calls, Get(c) PROVE Inv'
    BY <2>1, <2>2, GetKeeps
  <2>3. ASSUME NEW c \in Calls, Step(c) PROVE Inv'
    BY <2>1, <2>3, OpenKeeps, JoinKeeps, LeavingKeeps, LoadKeeps, SpawnKeeps, SettleKeeps, PromoteKeeps DEF Step
  <2>4. ASSUME NEW c \in Calls, TaskOk(c) \/ TaskFails(c) PROVE Inv'
    BY <2>1, <2>4, TaskEndKeeps
  <2>5. ASSUME NEW c \in Calls, Timeout(c) PROVE Inv'
    BY <2>1, <2>5, LeavingKeeps
  <2>6. ASSUME NEW c \in Calls, Cancel(c) PROVE Inv'
    BY <2>1, <2>6, CancelKeeps
  <2>7. ASSUME NEW d \in Digests, Sweep(d) PROVE Inv'
    BY <2>1, <2>7, SweepKeeps
  <2> QED BY <1>1, <2>2, <2>3, <2>4, <2>5, <2>6, <2>7 DEF Next
<1>2. CASE UNCHANGED vars
  <2>1. UNCHANGED <<setting, entries, loading, removed, waiters, filled, disk, free, queue, task, digest, cell, result, pc>>
    BY <1>2 DEF vars
  <2>2. PermitsAccounted'
    BY <2>1, SamePermits DEF Inv
  <2> QED BY <2>1, <2>2 DEF Inv, Types, Phases, Turns, Flights, Stored, HandedStored, TasksHeard, FilledStored,
                            FetchedOnce, InCell, InLoad, Faults
<1> QED BY <1>1, <1>2

\* cache.rs keeps a digest's flight, its waiters, the permits and the store
\* in step, whatever fails, times out or is dropped.
THEOREM CacheInvariant == Spec => []Inv
<1>1. Init => Inv
  BY InitInv
<1>2. Inv /\ [Next]_vars => Inv'
  BY NextKeeps
<1> QED BY <1>1, <1>2, PTL DEF Spec

\* Every permit of the compile semaphore is free or in a running compile: a
\* request that times out or goes away gives back nothing its task still uses.
THEOREM CompilesBounded == Spec => []PermitsAccounted
<1>1. Inv => PermitsAccounted
  BY DEF Inv
<1> QED BY <1>1, CacheInvariant, PTL

\* ModuleCache keeps every variable in its type, the free permits within
\* max_concurrent_compiles and the memory tier a sequence of digests.
THEOREM CacheTypes == Spec => []TypeOK
<1>1. Inv => TypeOK
  <2> SUFFICES ASSUME Inv PROVE TypeOK
    OBVIOUS
  <2>1. Running \subseteq Calls
    BY DEF Running
  <2>2. Cardinality(Running) \in Nat
    BY <2>1, CallsFinite, FS_Subset, FS_CardinalityType
  <2>3. free \in Nat /\ MaxCompiles \in Nat
    BY SettingsKnown DEF Inv, Types, MaxCompiles
  <2>4. free \in 0 .. MaxCompiles
    BY <2>2, <2>3 DEF Inv, PermitsAccounted
  <2> QED BY <2>4 DEF Inv, Types, TypeOK
<1> QED BY <1>1, CacheInvariant, PTL

\* Requests for one digest share a load (cache.rs, get): until one of them
\* has settled, they are in one cell and at most one of them is in load,
\* whatever fails, times out or is dropped.
THEOREM LoadsAreShared == Spec => []FlightShared
<1>1. Inv => FlightShared
  <2> SUFFICES ASSUME Inv, NEW c \in Calls, NEW b \in Calls, cell[c] # None, cell[b] # None,
                      digest[c] = digest[b], digest[c] \notin removed
               PROVE  /\ cell[c] = loading[digest[c]]
                      /\ cell[b] = cell[c]
                      /\ InLoad(c) /\ InLoad(b) => c = b
    BY DEF FlightShared
  <2>1. cell[c] = loading[digest[c]] /\ cell[b] = cell[c]
    BY DEF Inv, Flights
  <2>2. InCell(c) /\ InCell(b)
    BY DEF Inv, Phases
  <2>3. InLoad(c) /\ InLoad(b) => c = b
    BY <2>1, <2>2, FirstLoads DEF Inv
  <2> QED BY <2>1, <2>3
<1> QED BY <1>1, CacheInvariant, PTL

\* Where nothing fails, load fetches a module only when the store has no
\* artifact of it and nobody else is fetching it.
THEOREM NothingFetchedTwice == Spec => FetchOnlyOnMiss
<1>1. ASSUME Inv, [Next]_vars, NEW c \in Calls, Faults = {}, pc[c] = "permit", pc'[c] = "compiling"
      PROVE  digest[c] \notin disk /\ \A b \in Running : digest[b] # digest[c]
  <2>1. digest[c] \notin disk
    BY <1>1 DEF Inv, Stored, FetchedOnce
  <2>2. ASSUME NEW b \in Running PROVE digest[b] # digest[c]
    <3>1. b \in Calls /\ task[b] = "running"
      BY DEF Running
    <3>2. task[c] = "none"
      BY <1>1 DEF Inv, Phases
    <3> QED BY <1>1, <3>1, <3>2, OneFetch
  <2> QED BY <2>1, <2>2
<1>2. Inv /\ [Next]_vars =>
        [\A c \in Calls : Faults = {} /\ pc[c] = "permit" /\ pc'[c] = "compiling" =>
           /\ digest[c] \notin disk
           /\ \A b \in Running : digest[b] # digest[c]]_vars
  BY <1>1
<1> QED BY <1>2, CacheInvariant, PTL DEF Spec, FetchOnlyOnMiss
=============================================================================
