------------------------ MODULE FairSchedulerProofs ------------------------
(***************************************************************************)
(* FairScheduler's invariants for any number of runs, keys and slots.      *)
(* None of them is inductive alone: that no slot is leaked needs that the  *)
(* waiter woken is not granted already (WaitersQueued), that nobody waits  *)
(* for a free slot needs that wake_next finds every waiter                 *)
(* (RotationExact).  Inv, their conjunction, is.                           *)
(***************************************************************************)
EXTENDS FairScheduler, FiniteSetTheorems, TLAPS

Inv == TypeOK /\ SlotsAccounted /\ WorkConserving /\ RotationExact /\ WaitersQueued

-----------------------------------------------------------------------------
(* Sequences *)

\* What push_back does to a queue.
LEMMA AppendFacts ==
  ASSUME NEW S, NEW s \in Seq(S), NEW e \in S
  PROVE  /\ Append(s, e) \in Seq(S)
         /\ Append(s, e) # <<>>
         /\ Len(Append(s, e)) = Len(s) + 1
         /\ \A i \in 1..Len(s) : Append(s, e)[i] = s[i]
         /\ Append(s, e)[Len(s) + 1] = e
  OBVIOUS

\* What pop_front does to a queue.
LEMMA TailFacts ==
  ASSUME NEW S, NEW s \in Seq(S), s # <<>>
  PROVE  /\ Tail(s) \in Seq(S)
         /\ Len(s) \in Nat \ {0}
         /\ Len(Tail(s)) = Len(s) - 1
         /\ Head(s) = s[1]
         /\ Head(s) \in S
         /\ \A i \in 1..(Len(s) - 1) : Tail(s)[i] = s[i + 1]
  OBVIOUS

\* What retain does to a queue that holds x at most once: x is gone, every
\* other element is still there, and nothing is new.
LEMMA WithoutFacts ==
  ASSUME NEW S, NEW s \in Seq(S), NEW x,
         \A i, j \in 1..Len(s) : s[i] = s[j] => i = j
  PROVE  /\ Without(s, x) \in Seq(S)
         /\ \A i \in 1..Len(Without(s, x)) : Without(s, x)[i] # x
         /\ \A i \in 1..Len(Without(s, x)) : \E j \in 1..Len(s) : s[j] = Without(s, x)[i]
         /\ \A j \in 1..Len(s) : s[j] # x => \E i \in 1..Len(Without(s, x)) : Without(s, x)[i] = s[j]
         /\ \A i, j \in 1..Len(Without(s, x)) : Without(s, x)[i] = Without(s, x)[j] => i = j
<1>1. CASE ~ \E i \in 1..Len(s) : s[i] = x
  <2>1. Without(s, x) = s
    BY <1>1 DEF Without
  <2> QED BY <1>1, <2>1
<1>2. CASE \E i \in 1..Len(s) : s[i] = x
  <2> DEFINE p == CHOOSE i \in 1..Len(s) : s[i] = x
             t == [j \in 1..(Len(s) - 1) |-> s[IF j < p THEN j ELSE j + 1]]
  <2>1. p \in 1..Len(s) /\ s[p] = x
    BY <1>2
  <2>2. Without(s, x) = t
    BY <1>2 DEF Without
  <2> HIDE DEF p
  <2>3. Len(s) \in Nat /\ Len(s) - 1 \in Nat
    BY <2>1
  <2>4. \A j \in 1..(Len(s) - 1) : (IF j < p THEN j ELSE j + 1) \in 1..Len(s)
    BY <2>1, <2>3
  <2>5. t \in Seq(S) /\ Len(t) = Len(s) - 1
    BY <2>3, <2>4
  <2>6. \A i \in 1..Len(t) : t[i] = s[IF i < p THEN i ELSE i + 1]
    BY <2>5
  <2> HIDE DEF t
  <2>7. \A i \in 1..Len(t) : t[i] # x /\ \E j \in 1..Len(s) : s[j] = t[i]
    BY <2>1, <2>3, <2>4, <2>5, <2>6
  <2>8. \A j \in 1..Len(s) : s[j] # x => \E i \in 1..Len(t) : t[i] = s[j]
    <3> TAKE j \in 1..Len(s)
    <3> HAVE s[j] # x
    <3>1. CASE j < p
      BY <3>1, <2>1, <2>3, <2>5, <2>6
    <3>2. CASE j > p
      <4>1. j - 1 \in 1..Len(t) /\ ~(j - 1 < p)
        BY <3>2, <2>1, <2>3, <2>5
      <4>2. t[j - 1] = s[(j - 1) + 1]
        BY <4>1, <2>6
      <4> QED BY <4>1, <4>2, <2>3
    <3> QED BY <3>1, <3>2, <2>1, <2>3
  <2>9. \A i, j \in 1..Len(t) : t[i] = t[j] => i = j
    BY <2>1, <2>3, <2>4, <2>5, <2>6
  <2> QED BY <2>2, <2>5, <2>7, <2>8, <2>9
<1> QED BY <1>1, <1>2

-----------------------------------------------------------------------------
(* wake_next *)

\* In every reachable state wake_next either finds no waiter anywhere, or
\* serves the oldest waiter of the key at the front of the order; the skips
\* its loop provides for never happen.
LEMMA WakeNextFacts ==
  ASSUME TypeOK, RotationExact, NEW a, NEW s, WakeNext(a, s)
  PROVE  \/ /\ Pending = {}
            /\ active' = a
            /\ sent' = s
            /\ order' = order /\ mapped' = mapped /\ queues' = queues
         \/ \E k \in Keys :
              /\ order # <<>> /\ order[1] = k /\ queues[k] # <<>>
              /\ active' = a + 1
              /\ sent' = s \union {Head(queues[k])}
              /\ queues' = [queues EXCEPT ![k] = Tail(@)]
              /\ mapped' = IF Tail(queues[k]) = <<>> THEN mapped \ {k} ELSE mapped
              /\ order' = IF Tail(queues[k]) = <<>> THEN Tail(order)
                                                   ELSE Append(Tail(order), k)
<1>1. Servable = 1..Len(order)
  <2>1. \A i \in 1..Len(order) : order[i] \in Keys
    BY DEF TypeOK
  <2>2. \A i \in 1..Len(order) : queues[order[i]] # <<>> /\ order[i] \in mapped
    BY <2>1 DEF RotationExact
  <2> QED BY <2>2 DEF Servable
<1>2. CASE WakeNobody(a, s)
  <2>1. 1..Len(order) = {}
    BY <1>1, <1>2 DEF WakeNobody
  <2>2. order = <<>>
    <3>1. Len(order) \in Nat /\ 1 \notin 1..Len(order)
      BY <2>1 DEF TypeOK
    <3>2. Len(order) = 0
      BY <3>1
    <3> QED BY <3>2 DEF TypeOK
  <2>3. Pending = {}
    BY <2>1 DEF RotationExact, Pending
  <2>4. mapped' = mapped
    BY <1>2, <2>1 DEF WakeNobody
  <2> QED BY <1>2, <2>2, <2>3, <2>4 DEF WakeNobody
<1>3. ASSUME NEW i \in 1..Len(order), WakeKey(a, s, i)
      PROVE  i = 1 /\ order # <<>> /\ order[1] \in Keys /\ queues[order[1]] # <<>>
  <2>1. 1 \in 1..Len(order)
    BY <1>3 DEF TypeOK
  <2>2. \A j \in 1..Len(order) : i <= j
    BY <1>1, <1>3 DEF WakeKey
  <2>3. i = 1
    BY <2>1, <2>2, <1>3 DEF TypeOK
  <2>4. order # <<>> /\ order[1] \in Keys
    BY <2>1 DEF TypeOK
  <2> QED BY <2>1, <2>3, <2>4 DEF RotationExact
<1>4. ASSUME WakeKey(a, s, 1), order # <<>>, order[1] \in Keys, queues[order[1]] # <<>>
      PROVE  LET k == order[1]
             IN  /\ active' = a + 1
                 /\ sent' = s \union {Head(queues[k])}
                 /\ queues' = [queues EXCEPT ![k] = Tail(@)]
                 /\ mapped' = IF Tail(queues[k]) = <<>> THEN mapped \ {k} ELSE mapped
                 /\ order' = IF Tail(queues[k]) = <<>> THEN Tail(order)
                                                      ELSE Append(Tail(order), k)
  <2>1. SubSeq(order, 1 + 1, Len(order)) = Tail(order)
    BY <1>4 DEF TypeOK
  <2>2. {order[j] : j \in 1..(1 - 1)} = {}
    OBVIOUS
  <2> QED BY <1>4, <2>1, <2>2 DEF WakeKey, Rotate
<1> QED BY <1>2, <1>3, <1>4 DEF WakeNext

-----------------------------------------------------------------------------
(* Steps *)

\* The runs that have a slot are finitely many, whatever the step.
LEMMA GrantedFinite ==
  ASSUME TypeOK
  PROVE  IsFiniteSet(Granted) /\ Cardinality(Granted) \in Nat
<1>1. Granted \in SUBSET Runs
  BY DEF TypeOK, Granted
<1>2. IsFiniteSet(Granted)
  BY <1>1, RunsFinite, FS_Subset
<1> QED BY <1>2, FS_CardinalityType

LEMMA InitInv == Init => Inv
<1> SUFFICES ASSUME Init PROVE Inv
  OBVIOUS
<1>1. TypeOK
  BY DEF Init, TypeOK, States
<1>2. Granted = {} /\ Pending = {}
  BY DEF Init, Granted, Pending
<1>3. SlotsAccounted
  BY <1>2, TotalPositive, FS_EmptySet DEF SlotsAccounted, Init
<1>4. WorkConserving
  BY <1>2 DEF WorkConserving
<1>5. RotationExact
  BY DEF Init, RotationExact
<1>6. WaitersQueued
  BY DEF Init, WaitersQueued, Waits
<1> QED BY <1>1, <1>3, <1>4, <1>5, <1>6 DEF Inv

LEMMA AcquireFreeInv ==
  ASSUME Inv, NEW r \in Runs, NEW k \in Keys, AcquireFree(r, k)
  PROVE  Inv'
<1> USE DEF Inv
<1>1. TypeOK'
  BY DEF AcquireFree, TypeOK, States
<1>2. r \notin Granted /\ r \notin sent
  BY DEF AcquireFree, WaitersQueued, Granted
<1>3. Granted' = Granted \union {r}
  BY DEF AcquireFree, Granted, TypeOK
<1>4. Cardinality(Granted') = Cardinality(Granted) + 1
  BY <1>2, <1>3, GrantedFinite, FS_AddElement
<1>5. SlotsAccounted'
  BY <1>4, TotalPositive DEF SlotsAccounted, AcquireFree, TypeOK
<1>6. WorkConserving'
  BY TotalPositive DEF WorkConserving, AcquireFree, Pending, TypeOK
<1>7. RotationExact'
  BY DEF RotationExact, AcquireFree
<1>8. WaitersQueued'
  <2>1. \A x \in Runs : Waits(x)' <=> Waits(x)
    BY DEF Waits, AcquireFree, TypeOK
  <2>2. \A x \in Runs : Waits(x) => key'[x] = key[x]
    BY DEF Waits, AcquireFree, TypeOK
  <2>3. \A x \in sent' : pc'[x] \in {"waiting", "expired"}
    BY <1>2 DEF WaitersQueued, AcquireFree, TypeOK
  <2>4. \A x \in Keys : \A i \in 1..Len(queues[x]) : queues[x][i] \in Runs
    BY DEF TypeOK
  <2>5. queues' = queues
    BY DEF AcquireFree
  <2> QED BY <2>1, <2>2, <2>3, <2>4, <2>5 DEF WaitersQueued
<1> QED BY <1>1, <1>5, <1>6, <1>7, <1>8

LEMMA AcquireWaitInv ==
  ASSUME Inv, NEW r \in Runs, NEW k \in Keys, AcquireWait(r, k)
  PROVE  Inv'
<1> USE DEF Inv
<1>q. queues[k] \in Seq(Runs) /\ queues' = [queues EXCEPT ![k] = Append(queues[k], r)]
  BY DEF TypeOK, AcquireWait
<1>a. /\ queues'[k] = Append(queues[k], r)
      /\ \A x \in Keys : x # k => queues'[x] = queues[x]
  BY <1>q DEF TypeOK
<1>s. /\ queues'[k] \in Seq(Runs)
      /\ queues'[k] # <<>>
      /\ Len(queues[k]) \in Nat
      /\ Len(queues'[k]) = Len(queues[k]) + 1
      /\ \A i \in 1..Len(queues[k]) : queues'[k][i] = queues[k][i]
      /\ queues'[k][Len(queues[k]) + 1] = r
  BY <1>q, <1>a, AppendFacts
<1>o. k \notin mapped => /\ order' = Append(order, k)
                        /\ Len(order') = Len(order) + 1
                        /\ order'[Len(order) + 1] = k
                        /\ \A i \in 1..Len(order) : order'[i] = order[i]
  BY AppendFacts DEF AcquireWait, TypeOK
<1>1. TypeOK'
  <2>1. queues' \in [Keys -> Seq(Runs)]
    BY <1>q, <1>s, <1>a DEF TypeOK
  <2>2. order' \in Seq(Keys)
    BY AppendFacts DEF AcquireWait, TypeOK
  <2> QED BY <2>1, <2>2 DEF AcquireWait, TypeOK, States
<1>2. ~Waits(r) /\ r \notin sent
  BY DEF AcquireWait, WaitersQueued, Waits
<1>3. Granted' = Granted
  BY DEF AcquireWait, Granted, TypeOK
<1>4. SlotsAccounted' /\ WorkConserving'
  BY <1>3, TotalPositive DEF SlotsAccounted, WorkConserving, AcquireWait, TypeOK
<1>5. RotationExact'
  <2>1. CASE k \in mapped
    <3>1. queues[k] # <<>>
      BY <2>1 DEF RotationExact
    <3>2. \A x \in Keys : queues'[x] # <<>> <=> queues[x] # <<>>
      BY <3>1, <1>a, <1>s
    <3>3. order' = order /\ mapped' = mapped
      BY <2>1 DEF AcquireWait
    <3> QED BY <3>2, <3>3 DEF RotationExact
  <2>2. CASE k \notin mapped
    <3>1. queues[k] = <<>> /\ \A i \in 1..Len(order) : order[i] # k
      BY <2>2 DEF RotationExact
    <3>2. \A x \in Keys : queues'[x] # <<>> <=> (queues[x] # <<>> \/ x = k)
      BY <1>a, <1>s
    <3>3. mapped' = mapped \union {k}
      BY DEF AcquireWait
    <3>4. Len(order) \in Nat
      BY DEF TypeOK
    <3>5. \A i \in 1..Len(order') : i \in 1..Len(order) \/ i = Len(order) + 1
      BY <1>o, <2>2, <3>4
    <3>6. \A i, j \in 1..Len(order') : order'[i] = order'[j] => i = j
      BY <1>o, <2>2, <3>1, <3>4, <3>5 DEF RotationExact
    <3>7. \A x \in Keys : (\E i \in 1..Len(order') : order'[i] = x)
             <=> ((\E i \in 1..Len(order) : order[i] = x) \/ x = k)
      BY <1>o, <2>2, <3>4, <3>5
    <3> QED BY <3>2, <3>3, <3>6, <3>7 DEF RotationExact
  <2> QED BY <2>1, <2>2
<1>6. WaitersQueued'
  <2>1. \A x \in Runs : Waits(x)' <=> (Waits(x) \/ x = r)
    BY <1>2 DEF Waits, AcquireWait, TypeOK
  <2>2. \A x \in Runs : x # r => key'[x] = key[x]
    BY DEF AcquireWait, TypeOK
  <2>3. key'[r] = k
    BY DEF AcquireWait, TypeOK
  <2>4. \A x \in Keys : \A i \in 1..Len(queues[x]) : queues[x][i] \in Runs /\ queues[x][i] # r
    BY <1>2 DEF TypeOK, WaitersQueued
  <2>5. \A i \in 1..Len(queues'[k]) : i \in 1..Len(queues[k]) \/ i = Len(queues[k]) + 1
    BY <1>s
  <2>6. \A x \in Runs : Waits(x)' =>
          key'[x] \in Keys /\ \E i \in 1..Len(queues'[key'[x]]) : queues'[key'[x]][i] = x
    <3> SUFFICES ASSUME NEW x \in Runs, Waits(x)'
                 PROVE  key'[x] \in Keys /\ \E i \in 1..Len(queues'[key'[x]]) : queues'[key'[x]][i] = x
      OBVIOUS
    <3>1. CASE x = r
      BY <3>1, <2>3, <1>s
    <3>2. CASE x # r
      <4>1. Waits(x) /\ key'[x] = key[x]
        BY <3>2, <2>1, <2>2
      <4>2. key[x] \in Keys /\ \E i \in 1..Len(queues[key[x]]) : queues[key[x]][i] = x
        BY <4>1 DEF WaitersQueued
      <4>3. CASE key[x] = k
        BY <4>1, <4>2, <4>3, <1>s
      <4>4. CASE key[x] # k
        BY <4>1, <4>2, <4>4, <1>a
      <4> QED BY <4>3, <4>4
    <3> QED BY <3>1, <3>2
  <2>7. ASSUME NEW y \in Keys, NEW i \in 1..Len(queues'[y])
        PROVE  Waits(queues[y][i])' /\ key'[queues'[y][i]] = y
    <3>1. CASE y = k /\ i = Len(queues[k]) + 1
      BY <3>1, <1>s, <2>1, <2>3 DEF Waits
    <3>2. CASE y # k \/ i # Len(queues[k]) + 1
      <4>1. i \in 1..Len(queues[y]) /\ queues'[y][i] = queues[y][i]
        BY <3>2, <1>a, <1>s, <2>5
      <4>2. Waits(queues[y][i]) /\ key[queues[y][i]] = y
        BY <4>1 DEF WaitersQueued
      <4> QED BY <4>1, <4>2, <2>1, <2>2, <2>4 DEF Waits
    <3> QED BY <3>1, <3>2
  <2>8. ASSUME NEW y \in Keys, NEW i \in 1..Len(queues'[y]), NEW j \in 1..Len(queues'[y]),
               queues'[y][i] = queues'[y][j]
        PROVE  i = j
    <3>1. CASE y # k
      BY <3>1, <2>8, <1>a DEF WaitersQueued
    <3>2. CASE y = k
      BY <3>2, <2>8, <1>s, <2>4, <2>5 DEF WaitersQueued
    <3> QED BY <3>1, <3>2
  <2>9. \A x \in sent' : pc'[x] \in {"waiting", "expired"}
    BY <1>2 DEF WaitersQueued, AcquireWait, TypeOK
  <2> QED BY <2>6, <2>7, <2>8, <2>9 DEF WaitersQueued
<1> QED BY <1>1, <1>4, <1>5, <1>6

\* A received grant moves from the channel to the guard.
LEMMA ReceiveInv ==
  ASSUME Inv, NEW r \in Runs, Receive(r)
  PROVE  Inv'
<1> USE DEF Inv
<1>1. TypeOK'
  BY DEF Receive, TypeOK, States
<1>2. Granted' = Granted
  BY DEF Receive, Granted, TypeOK
<1>3. SlotsAccounted' /\ WorkConserving' /\ RotationExact'
  BY <1>2 DEF SlotsAccounted, WorkConserving, RotationExact, Pending, Receive
<1>4. WaitersQueued'
  <2>1. \A x \in Runs : Waits(x)' <=> Waits(x)
    BY DEF Waits, Receive, TypeOK
  <2>2. \A x \in sent' : pc'[x] \in {"waiting", "expired"}
    BY DEF WaitersQueued, Receive, TypeOK
  <2>3. \A x \in Keys : \A i \in 1..Len(queues[x]) : queues[x][i] \in Runs
    BY DEF TypeOK
  <2>4. queues' = queues /\ key' = key
    BY DEF Receive
  <2> QED BY <2>1, <2>2, <2>3, <2>4 DEF WaitersQueued
<1> QED BY <1>1, <1>3, <1>4

LEMMA ExpireInv ==
  ASSUME Inv, NEW r \in Runs, Expire(r)
  PROVE  Inv'
<1> USE DEF Inv
<1>1. TypeOK'
  BY DEF Expire, TypeOK, States
<1>2. Granted' = Granted
  BY DEF Expire, Granted, TypeOK
<1>3. SlotsAccounted' /\ WorkConserving' /\ RotationExact'
  BY <1>2 DEF SlotsAccounted, WorkConserving, RotationExact, Pending, Expire
<1>4. WaitersQueued'
  <2>1. \A x \in Runs : Waits(x)' <=> Waits(x)
    BY DEF Waits, Expire, TypeOK
  <2>2. \A x \in sent' : pc'[x] \in {"waiting", "expired"}
    BY DEF WaitersQueued, Expire, TypeOK
  <2>3. \A x \in Keys : \A i \in 1..Len(queues[x]) : queues[x][i] \in Runs
    BY DEF TypeOK
  <2>4. queues' = queues /\ key' = key
    BY DEF Expire
  <2> QED BY <2>1, <2>2, <2>3, <2>4 DEF WaitersQueued
<1> QED BY <1>1, <1>3, <1>4

\* A refused wait leaves every other waiter, and the order, as they were.
LEMMA ReconcileExpiredInv ==
  ASSUME Inv, NEW r \in Runs, ReconcileExpired(r)
  PROVE  Inv'
<1> USE DEF Inv
<1> DEFINE k == key[r]
           left == Without(queues[k], r)
<1>w. Waits(r)
  BY DEF ReconcileExpired, Waits
<1>k. k \in Keys /\ queues[k] \in Seq(Runs) /\ \E i \in 1..Len(queues[k]) : queues[k][i] = r
  BY <1>w DEF WaitersQueued, TypeOK
<1>m. queues[k] # <<>> /\ k \in mapped
  BY <1>k DEF RotationExact
<1>f. /\ left \in Seq(Runs)
      /\ \A i \in 1..Len(left) : left[i] # r
      /\ \A i \in 1..Len(left) : \E j \in 1..Len(queues[k]) : queues[k][j] = left[i]
      /\ \A j \in 1..Len(queues[k]) : queues[k][j] # r => \E i \in 1..Len(left) : left[i] = queues[k][j]
      /\ \A i, j \in 1..Len(left) : left[i] = left[j] => i = j
  <2>1. \A i, j \in 1..Len(queues[k]) : queues[k][i] = queues[k][j] => i = j
    BY <1>k DEF WaitersQueued
  <2> HIDE DEF k
  <2> QED BY <1>k, <2>1, WithoutFacts
<1>u. /\ queues' = [queues EXCEPT ![k] = left]
      /\ mapped' = IF left = <<>> THEN mapped \ {k} ELSE mapped
      /\ order' = IF left = <<>> THEN Without(order, k) ELSE order
      /\ pc' = [pc EXCEPT ![r] = "idle"]
      /\ key' = [key EXCEPT ![r] = NoKey]
      /\ active' = active /\ sent' = sent
  BY <1>m DEF ReconcileExpired, RemoveWaiter, Return
<1>g. /\ Without(order, k) \in Seq(Keys)
      /\ \A i \in 1..Len(Without(order, k)) : Without(order, k)[i] # k
      /\ \A i \in 1..Len(Without(order, k)) : \E j \in 1..Len(order) : order[j] = Without(order, k)[i]
      /\ \A j \in 1..Len(order) : order[j] # k => \E i \in 1..Len(Without(order, k)) : Without(order, k)[i] = order[j]
      /\ \A i, j \in 1..Len(Without(order, k)) : Without(order, k)[i] = Without(order, k)[j] => i = j
  <2>1. \A i, j \in 1..Len(order) : order[i] = order[j] => i = j
    BY DEF RotationExact
  <2>2. order \in Seq(Keys)
    BY DEF TypeOK
  <2> HIDE DEF k
  <2> QED BY <2>1, <2>2, WithoutFacts
<1> HIDE DEF left, k
<1>a. /\ queues'[k] = left
      /\ \A x \in Keys : x # k => queues'[x] = queues[x]
  BY <1>u, <1>k DEF TypeOK
<1>1. TypeOK'
  BY <1>u, <1>f, <1>g, <1>k DEF TypeOK, States
<1>2. Granted' = Granted
  BY <1>u, <1>w DEF Waits, Granted, TypeOK
<1>3. SlotsAccounted'
  BY <1>2, <1>u DEF SlotsAccounted
<1>4. WorkConserving'
  BY <1>u, <1>k, <1>m DEF WorkConserving, Pending
<1>5. RotationExact'
  <2>1. \A i, j \in 1..Len(order') : order'[i] = order'[j] => i = j
    BY <1>u, <1>g DEF RotationExact
  <2>2. CASE left = <<>>
    <3>1. order' = Without(order, k) /\ mapped' = mapped \ {k}
      BY <1>u, <2>2
    <3> DEFINE o == Without(order, k)
    <3> HIDE DEF o
    <3>2. \A x \in Keys : (\E i \in 1..Len(order') : order'[i] = x)
             <=> (x # k /\ \E i \in 1..Len(order) : order[i] = x)
      <4>1. order' = o
        BY <3>1 DEF o
      <4>2. /\ \A i \in 1..Len(o) : o[i] # k
            /\ \A i \in 1..Len(o) : \E j \in 1..Len(order) : order[j] = o[i]
            /\ \A j \in 1..Len(order) : order[j] # k => \E i \in 1..Len(o) : o[i] = order[j]
        BY <1>g DEF o
      <4> QED BY <4>1, <4>2
    <3>3. \A x \in Keys : queues'[x] # <<>> <=> (x # k /\ queues[x] # <<>>)
      BY <1>a, <2>2
    <3> QED BY <2>1, <3>1, <3>2, <3>3 DEF RotationExact
  <2>3. CASE left # <<>>
    <3>1. \A x \in Keys : queues'[x] # <<>> <=> queues[x] # <<>>
      BY <1>a, <1>m, <2>3
    <3>2. order' = order /\ mapped' = mapped
      BY <1>u, <2>3
    <3> QED BY <3>1, <3>2 DEF RotationExact
  <2> QED BY <2>2, <2>3
<1>6. WaitersQueued'
  <2>1. \A x \in Runs : Waits(x)' <=> (Waits(x) /\ x # r)
    BY <1>u DEF Waits, TypeOK
  <2>2. \A x \in Runs : x # r => key'[x] = key[x]
    BY <1>u DEF TypeOK
  <2>3. \A y \in Keys : \A i \in 1..Len(queues[y]) : queues[y][i] \in Runs /\ (y # k => queues[y][i] # r)
    BY DEF TypeOK, WaitersQueued, k
  <2>4. ASSUME NEW x \in Runs, Waits(x)'
        PROVE  key'[x] \in Keys /\ \E i \in 1..Len(queues'[key'[x]]) : queues'[key'[x]][i] = x
    <3>1. x # r /\ Waits(x) /\ key'[x] = key[x]
      BY <2>1, <2>2, <2>4
    <3>2. key[x] \in Keys /\ \E i \in 1..Len(queues[key[x]]) : queues[key[x]][i] = x
      BY <3>1 DEF WaitersQueued
    <3>3. CASE key[x] = k
      BY <3>1, <3>2, <3>3, <1>a, <1>f
    <3>4. CASE key[x] # k
      BY <3>1, <3>2, <3>4, <1>a
    <3> QED BY <3>3, <3>4
  <2>5. ASSUME NEW y \in Keys, NEW i \in 1..Len(queues'[y])
        PROVE  Waits(queues[y][i])' /\ key'[queues'[y][i]] = y
    <3>1. \E j \in 1..Len(queues[y]) : queues[y][j] = queues'[y][i] /\ queues'[y][i] # r
      <4>1. CASE y = k
        BY <4>1, <2>5, <1>a, <1>f
      <4>2. CASE y # k
        BY <4>2, <2>5, <1>a, <2>3
      <4> QED BY <4>1, <4>2
    <3>2. PICK j \in 1..Len(queues[y]) : queues[y][j] = queues'[y][i] /\ queues'[y][i] # r
      BY <3>1
    <3>3. Waits(queues[y][j]) /\ key[queues[y][j]] = y
      BY DEF WaitersQueued
    <3> QED BY <3>2, <3>3, <2>1, <2>2, <2>3 DEF Waits
  <2>6. ASSUME NEW y \in Keys, NEW i \in 1..Len(queues'[y]), NEW j \in 1..Len(queues'[y]),
               queues'[y][i] = queues'[y][j]
        PROVE  i = j
    <3>1. CASE y # k
      BY <3>1, <2>6, <1>a DEF WaitersQueued
    <3>2. CASE y = k
      BY <3>2, <2>6, <1>a, <1>f
    <3> QED BY <3>1, <3>2
  <2>7. \A x \in sent' : pc'[x] \in {"waiting", "expired"}
    BY <1>w, <1>u DEF WaitersQueued, Waits, TypeOK
  <2> QED BY <2>4, <2>5, <2>6, <2>7 DEF WaitersQueued
<1> QED BY <1>1, <1>3, <1>4, <1>5, <1>6

\* A run that has a slot, received (its guard drops) or not (its deadline
\* fired first), gives it up: the slot goes to the next waiter or is free.
LEMMA HandOnInv ==
  ASSUME Inv, NEW r \in Runs, r \in Granted, pc[r] # "waiting",
         WakeNext(active - 1, sent \ {r}), Return(r)
  PROVE  Inv'
<1> USE DEF Inv
<1>u. /\ pc' = [pc EXCEPT ![r] = "idle"]
      /\ key' = [key EXCEPT ![r] = NoKey]
  BY DEF Return
<1>r. ~Waits(r)
  BY DEF Waits, Granted, WaitersQueued
<1>g. /\ IsFiniteSet(Granted) /\ Cardinality(Granted) \in Nat
      /\ IsFiniteSet(Granted \ {r})
      /\ Cardinality(Granted \ {r}) = Cardinality(Granted) - 1
  BY GrantedFinite, FS_RemoveElement
<1>n. \A y \in Keys : \A i \in 1..Len(queues[y]) : queues[y][i] \in Runs /\ queues[y][i] # r
  BY <1>r DEF TypeOK, WaitersQueued
<1>1. CASE /\ Pending = {}
           /\ active' = active - 1
           /\ sent' = sent \ {r}
           /\ order' = order /\ mapped' = mapped /\ queues' = queues
  <2>1. Granted' = Granted \ {r}
    BY <1>1, <1>u DEF Granted, TypeOK
  <2>2. SlotsAccounted'
    BY <2>1, <1>1, <1>g, TotalPositive DEF SlotsAccounted
  <2>3. TypeOK'
    <3>1. Cardinality(Granted \ {r}) \in Nat
      BY <1>g, FS_CardinalityType
    <3>2. active' \in Nat
      BY <1>1, <1>g, <3>1 DEF SlotsAccounted
    <3> QED BY <1>1, <1>u, <3>2 DEF TypeOK, States
  <2>4. WorkConserving' /\ RotationExact'
    BY <1>1 DEF WorkConserving, RotationExact, Pending
  <2>5. \A x \in Runs : Waits(x)' <=> Waits(x)
    BY <1>1, <1>u, <1>r DEF Waits, TypeOK
  <2>6. \A x \in Runs : x # r => key'[x] = key[x]
    BY <1>u DEF TypeOK
  <2>7. \A x \in sent' : pc'[x] \in {"waiting", "expired"}
    BY <1>1, <1>u DEF WaitersQueued, TypeOK
  <2>8. WaitersQueued'
    BY <1>1, <1>r, <1>n, <2>5, <2>6, <2>7 DEF WaitersQueued
  <2> QED BY <2>2, <2>3, <2>4, <2>8
<1>2. ASSUME NEW k \in Keys,
             order # <<>>, order[1] = k, queues[k] # <<>>,
             active' = (active - 1) + 1,
             sent' = (sent \ {r}) \union {Head(queues[k])},
             queues' = [queues EXCEPT ![k] = Tail(@)],
             mapped' = IF Tail(queues[k]) = <<>> THEN mapped \ {k} ELSE mapped,
             order' = IF Tail(queues[k]) = <<>> THEN Tail(order) ELSE Append(Tail(order), k)
      PROVE  Inv'
  <2> DEFINE w == Head(queues[k])
             q == Tail(queues[k])
  <2>q. /\ q \in Seq(Runs)
        /\ Len(queues[k]) \in Nat \ {0}
        /\ Len(q) = Len(queues[k]) - 1
        /\ w = queues[k][1] /\ w \in Runs
        /\ \A i \in 1..(Len(queues[k]) - 1) : q[i] = queues[k][i + 1]
    BY <1>2, TailFacts DEF TypeOK
  <2>t. /\ Tail(order) \in Seq(Keys)
        /\ Len(order) \in Nat \ {0}
        /\ Len(Tail(order)) = Len(order) - 1
        /\ \A i \in 1..(Len(order) - 1) : Tail(order)[i] = order[i + 1]
    BY <1>2, TailFacts DEF TypeOK
  <2>w. Waits(w) /\ w # r /\ key[w] = k
    BY <2>q, <1>r DEF WaitersQueued
  <2>a. /\ queues'[k] = q
        /\ \A x \in Keys : x # k => queues'[x] = queues[x]
    BY <1>2 DEF TypeOK
  <2> HIDE DEF w, q
  <2>s. sent' = (sent \ {r}) \union {w}
    BY <1>2 DEF w
  <2>1. Granted' = (Granted \ {r}) \union {w}
    BY <2>s, <2>w, <2>q, <1>u DEF Granted, TypeOK
  <2>2. w \notin Granted \ {r}
    BY <2>w DEF Waits, Granted
  <2>3. Cardinality(Granted') = Cardinality(Granted)
    <3>1. Cardinality((Granted \ {r}) \union {w}) = Cardinality(Granted \ {r}) + 1
      BY <2>2, <1>g, FS_AddElement
    <3> QED BY <3>1, <2>1, <1>g
  <2>4. active' = active
    BY <1>2 DEF TypeOK
  <2>5. SlotsAccounted'
    BY <2>3, <2>4 DEF SlotsAccounted
  <2>6. WorkConserving'
    BY <2>4, <1>2 DEF WorkConserving, Pending
  <2>o. order' \in Seq(Keys)
    BY <1>2, <2>t, AppendFacts
  <2>7. TypeOK'
    <3>1. queues' \in [Keys -> Seq(Runs)]
      BY <1>2, <2>q DEF TypeOK, q
    <3>2. sent' \in SUBSET Runs
      BY <2>s, <2>q DEF TypeOK
    <3>3. mapped' \in SUBSET Keys
      BY <1>2 DEF TypeOK
    <3> QED BY <1>u, <2>4, <2>o, <3>1, <3>2, <3>3 DEF TypeOK, States
  <2>8. RotationExact'
    <3>1. \A i \in 1..Len(Tail(order)) : Tail(order)[i] # k /\ i + 1 \in 1..Len(order)
      BY <2>t, <1>2 DEF RotationExact
    <3>2. \A i, j \in 1..Len(Tail(order)) : Tail(order)[i] = Tail(order)[j] => i = j
      BY <2>t DEF RotationExact
    <3>3. \A x \in Keys : (\E i \in 1..Len(Tail(order)) : Tail(order)[i] = x)
             <=> (x # k /\ \E i \in 1..Len(order) : order[i] = x)
      <4> SUFFICES ASSUME NEW x \in Keys
                   PROVE  (\E i \in 1..Len(Tail(order)) : Tail(order)[i] = x)
                            <=> (x # k /\ \E i \in 1..Len(order) : order[i] = x)
        OBVIOUS
      <4>1. ASSUME NEW i \in 1..Len(order), order[i] = x, x # k
            PROVE  \E j \in 1..Len(Tail(order)) : Tail(order)[j] = x
        <5>1. i # 1
          BY <4>1, <1>2
        <5>2. i - 1 \in 1..Len(Tail(order)) /\ (i - 1) + 1 = i
          BY <5>1, <2>t
        <5> QED BY <5>2, <4>1, <2>t
      <4>2. ASSUME NEW i \in 1..Len(Tail(order)), Tail(order)[i] = x
            PROVE  x # k /\ \E j \in 1..Len(order) : order[j] = x
        BY <4>2, <3>1, <2>t
      <4> QED BY <4>1, <4>2
    <3>4. CASE q = <<>>
      <4>1. order' = Tail(order) /\ mapped' = mapped \ {k}
        BY <3>4, <1>2 DEF q
      <4>2. \A x \in Keys : queues'[x] # <<>> <=> (x # k /\ queues[x] # <<>>)
        BY <2>a, <3>4
      <4> HIDE <1>2
      <4> QED BY <4>1, <4>2, <3>2, <3>3 DEF RotationExact
    <3>5. CASE q # <<>>
      <4> DEFINE t == Tail(order)
      <4>1. order' = Append(t, k) /\ mapped' = mapped
        BY <3>5, <1>2 DEF q
      <4>2. \A x \in Keys : queues'[x] # <<>> <=> queues[x] # <<>>
        BY <2>a, <3>5, <1>2
      <4>3. t \in Seq(Keys) /\ Len(t) \in Nat
        BY <2>t
      <4>4. /\ \A i \in 1..Len(t) : t[i] # k
            /\ \A i, j \in 1..Len(t) : t[i] = t[j] => i = j
            /\ \A x \in Keys : (\E i \in 1..Len(t) : t[i] = x)
                 <=> (x # k /\ \E i \in 1..Len(order) : order[i] = x)
        BY <3>1, <3>2, <3>3
      <4>5. \E i \in 1..Len(order) : order[i] = k
        BY <2>t, <1>2
      <4> HIDE DEF t
      <4>6. /\ Len(order') = Len(t) + 1
            /\ order'[Len(t) + 1] = k
            /\ \A i \in 1..Len(t) : order'[i] = t[i]
        BY <4>1, <4>3, AppendFacts
      <4>7. \A i \in 1..Len(order') : i \in 1..Len(t) \/ i = Len(t) + 1
        BY <4>3, <4>6
      <4>8. \A i, j \in 1..Len(order') : order'[i] = order'[j] => i = j
        BY <4>3, <4>4, <4>6, <4>7
      <4>9. \A x \in Keys : (\E i \in 1..Len(order') : order'[i] = x)
              <=> (\E i \in 1..Len(order) : order[i] = x)
        BY <4>3, <4>4, <4>5, <4>6, <4>7
      <4> QED BY <4>1, <4>2, <4>8, <4>9 DEF RotationExact
    <3> QED BY <3>4, <3>5
  <2>9. WaitersQueued'
    <3>1. \A x \in Runs : Waits(x)' <=> (Waits(x) /\ x # w)
      BY <2>s, <2>w, <2>q, <1>u, <1>r DEF Waits, TypeOK
    <3>2. \A x \in Runs : x # r => key'[x] = key[x]
      BY <1>u DEF TypeOK
    <3>3. \A y \in Keys : \A i \in 1..Len(queues[y]) : y # k => queues[y][i] # w
      BY <2>w DEF WaitersQueued
    <3>4. \A i \in 1..Len(q) : i + 1 \in 1..Len(queues[k]) /\ q[i] = queues[k][i + 1] /\ q[i] # w
      BY <2>q DEF WaitersQueued
    <3>5. ASSUME NEW x \in Runs, Waits(x)'
          PROVE  key'[x] \in Keys /\ \E i \in 1..Len(queues'[key'[x]]) : queues'[key'[x]][i] = x
      <4>1. x # w /\ x # r /\ Waits(x) /\ key'[x] = key[x]
        BY <3>1, <3>2, <3>5, <1>r
      <4>2. key[x] \in Keys /\ \E i \in 1..Len(queues[key[x]]) : queues[key[x]][i] = x
        BY <4>1 DEF WaitersQueued
      <4>3. CASE key[x] = k
        <5>1. PICK i \in 1..Len(queues[k]) : queues[k][i] = x
          BY <4>2, <4>3
        <5>2. i # 1
          BY <5>1, <4>1, <2>q
        <5>3. i - 1 \in 1..Len(q) /\ (i - 1) + 1 = i
          BY <5>2, <2>q
        <5>4. q[i - 1] = x
          BY <5>1, <5>3, <3>4
        <5> QED BY <5>3, <5>4, <4>1, <4>2, <4>3, <2>a
      <4>4. CASE key[x] # k
        BY <4>1, <4>2, <4>4, <2>a
      <4> QED BY <4>3, <4>4
    <3>6. ASSUME NEW y \in Keys, NEW i \in 1..Len(queues'[y])
          PROVE  Waits(queues[y][i])' /\ key'[queues'[y][i]] = y
      <4>1. PICK j \in 1..Len(queues[y]) : queues[y][j] = queues'[y][i] /\ queues'[y][i] # w
        <5>1. CASE y = k
          BY <5>1, <3>6, <2>a, <3>4
        <5>2. CASE y # k
          BY <5>2, <3>6, <2>a, <3>3
        <5> QED BY <5>1, <5>2
      <4>2. Waits(queues[y][j]) /\ key[queues[y][j]] = y
        BY DEF WaitersQueued
      <4> QED BY <4>1, <4>2, <3>1, <3>2, <1>n DEF Waits
    <3>7. ASSUME NEW y \in Keys, NEW i \in 1..Len(queues'[y]), NEW j \in 1..Len(queues'[y]),
                 queues'[y][i] = queues'[y][j]
          PROVE  i = j
      <4>1. CASE y # k
        BY <4>1, <3>7, <2>a DEF WaitersQueued
      <4>2. CASE y = k
        <5>1. i \in 1..Len(q) /\ j \in 1..Len(q) /\ q[i] = q[j]
          BY <4>2, <3>7, <2>a
        <5>2. i + 1 = j + 1
          BY <5>1, <3>4 DEF WaitersQueued
        <5> QED BY <5>1, <5>2, <2>q
      <4> QED BY <4>1, <4>2
    <3>8. \A x \in sent' : pc'[x] \in {"waiting", "expired"}
      BY <2>s, <2>w, <2>q, <1>u DEF WaitersQueued, Waits, TypeOK
    <3> QED BY <3>5, <3>6, <3>7, <3>8 DEF WaitersQueued
  <2> QED BY <2>5, <2>6, <2>7, <2>8, <2>9
<1> QED BY <1>1, <1>2, WakeNextFacts

LEMMA ReconcileGrantedInv ==
  ASSUME Inv, NEW r \in Runs, ReconcileGranted(r)
  PROVE  Inv'
<1>1. r \in Granted /\ pc[r] # "waiting"
  BY DEF ReconcileGranted, Granted
<1> QED BY <1>1, HandOnInv DEF ReconcileGranted

LEMMA ReleaseInv ==
  ASSUME Inv, NEW r \in Runs, Release(r)
  PROVE  Inv'
<1>1. r \in Granted /\ pc[r] # "waiting" /\ sent \ {r} = sent
  BY DEF Release, Granted, Inv, WaitersQueued, TypeOK
<1> QED BY <1>1, HandOnInv DEF Release

\* Every step of every caller keeps the inductive invariant.
LEMMA NextInv == Inv /\ [Next]_vars => Inv'
<1> SUFFICES ASSUME Inv, [Next]_vars PROVE Inv'
  OBVIOUS
<1>1. CASE UNCHANGED vars
  BY <1>1 DEF vars, Inv, TypeOK, SlotsAccounted, WorkConserving, RotationExact,
              WaitersQueued, Waits, Granted, Pending
<1>2. ASSUME NEW r \in Runs, NEW k \in Keys, AcquireFree(r, k) \/ AcquireWait(r, k)
      PROVE  Inv'
  BY <1>2, AcquireFreeInv, AcquireWaitInv
<1>3. ASSUME NEW r \in Runs, Receive(r) \/ Expire(r)
      PROVE  Inv'
  BY <1>3, ReceiveInv, ExpireInv
<1>4. ASSUME NEW r \in Runs, ReconcileGranted(r) \/ ReconcileExpired(r) \/ Release(r)
      PROVE  Inv'
  BY <1>4, ReconcileGrantedInv, ReconcileExpiredInv, ReleaseInv
<1> QED BY <1>1, <1>2, <1>3, <1>4 DEF Next

-----------------------------------------------------------------------------
(* Theorems *)

\* Inv holds in every reachable state of the scheduler.
THEOREM Invariance == Spec => []Inv
  BY InitInv, NextInv, PTL DEF Spec

\* The scheduler's state is well-typed; in particular active never wraps
\* below zero however releases and reconciliations interleave.
THEOREM TypeCorrect == Spec => []TypeOK
<1>1. Inv => TypeOK
  BY DEF Inv
<1> QED BY <1>1, Invariance, PTL

\* For every number of runs, keys and slots: no slot is leaked or doubled,
\* whatever grants race deadlines, and at most Total runs have one.
THEOREM SlotsNeverLeak == Spec => []SlotsAccounted
<1>1. Inv => SlotsAccounted
  BY DEF Inv
<1> QED BY <1>1, Invariance, PTL

\* No run queues while a slot is free.
THEOREM NoIdleSlot == Spec => []WorkConserving
<1>1. Inv => WorkConserving
  BY DEF Inv
<1> QED BY <1>1, Invariance, PTL

\* The queues and the round-robin order never disagree.
THEOREM OrderExact == Spec => [](RotationExact /\ WaitersQueued)
<1>1. Inv => RotationExact /\ WaitersQueued
  BY DEF Inv
<1> QED BY <1>1, Invariance, PTL

-----------------------------------------------------------------------------
(* The scheduler implements RunSlots *)

Waiting == {r \in Runs : Waits(r)}

\* Calls wait exactly when some key has a queue.
LEMMA WaitingIffPending ==
  ASSUME Inv PROVE Waiting = {} <=> Pending = {}
<1> USE DEF Inv
<1>1. ASSUME NEW r \in Waiting PROVE Pending # {}
  <2>1. key[r] \in Keys /\ \E i \in 1..Len(queues[key[r]]) : queues[key[r]][i] = r
    BY DEF Waiting, WaitersQueued
  <2>2. queues[key[r]] # <<>>
    BY <2>1
  <2> QED BY <2>1, <2>2 DEF Pending
<1>2. ASSUME NEW k \in Pending PROVE Waiting # {}
  <2>1. k \in Keys /\ queues[k] \in Seq(Runs) /\ queues[k] # <<>>
    BY DEF Pending, TypeOK
  <2>2. 1 \in 1..Len(queues[k]) /\ queues[k][1] \in Runs
    BY <2>1
  <2> QED BY <2>1, <2>2 DEF Waiting, WaitersQueued
<1> QED BY <1>1, <1>2

\* A slot given up is, in the abstract pool, left or passed on.
LEMMA HandOnSlots ==
  ASSUME Inv, NEW r \in Runs, r \in Granted, pc[r] # "waiting",
         WakeNext(active - 1, sent \ {r}), Return(r)
  PROVE  Slots!SlotsNext
<1> USE DEF Inv
<1>u. pc' = [pc EXCEPT ![r] = "idle"]
  BY DEF Return
<1>r. ~Waits(r)
  BY DEF Waits, Granted, WaitersQueued
<1>1. CASE /\ Pending = {}
           /\ active' = active - 1
           /\ sent' = sent \ {r}
           /\ order' = order /\ mapped' = mapped /\ queues' = queues
  <2>1. Granted' = Granted \ {r}
    BY <1>1, <1>u DEF Granted, TypeOK
  <2>2. Waiting' = Waiting
    BY <1>1, <1>u, <1>r DEF Waiting, Waits, TypeOK
  <2>3. Waiting = {}
    BY <1>1, WaitingIffPending
  <2>4. Slots!Leave(r)
    BY <2>1, <2>2, <2>3 DEF Slots!Leave, Waiting
  <2> QED BY <2>4 DEF Slots!SlotsNext
<1>2. ASSUME NEW k \in Keys, queues[k] # <<>>,
             sent' = (sent \ {r}) \union {Head(queues[k])}
      PROVE  Slots!SlotsNext
  <2> DEFINE w == Head(queues[k])
  <2>q. w = queues[k][1] /\ w \in Runs /\ 1 \in 1..Len(queues[k])
    BY <1>2, TailFacts DEF TypeOK
  <2>w. Waits(w) /\ w # r
    BY <2>q, <1>r DEF WaitersQueued
  <2>s. sent' = (sent \ {r}) \union {w}
    BY <1>2
  <2> HIDE DEF w
  <2>1. Granted' = (Granted \ {r}) \union {w}
    BY <2>s, <2>w, <2>q, <1>u DEF Granted, TypeOK
  <2>2. Waiting' = Waiting \ {w}
    BY <2>s, <2>w, <2>q, <1>u, <1>r DEF Waiting, Waits, TypeOK
  <2>3. Slots!PassOn(r, w)
    BY <2>1, <2>2, <2>q, <2>w DEF Slots!PassOn, Waiting
  <2> QED BY <2>3, <2>q DEF Slots!SlotsNext
<1> QED BY <1>1, <1>2, WakeNextFacts

\* The abstract module counts the way this one does.
LEMMA SameCardinality == \A S : Slots!Cardinality(S) = Cardinality(S)
  BY DEF Cardinality, Slots!Cardinality

\* The scheduler's steps are steps of the abstract slot pool or leave it be.
LEMMA StepSlots == Inv /\ [Next]_vars => [Slots!SlotsNext]_(Slots!slotVars)
<1> SUFFICES ASSUME Inv, [Next]_vars
             PROVE  Slots!SlotsNext \/ (Granted' = Granted /\ Waiting' = Waiting)
  BY DEF Slots!slotVars, Waiting
<1> USE DEF Inv
<1>1. CASE UNCHANGED vars
  BY <1>1 DEF vars, Granted, Waiting, Waits
<1>2. ASSUME NEW r \in Runs, NEW k \in Keys, AcquireFree(r, k)
      PROVE  Slots!SlotsNext
  <2>1. r \notin Granted /\ r \notin Waiting
    BY <1>2 DEF AcquireFree, WaitersQueued, Granted, Waiting, Waits
  <2>2. Granted' = Granted \union {r}
    BY <1>2 DEF AcquireFree, Granted, TypeOK
  <2>3. Waiting' = Waiting
    BY <1>2 DEF AcquireFree, Waiting, Waits, TypeOK
  <2>4. Cardinality(Granted) < Total
    BY <1>2 DEF AcquireFree, SlotsAccounted
  <2>5. Waiting = {}
    BY <1>2, WaitingIffPending, TotalPositive DEF AcquireFree, WorkConserving, TypeOK
  <2>6. Slots!Enter(r)
    BY <2>1, <2>2, <2>3, <2>4, <2>5, SameCardinality DEF Slots!Enter, Waiting
  <2> QED BY <2>6 DEF Slots!SlotsNext
<1>3. ASSUME NEW r \in Runs, NEW k \in Keys, AcquireWait(r, k)
      PROVE  Slots!SlotsNext
  <2>1. r \notin Granted /\ r \notin Waiting /\ r \notin sent
    BY <1>3 DEF AcquireWait, WaitersQueued, Granted, Waiting, Waits
  <2>2. Granted' = Granted
    BY <1>3 DEF AcquireWait, Granted, TypeOK
  <2>3. Waiting' = Waiting \union {r}
    BY <1>3, <2>1 DEF AcquireWait, Waiting, Waits, TypeOK
  <2>4. Cardinality(Granted) = Total
    BY <1>3, TotalPositive DEF AcquireWait, SlotsAccounted, TypeOK
  <2>5. Slots!Wait(r)
    BY <2>1, <2>2, <2>3, <2>4, SameCardinality DEF Slots!Wait, Waiting
  <2> QED BY <2>5 DEF Slots!SlotsNext
<1>4. ASSUME NEW r \in Runs, Receive(r) \/ Expire(r)
      PROVE  Granted' = Granted /\ Waiting' = Waiting
  BY <1>4 DEF Receive, Expire, Granted, Waiting, Waits, TypeOK
<1>5. ASSUME NEW r \in Runs, ReconcileExpired(r)
      PROVE  Slots!SlotsNext
  <2>1. r \in Waiting /\ Granted' = Granted
    BY <1>5 DEF ReconcileExpired, Return, Waiting, Waits, Granted, TypeOK
  <2>2. Waiting' = Waiting \ {r}
    BY <1>5 DEF ReconcileExpired, Return, Waiting, Waits, TypeOK
  <2>3. Slots!GiveUp(r)
    BY <2>1, <2>2 DEF Slots!GiveUp, Waiting
  <2> QED BY <2>3 DEF Slots!SlotsNext
<1>6. ASSUME NEW r \in Runs, ReconcileGranted(r)
      PROVE  Slots!SlotsNext
  <2>1. r \in Granted /\ pc[r] # "waiting"
    BY <1>6 DEF ReconcileGranted, Granted
  <2> QED BY <2>1, <1>6, HandOnSlots DEF ReconcileGranted
<1>7. ASSUME NEW r \in Runs, Release(r)
      PROVE  Slots!SlotsNext
  <2>1. r \in Granted /\ pc[r] # "waiting" /\ sent \ {r} = sent
    BY <1>7 DEF Release, Granted, WaitersQueued, TypeOK
  <2> QED BY <2>1, <1>7, HandOnSlots DEF Release
<1> QED BY <1>1, <1>2, <1>3, <1>4, <1>5, <1>6, <1>7 DEF Next

\* For every number of runs, keys and slots the scheduler, with its queues,
\* channels and expiring waits, implements the abstract pool of run slots.
THEOREM Refinement == Spec => ImplementsRunSlots
<1>1. Init => Slots!SlotsInit
  BY DEF Init, Slots!SlotsInit, Granted, Waits
<1> QED BY <1>1, StepSlots, Invariance, PTL DEF Spec, ImplementsRunSlots, Slots!SlotsSpec

-----------------------------------------------------------------------------
(* Keys are served in turn *)

\* What a step may do to the place of key k in the order.
InTurn(k) ==
  (\A w \in sent' \ sent : key[w] # k) =>
    \A i \in 1..Len(order), j \in 1..Len(order') :
      (order[i] = k /\ order'[j] = k) => j <= i /\ (sent' \ sent # {} => j < i)

\* retain moves nothing back.
LEMMA WithoutMovesUp ==
  ASSUME NEW S, NEW s \in Seq(S), NEW x, \A i, j \in 1..Len(s) : s[i] = s[j] => i = j,
         NEW i \in 1..Len(s), NEW j \in 1..Len(Without(s, x)), Without(s, x)[j] = s[i]
  PROVE  j <= i
<1>1. CASE ~ \E n \in 1..Len(s) : s[n] = x
  <2>1. Without(s, x) = s
    BY <1>1 DEF Without
  <2> QED BY <2>1
<1>2. CASE \E n \in 1..Len(s) : s[n] = x
  <2> DEFINE p == CHOOSE n \in 1..Len(s) : s[n] = x
             t == [n \in 1..(Len(s) - 1) |-> s[IF n < p THEN n ELSE n + 1]]
  <2>1. p \in 1..Len(s)
    BY <1>2
  <2>2. Without(s, x) = t
    BY <1>2 DEF Without
  <2> HIDE DEF p
  <2>3. Len(s) \in Nat /\ Len(s) - 1 \in Nat
    BY <2>1
  <2>4. \A n \in 1..(Len(s) - 1) : (IF n < p THEN n ELSE n + 1) \in 1..Len(s)
    BY <2>1, <2>3
  <2>5. Len(t) = Len(s) - 1
    BY <2>3, <2>4
  <2>6. j \in 1..(Len(s) - 1) /\ s[IF j < p THEN j ELSE j + 1] = s[i]
    BY <2>2, <2>5
  <2>7. i = IF j < p THEN j ELSE j + 1
    BY <2>4, <2>6
  <2> QED BY <2>1, <2>3, <2>6, <2>7
<1> QED BY <1>1, <1>2

\* wake_next serves the front key; every other moves up by one.
LEMMA HandOnInTurn ==
  ASSUME Inv, NEW a, NEW s, s \subseteq sent, WakeNext(a, s), NEW k \in Pending
  PROVE  InTurn(k)
<1> USE DEF Inv
<1>1. PICK f \in Keys :
        /\ order # <<>> /\ order[1] = f /\ queues[f] # <<>>
        /\ sent' = s \union {Head(queues[f])}
        /\ order' = IF Tail(queues[f]) = <<>> THEN Tail(order) ELSE Append(Tail(order), f)
  BY WakeNextFacts
<1>2. /\ Head(queues[f]) \notin sent /\ key[Head(queues[f])] = f
  <2>1. queues[f] \in Seq(Runs)
    BY DEF TypeOK
  <2>2. Head(queues[f]) = queues[f][1] /\ 1 \in 1..Len(queues[f])
    BY <1>1, <2>1
  <2> QED BY <2>2 DEF WaitersQueued, Waits
<1>3. Head(queues[f]) \in sent' \ sent
  BY <1>1, <1>2
<1> SUFFICES ASSUME k # f, NEW i \in 1..Len(order), NEW j \in 1..Len(order'), order[i] = k, order'[j] = k
             PROVE  j < i
  BY <1>2, <1>3 DEF InTurn, TypeOK
<1>4. order \in Seq(Keys)
  BY DEF TypeOK
<1>5. PICK rest \in Seq(Keys) : rest = Tail(order)
  <2>1. Tail(order) \in Seq(Keys)
    BY <1>1, <1>4, TailFacts
  <2> QED BY <2>1
<1>6. Len(order) \in Nat \ {0} /\ Len(rest) = Len(order) - 1 /\ \A n \in 1..(Len(order) - 1) : rest[n] = order[n + 1]
  BY <1>1, <1>4, <1>5, TailFacts
<1>7. j \in 1..(Len(order) - 1) /\ order[j + 1] = k
  <2>1. CASE order' = rest
    BY <1>6, <2>1
  <2>2. CASE order' = Append(rest, f)
    <3>1. Len(order') = Len(rest) + 1 /\ order'[Len(rest) + 1] = f /\ \A n \in 1..Len(rest) : order'[n] = rest[n]
      BY <2>2, AppendFacts
    <3>2. j # Len(rest) + 1
      BY <3>1
    <3>3. j \in 1..Len(rest)
      BY <1>6, <3>1, <3>2
    <3> QED BY <1>6, <3>1, <3>3
  <2> QED BY <1>1, <1>5, <2>1, <2>2
<1>8. j + 1 = i
  BY <1>6, <1>7 DEF RotationExact
<1> QED BY <1>7, <1>8

LEMMA StepInTurn == Inv /\ Next => \A k \in Pending \intersect Pending' : InTurn(k)
<1> SUFFICES ASSUME Inv, Next, NEW k \in Pending, k \in Pending' PROVE InTurn(k)
  OBVIOUS
<1> USE DEF Inv
<1>0. order \in Seq(Keys) /\ \A i, j \in 1..Len(order) : order[i] = order[j] => i = j
  BY DEF TypeOK, RotationExact
<1>1. ASSUME order' = order, sent' \subseteq sent PROVE InTurn(k)
  BY <1>0, <1>1 DEF InTurn
<1>2. ASSUME NEW r \in Runs, NEW e \in Keys, AcquireWait(r, e) PROVE InTurn(k)
  <2>1. CASE order' = order
    BY <1>1, <1>2, <2>1 DEF AcquireWait
  <2>2. CASE order' = Append(order, e) /\ e \notin mapped
    <3>1. k # e
      BY <2>2 DEF Pending, RotationExact
    <3>2. Len(order') = Len(order) + 1 /\ order'[Len(order) + 1] = e /\ \A n \in 1..Len(order) : order'[n] = order[n]
      BY <1>0, <2>2, AppendFacts
    <3>3. ASSUME NEW i \in 1..Len(order), NEW j \in 1..Len(order'), order[i] = k, order'[j] = k
          PROVE  j = i
      <4>1. j # Len(order) + 1
        BY <3>1, <3>2, <3>3
      <4>2. j \in 1..Len(order)
        BY <1>0, <3>2, <4>1
      <4> QED BY <1>0, <3>2, <3>3, <4>2
    <3>4. sent' = sent
      BY <1>2 DEF AcquireWait
    <3> QED BY <1>0, <3>3, <3>4 DEF InTurn
  <2> QED BY <1>2, <2>1, <2>2 DEF AcquireWait
<1>3. ASSUME NEW r \in Runs, ReconcileExpired(r) PROVE InTurn(k)
  <2>1. sent' = sent
    BY <1>3 DEF ReconcileExpired
  <2>2. order' = order \/ order' = Without(order, key[r])
    BY <1>3 DEF ReconcileExpired, RemoveWaiter
  <2>3. CASE order' = Without(order, key[r])
    <3>1. \A i \in 1..Len(order), j \in 1..Len(order') : order[i] = k /\ order'[j] = k => j <= i
      BY <1>0, <2>3, WithoutMovesUp
    <3> QED BY <2>1, <3>1 DEF InTurn
  <2> QED BY <1>1, <2>1, <2>2, <2>3
<1>4. ASSUME NEW r \in Runs, ReconcileGranted(r) \/ Release(r) PROVE InTurn(k)
  <2>1. \E a, s : s \subseteq sent /\ WakeNext(a, s)
    BY <1>4 DEF ReconcileGranted, Release
  <2> HIDE DEF Inv
  <2> QED BY <2>1, HandOnInTurn
<1>5. ASSUME NEW r \in Runs, Receive(r) \/ Expire(r) \/ \E e \in Keys : AcquireFree(r, e) PROVE InTurn(k)
  <2>1. order' = order /\ sent' \subseteq sent
    BY <1>5 DEF Receive, Expire, AcquireFree
  <2> QED BY <1>1, <2>1
<1> QED BY <1>2, <1>3, <1>4, <1>5 DEF Next

\* wake_next is a rotation: while a key waits, each grant to another key
\* brings it strictly nearer its turn, and nothing ever sets it back.
THEOREM KeysServedInTurn == Spec => ServedInTurn
<1>1. Inv /\ [Next]_vars =>
        [\A k \in Pending \intersect Pending' :
           (\A w \in sent' \ sent : key[w] # k) =>
             \A i \in 1..Len(order), j \in 1..Len(order') :
               (order[i] = k /\ order'[j] = k) =>
                 j <= i /\ (sent' \ sent # {} => j < i)]_vars
  BY StepInTurn DEF InTurn
<1> QED BY <1>1, Invariance, PTL DEF Spec, ServedInTurn
=============================================================================
