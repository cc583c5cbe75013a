--------------------------- MODULE FairScheduler ---------------------------
(***************************************************************************)
(* The global run bound (--max-concurrent-runs): FairScheduler of          *)
(* crates/engine-api/src/concurrency.rs.  A run either takes a free slot   *)
(* or queues under its module's key; a freed slot is handed to the next    *)
(* key in round-robin order.  Each action is one critical section of the   *)
(* scheduler's mutex, or one return of a waiter's channel receive; the     *)
(* race the code reconciles (a grant sent while the waiter's deadline      *)
(* fires) lies between Expire and Reconcile.                               *)
(***************************************************************************)
EXTENDS Naturals, Sequences, FiniteSets

CONSTANTS
  Runs,     \* callers of acquire; each has at most one call in flight
  Keys,     \* module keys (digests)
  NoKey,    \* the key of a caller that is not in acquire
  Total     \* FairScheduler.total

ASSUME RunsFinite == IsFiniteSet(Runs)
ASSUME NoKeyOutside == NoKey \notin Keys
ASSUME TotalPositive == Total \in Nat \ {0}

VARIABLES
  active,   \* SchedulerState.active
  queues,   \* SchedulerState.queues: the waiters of a key, FIFO
  mapped,   \* the keys the queues map has an entry for
  order,    \* SchedulerState.order: round-robin order of keys
  sent,     \* runs whose cap-1 channel holds an unreceived grant
  pc,       \* where each run is in acquire
  key       \* the key a run passed to acquire

vars == <<active, queues, mapped, order, sent, pc, key>>

States == {"idle", "waiting", "expired", "holding"}

TypeOK ==
  /\ active \in Nat
  /\ queues \in [Keys -> Seq(Runs)]
  /\ mapped \in SUBSET Keys
  /\ order \in Seq(Keys)
  /\ sent \in SUBSET Runs
  /\ pc \in [Runs -> States]
  /\ key \in [Runs -> Keys \union {NoKey}]

Init ==
  /\ active = 0
  /\ queues = [k \in Keys |-> <<>>]
  /\ mapped = {}
  /\ order = <<>>
  /\ sent = {}
  /\ pc = [r \in Runs |-> "idle"]
  /\ key = [r \in Runs |-> NoKey]

-----------------------------------------------------------------------------
(* wake_next.  The loop pops keys off the order until one has a waiter: a  *)
(* key with no queue is skipped, one whose queue is empty is dropped.      *)

\* A served key that still has waiters goes behind every other key.
RotateFront(rest, k) == <<k>> \o rest    \* fault: it stays in front
Rotate(rest, k) == Append(rest, k)

\* The positions of the order at which the loop would find a waiter.
Servable == {i \in 1..Len(order) : order[i] \in mapped /\ queues[order[i]] # <<>>}

\* Every key popped off was without waiters: nobody takes the freed slot.
WakeNobody(a, s) ==
  /\ Servable = {}
  /\ active' = a
  /\ sent' = s
  /\ order' = <<>>
  /\ mapped' = mapped \ {order[i] : i \in 1..Len(order)}
  /\ UNCHANGED queues

\* The key at position i is the first one with a waiter: its oldest waiter
\* is sent the slot, and the key goes to the back while it has more.
WakeKey(a, s, i) ==
  LET k == order[i]
      w == Head(queues[k])
      rest == SubSeq(order, i + 1, Len(order))
      skipped == {order[j] : j \in 1..(i - 1)}
      empty == Tail(queues[k]) = <<>>
  IN  /\ i \in Servable
      /\ \A j \in Servable : i <= j
      /\ active' = a + 1
      /\ sent' = s \union {w}
      /\ queues' = [queues EXCEPT ![k] = Tail(@)]
      /\ mapped' = (mapped \ skipped) \ (IF empty THEN {k} ELSE {})
      /\ order' = IF empty THEN rest ELSE Rotate(rest, k)

\* wake_next entered with active = a and the grants s in flight.
WakeNext(a, s) == WakeNobody(a, s) \/ \E i \in 1..Len(order) : WakeKey(a, s, i)

\* retain: s without x.  An id is queued once and a key is in the order once
\* (RotationExact, WaitersQueued), so there is one element to drop.
Without(s, x) ==
  IF \E i \in 1..Len(s) : s[i] = x
    THEN LET p == CHOOSE i \in 1..Len(s) : s[i] = x
         IN  [j \in 1..(Len(s) - 1) |-> s[IF j < p THEN j ELSE j + 1]]
    ELSE s

\* remove_waiter: the queue forgets r, and an emptied queue leaves the map
\* and the order.
RemoveWaiter(r) ==
  LET k == key[r]
      left == Without(queues[k], r)
      emptied == left = <<>>
  IN  IF k \in mapped
        THEN /\ queues' = [queues EXCEPT ![k] = left]
             /\ mapped' = IF emptied THEN mapped \ {k} ELSE mapped
             /\ order' = IF emptied THEN Without(order, k) ELSE order
        ELSE UNCHANGED <<queues, mapped, order>>

-----------------------------------------------------------------------------
(* acquire *)

\* A free slot is taken at once.
AcquireFree(r, k) ==
  /\ pc[r] = "idle"
  /\ active < Total
  /\ active' = active + 1
  /\ pc' = [pc EXCEPT ![r] = "holding"]
  /\ key' = [key EXCEPT ![r] = k]
  /\ UNCHANGED <<queues, mapped, order, sent>>

\* No slot is free: the run queues under its key, in a fresh channel.
AcquireWait(r, k) ==
  /\ pc[r] = "idle"
  /\ active >= Total
  /\ order' = IF k \in mapped THEN order ELSE Append(order, k)
  /\ mapped' = mapped \union {k}
  /\ queues' = [queues EXCEPT ![k] = Append(@, r)]
  /\ pc' = [pc EXCEPT ![r] = "waiting"]
  /\ key' = [key EXCEPT ![r] = k]
  /\ UNCHANGED <<active, sent>>

\* recv_timeout returns the grant.
Receive(r) ==
  /\ pc[r] = "waiting"
  /\ r \in sent
  /\ sent' = sent \ {r}
  /\ pc' = [pc EXCEPT ![r] = "holding"]
  /\ UNCHANGED <<active, queues, mapped, order, key>>

\* recv_timeout gives up: the deadline passed with the channel still empty.
Expire(r) ==
  /\ pc[r] = "waiting"
  /\ r \notin sent
  /\ pc' = [pc EXCEPT ![r] = "expired"]
  /\ UNCHANGED <<active, queues, mapped, order, sent, key>>

\* The call, or the run it admitted, is over.
Return(r) ==
  /\ pc' = [pc EXCEPT ![r] = "idle"]
  /\ key' = [key EXCEPT ![r] = NoKey]

\* fault: a grant that races the deadline is dropped
ReconcileDrop(r) ==
  /\ pc[r] = "expired"
  /\ r \in sent
  /\ sent' = sent \ {r}
  /\ Return(r)
  /\ UNCHANGED <<active, queues, mapped, order>>

\* fault: it is given back, and nobody is woken for it
ReconcileNoWake(r) ==
  /\ pc[r] = "expired"
  /\ r \in sent
  /\ active' = active - 1
  /\ sent' = sent \ {r}
  /\ Return(r)
  /\ UNCHANGED <<queues, mapped, order>>

\* Under the lock again, a grant that landed meanwhile is handed on.
ReconcileGranted(r) ==
  /\ pc[r] = "expired"
  /\ r \in sent
  /\ WakeNext(active - 1, sent \ {r})
  /\ Return(r)

\* Otherwise the waiter leaves its queue; either way acquire is refused.
ReconcileExpired(r) ==
  /\ pc[r] = "expired"
  /\ r \notin sent
  /\ RemoveWaiter(r)
  /\ Return(r)
  /\ UNCHANGED <<active, sent>>

\* SlotGuard::drop, at the end of a run however it ends.
Release(r) ==
  /\ pc[r] = "holding"
  /\ WakeNext(active - 1, sent)
  /\ Return(r)

Next ==
  \E r \in Runs :
    \/ \E k \in Keys : AcquireFree(r, k) \/ AcquireWait(r, k)
    \/ Receive(r)
    \/ Expire(r)
    \/ ReconcileGranted(r)
    \/ ReconcileExpired(r)
    \/ Release(r)

Spec == Init /\ [][Next]_vars

\* A run ends (its deadline bounds it), a receiver sees its message and a
\* thread takes the mutex; no fairness on new requests or on timeouts.
Fairness ==
  \A r \in Runs :
    /\ WF_vars(Release(r))
    /\ WF_vars(Receive(r))
    /\ WF_vars(ReconcileGranted(r) \/ ReconcileExpired(r))

FairSpec == Spec /\ Fairness

-----------------------------------------------------------------------------
(* Properties *)

Pending == {k \in Keys : queues[k] # <<>>}
Granted == {r \in Runs : pc[r] = "holding"} \union sent

\* The number of slots taken is the number of runs that hold one or have one
\* waiting in their channel, and never exceeds the bound: acquire, the
\* reconciliation and the guard's drop neither leak nor double a slot.
SlotsAccounted == active = Cardinality(Granted) /\ active <= Total

\* No slot is idle while a run queues: what lets acquire take a free slot
\* without looking at the queues, and a timed-out grant never be dropped.
WorkConserving == Pending # {} => active = Total

\* The round-robin order lists every key with waiters exactly once and no
\* other, in step with the queues map, so no waiter is unreachable.
RotationExact ==
  /\ \A i, j \in 1..Len(order) : order[i] = order[j] => i = j
  /\ \A k \in Keys : (\E i \in 1..Len(order) : order[i] = k) <=> queues[k] # <<>>
  /\ \A k \in Keys : k \in mapped <=> queues[k] # <<>>

\* A call of acquire that has neither a slot nor its refusal.
Waits(r) == pc[r] \in {"waiting", "expired"} /\ r \notin sent

\* A run is queued exactly while its call waits, once, under its own key; a
\* grant is only ever in the channel of a call that has not returned.
WaitersQueued ==
  /\ \A r \in Runs : Waits(r) =>
       key[r] \in Keys /\ \E i \in 1..Len(queues[key[r]]) : queues[key[r]][i] = r
  /\ \A k \in Keys : \A i \in 1..Len(queues[k]) :
       Waits(queues[k][i]) /\ key[queues[k][i]] = k
  /\ \A k \in Keys : \A i, j \in 1..Len(queues[k]) :
       queues[k][i] = queues[k][j] => i = j
  /\ \A r \in sent : pc[r] \in {"waiting", "expired"}

\* "Requests with different keys are served in turn so one hot module cannot
\* take every slot from every other": whenever a waiter of one key is
\* granted, every other key that stays pending moves strictly up the order,
\* and no step moves a pending key back unless it was served.
ServedInTurn ==
  [][\A k \in Pending \intersect Pending' :
       (\A w \in sent' \ sent : key[w] # k) =>
         \A i \in 1..Len(order), j \in 1..Len(order') :
           (order[i] = k /\ order'[j] = k) =>
             j <= i /\ (sent' \ sent # {} => j < i)]_vars

\* The scheduler implements RunSlots: a run is in from the moment its grant
\* is sent, whether or not it has received it, and waits until its grant or
\* the end of its refused call.
Slots == INSTANCE RunSlots WITH
  in <- Granted,
  waiting <- {r \in Runs : Waits(r)}

\* acquire, its reconciliation and the guard's drop are steps of the abstract
\* slot pool: no caller can enter past a waiter, and no freed slot idles.
ImplementsRunSlots == Slots!SlotsSpec

\* A waiter whose deadline does not fire is granted: with runs that end, no
\* stream of other requests can starve it.
NoStarvation == \A r \in Runs : pc[r] = "waiting" ~> pc[r] # "waiting"
=============================================================================
