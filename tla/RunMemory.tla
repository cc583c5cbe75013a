----------------------------- MODULE RunMemory -----------------------------
(***************************************************************************)
(* The run-memory pool (--max-total-run-memory): MemPool of                *)
(* crates/engine-api/src/concurrency.rs with the PoolHold and RunLimiter   *)
(* of crates/engine/src/lib.rs that draw on it.  A guest's growth is       *)
(* charged against the run's own ceiling, then reserved from the pool; a   *)
(* reservation that does not fit sleeps on the pool's condition variable   *)
(* until a release, or the run's deadline.                                 *)
(***************************************************************************)
EXTENDS Naturals, FiniteSets, FiniteSetsExt

CONSTANTS
  Runs,
  PoolTotal,  \* MemPool.total
  Limit,      \* RunLimiter.limit: the per-run ceiling
  Deltas      \* the sizes a guest grows by, zero included

\* Wasmtime::new refuses a pool smaller than the per-run ceiling.
Accepted == ~(PoolTotal > 0 /\ PoolTotal < Limit)

ASSUME RunsFinite == IsFiniteSet(Runs)
ASSUME SizesNatural == PoolTotal \in Nat \ {0} /\ Limit \in Nat /\ Deltas \subseteq Nat
ASSUME ConfigAccepted == Accepted

VARIABLES
  used,     \* MemPool.used
  hold,     \* PoolHold.n of each run
  charged,  \* RunLimiter.charged, the growth in progress included
  need,     \* what the growth in progress must reserve
  delta,    \* the growth in progress
  late,     \* the run's wait deadline has passed
  answer,   \* what the guest's last growth was told
  pc        \* where the run's thread is

vars == <<used, hold, charged, need, delta, late, answer, pc>>

Answers == {"none", "grown", "limit", "pool"}
States == {"idle", "running", "reserving", "asleep"}

TypeOK ==
  /\ used \in Nat
  /\ hold \in [Runs -> Nat]
  /\ charged \in [Runs -> Nat]
  /\ need \in [Runs -> Nat]
  /\ delta \in [Runs -> Nat]
  /\ late \in [Runs -> BOOLEAN]
  /\ answer \in [Runs -> Answers]
  /\ pc \in [Runs -> States]

Init ==
  /\ used = 0
  /\ hold = [r \in Runs |-> 0]
  /\ charged = [r \in Runs |-> 0]
  /\ need = [r \in Runs |-> 0]
  /\ delta = [r \in Runs |-> 0]
  /\ late = [r \in Runs |-> FALSE]
  /\ answer = [r \in Runs |-> "none"]
  /\ pc = [r \in Runs |-> "idle"]

-----------------------------------------------------------------------------

\* execute makes a store with a fresh limiter and an empty reservation.
Start(r) ==
  /\ pc[r] = "idle"
  /\ hold' = [hold EXCEPT ![r] = 0]
  /\ charged' = [charged EXCEPT ![r] = 0]
  /\ answer' = [answer EXCEPT ![r] = "none"]
  /\ late' = [late EXCEPT ![r] = FALSE]
  /\ pc' = [pc EXCEPT ![r] = "running"]
  /\ UNCHANGED <<used, need, delta>>

\* The wait deadline shared by the run's slot and its memory passes.
DeadlinePasses(r) ==
  /\ pc[r] # "idle"
  /\ ~late[r]
  /\ late' = [late EXCEPT ![r] = TRUE]
  /\ UNCHANGED <<used, hold, charged, need, delta, answer, pc>>

\* fault: each region has the ceiling to itself
FitsRegion(r, d) == d <= Limit
\* charge's first check: the run's regions together stay under its ceiling.
UnderCeiling(r, d) == charged[r] + d <= Limit

\* memory_growing and table_growing end in charge; past the ceiling the
\* growth is denied and nothing changes.
GrowOverCeiling(r, d) ==
  /\ pc[r] = "running"
  /\ ~UnderCeiling(r, d)
  /\ answer' = [answer EXCEPT ![r] = "limit"]
  /\ UNCHANGED <<used, hold, charged, need, delta, late, pc>>

\* A growth the reservation already covers needs nothing of the pool.
GrowCovered(r, d) ==
  /\ pc[r] = "running"
  /\ UnderCeiling(r, d)
  /\ charged[r] + d <= hold[r]
  /\ charged' = [charged EXCEPT ![r] = @ + d]
  /\ answer' = [answer EXCEPT ![r] = "grown"]
  /\ UNCHANGED <<used, hold, need, delta, late, pc>>

\* Any other growth is charged, and grow calls reserve for the difference.
Grow(r, d) ==
  /\ pc[r] = "running"
  /\ UnderCeiling(r, d)
  /\ charged[r] + d > hold[r]
  /\ charged' = [charged EXCEPT ![r] = @ + d]
  /\ delta' = [delta EXCEPT ![r] = d]
  /\ need' = [need EXCEPT ![r] = charged[r] + d - hold[r]]
  /\ pc' = [pc EXCEPT ![r] = "reserving"]
  /\ UNCHANGED <<used, hold, late, answer>>

\* reserve's loop test, made with the pool's mutex held.
Fits(r) == used + need[r] <= PoolTotal

\* The growth is over: the guest runs on with the answer.
Answer(r, a) ==
  /\ answer' = [answer EXCEPT ![r] = a]
  /\ need' = [need EXCEPT ![r] = 0]
  /\ delta' = [delta EXCEPT ![r] = 0]
  /\ pc' = [pc EXCEPT ![r] = "running"]

\* fault: the pool gives the bytes and the hold does not record them
ReserveForget(r) ==
  /\ pc[r] = "reserving"
  /\ Fits(r)
  /\ used' = used + need[r]
  /\ Answer(r, "grown")
  /\ UNCHANGED <<hold, charged, late>>

\* The reservation fits: the pool gives it and the hold records it.
Reserve(r) ==
  /\ pc[r] = "reserving"
  /\ Fits(r)
  /\ used' = used + need[r]
  /\ hold' = [hold EXCEPT ![r] = @ + need[r]]
  /\ Answer(r, "grown")
  /\ UNCHANGED <<charged, late>>

\* fault: a denied growth stays charged
DenyKeepCharge(r) ==
  /\ pc[r] = "reserving"
  /\ ~Fits(r)
  /\ late[r]
  /\ Answer(r, "pool")
  /\ UNCHANGED <<used, hold, charged, late>>

\* fault: reserve looks at the clock before it looks at the pool
DenyByClock(r) ==
  /\ pc[r] = "reserving"
  /\ late[r]
  /\ charged' = [charged EXCEPT ![r] = @ - delta[r]]
  /\ Answer(r, "pool")
  /\ UNCHANGED <<used, hold, late>>

\* Past the deadline it is denied and the charge is taken back.
Deny(r) ==
  /\ pc[r] = "reserving"
  /\ ~Fits(r)
  /\ late[r]
  /\ charged' = [charged EXCEPT ![r] = @ - delta[r]]
  /\ Answer(r, "pool")
  /\ UNCHANGED <<used, hold, late>>

\* Before it the thread sleeps, giving up the mutex.
Sleep(r) ==
  /\ pc[r] = "reserving"
  /\ ~Fits(r)
  /\ ~late[r]
  /\ pc' = [pc EXCEPT ![r] = "asleep"]
  /\ UNCHANGED <<used, hold, charged, need, delta, late, answer>>

\* fault: the timeout is heard only when the reservation fits
TimedOutFits(r) ==
  /\ pc[r] = "asleep"
  /\ late[r]
  /\ Fits(r)
  /\ pc' = [pc EXCEPT ![r] = "reserving"]
  /\ UNCHANGED <<used, hold, charged, need, delta, late, answer>>

\* wait_timeout times out; the loop tests once more.
TimedOut(r) ==
  /\ pc[r] = "asleep"
  /\ late[r]
  /\ pc' = [pc EXCEPT ![r] = "reserving"]
  /\ UNCHANGED <<used, hold, charged, need, delta, late, answer>>

\* A condition variable may wake for no reason; the loop tests again.
SpuriousWake(r) ==
  /\ pc[r] = "asleep"
  /\ ~late[r]
  /\ pc' = [pc EXCEPT ![r] = "reserving"]
  /\ UNCHANGED <<used, hold, charged, need, delta, late, answer>>

\* fault: notify_one instead of notify_all
WakeOne(p) ==
  LET asleep == {x \in Runs : p[x] = "asleep"}
  IN  IF asleep = {} THEN p
      ELSE [p EXCEPT ![CHOOSE x \in asleep : TRUE] = "reserving"]
\* release notifies every sleeper: one release can admit several runs.
WakeAll(p) == [x \in Runs |-> IF p[x] = "asleep" THEN "reserving" ELSE p[x]]

\* The store drops, and with it the hold: everything reserved is released.
Drop(r) ==
  /\ pc[r] = "running"
  /\ used' = used - hold[r]
  /\ hold' = [hold EXCEPT ![r] = 0]
  /\ charged' = [charged EXCEPT ![r] = 0]
  /\ late' = [late EXCEPT ![r] = FALSE]
  /\ answer' = [answer EXCEPT ![r] = "none"]
  /\ pc' = LET stopped == [pc EXCEPT ![r] = "idle"]
           IN  IF hold[r] > 0 THEN WakeAll(stopped) ELSE stopped
  /\ UNCHANGED <<need, delta>>

Next ==
  \E r \in Runs :
    \/ Start(r) \/ DeadlinePasses(r) \/ Drop(r)
    \/ \E d \in Deltas : GrowOverCeiling(r, d) \/ GrowCovered(r, d) \/ Grow(r, d)
    \/ Reserve(r) \/ Deny(r) \/ Sleep(r) \/ TimedOut(r) \/ SpuriousWake(r)

Spec == Init /\ [][Next]_vars

\* A runnable thread gets the mutex, and a sleeper's timeout fires once the
\* deadline has passed.
ThreadsRun ==
  \A r \in Runs : WF_vars(Reserve(r) \/ Deny(r) \/ Sleep(r)) /\ WF_vars(TimedOut(r))

\* The clock moves: every run's deadline passes.
ClockRuns == \A r \in Runs : WF_vars(DeadlinePasses(r))

ClockSpec == Spec /\ ThreadsRun /\ ClockRuns

-----------------------------------------------------------------------------
(* Properties *)

\* The pool has given out exactly what the live runs hold, and never more
\* than it has: no release, denial or drop leaks or doubles a byte.
PoolAccounted ==
  /\ used = MapThenSumSet(LAMBDA r : hold[r], Runs)
  /\ used <= PoolTotal

\* A run's reservation is its charge, whatever growths were denied or are in
\* progress, and stays under its ceiling: the pool's footprint is what the
\* guests claimed.
HoldIsCharge ==
  \A r \in Runs :
    /\ charged[r] = hold[r] + need[r]
    /\ charged[r] <= Limit
    /\ pc[r] \in {"idle", "running"} => need[r] = 0

\* No sleeper could be served: the condition variable never loses a wakeup,
\* with notify_all, timeouts and spurious wakeups in any order.
NoLostWakeup == \A r \in Runs : pc[r] = "asleep" => ~Fits(r)

\* A run sleeps only on bytes other runs hold: one alone can always grow to
\* its ceiling, which is what the startup check of the pool's size is for.
SleepsOnOthers ==
  \A r \in Runs : pc[r] = "asleep" => \E x \in Runs \ {r} : hold[x] > 0

\* A growth the ceiling allows is denied for want of bytes and for want of
\* time, both at once: one whose timeout races a release, or that was woken
\* and overtaken, gets what is there when it has the mutex again.
DeniedOnlyShort ==
  [][\A r \in Runs :
       pc[r] \in {"reserving", "asleep"} /\ pc'[r] = "running" /\ answer'[r] = "pool" =>
         late[r] /\ ~Fits(r)]_vars

\* Runs with partial reservations can wait on each other, and nobody frees
\* anything; the deadline still answers every growth.
GrowthAnswered ==
  \A r \in Runs : pc[r] \in {"reserving", "asleep"} ~> pc[r] = "running"
=============================================================================
