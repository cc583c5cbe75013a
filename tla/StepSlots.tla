----------------------------- MODULE StepSlots -----------------------------
(***************************************************************************)
(* The per-step run bound (limits.concurrency): StepSlots of               *)
(* crates/engine-api/src/concurrency.rs.  A module's key maps to a shared  *)
(* entry, a counting semaphore sized by the key's first acquire; a run     *)
(* clones the entry under the map's mutex and then waits on the entry's    *)
(* own, and the ten-minute sweep drops entries nobody has asked for        *)
(* lately.  Time is a count of ticks: ages and waits are what the sweep    *)
(* and the deadline compare, and a tick passes only while no thread is     *)
(* between two of its steps (a runnable thread is not held up for minutes).*)
(***************************************************************************)
EXTENDS Naturals, FiniteSets

CONSTANTS
  Runs,
  Keys,        \* module digests
  Entries,     \* the StepEntry objects; an unreferenced one is free memory
  NoEntry,
  Capacities,  \* the values of limits.concurrency runs come with
  MaxWait,     \* the longest wait deadline, in ticks
  IdleAfter    \* the sweep's ten minutes, in ticks

ASSUME RunsFinite == IsFiniteSet(Runs)
ASSUME KeysExist == Keys # {}
ASSUME NoEntryOutside == NoEntry \notin Entries
ASSUME CapacitiesPositive == Capacities \subseteq Nat \ {0}
ASSUME TicksNatural == MaxWait \in Nat /\ IdleAfter \in Nat

VARIABLES
  entries,   \* StepSlots.entries
  capacity,  \* StepEntry.capacity
  held,      \* StepEntry.held
  age,       \* ticks since StepEntry.last_seen, up to IdleAfter + 1
  at,        \* the entry a run cloned, while it waits or holds
  key,       \* the key it was cloned for
  waited,    \* ticks since the run called acquire, up to MaxWait
  pc

vars == <<entries, capacity, held, age, at, key, waited, pc>>

\* "awake": about to test held; "asleep": in the condition variable.
States == {"idle", "awake", "asleep", "holding"}

TypeOK ==
  /\ entries \in [Keys -> Entries \union {NoEntry}]
  /\ capacity \in [Entries -> Capacities \union {0}]
  /\ held \in [Entries -> Nat]
  /\ age \in [Entries -> 0..(IdleAfter + 1)]
  /\ at \in [Runs -> Entries \union {NoEntry}]
  /\ key \in [Runs -> Keys]
  /\ waited \in [Runs -> 0..MaxWait]
  /\ pc \in [Runs -> States]

Init ==
  /\ entries = [k \in Keys |-> NoEntry]
  /\ capacity = [e \in Entries |-> 0]
  /\ held = [e \in Entries |-> 0]
  /\ age = [e \in Entries |-> 0]
  /\ at = [r \in Runs |-> NoEntry]
  /\ key = [r \in Runs |-> CHOOSE k \in Keys : TRUE]
  /\ waited = [r \in Runs |-> 0]
  /\ pc = [r \in Runs |-> "idle"]

-----------------------------------------------------------------------------

Mapped == {entries[k] : k \in Keys} \ {NoEntry}
Cloned == {at[r] : r \in Runs} \ {NoEntry}
Unreferenced == Entries \ (Mapped \union Cloned)

\* acquire's first block: the run holds a clone of the key's entry.
Clone(r, k, e) ==
  /\ at' = [at EXCEPT ![r] = e]
  /\ key' = [key EXCEPT ![r] = k]
  /\ age' = [age EXCEPT ![e] = 0]
  /\ waited' = [waited EXCEPT ![r] = 0]
  /\ pc' = [pc EXCEPT ![r] = "awake"]

\* The key's first acquire makes a new entry, sized with this run's n.
AcquireFirst(r, k, n) ==
  /\ pc[r] = "idle"
  /\ entries[k] = NoEntry
  /\ Unreferenced # {}
  /\ LET e == CHOOSE x \in Unreferenced : TRUE
     IN  /\ entries' = [entries EXCEPT ![k] = e]
         /\ capacity' = [capacity EXCEPT ![e] = n]
         /\ held' = [held EXCEPT ![e] = 0]
         /\ Clone(r, k, e)

\* A later one reuses it, whatever its own n; last_seen is refreshed.
AcquireAgain(r, k) ==
  /\ pc[r] = "idle"
  /\ entries[k] # NoEntry
  /\ Clone(r, k, entries[k])
  /\ UNCHANGED <<entries, capacity, held>>

HasSlot(e) == held[e] < capacity[e]

\* The loop's test, under the entry's mutex: a slot is free.
Take(r) ==
  /\ pc[r] = "awake"
  /\ HasSlot(at[r])
  /\ held' = [held EXCEPT ![at[r]] = @ + 1]
  /\ pc' = [pc EXCEPT ![r] = "holding"]
  /\ UNCHANGED <<entries, capacity, age, at, key, waited>>

\* None is, and the deadline has not passed.
Sleep(r) ==
  /\ pc[r] = "awake"
  /\ ~HasSlot(at[r])
  /\ waited[r] < MaxWait
  /\ pc' = [pc EXCEPT ![r] = "asleep"]
  /\ UNCHANGED <<entries, capacity, held, age, at, key, waited>>

\* The run's deadline may be nearer than MaxWait.  A timed-out waiter tests
\* once more: with a slot free it takes it, otherwise it is refused and
\* drops its clone.
TimeoutTake(r) ==
  /\ pc[r] = "asleep"
  /\ HasSlot(at[r])
  /\ held' = [held EXCEPT ![at[r]] = @ + 1]
  /\ pc' = [pc EXCEPT ![r] = "holding"]
  /\ UNCHANGED <<entries, capacity, age, at, key, waited>>

\* fault: a waiter leaves only when it is passed over, not when it is late
RefuseAwake(r) ==
  /\ pc[r] = "awake"
  /\ ~HasSlot(at[r])
  /\ at' = [at EXCEPT ![r] = NoEntry]
  /\ waited' = [waited EXCEPT ![r] = 0]
  /\ pc' = [pc EXCEPT ![r] = "idle"]
  /\ UNCHANGED <<entries, capacity, held, age, key>>

Refuse(r) ==
  /\ pc[r] \in {"awake", "asleep"}
  /\ ~HasSlot(at[r])
  /\ at' = [at EXCEPT ![r] = NoEntry]
  /\ waited' = [waited EXCEPT ![r] = 0]
  /\ pc' = [pc EXCEPT ![r] = "idle"]
  /\ UNCHANGED <<entries, capacity, held, age, key>>

\* A condition variable may wake for no reason; the loop tests again.
SpuriousWake(r) ==
  /\ pc[r] = "asleep"
  /\ pc' = [pc EXCEPT ![r] = "awake"]
  /\ UNCHANGED <<entries, capacity, held, age, at, key, waited>>

Sleepers(e) == {r \in Runs : pc[r] = "asleep" /\ at[r] = e}

\* fault: a guard that drops notifies nobody
DropSilently(r) ==
  /\ pc[r] = "holding"
  /\ held' = [held EXCEPT ![at[r]] = @ - 1]
  /\ at' = [at EXCEPT ![r] = NoEntry]
  /\ waited' = [waited EXCEPT ![r] = 0]
  /\ pc' = [pc EXCEPT ![r] = "idle"]
  /\ UNCHANGED <<entries, capacity, age, key>>

\* StepGuard's drop gives the slot back and wakes one sleeper of the entry.
Drop(r) ==
  LET e == at[r]
  IN  /\ pc[r] = "holding"
      /\ held' = [held EXCEPT ![e] = @ - 1]
      /\ at' = [at EXCEPT ![r] = NoEntry]
      /\ waited' = [waited EXCEPT ![r] = 0]
      /\ \/ /\ Sleepers(e) = {}
            /\ pc' = [pc EXCEPT ![r] = "idle"]
         \/ \E s \in Sleepers(e) : pc' = [pc EXCEPT ![r] = "idle", ![s] = "awake"]
      /\ UNCHANGED <<entries, capacity, age, key>>

\* fault: the sweep looks at last_seen alone
IdleByAge(e) == age[e] > IdleAfter
\* sweep_idle keeps an entry that is held or was seen since the cutoff.
Idle(e) == held[e] = 0 /\ age[e] > IdleAfter

\* The periodic task, at any time.
SweepIdle ==
  /\ \E e \in Mapped : Idle(e)
  /\ entries' = [k \in Keys |->
                   IF entries[k] # NoEntry /\ Idle(entries[k]) THEN NoEntry ELSE entries[k]]
  /\ UNCHANGED <<capacity, held, age, at, key, waited, pc>>

InAcquire(r) == pc[r] \in {"awake", "asleep"}

\* A tick of the clock: no thread is between two of its steps, and every
\* sleeper whose deadline is due has been woken by it.
Tick ==
  /\ \A r \in Runs : pc[r] # "awake"
  /\ \A r \in Runs : pc[r] = "asleep" => waited[r] < MaxWait
  /\ age' = [e \in Entries |-> IF age[e] <= IdleAfter /\ e \notin Unreferenced
                                 THEN age[e] + 1 ELSE age[e]]
  /\ waited' = [r \in Runs |-> IF InAcquire(r) THEN waited[r] + 1 ELSE waited[r]]
  /\ UNCHANGED <<entries, capacity, held, at, key, pc>>

Next ==
  \/ \E r \in Runs :
       \/ \E k \in Keys : AcquireAgain(r, k) \/ \E n \in Capacities : AcquireFirst(r, k, n)
       \/ Take(r) \/ Sleep(r) \/ TimeoutTake(r) \/ Refuse(r) \/ SpuriousWake(r) \/ Drop(r)
  \/ SweepIdle
  \/ Tick

Spec == Init /\ [][Next]_vars

\* Threads run, and the deadline of a run that keeps waiting fires however
\* often the run wakes in between.
FairSpec ==
  /\ Spec
  /\ \A r \in Runs :
       /\ WF_vars(Take(r) \/ Sleep(r) \/ Refuse(r))
       /\ SF_vars(pc[r] = "asleep" /\ (TimeoutTake(r) \/ Refuse(r)))

-----------------------------------------------------------------------------
(* Properties *)

Holders(k) == {r \in Runs : pc[r] = "holding" /\ key[r] = k}

\* The runs of a module that hold a slot all hold it in the entry the map
\* has for the key, and there are at most its capacity of them: two bounds
\* never run at once, whatever is swept while runs wait, as long as no wait
\* is longer than the sweep's idle time (MaxWait <= IdleAfter).
OneBound ==
  \A k \in Keys : Holders(k) # {} =>
    /\ entries[k] # NoEntry
    /\ \A r \in Holders(k) : at[r] = entries[k]
    /\ Cardinality(Holders(k)) <= capacity[entries[k]]

\* Every free slot of an entry with sleepers has a thread awake to take it:
\* notify_one loses no wakeup to a newcomer, a timeout or a spurious one.
NoLostWakeup ==
  \A e \in Cloned : Sleepers(e) # {} =>
    capacity[e] <= held[e] + Cardinality({r \in Runs : pc[r] = "awake" /\ at[r] = e})

\* Every acquire returns, a waiter passed by newcomers for ever included.
AcquireReturns == \A r \in Runs : InAcquire(r) ~> ~InAcquire(r)
=============================================================================
