---------------------------- MODULE ModuleCache ----------------------------
(***************************************************************************)
(* The module cache of crates/function/src/cache.rs: compiled modules by   *)
(* digest from memory, from the on-disk artifact store, or by fetch and    *)
(* compile.  Requests for one digest share a flight (a OnceCell in the     *)
(* loading map); at most max_concurrent_compiles compile at a time, in     *)
(* blocking tasks that outlive a request that times out or goes away.      *)
(* Each action is a request's progress from one await point to the next,   *)
(* or the end of a blocking task.                                          *)
(*                                                                         *)
(* tokio's OnceCell and Semaphore are external: a OnceCell runs one        *)
(* initialiser at a time and hands the turn on, first come first served,   *)
(* when one fails or is dropped; a Semaphore is fair.                      *)
(***************************************************************************)
EXTENDS Naturals, Sequences, FiniteSets, SequencesExt

CONSTANTS
  Calls,         \* requests; each calls get time and again
  Digests,
  Cells,         \* OnceCell objects; an unreferenced one is free memory
  None,
  MaxEntries,    \* CacheOptions.max_entries
  Settings       \* records: noMemory, CacheOptions.no_memory; compiles, the
                 \* semaphore's permits; faults, what the environment does;
                 \* digests, what is asked for

FaultKinds == {"fail",     \* a fetch or a compile fails
               "timeout",  \* --module-compile-timeout is set and passes
               "cancel",   \* the client goes away and the request is dropped
               "unstored", \* the store is full or read-only: a put fails
               "stale",    \* wasmtime refuses an artifact
               "sweep"}    \* the sweep removes an artifact

ASSUME CallsFinite == IsFiniteSet(Calls)
ASSUME NoneOutside == None \notin Cells \union Digests
ASSUME LimitsNatural == MaxEntries \in Nat
ASSUME SettingsKnown ==
  \A s \in Settings :
    /\ s.noMemory \in BOOLEAN /\ s.compiles \in Nat \ {0}
    /\ s.faults \subseteq FaultKinds /\ s.digests \subseteq Digests

VARIABLES
  setting,   \* the one of Settings a behaviour is in
  entries,   \* ModuleCache.entries: the digests in memory, last used last
  loading,   \* ModuleCache.loading: the flight of a digest
  removed,   \* history: the digests whose flight was removed since one
             \* began with nobody in an earlier one
  waiters,   \* the calls in a cell's get_or_try_init; the first initialises
  filled,    \* the cells that hold a module
  disk,      \* the digests whose artifact the store has
  free,      \* permits not held by a task
  queue,     \* calls waiting for a permit; the first `free' of them have one
  task,      \* the blocking fetch-and-compile a call spawned
  digest,    \* what a call asked for
  cell,      \* the flight it joined
  result,
  pc

vars == <<setting, entries, loading, removed, waiters, filled, disk, free, queue,
          task, digest, cell, result, pc>>

NoMemory == setting.noMemory
Faults == setting.faults
MaxCompiles == setting.compiles

\* A call's local state and the flight it is in.
local == <<digest, cell, result>>

States == {"idle", "missed", "joined", "mapping", "permit", "compiling", "settled", "promoting"}

TypeOK ==
  /\ setting \in Settings
  /\ entries \in Seq(Digests)
  /\ loading \in [Digests -> Cells \union {None}]
  /\ removed \in SUBSET Digests
  /\ waiters \in [Cells -> Seq(Calls)]
  /\ filled \in SUBSET Cells
  /\ disk \in SUBSET Digests
  /\ free \in 0..MaxCompiles
  /\ queue \in Seq(Calls)
  /\ task \in [Calls -> {"none", "running", "ok", "err"}]
  /\ digest \in [Calls -> Digests \union {None}]
  /\ cell \in [Calls -> Cells \union {None}]
  /\ result \in [Calls -> {"none", "ok", "err"}]
  /\ pc \in [Calls -> States]

Init ==
  /\ setting \in Settings
  /\ entries = <<>>
  /\ loading = [d \in Digests |-> None]
  /\ removed = {}
  /\ waiters = [x \in Cells |-> <<>>]
  /\ filled = {}
  /\ disk = {}
  /\ free = MaxCompiles
  /\ queue = <<>>
  /\ task = [c \in Calls |-> "none"]
  /\ digest = [c \in Calls |-> None]
  /\ cell = [c \in Calls |-> None]
  /\ result = [c \in Calls |-> "none"]
  /\ pc = [c \in Calls |-> "idle"]

Goto(c, p) == pc' = [pc EXCEPT ![c] = p]

-----------------------------------------------------------------------------
(* The memory tier *)

\* What memory_get keeps when the n least recently used are past their TTL.
Unexpired(n) == SubSeq(entries, n + 1, Len(entries))

Touch(s, d) == Append(RemoveFirst(s, d), d)

\* memory_get finds the module.
MemoryHit(c, d, n) ==
  /\ pc[c] = "idle"
  /\ task[c] = "none"
  /\ ~NoMemory
  /\ Contains(Unexpired(n), d)
  /\ entries' = Touch(Unexpired(n), d)
  /\ UNCHANGED <<loading, removed, waiters, filled, disk, free, queue, task, local, pc>>

\* It does not; the expired entries are gone either way.
MemoryMiss(c, d, n) ==
  /\ pc[c] = "idle"
  /\ task[c] = "none"
  /\ NoMemory => n = 0
  /\ NoMemory \/ ~Contains(Unexpired(n), d)
  /\ entries' = Unexpired(n)
  /\ digest' = [digest EXCEPT ![c] = d]
  /\ Goto(c, "missed")
  /\ UNCHANGED <<loading, removed, waiters, filled, disk, free, queue, task, cell, result>>

\* memory_put: d is now the last used, and the least recently used go while
\* there are more than the bound.
Evicted(s, d) ==
  LET put == Touch(s, d)
      over == IF MaxEntries > 0 /\ Len(put) > MaxEntries THEN Len(put) - MaxEntries ELSE 0
  IN  SubSeq(put, over + 1, Len(put))

-----------------------------------------------------------------------------
(* The flight *)

Unreferenced ==
  Cells \ ({loading[d] : d \in Digests} \union {cell[c] : c \in Calls})

\* loading.entry(digest).or_default(), under its lock, then the cell's
\* get_or_try_init.  The first call opens the flight.
Open(c) ==
  /\ pc[c] = "missed"
  /\ loading[digest[c]] = None
  /\ Unreferenced # {}
  /\ LET x == CHOOSE y \in Unreferenced : TRUE
     IN  /\ loading' = [loading EXCEPT ![digest[c]] = x]
         /\ cell' = [cell EXCEPT ![c] = x]
         /\ waiters' = [waiters EXCEPT ![x] = <<c>>]
         /\ filled' = filled \ {x}
  /\ removed' = IF \E b \in Calls : cell[b] # None /\ digest[b] = digest[c]
                THEN removed ELSE removed \ {digest[c]}
  /\ Goto(c, "joined")
  /\ UNCHANGED <<entries, disk, free, queue, task, digest, result>>

\* fault: a later one replaces the flight
JoinReplace(c) ==
  /\ pc[c] = "missed"
  /\ loading[digest[c]] # None
  /\ Unreferenced # {}
  /\ LET x == CHOOSE y \in Unreferenced : TRUE
     IN  /\ loading' = [loading EXCEPT ![digest[c]] = x]
         /\ cell' = [cell EXCEPT ![c] = x]
         /\ waiters' = [waiters EXCEPT ![x] = <<c>>]
         /\ filled' = filled \ {x}
  /\ Goto(c, "joined")
  /\ UNCHANGED <<entries, removed, disk, free, queue, task, digest, result>>

\* A later one joins it, behind whoever is in it.
Join(c) ==
  LET x == loading[digest[c]]
  IN  /\ pc[c] = "missed"
      /\ x # None
      /\ cell' = [cell EXCEPT ![c] = x]
      /\ waiters' = [waiters EXCEPT ![x] = Append(@, c)]
      /\ Goto(c, "joined")
      /\ UNCHANGED <<entries, loading, removed, filled, disk, free, queue, task, digest, result>>

\* The call that has the cell's turn.
HasTurn(c) == waiters[cell[c]] # <<>> /\ Head(waiters[cell[c]]) = c

\* get_or_try_init is over for the call, which has no more use for the cell.
Leave(c) ==
  /\ waiters' = [waiters EXCEPT ![cell[c]] = RemoveFirst(@, c)]
  /\ cell' = [cell EXCEPT ![c] = None]

\* A cell that is no longer referenced is gone, and what filled it with it.
Kept(f) == f \intersect ({loading'[d] : d \in Digests} \union {cell'[b] : b \in Calls})

\* The cell is filled: get_or_try_init returns its module.
Ready(c) ==
  /\ pc[c] = "joined"
  /\ cell[c] \in filled
  /\ Leave(c)
  /\ result' = [result EXCEPT ![c] = "ok"]
  /\ Goto(c, "settled")
  /\ UNCHANGED <<entries, loading, removed, disk, free, queue, task, digest>>
  /\ filled' = Kept(filled)

\* load returned: a module fills the cell, an error passes the turn on.
Return(c, r) ==
  /\ Leave(c)
  /\ UNCHANGED <<loading, removed>>
  /\ filled' = Kept(IF r = "ok" THEN filled \union {cell[c]} ELSE filled)
  /\ result' = [result EXCEPT ![c] = r]
  /\ Goto(c, "settled")

-----------------------------------------------------------------------------
(* load *)

\* It has the turn and starts load: the disk is asked first.
LoadFromDisk(c) ==
  /\ pc[c] = "joined"
  /\ cell[c] \notin filled
  /\ HasTurn(c)
  /\ digest[c] \in disk
  /\ Goto(c, "mapping")
  /\ UNCHANGED <<entries, loading, removed, waiters, filled, disk, free, queue, task, local>>

\* No artifact: it asks for a permit.
LoadCold(c) ==
  /\ pc[c] = "joined"
  /\ cell[c] \notin filled
  /\ HasTurn(c)
  /\ digest[c] \notin disk
  /\ queue' = Append(queue, c)
  /\ Goto(c, "permit")
  /\ UNCHANGED <<entries, loading, removed, waiters, filled, disk, free, task, local>>

\* deserialize_file maps the artifact.
Mapped(c) ==
  /\ pc[c] = "mapping"
  /\ digest[c] \in disk
  /\ Return(c, "ok")
  /\ UNCHANGED <<entries, disk, free, queue, task, digest>>

\* It cannot: the artifact is gone again, or not one wasmtime loads.
MapRefused(c) ==
  /\ pc[c] = "mapping"
  /\ digest[c] \notin disk \/ "stale" \in Faults
  /\ queue' = Append(queue, c)
  /\ Goto(c, "permit")
  /\ UNCHANGED <<entries, loading, removed, waiters, filled, disk, free, task, local>>

\* The permit is granted and travels into the blocking task.
Spawn(c) ==
  /\ pc[c] = "permit"
  /\ \E i \in 1..Len(queue) : i <= free /\ queue[i] = c
  /\ queue' = RemoveFirst(queue, c)
  /\ free' = free - 1
  /\ task' = [task EXCEPT ![c] = "running"]
  /\ Goto(c, "compiling")
  /\ UNCHANGED <<entries, loading, removed, waiters, filled, disk, local>>

\* The task ends: a compiled module's artifact is stored, best effort, and
\* the permit is dropped.
TaskOk(c) ==
  /\ task[c] = "running"
  /\ task' = [task EXCEPT ![c] = IF pc[c] = "compiling" THEN "ok" ELSE "none"]
  /\ free' = free + 1
  /\ \/ disk' = disk \union {digest[c]}
     \/ "unstored" \in Faults /\ UNCHANGED disk
  /\ UNCHANGED <<entries, loading, removed, waiters, filled, queue, local, pc>>

\* fault: a failed fetch or compile keeps its permit
TaskFailsKeepPermit(c) ==
  /\ "fail" \in Faults
  /\ task[c] = "running"
  /\ task' = [task EXCEPT ![c] = IF pc[c] = "compiling" THEN "err" ELSE "none"]
  /\ UNCHANGED <<entries, loading, removed, waiters, filled, disk, free, queue, local, pc>>

TaskFails(c) ==
  /\ "fail" \in Faults
  /\ task[c] = "running"
  /\ task' = [task EXCEPT ![c] = IF pc[c] = "compiling" THEN "err" ELSE "none"]
  /\ free' = free + 1
  /\ UNCHANGED <<entries, loading, removed, waiters, filled, disk, queue, local, pc>>

\* The call hears of it.
Joined(c) ==
  /\ pc[c] = "compiling"
  /\ task[c] \in {"ok", "err"}
  /\ Return(c, task[c])
  /\ task' = [task EXCEPT ![c] = "none"]
  /\ UNCHANGED <<entries, disk, free, queue, digest>>

\* fault: the permit goes with the request, not with the compile
TimeoutRelease(c) ==
  /\ "timeout" \in Faults
  /\ pc[c] = "compiling"
  /\ task[c] = "running"
  /\ free' = free + 1
  /\ Return(c, "err")
  /\ UNCHANGED <<entries, disk, queue, task, digest>>

\* The compile is past its bound: the request fails, the task runs on and
\* keeps its permit.
Timeout(c) ==
  /\ "timeout" \in Faults
  /\ pc[c] = "compiling"
  /\ task[c] = "running"
  /\ Return(c, "err")
  /\ UNCHANGED <<entries, disk, free, queue, task, digest>>

-----------------------------------------------------------------------------
(* The end of get *)

Forget(c) ==
  /\ digest' = [digest EXCEPT ![c] = IF task[c] = "running" THEN @ ELSE None]
  /\ cell' = [cell EXCEPT ![c] = None]
  /\ result' = [result EXCEPT ![c] = "none"]
  /\ Goto(c, "idle")

\* loading.remove(digest), whichever flight is there; an error returns.
SettleErr(c) ==
  /\ pc[c] = "settled"
  /\ result[c] = "err"
  /\ loading' = [loading EXCEPT ![digest[c]] = None]
  /\ removed' = removed \union {digest[c]}
  /\ Forget(c)
  /\ filled' = Kept(filled)
  /\ UNCHANGED <<entries, waiters, disk, free, queue, task>>

\* A module is then promoted to memory, outside the lock.
SettleOk(c) ==
  /\ pc[c] = "settled"
  /\ result[c] = "ok"
  /\ loading' = [loading EXCEPT ![digest[c]] = None]
  /\ removed' = removed \union {digest[c]}
  /\ Goto(c, "promoting")
  /\ UNCHANGED <<entries, waiters, disk, free, queue, task, local>>
  /\ filled' = Kept(filled)

Promote(c) ==
  /\ pc[c] = "promoting"
  /\ entries' = IF NoMemory THEN entries ELSE Evicted(entries, digest[c])
  /\ Forget(c)
  /\ UNCHANGED <<loading, removed, waiters, filled, disk, free, queue, task>>

\* fault: a dropped request takes the flight out of the map, by a guard
CancelRemovesFlight(c) ==
  /\ "cancel" \in Faults
  /\ pc[c] \notin {"idle", "promoting"}
  /\ loading' = [loading EXCEPT ![digest[c]] = None]
  /\ waiters' = IF cell[c] = None THEN waiters
                ELSE [waiters EXCEPT ![cell[c]] = RemoveFirst(@, c)]
  /\ queue' = RemoveFirst(queue, c)
  /\ task' = [task EXCEPT ![c] = IF @ = "running" THEN @ ELSE "none"]
  /\ Forget(c)
  /\ UNCHANGED <<entries, removed, disk, free>>
  /\ filled' = Kept(filled)

\* The client goes away and the request's future is dropped at the await it
\* is at: it leaves the cell and the permits' queue, a spawned task runs on.
Cancel(c) ==
  /\ "cancel" \in Faults
  /\ pc[c] \notin {"idle", "promoting"}
  /\ waiters' = IF cell[c] = None THEN waiters
                ELSE [waiters EXCEPT ![cell[c]] = RemoveFirst(@, c)]
  /\ queue' = RemoveFirst(queue, c)
  /\ task' = [task EXCEPT ![c] = IF @ = "running" THEN @ ELSE "none"]
  /\ Forget(c)
  /\ UNCHANGED <<entries, loading, removed, disk, free>>
  /\ filled' = Kept(filled)

\* The store's sweep, or a lookup that finds an artifact it cannot vouch for.
Sweep(d) ==
  /\ "sweep" \in Faults
  /\ d \in disk
  /\ disk' = disk \ {d}
  /\ UNCHANGED <<entries, loading, removed, waiters, filled, free, queue, task, local, pc>>

Get(c) == \E d \in setting.digests, n \in 0..Len(entries) : MemoryHit(c, d, n) \/ MemoryMiss(c, d, n)

Step(c) ==
  \/ Open(c) \/ Join(c) \/ Ready(c)
  \/ LoadFromDisk(c) \/ LoadCold(c) \/ Mapped(c) \/ MapRefused(c)
  \/ Spawn(c) \/ Joined(c)
  \/ SettleErr(c) \/ SettleOk(c) \/ Promote(c)

Next ==
  /\ \/ \E c \in Calls :
          \/ Get(c) \/ Step(c) \/ TaskOk(c) \/ TaskFails(c) \/ Timeout(c) \/ Cancel(c)
     \/ \E d \in Digests : Sweep(d)
  /\ UNCHANGED setting

Spec == Init /\ [][Next]_vars

\* The runtime polls every request that can go on, and a fetch and compile
\* ends: its requests to the registry are bounded in time.
FairSpec ==
  /\ Spec
  /\ \A c \in Calls :
       /\ WF_vars(Step(c) /\ UNCHANGED setting)
       /\ WF_vars((TaskOk(c) \/ TaskFails(c)) /\ UNCHANGED setting)

-----------------------------------------------------------------------------
(* Properties *)

Running == {c \in Calls : task[c] = "running"}

\* Every permit is free or in a running compile, the compiles whose requests
\* timed out or went away included: never more than the bound compile.
PermitsAccounted == free + Cardinality(Running) = MaxCompiles

InLoad(c) == pc[c] \in {"mapping", "permit", "compiling"}

\* Concurrent requests for a digest share one load: until one of them has
\* settled and removed the flight, whoever fails, times out or goes away, all
\* the requests in a flight for it are in the one in the loading map and at
\* most one of them is in load.  (A removal while others are still in the
\* cell, or of a flight opened since, lets a second load begin beside the
\* first.)
FlightShared ==
  \A c, b \in Calls :
    cell[c] # None /\ cell[b] # None /\ digest[c] = digest[b] /\ digest[c] \notin removed =>
      /\ cell[c] = loading[digest[c]]
      /\ cell[b] = cell[c]
      /\ InLoad(c) /\ InLoad(b) => c = b

\* Where nothing fails, a module's bytes are fetched only when the store has
\* no artifact of it and no other compile of it is under way: concurrent
\* requests share the load, a late one finds what it left.
FetchOnlyOnMiss ==
  [][\A c \in Calls : Faults = {} /\ pc[c] = "permit" /\ pc'[c] = "compiling" =>
       /\ digest[c] \notin disk
       /\ \A b \in Running : digest[b] # digest[c]]_vars

\* Every request is answered, or its client is gone: no flight, turn or
\* permit is lost to a failure, a timeout or a dropped request.
Answered == \A c \in Calls : pc[c] # "idle" ~> pc[c] = "idle"
=============================================================================
