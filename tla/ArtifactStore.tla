--------------------------- MODULE ArtifactStore ---------------------------
(***************************************************************************)
(* The compiled-artifact store of crates/function/src/store.rs: one        *)
(* digest's entry and the HMAC sidecar beside it, under a key the process  *)
(* draws at startup and never writes down.  Blocking threads put and look  *)
(* up the entry, the sweep removes it, the process crashes and restarts    *)
(* on the same volume, and whoever else can write the volume does so at    *)
(* any moment.  Every file operation is a step of its own; entries of      *)
(* different digests are different files and do not meet.                  *)
(***************************************************************************)
EXTENDS Naturals, FiniteSets

CONSTANTS
  Threads,     \* blocking threads of the process
  Versions,    \* what serialising one module may yield
  MaxProcess,  \* bound on restarts
  Absent       \* no file, or nothing read

ASSUME BoundPositive == MaxProcess \in Nat \ {0}

VARIABLES
  process,  \* the current process; its number stands for its key
  entry,    \* the entry's content
  sidecar,  \* the sidecar's content
  artifact, \* put: what the thread is storing
  bytes,    \* path: what it read of the entry
  loaded,   \* what the lookup's caller mapped last
  found,    \* the outcome of the last lookup
  sweeper,  \* where the sweep is
  at,       \* where a thread is
  replaced  \* history: somebody else wrote the entry between the thread's
            \* reading and its caller's mapping it

storeVars == <<process, entry, sidecar, artifact, bytes, loaded, found, sweeper, at,
               replaced>>

\* An artifact: the process that compiled it, its version, and whether all
\* of it is there.  Process 0 is whoever wrote the volume before.
Artifacts == [by : 0..MaxProcess, version : Versions, whole : BOOLEAN]
\* The HMAC of an artifact under a process's key.
Macs == [key : 0..MaxProcess, of : Artifacts]
Files == Artifacts \union {Absent}

ASSUME AbsentIsNoFile == Absent \notin Artifacts /\ Absent \notin Macs

States == {"idle", "writing", "entered", "reading", "checking", "refusing", "refused", "mapping"}

StoreTypes ==
  /\ process \in 1..MaxProcess
  /\ entry \in Files
  /\ sidecar \in Macs \union {Absent}
  /\ artifact \in [Threads -> Files]
  /\ bytes \in [Threads -> Files]
  /\ loaded \in [Threads -> Files]
  /\ found \in [Threads -> {"none", "hit", "miss", "stale"}]
  /\ sweeper \in {"idle", "listed", "removed"}
  /\ at \in [Threads -> States]
  /\ replaced \in [Threads -> BOOLEAN]

\* The volume may hold what an earlier process left: an entry, whole or not,
\* with its sidecar, without one, or the sidecar alone.
StoreInit ==
  /\ process = 1
  /\ entry \in {Absent} \union {x \in Artifacts : x.by = 0}
  /\ sidecar \in {Absent} \union {x \in Macs : x.key = 0 /\ x.of.by = 0}
  /\ artifact = [t \in Threads |-> Absent]
  /\ bytes = [t \in Threads |-> Absent]
  /\ loaded = [t \in Threads |-> Absent]
  /\ found = [t \in Threads |-> "none"]
  /\ sweeper = "idle"
  /\ at = [t \in Threads |-> "idle"]
  /\ replaced = [t \in Threads |-> FALSE]

Goto(t, p) == at' = [at EXCEPT ![t] = p]

-----------------------------------------------------------------------------
(* put *)

\* fault: put writes the entry in place
PutInPlace(t, v) ==
  /\ at[t] = "idle"
  /\ artifact' = [artifact EXCEPT ![t] = [by |-> process, version |-> v, whole |-> TRUE]]
  /\ entry' = [by |-> process, version |-> v, whole |-> FALSE]
  /\ Goto(t, "writing")
  /\ UNCHANGED <<process, sidecar, bytes, loaded, found, sweeper, replaced>>

\* write_atomic writes a temporary file, which no other operation looks at.
PutBegin(t, v) ==
  /\ at[t] = "idle"
  /\ artifact' = [artifact EXCEPT ![t] = [by |-> process, version |-> v, whole |-> TRUE]]
  /\ Goto(t, "writing")
  /\ UNCHANGED <<process, entry, sidecar, bytes, loaded, found, sweeper, replaced>>

\* The rename makes all of it the entry at once.
PutEntry(t) ==
  /\ at[t] = "writing"
  /\ entry' = artifact[t]
  /\ Goto(t, "entered")
  /\ UNCHANGED <<process, sidecar, artifact, bytes, loaded, found, sweeper, replaced>>

\* The sidecar lands after it.
PutMac(t) ==
  /\ at[t] = "entered"
  /\ sidecar' = [key |-> process, of |-> artifact[t]]
  /\ artifact' = [artifact EXCEPT ![t] = Absent]
  /\ Goto(t, "idle")
  /\ UNCHANGED <<process, entry, bytes, loaded, found, sweeper, replaced>>

\* Either write may fail: put returns and takes nothing back.
PutFails(t) ==
  /\ at[t] \in {"writing", "entered"}
  /\ artifact' = [artifact EXCEPT ![t] = Absent]
  /\ Goto(t, "idle")
  /\ UNCHANGED <<process, entry, sidecar, bytes, loaded, found, sweeper, replaced>>

-----------------------------------------------------------------------------
(* path, and the mapping of what it hands out *)

Answer(t, r) == found' = [found EXCEPT ![t] = r]

\* There is no entry.
LookupMiss(t) ==
  /\ at[t] = "idle"
  /\ entry = Absent
  /\ Answer(t, "miss")
  /\ UNCHANGED <<process, entry, sidecar, artifact, bytes, loaded, sweeper, at, replaced>>

\* There is one: metadata succeeds, and the read that follows may not.
LookupStat(t) ==
  /\ at[t] = "idle"
  /\ entry # Absent
  /\ Answer(t, "none")
  /\ loaded' = [loaded EXCEPT ![t] = Absent]
  /\ replaced' = [replaced EXCEPT ![t] = FALSE]
  /\ Goto(t, "reading")
  /\ UNCHANGED <<process, entry, sidecar, artifact, bytes, sweeper>>

ReadEntry(t) ==
  /\ at[t] = "reading"
  /\ bytes' = [bytes EXCEPT ![t] = entry]
  /\ Goto(t, IF entry = Absent THEN "refusing" ELSE "checking")
  /\ UNCHANGED <<process, entry, sidecar, artifact, loaded, found, sweeper, replaced>>

\* verify_mac under this process's key.
VerifyMac(b) == sidecar = [key |-> process, of |-> b]

\* The sidecar is read and the bytes verify: the caller gets the entry's
\* name (and the entry's times are touched).
Accept(t) ==
  /\ at[t] = "checking"
  /\ VerifyMac(bytes[t])
  /\ Answer(t, "hit")
  /\ Goto(t, "mapping")
  /\ UNCHANGED <<process, entry, sidecar, artifact, bytes, loaded, sweeper, replaced>>

\* They do not, or there is no sidecar.
Refuse(t) ==
  /\ at[t] = "checking"
  /\ ~VerifyMac(bytes[t])
  /\ bytes' = [bytes EXCEPT ![t] = Absent]
  /\ Goto(t, "refusing")
  /\ UNCHANGED <<process, entry, sidecar, artifact, loaded, found, sweeper, replaced>>

\* Both files go, one after the other.
RefuseEntry(t) ==
  /\ at[t] = "refusing"
  /\ entry' = Absent
  /\ Goto(t, "refused")
  /\ UNCHANGED <<process, sidecar, artifact, bytes, loaded, found, sweeper, replaced>>

RefuseMac(t) ==
  /\ at[t] = "refused"
  /\ sidecar' = Absent
  /\ Answer(t, "stale")
  /\ Goto(t, "idle")
  /\ UNCHANGED <<process, entry, artifact, bytes, loaded, sweeper, replaced>>

\* deserialize_file opens the entry by its name: whatever is there by now.
Map(t) ==
  /\ at[t] = "mapping"
  /\ loaded' = [loaded EXCEPT ![t] = entry]
  /\ bytes' = [bytes EXCEPT ![t] = Absent]
  /\ Goto(t, "idle")
  /\ UNCHANGED <<process, entry, sidecar, artifact, found, sweeper, replaced>>

-----------------------------------------------------------------------------
(* sweep, crash and restart, and other writers of the volume *)

\* entries lists the entry; the total is over the bound.
SweepList ==
  /\ sweeper = "idle"
  /\ entry # Absent
  /\ sweeper' = "listed"
  /\ UNCHANGED <<process, entry, sidecar, artifact, bytes, loaded, found, at, replaced>>

\* The entry is removed, and its sidecar only if that succeeded.
SweepEntry ==
  /\ sweeper = "listed"
  /\ sweeper' = IF entry = Absent THEN "idle" ELSE "removed"
  /\ entry' = Absent
  /\ UNCHANGED <<process, sidecar, artifact, bytes, loaded, found, at, replaced>>

SweepMac ==
  /\ sweeper = "removed"
  /\ sweeper' = "idle"
  /\ sidecar' = Absent
  /\ UNCHANGED <<process, entry, artifact, bytes, loaded, found, at, replaced>>

\* The process dies between any two steps; the next one has a new key.
Restart ==
  /\ process < MaxProcess
  /\ process' = process + 1
  /\ artifact' = [t \in Threads |-> Absent]
  /\ bytes' = [t \in Threads |-> Absent]
  /\ loaded' = [t \in Threads |-> Absent]
  /\ found' = [t \in Threads |-> "none"]
  /\ sweeper' = "idle"
  /\ at' = [t \in Threads |-> "idle"]
  /\ replaced' = [t \in Threads |-> FALSE]
  /\ UNCHANGED <<entry, sidecar>>

\* What anybody else can put in the entry's place: nothing, or any bytes, a
\* copy of this process's own included.
OthersFiles == {Absent} \union {x \in Artifacts : x.by \in {0, process}}

\* And in the sidecar's: nothing, or any tag but one under the key nobody
\* else has, unless it is a copy of the tag of an artifact of this process.
OthersMacs ==
  {Absent} \union
  {m \in Macs : m.key = m.of.by /\ (m.key = 0 \/ (m.key = process /\ m.of.whole))}

\* Whoever else can write the volume writes or removes the entry.
OthersEntry(x) ==
  /\ entry' = x
  /\ replaced' = [t \in Threads |-> replaced[t] \/ at[t] \in {"checking", "mapping"}]
  /\ UNCHANGED <<process, sidecar, artifact, bytes, loaded, found, sweeper, at>>

\* Or the sidecar.
OthersMac(m) ==
  /\ sidecar' = m
  /\ UNCHANGED <<process, entry, artifact, bytes, loaded, found, sweeper, at, replaced>>

Step(t) ==
  \/ PutEntry(t) \/ PutMac(t) \/ PutFails(t)
  \/ ReadEntry(t) \/ Accept(t) \/ Refuse(t) \/ RefuseEntry(t) \/ RefuseMac(t) \/ Map(t)

StoreNext ==
  \/ \E t \in Threads :
       \/ \E v \in Versions : PutBegin(t, v)
       \/ LookupMiss(t) \/ LookupStat(t) \/ Step(t)
  \/ SweepList \/ SweepEntry \/ SweepMac \/ Restart
  \/ \E x \in OthersFiles : OthersEntry(x)
  \/ \E m \in OthersMacs : OthersMac(m)

StoreSpec == StoreInit /\ [][StoreNext]_storeVars

-----------------------------------------------------------------------------
(* Properties *)

\* What a lookup vouches for is a whole artifact this very process compiled,
\* whatever anybody wrote to the volume and when, and so is what the engine
\* then maps, unless somebody else wrote the entry between the two: path
\* verifies the bytes it read, deserialize_file opens the entry by its name.
\* The process's own puts, refusals and sweeps in between never matter.
OnlyOwnMapped ==
  \A t \in Threads :
    /\ at[t] = "mapping" => bytes[t].by = process /\ bytes[t].whole
    /\ loaded[t] # Absent /\ ~replaced[t] => loaded[t].by = process /\ loaded[t].whole
=============================================================================
