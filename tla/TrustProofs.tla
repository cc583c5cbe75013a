---------------------------- MODULE TrustProofs ----------------------------
(***************************************************************************)
(* What the process trusts: the compiled artifacts it maps from its        *)
(* volume, and the signatures it admits modules by.                        *)
(*                                                                         *)
(* ArtifactStore, for any number of threads, versions and restarts, and    *)
(* any writes to the volume by others.  A lookup verifies bytes and hands  *)
(* out a name.  What it verified is the process's, because a tag under     *)
(* the process's key vouches only for what the process compiled; what the  *)
(* name stands for is too, unless somebody else wrote the entry meanwhile: *)
(* a lookup that is checking saw the entry the volume still has, or the    *)
(* process has replaced or removed it since, and after that it stays the   *)
(* process's or gone.                                                      *)
(*                                                                         *)
(* SignatureVerifier, for any bundles, any number of requests and any      *)
(* history of rotations, failed fetches and unusable roots.  A request     *)
(* under way vouches for its digest under the root its bundle was examined *)
(* under, which may be replaced before the digest is remembered; the       *)
(* refresher never holds a root older than the one in use, because it      *)
(* falls back to its cache only when there is none.                        *)
(***************************************************************************)
EXTENDS ArtifactStore, SignatureVerifier, Integers, TLAPS

-----------------------------------------------------------------------------
(* The artifact store *)

\* A whole artifact of the current process.
Own(x) == x \in Artifacts /\ x.by = process /\ x.whole

\* The entry is this process's, or there is none.
EntrySafe == entry # Absent => Own(entry)

\* A tag is under the current key only for what the process compiled, and
\* nothing is tagged under a key not drawn yet.
SidecarVouches ==
  sidecar # Absent => sidecar.key <= process /\ (sidecar.key = process => Own(sidecar.of))

\* What a put stores is the process's own.
StoresOwn == \A t \in Threads : at[t] \in {"writing", "entered"} => Own(artifact[t])

\* A lookup that is checking read something, and the entry is still that
\* unless it has been written or removed since.
ReadIsCurrent ==
  \A t \in Threads :
    at[t] = "checking" => bytes[t] # Absent /\ (replaced[t] \/ EntrySafe \/ entry = bytes[t])

\* A lookup accepted the process's own bytes, and leaves nothing foreign to
\* map unless somebody else has written the entry since.
MappingSafe ==
  \A t \in Threads : at[t] = "mapping" => Own(bytes[t]) /\ (replaced[t] \/ EntrySafe)

LoadedOwn == \A t \in Threads : loaded[t] # Absent /\ ~replaced[t] => Own(loaded[t])

\* The inductive invariant.
StoreInv ==
  /\ StoreTypes
  /\ SidecarVouches /\ StoresOwn /\ ReadIsCurrent /\ MappingSafe /\ LoadedOwn

-----------------------------------------------------------------------------

\* The volume as the process finds it satisfies the invariant: what is there
\* was written under another key.
LEMMA StoreInitInv == StoreInit => StoreInv
<1> SUFFICES ASSUME StoreInit PROVE StoreInv
  OBVIOUS
<1> USE BoundPositive, AbsentIsNoFile
<1>1. StoreTypes
  BY DEF StoreInit, StoreTypes, Files, States, Artifacts, Macs
<1>2. SidecarVouches
  BY DEF StoreInit, SidecarVouches
<1>3. StoresOwn /\ ReadIsCurrent /\ MappingSafe /\ LoadedOwn
  BY DEF StoreInit, StoresOwn, ReadIsCurrent, MappingSafe, LoadedOwn
<1> QED BY <1>1, <1>2, <1>3 DEF StoreInv

-----------------------------------------------------------------------------
(* One lemma per operation *)

\* put: only what the process compiled is written, the entry in one step and
\* the tag in another.
LEMMA PutKeepsInv ==
  ASSUME StoreInv, NEW t \in Threads,
         \/ \E v \in Versions : PutBegin(t, v)
         \/ PutEntry(t) \/ PutMac(t) \/ PutFails(t)
  PROVE  StoreInv'
<1> USE DEF StoreInv, Own
<1>1. ASSUME NEW v \in Versions, PutBegin(t, v) PROVE StoreInv'
  <2> DEFINE a == [by |-> process, version |-> v, whole |-> TRUE]
  <2>1. a \in Artifacts /\ a.by = process /\ a.whole
    BY DEF StoreTypes, Artifacts
  <2> HIDE DEF a
  <2>2. StoreTypes'
    BY <1>1, <2>1 DEF PutBegin, Goto, StoreTypes, Files, States, a
  <2>3. StoresOwn'
    BY <1>1, <2>1 DEF PutBegin, Goto, StoreTypes, StoresOwn, a
  <2>4. SidecarVouches' /\ ReadIsCurrent' /\ MappingSafe' /\ LoadedOwn'
    BY <1>1 DEF PutBegin, Goto, StoreTypes, SidecarVouches, ReadIsCurrent, MappingSafe, LoadedOwn, EntrySafe
  <2> QED BY <2>2, <2>3, <2>4
<1>2. ASSUME PutEntry(t) PROVE StoreInv'
  <2>1. Own(artifact[t])
    BY <1>2 DEF PutEntry, StoresOwn
  <2>2. StoreTypes' /\ EntrySafe'
    BY <1>2, <2>1 DEF PutEntry, Goto, StoreTypes, Files, States, EntrySafe
  <2>3. StoresOwn'
    BY <1>2 DEF PutEntry, Goto, StoreTypes, StoresOwn
  <2>4. SidecarVouches' /\ LoadedOwn'
    BY <1>2 DEF PutEntry, SidecarVouches, LoadedOwn
  <2>5. ReadIsCurrent' /\ MappingSafe'
    BY <1>2, <2>2 DEF PutEntry, Goto, StoreTypes, ReadIsCurrent, MappingSafe
  <2> QED BY <2>2, <2>3, <2>4, <2>5
<1>3. ASSUME PutMac(t) PROVE StoreInv'
  <2> DEFINE tag == [key |-> process, of |-> artifact[t]]
  <2>1. Own(artifact[t])
    BY <1>3 DEF PutMac, StoresOwn
  <2>2. tag \in Macs /\ tag.key = process /\ Own(tag.of)
    BY <2>1 DEF StoreTypes, Macs
  <2>3. sidecar' = tag
    BY <1>3 DEF PutMac
  <2> HIDE DEF tag
  <2>4. StoreTypes'
    BY <1>3, <2>2, <2>3 DEF PutMac, Goto, StoreTypes, Files, States
  <2>5. SidecarVouches'
    BY <1>3, <2>2, <2>3 DEF PutMac, SidecarVouches, StoreTypes
  <2>6. StoresOwn'
    BY <1>3 DEF PutMac, Goto, StoreTypes, StoresOwn
  <2>7. ReadIsCurrent' /\ MappingSafe' /\ LoadedOwn'
    BY <1>3 DEF PutMac, Goto, StoreTypes, ReadIsCurrent, MappingSafe, LoadedOwn, EntrySafe
  <2> QED BY <2>4, <2>5, <2>6, <2>7
<1>4. ASSUME PutFails(t) PROVE StoreInv'
  <2>1. StoreTypes'
    BY <1>4 DEF PutFails, Goto, StoreTypes, Files, States
  <2>2. SidecarVouches' /\ StoresOwn' /\ LoadedOwn'
    BY <1>4 DEF PutFails, Goto, StoreTypes, SidecarVouches, StoresOwn, LoadedOwn
  <2>3. ReadIsCurrent' /\ MappingSafe'
    BY <1>4 DEF PutFails, Goto, StoreTypes, ReadIsCurrent, MappingSafe, EntrySafe
  <2> QED BY <2>1, <2>2, <2>3
<1> QED BY <1>1, <1>2, <1>3, <1>4

\* A lookup: what it accepts was verified under the current key, so it is the
\* process's, and so is the entry it names.
LEMMA LookupKeepsInv ==
  ASSUME StoreInv, NEW t \in Threads,
         \/ LookupMiss(t) \/ LookupStat(t) \/ ReadEntry(t) \/ Accept(t) \/ Refuse(t)
         \/ RefuseEntry(t) \/ RefuseMac(t) \/ Map(t)
  PROVE  StoreInv'
<1> USE AbsentIsNoFile DEF StoreInv, Own
<1>1. CASE LookupMiss(t)
  BY <1>1 DEF LookupMiss, Answer, StoreTypes, SidecarVouches, StoresOwn, ReadIsCurrent,
              MappingSafe, LoadedOwn, EntrySafe
<1>2. CASE LookupStat(t)
  <2>1. StoreTypes'
    BY <1>2 DEF LookupStat, Answer, Goto, StoreTypes, Files, States
  <2>2. SidecarVouches' /\ StoresOwn' /\ LoadedOwn'
    BY <1>2 DEF LookupStat, Goto, StoreTypes, SidecarVouches, StoresOwn, LoadedOwn
  <2>3. ReadIsCurrent' /\ MappingSafe'
    BY <1>2 DEF LookupStat, Goto, StoreTypes, ReadIsCurrent, MappingSafe, EntrySafe
  <2> QED BY <2>1, <2>2, <2>3
<1>3. CASE ReadEntry(t)
  <2>1. StoreTypes'
    BY <1>3 DEF ReadEntry, Goto, StoreTypes, States
  <2>2. SidecarVouches' /\ StoresOwn' /\ LoadedOwn'
    BY <1>3 DEF ReadEntry, Goto, StoreTypes, SidecarVouches, StoresOwn, LoadedOwn
  <2>3. ReadIsCurrent'
    BY <1>3 DEF ReadEntry, Goto, StoreTypes, ReadIsCurrent, EntrySafe
  <2>4. MappingSafe'
    BY <1>3 DEF ReadEntry, Goto, StoreTypes, MappingSafe, EntrySafe
  <2> QED BY <2>1, <2>2, <2>3, <2>4
<1>4. CASE Accept(t)
  <2>1. sidecar # Absent /\ sidecar.key = process /\ sidecar.of = bytes[t]
    <3>1. sidecar = [key |-> process, of |-> bytes[t]]
      BY <1>4 DEF Accept, VerifyMac
    <3>2. bytes[t] \in Artifacts
      BY <1>4 DEF Accept, ReadIsCurrent, StoreTypes, Files
    <3>3. sidecar \in Macs
      BY <3>1, <3>2 DEF Macs, StoreTypes
    <3> QED BY <3>1, <3>3
  <2>2. Own(bytes[t]) /\ (replaced[t] \/ EntrySafe)
    BY <1>4, <2>1 DEF Accept, SidecarVouches, ReadIsCurrent, EntrySafe
  <2>3. StoreTypes'
    BY <1>4 DEF Accept, Answer, Goto, StoreTypes, States
  <2>4. SidecarVouches' /\ StoresOwn' /\ LoadedOwn'
    BY <1>4 DEF Accept, Goto, StoreTypes, SidecarVouches, StoresOwn, LoadedOwn
  <2>5. ReadIsCurrent' /\ MappingSafe'
    BY <1>4, <2>2 DEF Accept, Goto, StoreTypes, ReadIsCurrent, MappingSafe, EntrySafe
  <2> QED BY <2>3, <2>4, <2>5
<1>5. CASE Refuse(t)
  <2>1. StoreTypes'
    BY <1>5 DEF Refuse, Goto, StoreTypes, States, Files
  <2>2. SidecarVouches' /\ StoresOwn' /\ LoadedOwn'
    BY <1>5 DEF Refuse, Goto, StoreTypes, SidecarVouches, StoresOwn, LoadedOwn
  <2>3. ReadIsCurrent' /\ MappingSafe'
    BY <1>5 DEF Refuse, Goto, StoreTypes, ReadIsCurrent, MappingSafe, EntrySafe
  <2> QED BY <2>1, <2>2, <2>3
<1>6. CASE RefuseEntry(t)
  <2>1. StoreTypes' /\ EntrySafe'
    BY <1>6 DEF RefuseEntry, Goto, StoreTypes, Files, States, EntrySafe
  <2>2. SidecarVouches' /\ StoresOwn' /\ LoadedOwn'
    BY <1>6 DEF RefuseEntry, Goto, StoreTypes, SidecarVouches, StoresOwn, LoadedOwn
  <2>3. ReadIsCurrent' /\ MappingSafe'
    BY <1>6, <2>1 DEF RefuseEntry, Goto, StoreTypes, ReadIsCurrent, MappingSafe
  <2> QED BY <2>1, <2>2, <2>3
<1>7. CASE RefuseMac(t)
  <2>1. StoreTypes'
    BY <1>7 DEF RefuseMac, Answer, Goto, StoreTypes, Files, States
  <2>2. SidecarVouches' /\ StoresOwn' /\ LoadedOwn'
    BY <1>7 DEF RefuseMac, Goto, StoreTypes, SidecarVouches, StoresOwn, LoadedOwn
  <2>3. ReadIsCurrent' /\ MappingSafe'
    BY <1>7 DEF RefuseMac, Goto, StoreTypes, ReadIsCurrent, MappingSafe, EntrySafe
  <2> QED BY <2>1, <2>2, <2>3
<1>8. CASE Map(t)
  <2>1. replaced[t] \/ EntrySafe
    BY <1>8 DEF Map, MappingSafe
  <2>2. StoreTypes'
    BY <1>8 DEF Map, Goto, StoreTypes, Files, States
  <2>3. LoadedOwn'
    BY <1>8, <2>1 DEF Map, StoreTypes, LoadedOwn, EntrySafe
  <2>4. SidecarVouches' /\ StoresOwn'
    BY <1>8 DEF Map, Goto, StoreTypes, SidecarVouches, StoresOwn
  <2>5. ReadIsCurrent' /\ MappingSafe'
    BY <1>8 DEF Map, Goto, StoreTypes, ReadIsCurrent, MappingSafe, EntrySafe
  <2> QED BY <2>2, <2>3, <2>4, <2>5
<1> QED BY <1>1, <1>2, <1>3, <1>4, <1>5, <1>6, <1>7, <1>8

\* The sweep only removes files.
LEMMA SweepKeepsInv == StoreInv /\ (SweepList \/ SweepEntry \/ SweepMac) => StoreInv'
<1> SUFFICES ASSUME StoreInv, SweepList \/ SweepEntry \/ SweepMac PROVE StoreInv'
  OBVIOUS
<1> USE DEF StoreInv, Own
<1>1. StoreTypes'
  BY DEF SweepList, SweepEntry, SweepMac, StoreTypes, Files
<1>2. SidecarVouches' /\ StoresOwn' /\ LoadedOwn'
  BY DEF SweepList, SweepEntry, SweepMac, SidecarVouches, StoresOwn, LoadedOwn
<1>3. ReadIsCurrent' /\ MappingSafe'
  BY DEF SweepList, SweepEntry, SweepMac, ReadIsCurrent, MappingSafe, EntrySafe
<1> QED BY <1>1, <1>2, <1>3

\* A restart forgets what the threads knew, and the new key vouches for
\* nothing that is on the volume.
LEMMA RestartKeepsInv == StoreInv /\ Restart => StoreInv'
<1> SUFFICES ASSUME StoreInv, Restart PROVE StoreInv'
  OBVIOUS
<1> USE BoundPositive DEF StoreInv
<1>1. StoreTypes'
  BY DEF Restart, StoreTypes, Files, States
<1>2. SidecarVouches'
  <2>1. sidecar' # Absent => sidecar'.key < process'
    BY DEF Restart, StoreTypes, SidecarVouches, Macs
  <2>2. sidecar' # Absent => sidecar'.key \in Nat /\ process' \in Nat
    BY DEF Restart, StoreTypes, Macs
  <2> QED BY <2>1, <2>2 DEF SidecarVouches
<1>3. StoresOwn' /\ ReadIsCurrent' /\ MappingSafe' /\ LoadedOwn'
  BY DEF Restart, StoresOwn, ReadIsCurrent, MappingSafe, LoadedOwn
<1> QED BY <1>1, <1>2, <1>3

\* Somebody else writes the entry or the sidecar: a lookup that has read the
\* entry is marked, and no tag under the process's key vouches for more.
LEMMA OthersKeepInv ==
  ASSUME StoreInv,
         \/ \E x \in OthersFiles : OthersEntry(x)
         \/ \E m \in OthersMacs : OthersMac(m)
  PROVE  StoreInv'
<1> USE AbsentIsNoFile, BoundPositive DEF StoreInv, Own
<1>1. ASSUME NEW x \in OthersFiles, OthersEntry(x) PROVE StoreInv'
  <2>1. StoreTypes'
    BY <1>1 DEF OthersEntry, OthersFiles, StoreTypes, Files
  <2>2. SidecarVouches' /\ StoresOwn'
    BY <1>1 DEF OthersEntry, SidecarVouches, StoresOwn
  <2>3. \A t \in Threads : replaced'[t] <=> replaced[t] \/ at[t] \in {"checking", "mapping"}
    BY <1>1 DEF OthersEntry
  <2>4. ReadIsCurrent' /\ MappingSafe' /\ LoadedOwn'
    BY <1>1, <2>3 DEF OthersEntry, ReadIsCurrent, MappingSafe, LoadedOwn
  <2> QED BY <2>1, <2>2, <2>4
<1>2. ASSUME NEW m \in OthersMacs, OthersMac(m) PROVE StoreInv'
  <2>1. m \in Macs \union {Absent}
    BY DEF OthersMacs
  <2>2. StoreTypes'
    BY <1>2, <2>1 DEF OthersMac, StoreTypes
  <2>3. SidecarVouches'
    <3>1. m # Absent => m.of \in Artifacts /\ (m.key = 0 \/ (m.key = process /\ m.of.by = process /\ m.of.whole))
      BY DEF OthersMacs, Macs
    <3>2. process \in Nat /\ process > 0
      BY DEF StoreTypes
    <3> QED BY <1>2, <3>1, <3>2 DEF OthersMac, SidecarVouches
  <2>4. StoresOwn' /\ ReadIsCurrent' /\ MappingSafe' /\ LoadedOwn'
    BY <1>2 DEF OthersMac, StoresOwn, ReadIsCurrent, MappingSafe, LoadedOwn, EntrySafe
  <2> QED BY <2>2, <2>3, <2>4
<1> QED BY <1>1, <1>2

-----------------------------------------------------------------------------

\* Every step of the store keeps the invariant.
LEMMA StoreNextInv == StoreInv /\ [StoreNext]_storeVars => StoreInv'
<1> SUFFICES ASSUME StoreInv, [StoreNext]_storeVars PROVE StoreInv'
  OBVIOUS
<1>1. CASE \E t \in Threads :
             \/ \E v \in Versions : PutBegin(t, v)
             \/ PutEntry(t) \/ PutMac(t) \/ PutFails(t)
  BY <1>1, PutKeepsInv
<1>2. CASE \E t \in Threads :
             \/ LookupMiss(t) \/ LookupStat(t) \/ ReadEntry(t) \/ Accept(t) \/ Refuse(t)
             \/ RefuseEntry(t) \/ RefuseMac(t) \/ Map(t)
  BY <1>2, LookupKeepsInv
<1>3. CASE SweepList \/ SweepEntry \/ SweepMac
  BY <1>3, SweepKeepsInv
<1>4. CASE Restart
  BY <1>4, RestartKeepsInv
<1>5. CASE (\E x \in OthersFiles : OthersEntry(x)) \/ (\E m \in OthersMacs : OthersMac(m))
  BY <1>5, OthersKeepInv
<1>6. CASE UNCHANGED storeVars
  BY <1>6 DEF storeVars, StoreInv, StoreTypes, SidecarVouches, StoresOwn, ReadIsCurrent, MappingSafe,
              LoadedOwn, EntrySafe, Own
<1> QED BY <1>1, <1>2, <1>3, <1>4, <1>5, <1>6 DEF StoreNext, Step

\* The strengthening holds throughout.
THEOREM StoreInvariant == StoreSpec => []StoreInv
BY StoreInitInv, StoreNextInv, PTL DEF StoreSpec

\* Type correctness of the store, for any volume the process finds.
THEOREM StoreTypesHold == StoreSpec => []StoreTypes
<1>1. StoreInv => StoreTypes
  BY DEF StoreInv
<1> QED BY StoreInvariant, <1>1, PTL

\* path vouches only for whole artifacts this process compiled, whatever
\* anybody writes to the volume, and deserialize_file maps only such ones
\* unless somebody else wrote the entry after path had read it: no put,
\* refusal, sweep or crash in between makes a difference.
THEOREM OnlyOwnIsMapped == StoreSpec => []OnlyOwnMapped
<1>1. StoreInv => OnlyOwnMapped
  BY DEF StoreInv, MappingSafe, LoadedOwn, Own, OnlyOwnMapped
<1> QED BY StoreInvariant, <1>1, PTL

-----------------------------------------------------------------------------
(* The verifier *)

\* The refresher's state: nothing it has is newer than what is published,
\* what it is about to set is no older than what is in use.
RefreshInOrder ==
  /\ root <= published /\ cache <= published /\ fetched <= published
  /\ refresher = "fallback" => root = 0
  /\ refresher = "setting" => root <= fetched

RootWasUsed == root \in inUse

\* What a request under way has established.
UnderWay ==
  \A r \in Requests :
    /\ pc[r] = "examining" => digest[r] \in Digests /\ left[r] \subseteq BundlesOf[digest[r]]
    /\ pc[r] = "remembering" => /\ digest[r] \in Digests
                                /\ under[r] \in inUse
                                /\ AcceptedUnder(digest[r], {under[r]})

\* The inductive invariant.
Inv == TypeOK /\ RefreshInOrder /\ RootWasUsed /\ UnderWay /\ AdmittedWasVouched /\ MemoForgotten

-----------------------------------------------------------------------------

\* A digest accepted under some roots is accepted under more of them.
LEMMA AcceptedUnderMore ==
  ASSUME NEW d, NEW S, NEW T, S \subseteq T, AcceptedUnder(d, S)
  PROVE  AcceptedUnder(d, T)
BY DEF AcceptedUnder

\* Roots are numbers, and the one in use is a root.
LEMMA RootsNatural ==
  ASSUME TypeOK
  PROVE  root \in Roots /\ published \in Nat /\ cache \in Nat /\ fetched \in Nat /\ root \in Nat
<1>1. Roots \subseteq Nat /\ 0 \in Roots /\ Usable \subseteq Roots
  BY RootsKnown DEF Roots
<1>2. root \in Usable \union {0} /\ published \in Roots /\ cache \in Roots /\ fetched \in Roots
  BY DEF TypeOK
<1> QED BY <1>1, <1>2

\* Nothing is remembered, fetched or in use at first.
LEMMA InitInv == Init => Inv
<1> SUFFICES ASSUME Init PROVE Inv
  OBVIOUS
<1>1. TypeOK
  BY RootsKnown DEF Init, TypeOK, Roots
<1>2. RefreshInOrder /\ RootWasUsed
  BY DEF Init, RefreshInOrder, RootWasUsed
<1>3. UnderWay /\ AdmittedWasVouched /\ MemoForgotten
  BY DEF Init, UnderWay, AdmittedWasVouched, MemoForgotten
<1> QED BY <1>1, <1>2, <1>3 DEF Inv

\* Steps of the repository and the refresher that leave the verifier alone.
LEMMA RefreshKeepsInv ==
  ASSUME Inv,
         Rotate \/ Refresh \/ FetchOk \/ FetchFails \/ Cached \/ CacheFails \/ SetFails
  PROVE  Inv'
<1> USE RootsKnown DEF Inv
<1>0. published \in Nat /\ cache \in Nat /\ fetched \in Nat /\ root \in Nat
  BY RootsNatural
<1>1. TypeOK'
  <2>1. CASE Rotate
    BY <2>1 DEF Rotate, TypeOK, Roots, request
  <2>2. CASE Refresh \/ FetchFails \/ CacheFails
    BY <2>2 DEF Refresh, FetchFails, CacheFails, TypeOK, request
  <2>3. CASE FetchOk \/ Cached
    BY <2>3 DEF FetchOk, Cached, TypeOK, request
  <2>4. CASE SetFails
    BY <2>4 DEF SetFails, TypeOK, Roots, request
  <2> QED BY <2>1, <2>2, <2>3, <2>4
<1>2. RefreshInOrder'
  <2>1. CASE Rotate
    BY <2>1, <1>0 DEF Rotate, RefreshInOrder
  <2>2. CASE Refresh \/ FetchFails \/ CacheFails
    BY <2>2, <1>0 DEF Refresh, FetchFails, CacheFails, RefreshInOrder
  <2>3. CASE FetchOk \/ Cached \/ SetFails
    BY <2>3, <1>0 DEF FetchOk, Cached, SetFails, RefreshInOrder
  <2> QED BY <2>1, <2>2, <2>3
<1>3. UNCHANGED <<root, inUse, verified, digest, left, under, late, verdict, pc>>
  BY DEF Rotate, Refresh, FetchOk, FetchFails, Cached, CacheFails, SetFails, request
<1>4. RootWasUsed' /\ UnderWay' /\ AdmittedWasVouched' /\ MemoForgotten'
  BY <1>3 DEF RootWasUsed, UnderWay, AdmittedWasVouched, MemoForgotten, AcceptedUnder
<1> QED BY <1>1, <1>2, <1>4

\* Another root forgets the memory; the same one changes nothing.
LEMMA SetTrustedRootKeepsInv ==
  ASSUME Inv, SetTrustedRoot
  PROVE  Inv'
<1> USE RootsKnown DEF Inv
<1>1. TypeOK'
  BY DEF TypeOK, Roots, SetTrustedRoot
<1>2. RefreshInOrder'
  BY RootsNatural DEF TypeOK, Roots, RefreshInOrder, SetTrustedRoot
<1>3. RootWasUsed'
  BY DEF RootWasUsed, SetTrustedRoot
<1>4. inUse \subseteq inUse'
  BY DEF SetTrustedRoot
<1>5. UnderWay'
  BY <1>4 DEF UnderWay, SetTrustedRoot, AcceptedUnder
<1>6. AdmittedWasVouched'
  <2>1. \A d \in verified' : AcceptedUnder(d, inUse')
    BY <1>4, AcceptedUnderMore DEF AdmittedWasVouched, SetTrustedRoot
  <2>2. \A r \in Requests : verdict'[r] = "ok" => AcceptedUnder(digest'[r], inUse')
    BY <1>4, AcceptedUnderMore DEF AdmittedWasVouched, SetTrustedRoot
  <2> QED BY <2>1, <2>2 DEF AdmittedWasVouched, AcceptedUnder
<1>7. MemoForgotten'
  BY DEF MemoForgotten, SetTrustedRoot, AcceptedUnder
<1> QED BY <1>1, <1>2, <1>3, <1>5, <1>6, <1>7

\* A request starts, and examines one bundle after another.
LEMMA ExamineKeepsInv ==
  ASSUME Inv, NEW r \in Requests,
         \/ \E d \in Digests : VerifyRemembered(r, d) \/ Verify(r, d)
         \/ \E b \in Bundles : ExamineNext(r, b)
         \/ RefuseModule(r)
  PROVE  Inv'
<1> USE DEF Inv
<1>1. ASSUME NEW d \in Digests, VerifyRemembered(r, d) PROVE Inv'
  <2>1. TypeOK' /\ RefreshInOrder' /\ RootWasUsed' /\ MemoForgotten'
    BY <1>1 DEF VerifyRemembered, TypeOK, RefreshInOrder, RootWasUsed, MemoForgotten, AcceptedUnder
  <2>2. UnderWay'
    BY <1>1 DEF VerifyRemembered, TypeOK, UnderWay, AcceptedUnder
  <2>3. AdmittedWasVouched'
    BY <1>1 DEF VerifyRemembered, TypeOK, AdmittedWasVouched, AcceptedUnder
  <2> QED BY <2>1, <2>2, <2>3
<1>2. ASSUME NEW d \in Digests, Verify(r, d) PROVE Inv'
  <2>1. TypeOK' /\ RefreshInOrder' /\ RootWasUsed' /\ MemoForgotten'
    BY <1>2, BundlesKnown DEF Verify, TypeOK, RefreshInOrder, RootWasUsed, MemoForgotten, AcceptedUnder
  <2>2. UnderWay'
    BY <1>2, BundlesKnown DEF Verify, TypeOK, UnderWay, AcceptedUnder
  <2>3. AdmittedWasVouched'
    BY <1>2 DEF Verify, TypeOK, AdmittedWasVouched, AcceptedUnder
  <2> QED BY <2>1, <2>2, <2>3
<1>3. ASSUME NEW b \in Bundles, ExamineNext(r, b) PROVE Inv'
  <2>1. TypeOK' /\ RefreshInOrder' /\ RootWasUsed' /\ MemoForgotten'
    BY <1>3 DEF ExamineNext, TypeOK, RefreshInOrder, RootWasUsed, MemoForgotten, AcceptedUnder
  <2>2. UnderWay'
    BY <1>3 DEF ExamineNext, TypeOK, UnderWay, AcceptedUnder
  <2>3. AdmittedWasVouched'
    BY <1>3 DEF ExamineNext, TypeOK, AdmittedWasVouched, AcceptedUnder
  <2> QED BY <2>1, <2>2, <2>3
<1>4. CASE RefuseModule(r)
  <2>1. TypeOK' /\ RefreshInOrder' /\ RootWasUsed' /\ MemoForgotten'
    BY <1>4 DEF RefuseModule, TypeOK, RefreshInOrder, RootWasUsed, MemoForgotten, AcceptedUnder
  <2>2. UnderWay'
    BY <1>4 DEF RefuseModule, TypeOK, UnderWay, AcceptedUnder
  <2>3. AdmittedWasVouched'
    BY <1>4 DEF RefuseModule, TypeOK, AdmittedWasVouched, AcceptedUnder
  <2> QED BY <2>1, <2>2, <2>3
<1> QED BY <1>1, <1>2, <1>3, <1>4

\* An accepted bundle vouches for the digest under the root in use.
LEMMA ExamineOkKeepsInv ==
  ASSUME Inv, NEW r \in Requests, NEW b \in Bundles, ExamineOk(r, b)
  PROVE  Inv'
<1> USE DEF Inv
<1>1. TypeOK'
  BY RootsNatural DEF ExamineOk, TypeOK
<1>2. RefreshInOrder' /\ RootWasUsed' /\ MemoForgotten'
  BY DEF ExamineOk, RefreshInOrder, RootWasUsed, MemoForgotten, AcceptedUnder
<1>3. AdmittedWasVouched'
  BY DEF ExamineOk, AdmittedWasVouched, AcceptedUnder
<1>4. UnderWay'
  <2>1. digest[r] \in Digests /\ AcceptedUnder(digest[r], {root})
    BY DEF ExamineOk, Accepted, UnderWay, AcceptedUnder
  <2> SUFFICES ASSUME NEW q \in Requests
               PROVE  /\ pc'[q] = "examining" => digest'[q] \in Digests /\ left'[q] \subseteq BundlesOf[digest'[q]]
                      /\ pc'[q] = "remembering" => /\ digest'[q] \in Digests
                                                   /\ under'[q] \in inUse'
                                                   /\ AcceptedUnder(digest'[q], {under'[q]})
    BY DEF UnderWay, AcceptedUnder
  <2>2. CASE q = r
    BY <2>1, <2>2 DEF ExamineOk, TypeOK, RootWasUsed
  <2>3. CASE q # r
    BY <2>3 DEF ExamineOk, TypeOK, UnderWay
  <2> QED BY <2>2, <2>3
<1> QED BY <1>1, <1>2, <1>3, <1>4

\* A digest is remembered under the root in use, or as late.
LEMMA RememberKeepsInv ==
  ASSUME Inv, NEW r \in Requests, Remember(r)
  PROVE  Inv'
<1> USE DEF Inv
<1>1. /\ digest[r] \in Digests
      /\ AcceptedUnder(digest[r], {under[r]})
      /\ AcceptedUnder(digest[r], inUse)
  BY AcceptedUnderMore DEF Remember, UnderWay
<1>2. TypeOK'
  BY <1>1, RootsKnown DEF Remember, TypeOK, Roots, request
<1>3. RefreshInOrder' /\ RootWasUsed'
  BY DEF Remember, RefreshInOrder, RootWasUsed
<1>4. UnderWay'
  BY DEF Remember, TypeOK, UnderWay, AcceptedUnder
<1>5. AdmittedWasVouched'
  <2>1. \A d \in verified' : AcceptedUnder(d, inUse)
    BY <1>1 DEF Remember, AdmittedWasVouched
  <2>2. \A q \in Requests : verdict'[q] = "ok" => AcceptedUnder(digest[q], inUse)
    BY <1>1 DEF Remember, TypeOK, AdmittedWasVouched
  <2> QED BY <2>1, <2>2 DEF Remember, AdmittedWasVouched, AcceptedUnder
<1>6. MemoForgotten'
  <2>1. \A d \in verified' \ late' : AcceptedUnder(d, {root})
    BY <1>1 DEF Remember, MemoForgotten
  <2> QED BY <2>1 DEF Remember, MemoForgotten, AcceptedUnder
<1> QED BY <1>2, <1>3, <1>4, <1>5, <1>6

-----------------------------------------------------------------------------

\* Every step keeps the invariant.
LEMMA NextInv == Inv /\ [Next]_vars => Inv'
<1> SUFFICES ASSUME Inv, [Next]_vars PROVE Inv'
  OBVIOUS
<1>1. CASE Rotate \/ Refresh \/ RefresherStep
  BY <1>1, RefreshKeepsInv, SetTrustedRootKeepsInv DEF RefresherStep
<1>2. ASSUME NEW r \in Requests,
             \/ \E d \in Digests : VerifyRemembered(r, d) \/ Verify(r, d)
             \/ \E b \in Bundles : ExamineNext(r, b)
             \/ RefuseModule(r)
      PROVE  Inv'
  BY <1>2, ExamineKeepsInv
<1>3. ASSUME NEW r \in Requests, NEW b \in Bundles, ExamineOk(r, b) PROVE Inv'
  BY <1>3, ExamineOkKeepsInv
<1>4. ASSUME NEW r \in Requests, Remember(r) PROVE Inv'
  BY <1>4, RememberKeepsInv
<1>5. CASE UNCHANGED vars
  BY <1>5 DEF vars, Inv, TypeOK, RefreshInOrder, RootWasUsed, UnderWay, AdmittedWasVouched,
              MemoForgotten, AcceptedUnder
<1> QED BY <1>1, <1>2, <1>3, <1>4, <1>5 DEF Next

\* The invariant is one.
THEOREM VerifierInvariant == Spec => []Inv
BY InitInv, NextInv, PTL DEF Spec

\* Every variable keeps its type: the root in use is one this runtime parses.
THEOREM VerifierTypes == Spec => []TypeOK
<1>1. Inv => TypeOK
  BY DEF Inv
<1> QED BY <1>1, VerifierInvariant, PTL

\* verify: a module is remembered or admitted only if one of its bundles was
\* accepted under a root this process had in use.
THEOREM OnlyVouchedAdmitted == Spec => []AdmittedWasVouched
<1>1. Inv => AdmittedWasVouched
  BY DEF Inv
<1> QED BY <1>1, VerifierInvariant, PTL

\* set_trusted_root: what was remembered before a root was replaced is
\* forgotten, so that all but the late ones is vouched for by the root in use.
THEOREM ReplacedRootForgets == Spec => []MemoForgotten
<1>1. Inv => MemoForgotten
  BY DEF Inv
<1> QED BY <1>1, VerifierInvariant, PTL

\* Refresher: through failed fetches and fallbacks the root in use is never
\* replaced by an older one, nor by none.
THEOREM RootNeverOlder == Spec => RootForward
<1>1. Inv /\ [Next]_vars => [root' >= root]_vars
  <2> SUFFICES ASSUME Inv, Next PROVE root' >= root
    BY DEF vars
  <2>0. root \in Nat
    BY RootsNatural DEF Inv
  <2>1. CASE SetTrustedRoot
    BY <2>1, RootsNatural DEF SetTrustedRoot, Inv, RefreshInOrder
  <2>2. CASE ~SetTrustedRoot
    <3>1. root' = root
      BY <2>2 DEF Next, Rotate, Refresh, RefresherStep, FetchOk, FetchFails, Cached, CacheFails,
                  SetFails, VerifyRemembered, Verify, ExamineOk, ExamineNext, Remember, RefuseModule
    <3> QED BY <2>0, <3>1
  <2> QED BY <2>1, <2>2
<1> QED BY <1>1, VerifierInvariant, PTL DEF Spec, RootForward
=============================================================================
