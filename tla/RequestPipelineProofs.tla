----------------------- MODULE RequestPipelineProofs -----------------------
(***************************************************************************)
(* The request handler over the resolver's shared caches, for any number   *)
(* of requests, sources, manifests and layers.                             *)
(*                                                                         *)
(* A stamp remembered for the module file is worth what it was when it was *)
(* taken: the digest that goes with it is of content the file held then or *)
(* later, for everyone who has seen the same stamp.  A key of the manifest *)
(* cache means one manifest, although two kinds of digest are its keys.    *)
(***************************************************************************)
EXTENDS RequestPipeline, TLAPS

-----------------------------------------------------------------------------
(* The manifest caches *)

\* The manifest of an artifact.
LayerBytes(a) == IF LayerOf[a] = None THEN Empty ELSE LayerOf[a]

\* The bytes a key stands for.
Means(k, bytes) ==
  IF k \in DOMAIN LayerOf THEN bytes = LayerBytes(k)
  ELSE bytes \in Manifests /\ Own[bytes] = k

CacheTrue(map) ==
  /\ map \in [Keys -> Manifests \union {Empty, None}]
  /\ \A k \in Keys : map[k] # None => Means(k, map[k])

\* What a key stands for is a manifest or none.
LEMMA MeansTyped ==
  ASSUME NEW k, NEW bytes, Means(k, bytes)
  PROVE  bytes \in Manifests \union {Empty}
BY DigestsApart DEF Means, LayerBytes

\* remember keeps the cache true, whether or not it starts over.
LEMMA RememberTrue ==
  ASSUME NEW map, CacheTrue(map), NEW key \in Keys, NEW bytes, Means(key, bytes)
  PROVE  CacheTrue(Remember(map, key, bytes))
<1>1. bytes \in Manifests \union {Empty}
  BY MeansTyped
<1>2. PICK full \in BOOLEAN :
        Remember(map, key, bytes) = [k \in Keys |-> IF k = key THEN bytes ELSE IF full THEN None ELSE map[k]]
  <2> DEFINE f == Cardinality({k \in Keys : map[k] # None}) >= MaxCached
  <2>1. Remember(map, key, bytes) = [k \in Keys |-> IF k = key THEN bytes ELSE IF f THEN None ELSE map[k]]
    BY DEF Remember
  <2> HIDE DEF f
  <2>2. CASE f
    <3>1. Remember(map, key, bytes) = [k \in Keys |-> IF k = key THEN bytes ELSE IF TRUE THEN None ELSE map[k]]
      BY <2>1, <2>2
    <3> QED BY <3>1
  <2>3. CASE ~f
    <3>1. Remember(map, key, bytes) = [k \in Keys |-> IF k = key THEN bytes ELSE IF FALSE THEN None ELSE map[k]]
      BY <2>1, <2>3
    <3> QED BY <3>1
  <2> QED BY <2>2, <2>3
<1> QED BY <1>1, <1>2 DEF CacheTrue

\* What a read of a manifest by key returns and leaves.
ReadTrue(k, r) == Means(k, r.bytes) /\ CacheTrue(r.memory) /\ r.disk \subseteq Keys

\* manifest_by_digest, from any tier.
LEMMA ByDigestTrue ==
  ASSUME CacheTrue(cached), stored \subseteq Keys, NEW d \in Keys, NEW r \in ByDigest(d)
  PROVE  ReadTrue(d, r)
<1>1. CASE cached[d] # None
  <2>1. r = Read(cached[d], cached, stored)
    BY <1>1 DEF ByDigest
  <2>2. r.bytes = cached[d] /\ r.memory = cached /\ r.disk = stored
    BY <2>1 DEF Read
  <2> QED BY <1>1, <2>2 DEF ReadTrue, CacheTrue
<1>2. CASE cached[d] = None
  <2>1. PICK m \in Manifests, disk \in {stored, stored \union {d}} :
          Own[m] = d /\ r = Read(m, Remember(cached, d, m), disk)
    BY <1>2 DEF ByDigest, Verified
  <2>2. Means(d, m)
    BY <2>1, DigestsApart DEF Means
  <2>3. r.bytes = m /\ r.memory = Remember(cached, d, m) /\ r.disk = disk
    BY <2>1 DEF Read
  <2>4. CacheTrue(r.memory)
    BY <2>2, <2>3, RememberTrue
  <2> QED BY <2>1, <2>2, <2>3, <2>4 DEF ReadTrue
<1> QED BY <1>1, <1>2

\* An artifact's, by its own digest or its layer's.
LEMMA OfArtifactTrue ==
  ASSUME CacheTrue(cached), stored \subseteq Keys, NEW a \in DOMAIN LayerOf, NEW r \in OfArtifact(a)
  PROVE  ReadTrue(a, r)
<1>0. a \in Keys
  BY DEF Keys
<1>1. CASE cached[a] # None
  <2>1. r = Read(cached[a], cached, stored)
    BY <1>1 DEF OfArtifact
  <2>2. r.bytes = cached[a] /\ r.memory = cached /\ r.disk = stored
    BY <2>1 DEF Read
  <2> QED BY <1>0, <1>1, <2>2 DEF ReadTrue, CacheTrue
<1>2. CASE cached[a] = None /\ LayerOf[a] = None
  <2>1. r = Read(Empty, Remember(cached, a, Empty), stored)
    BY <1>2 DEF OfArtifact
  <2>2. r.bytes = Empty /\ r.memory = Remember(cached, a, Empty) /\ r.disk = stored
    BY <2>1 DEF Read
  <2>3. Means(a, Empty)
    BY <1>2 DEF Means, LayerBytes
  <2>4. CacheTrue(r.memory)
    BY <1>0, <2>2, <2>3, RememberTrue
  <2> QED BY <2>2, <2>3, <2>4 DEF ReadTrue
<1>3. CASE cached[a] = None /\ LayerOf[a] # None
  <2>1. LayerOf[a] \in Manifests /\ Own[LayerOf[a]] \in Keys /\ Own[LayerOf[a]] \notin DOMAIN LayerOf
    BY <1>3, DigestsApart DEF Keys
  <2>2. PICK b \in ByDigest(Own[LayerOf[a]]) : r = [b EXCEPT !.memory = Remember(b.memory, a, b.bytes)]
    BY <1>3 DEF OfArtifact
  <2>3. ReadTrue(Own[LayerOf[a]], b)
    BY <2>1, ByDigestTrue
  <2>4. b.bytes = LayerOf[a]
    BY <2>1, <2>3, DigestsApart DEF ReadTrue, Means
  <2>5. Means(a, b.bytes)
    BY <1>3, <2>4 DEF Means, LayerBytes
  <2>6. CacheTrue(Remember(b.memory, a, b.bytes))
    BY <1>0, <2>3, <2>5, RememberTrue DEF ReadTrue
  <2>7. \E x, y, z : b = Read(x, y, z)
    BY <2>2 DEF ByDigest
  <2>8. r.bytes = b.bytes /\ r.memory = Remember(b.memory, a, b.bytes) /\ r.disk = b.disk
    BY <2>2, <2>7 DEF Read
  <2> QED BY <2>3, <2>5, <2>6, <2>8 DEF ReadTrue
<1> QED BY <1>1, <1>2, <1>3

\* What a read for a source returns and leaves.
LEMMA ReadsTrue ==
  ASSUME CacheTrue(cached), stored \subseteq Keys, NEW s \in Sources, NEW r \in Reads(s)
  PROVE  /\ CacheTrue(r.memory) /\ r.disk \subseteq Keys
         /\ r.bytes \in Manifests \union {Empty}
         /\ s.manifest # None /\ s.type = "OCI" => r.bytes = LayerBytes(s.digest)
         /\ s.manifest # None /\ s.type = "HTTP" => Means(s.manifest, r.bytes)
<1>1. CASE s.manifest = None
  <2>1. r = Read(Empty, cached, stored)
    BY <1>1 DEF Reads
  <2> QED BY <1>1, <2>1 DEF Read
<1>2. CASE s.manifest # None /\ s.type = "OCI"
  <2>1. s.manifest = s.digest /\ s.digest \in DOMAIN LayerOf /\ r \in OfArtifact(s.digest)
    BY <1>2, SourcesNamed DEF Reads
  <2>2. ReadTrue(s.digest, r)
    BY <2>1, OfArtifactTrue
  <2> QED BY <1>2, <2>1, <2>2, MeansTyped DEF ReadTrue, Means
<1>3. CASE s.manifest # None /\ s.type = "HTTP"
  <2>1. s.manifest \in Keys /\ r \in ByDigest(s.manifest)
    BY <1>3 DEF Reads, Keys
  <2>2. ReadTrue(s.manifest, r)
    BY <2>1, ByDigestTrue
  <2> QED BY <1>3, <2>2, MeansTyped DEF ReadTrue
<1>4. CASE s.manifest # None /\ s.type \notin {"OCI", "HTTP"}
  <2>1. PICK m \in Manifests : r = Read(m, cached, stored)
    BY <1>4 DEF Reads
  <2> QED BY <1>4, <2>1 DEF Read
<1> QED BY <1>1, <1>2, <1>3, <1>4

-----------------------------------------------------------------------------
(* The invariant *)

Decided == {"decide", "run", "judge"}
Loaded == Decided \union {"manifest"}
Resolved == Loaded \union {"verify", "load"}

Types ==
  /\ file \in [content : Contents, stamp : 0..MaxStamp]
  /\ files \in {None} \union [stamp : 0..MaxStamp, digest : Contents \union {Torn}]
  /\ modules \subseteq Contents \union {s.digest : s \in Sources}
  /\ stored \subseteq Keys
  /\ src \in [Requests -> Sources \union {None}]
  /\ statted \in [Requests -> 0..MaxStamp \union {None}]
  /\ digest \in [Requests -> {s.digest : s \in Sources} \union Contents \union {Torn, None}]
  /\ manifest \in [Requests -> Manifests \union {Empty, None}]
  /\ since \in [Requests -> SUBSET Contents]
  /\ used \subseteq 0..MaxStamp /\ file.stamp \in used
  /\ restamped \in BOOLEAN
  /\ pc \in [Requests -> Outcomes \union Steps]
  /\ scenario \in Scenarios
  /\ answer = [q \in Requests |-> answer[q]]

\* A request under way has a source; its manifest is read after its module is
\* loaded, and a pinned module's digest is the source's.
Flow ==
  \A q \in Requests :
    /\ src[q] = None <=> pc[q] \in Outcomes
    /\ manifest[q] # None => pc[q] \in Decided
    /\ pc[q] \in {"stamp", "hashed"} => statted[q] \in used /\ src[q].type = "Path"
    /\ pc[q] = "hashed" => digest[q] \in Contents \union {Torn}
    /\ pc[q] \in Resolved /\ src[q].type # "Path" => digest[q] = src[q].digest
    /\ pc[q] \in Resolved /\ src[q].type = "Path" => digest[q] \in Contents \union {Torn}

\* What the file holds is among what a request has seen it hold, and no torn
\* digest gets past fetch.
Seen ==
  \A q \in Requests :
    /\ src[q] # None => file.content \in since[q]
    /\ pc[q] \in Loaded => digest[q] # Torn

\* While no stamp comes back, a digest goes with a stamp the file still has
\* only if it is the file's, and with a stamp a request has seen only if the
\* file held it since, or it is torn.
StampsTrue ==
  ~restamped =>
    /\ files # None => files.stamp \in used
    /\ files # None /\ files.stamp = file.stamp => files.digest = file.content
    /\ \A q \in Requests :
         pc[q] = "hashed" /\ statted[q] = file.stamp => digest[q] = file.content
    /\ \A q \in Requests :
         pc[q] = "stamp" /\ files # None /\ files.stamp = statted[q] =>
           files.digest \in since[q] \union {Torn}
    /\ \A q, p \in Requests :
         pc[q] = "stamp" /\ pc[p] = "hashed" /\ statted[p] = statted[q] =>
           digest[p] \in since[q] \union {Torn}
    /\ \A q \in Requests :
         (pc[q] = "hashed" \/ pc[q] \in Resolved) /\ src[q].type = "Path" =>
           digest[q] \in since[q] \union {Torn}

\* A response passed on has passed the fences.
PassedFences == \A q \in Requests : pc[q] = "ok" /\ answer[q] # None => Fenced(answer[q])

\* The inductive invariant.
Inv ==
  /\ Types /\ Flow /\ Seen /\ StampsTrue /\ CacheTrue(cached)
  /\ ManifestPinned /\ PassedFences

\* The facts about a scenario's requests and sources.
LEMMA ScenarioKnown ==
  ASSUME Types
  PROVE  RequestsOf[scenario.kind] \subseteq Requests /\ SourcesOf[scenario.kind] \subseteq Sources
BY ScenariosKnown DEF Types

\* Nothing is remembered or under way at first.
LEMMA InitInv == Init => Inv
<1> SUFFICES ASSUME Init PROVE Inv
  OBVIOUS
<1> USE DEF Init, ResolverInit
<1>1. Types
  <2>1. file \in [content : Contents, stamp : 0..MaxStamp]
    <3>1. PICK c \in Contents : file = [content |-> c, stamp |-> 0]
      OBVIOUS
    <3> QED BY <3>1, BoundsNatural
  <2>2. answer = [q \in Requests |-> answer[q]]
    OBVIOUS
  <2>3. used = {0} /\ file.stamp = 0 /\ 0 \in 0..MaxStamp
    BY BoundsNatural
  <2> QED BY <2>1, <2>2, <2>3 DEF Types, Outcomes
<1>2. Flow /\ Seen
  BY DEF Flow, Seen, Outcomes, Decided, Loaded, Resolved
<1>3. StampsTrue
  BY DEF StampsTrue, Outcomes, Resolved, Loaded, Decided
<1>4. CacheTrue(cached)
  BY DEF CacheTrue
<1>5. ManifestPinned /\ PassedFences
  BY DEF ManifestPinned, PassedFences
<1> QED BY <1>1, <1>2, <1>3, <1>4, <1>5 DEF Inv

\* The fences see the scenario and a response, which only the steps of the
\* run change.
LEMMA KeepsFences ==
  ASSUME Inv, NEW q \in Requests, scenario' = scenario,
         \/ answer' = answer
         \/ answer' = [answer EXCEPT ![q] = None]
         \/ pc'[q] # "ok" /\ \E a : answer' = [answer EXCEPT ![q] = a],
         \A x \in Requests : x # q => pc'[x] = pc[x],
         pc'[q] = "ok" => answer' = answer /\ (pc[q] = "ok" \/ Fenced(answer[q]))
  PROVE  PassedFences'
<1> SUFFICES ASSUME NEW x \in Requests, pc'[x] = "ok", answer'[x] # None
             PROVE  Fenced(answer[x])'
  BY DEF PassedFences
<1>1. answer'[x] = answer[x]
  <2>1. \A a : [answer EXCEPT ![q] = a][x] = IF x = q THEN a ELSE answer[x]
    BY DEF Inv, Types
  <2> QED BY <2>1
<1>2. Fenced(answer[x])
  BY <1>1 DEF Inv, PassedFences
<1> QED BY <1>1, <1>2 DEF Fenced, Layers

\* The invariant but for the fences.
Core == Types /\ Flow /\ Seen /\ StampsTrue /\ CacheTrue(cached) /\ ManifestPinned

-----------------------------------------------------------------------------
(* Requests end, begin and go on *)

\* A request is over; the stamp may be forgotten with it.
LEMMA FinishKeepsCore ==
  ASSUME Inv, NEW q \in Requests, NEW o \in Outcomes, Finish(q, o),
         files' \in {files, None}, answer' = [x \in Requests |-> answer'[x]],
         UNCHANGED <<file, modules, cached, stored, used, restamped, scenario>>
  PROVE  Core'
<1> USE DEF Inv, Finish, Goto
<1>1. Types'
  BY DEF Types
<1>2. Flow'
  BY DEF Types, Flow, Outcomes, Decided, Loaded, Resolved
<1>3. Seen'
  BY DEF Types, Seen, Outcomes, Decided, Loaded
<1>4. StampsTrue'
  BY DEF Types, StampsTrue, Outcomes, Decided, Loaded, Resolved
<1>5. ManifestPinned'
  BY DEF Types, ManifestPinned
<1> QED BY <1>1, <1>2, <1>3, <1>4, <1>5 DEF Core, CacheTrue

\* One that ends without its guest's answer.
LEMMA EndKeepsInv ==
  ASSUME Inv, NEW q \in Requests, NEW o \in Outcomes \ {"ok"}, End(q, o), UNCHANGED resolver
  PROVE  Inv'
<1>1. /\ Finish(q, o) /\ files' = files
      /\ answer' = [answer EXCEPT ![q] = None]
      /\ UNCHANGED <<file, modules, cached, stored, used, restamped, scenario>>
  BY DEF End, resolver, caches, stamps
<1>2. answer' = [x \in Requests |-> answer'[x]]
  BY <1>1 DEF Inv, Types
<1>3. Core'
  BY <1>1, <1>2, FinishKeepsCore
<1>4. pc'[q] # "ok" /\ \A x \in Requests : x # q => pc'[x] = pc[x]
  BY <1>1 DEF Inv, Types, Finish, Goto
<1>5. PassedFences'
  BY <1>1, <1>4, KeepsFences
<1> QED BY <1>3, <1>5 DEF Core, Inv

\* A source is admitted.
LEMMA BeginKeepsInv ==
  ASSUME Inv, NEW q \in Requests, NEW s \in Sources, Begin(q, s)
  PROVE  Inv'
<1> USE DEF Inv
<1>1. /\ pc[q] \in Outcomes
      /\ src' = [src EXCEPT ![q] = s] /\ since' = [since EXCEPT ![q] = {file.content}]
      /\ pc' = [pc EXCEPT ![q] = "resolve"] /\ answer' = [answer EXCEPT ![q] = None]
      /\ UNCHANGED <<file, files, modules, cached, stored, used, restamped, statted, digest, manifest, scenario>>
  BY DEF Begin, Goto, resolver, caches, stamps
<1>2. s # None /\ manifest[q] = None
  BY <1>1, ContentsDistinct DEF Flow, Outcomes, Decided
<1>3. Types'
  BY <1>1 DEF Types, Steps
<1>4. Flow'
  BY <1>1, <1>2 DEF Types, Flow, Outcomes, Decided, Loaded, Resolved
<1>5. Seen'
  BY <1>1 DEF Types, Seen, Decided, Loaded
<1>6. StampsTrue'
  BY <1>1 DEF Types, StampsTrue, Decided, Loaded, Resolved
<1>7. ManifestPinned'
  BY <1>1, <1>2 DEF Types, ManifestPinned
<1>8. PassedFences'
  <2>1. pc'[q] # "ok" /\ \A x \in Requests : x # q => pc'[x] = pc[x]
    BY <1>1 DEF Types
  <2> QED BY <1>1, <2>1, KeepsFences
<1> QED BY <1>1, <1>3, <1>4, <1>5, <1>6, <1>7, <1>8 DEF CacheTrue

\* A gate lets a request through; before the manifest no digest is torn.
LEMMA GateKeepsInv ==
  ASSUME Inv, NEW q \in Requests, NEW p,
         \/ pc[q] = "verify" /\ p = "load"
         \/ pc[q] = "load" /\ p = "manifest"
         \/ pc[q] = "decide" /\ p = "run"
         \/ pc[q] = "run" /\ p = "judge",
         pc' = [pc EXCEPT ![q] = p],
         p = "manifest" => digest[q] # Torn,
         modules' \subseteq Contents \union {s.digest : s \in Sources},
         answer' = answer \/ \E a : answer' = [answer EXCEPT ![q] = a],
         UNCHANGED <<file, files, cached, stored, used, restamped, resolution, scenario>>
  PROVE  Inv'
<1> USE DEF Inv
<1>1. UNCHANGED <<src, statted, digest, manifest, since>>
  BY DEF resolution
<1>2. /\ pc[q] \in Resolved /\ p \in Resolved /\ p \in Steps /\ pc[q] \notin Outcomes /\ p \notin Outcomes
      /\ pc[q] \in Decided => p \in Decided
      /\ p \in Loaded => pc[q] \in Loaded \/ p = "manifest"
      /\ p \notin {"stamp", "hashed"} /\ pc[q] \notin {"stamp", "hashed"} /\ p # "ok"
  BY DEF Resolved, Loaded, Decided, Steps, Outcomes
<1>3. Types'
  BY <1>1, <1>2 DEF Types
<1>4. Flow'
  BY <1>1, <1>2 DEF Types, Flow
<1>5. Seen'
  BY <1>1, <1>2 DEF Types, Seen
<1>6. StampsTrue'
  BY <1>1, <1>2 DEF Types, StampsTrue
<1>7. ManifestPinned'
  BY <1>1 DEF Types, ManifestPinned
<1>8. PassedFences'
  <2>1. pc'[q] # "ok" /\ \A x \in Requests : x # q => pc'[x] = pc[x]
    BY <1>2 DEF Types
  <2> QED BY <2>1, KeepsFences
<1> QED BY <1>3, <1>4, <1>5, <1>6, <1>7, <1>8 DEF CacheTrue

-----------------------------------------------------------------------------
(* The module file *)

\* A rewrite: what it puts there everyone under way has seen from then on.
LEMMA RewriteKeepsInv ==
  ASSUME Inv, NEW c \in Contents, NEW n \in 0..MaxStamp, Rewrite(c, n), UNCHANGED pipeline
  PROVE  Inv'
<1> USE DEF Inv
<1>1. /\ UNCHANGED <<files, modules, cached, stored, pc, src, statted, digest, manifest, scenario, answer>>
      /\ since' = [q \in Requests |-> IF src[q] = None THEN {} ELSE since[q] \union {c}]
  BY DEF Rewrite, caches, pipeline
<1>2. /\ file' \in [content : Contents, stamp : 0..MaxStamp]
      /\ file'.content = c /\ file'.stamp = n
      /\ used' = used \union {n} /\ used' \subseteq 0..MaxStamp
      /\ restamped' \in BOOLEAN
      /\ ~restamped' => ~restamped /\ n \notin used
  BY DEF Rewrite, Types
<1>3. Types'
  BY <1>1, <1>2 DEF Types
<1>4. Flow'
  BY <1>1, <1>2 DEF Types, Flow
<1>5. Seen'
  BY <1>1, <1>2 DEF Types, Seen
<1>6. StampsTrue'
  <2> SUFFICES ASSUME ~restamped' PROVE StampsTrue'
    BY DEF StampsTrue
  <2>1. ~restamped /\ n \notin used
    BY <1>2
  <2>2. \A q \in Requests : pc[q] \in {"stamp", "hashed"} => statted[q] # file'.stamp
    BY <1>2, <2>1 DEF Flow
  <2>3. \A q \in Requests : pc[q] \in {"stamp", "hashed"} \/ pc[q] \in Resolved => since[q] \subseteq since'[q]
    BY <1>1 DEF Flow, Outcomes, Resolved, Loaded, Decided
  <2>4. files # None => files.stamp \in used' /\ files.stamp # file'.stamp
    BY <1>2, <2>1 DEF StampsTrue
  <2> QED BY <1>1, <1>2, <2>1, <2>2, <2>3, <2>4 DEF StampsTrue, Types
<1>7. ManifestPinned'
  BY <1>1 DEF ManifestPinned
<1>8. PassedFences'
  BY <1>1 DEF PassedFences, Fenced, Layers
<1> QED BY <1>1, <1>3, <1>4, <1>5, <1>6, <1>7, <1>8 DEF CacheTrue

\* A module is dropped from the cache.
LEMMA EvictKeepsInv ==
  ASSUME Inv, NEW d, Evict(d), UNCHANGED pipeline
  PROVE  Inv'
<1> USE DEF Inv
<1>1. /\ UNCHANGED <<file, files, cached, stored, pc, src, statted, digest, manifest, since, used, restamped, scenario, answer>>
      /\ modules' \subseteq modules
  BY DEF Evict, resolution, stamps, pipeline
<1>2. Types' /\ Flow' /\ Seen'
  BY <1>1 DEF Types, Flow, Seen
<1>3. StampsTrue'
  BY <1>1 DEF StampsTrue
<1>4. ManifestPinned' /\ PassedFences'
  BY <1>1 DEF ManifestPinned, PassedFences, Fenced, Layers
<1> QED BY <1>1, <1>2, <1>3, <1>4 DEF CacheTrue

-----------------------------------------------------------------------------
(* resolve *)

\* The steps of resolve leave the fences and the manifests alone.
LEMMA ResolveKeepsRest ==
  ASSUME Inv, NEW q \in Requests, Resolve(q)
  PROVE  /\ PassedFences' /\ ManifestPinned' /\ CacheTrue(cached)'
         /\ UNCHANGED <<file, modules, cached, stored, src, manifest, since, used, restamped, scenario, answer>>
         /\ pc[q] \in {"resolve", "stamp", "hashed"} /\ src[q] \in Sources
<1> USE DEF Inv
<1>1. /\ UNCHANGED <<file, modules, cached, stored, src, manifest, since, used, restamped, scenario, answer>>
      /\ pc[q] \in {"resolve", "stamp", "hashed"}
      /\ \E p \in {"verify", "stamp", "hashed"} : pc' = [pc EXCEPT ![q] = p]
  BY DEF Resolve, ResolvePinned, Stat, StampHit, Hash, InsertStamp, Goto, caches, resolution, stamps, pipeline
<1>2. src[q] \in Sources
  BY <1>1 DEF Types, Flow, Outcomes
<1>3. pc'[q] # "ok" /\ \A x \in Requests : x # q => pc'[x] = pc[x]
  BY <1>1 DEF Types
<1>4. PassedFences'
  BY <1>1, <1>3, KeepsFences
<1>5. ManifestPinned'
  BY <1>1 DEF ManifestPinned
<1> QED BY <1>1, <1>2, <1>4, <1>5 DEF CacheTrue

\* A pinned source's digest, or a look at the file's stamp: a digest that
\* goes with the stamp the file has now is the file's.
LEMMA LookKeepsInv ==
  ASSUME Inv, NEW q \in Requests, Resolve(q), ResolvePinned(q) \/ Stat(q)
  PROVE  Inv'
<1> USE ResolveKeepsRest DEF Inv
<1>1. CASE ResolvePinned(q)
  <2>1. /\ pc[q] = "resolve" /\ src[q].type # "Path" /\ digest' = [digest EXCEPT ![q] = src[q].digest]
        /\ pc' = [pc EXCEPT ![q] = "verify"] /\ UNCHANGED <<files, statted>>
    BY <1>1 DEF ResolvePinned, Goto, caches
  <2>2. Types'
    BY <2>1 DEF Types, Steps
  <2>3. Flow' /\ Seen'
    BY <2>1 DEF Types, Flow, Seen, Outcomes, Decided, Loaded, Resolved
  <2>4. StampsTrue'
    BY <2>1 DEF Types, StampsTrue, Decided, Loaded, Resolved
  <2> QED BY <2>2, <2>3, <2>4
<1>2. CASE Stat(q)
  <2>1. /\ pc[q] = "resolve" /\ src[q].type = "Path" /\ statted' = [statted EXCEPT ![q] = file.stamp]
        /\ pc' = [pc EXCEPT ![q] = "stamp"] /\ UNCHANGED <<files, digest>>
    BY <1>2 DEF Stat, Goto, caches
  <2>2. file.stamp \in used /\ file.stamp \in 0..MaxStamp
    BY DEF Types
  <2>3. Types'
    BY <2>1, <2>2 DEF Types, Steps
  <2>4. Flow' /\ Seen'
    BY <2>1, <2>2 DEF Types, Flow, Seen, Outcomes, Decided, Loaded, Resolved
  <2>5. file.content \in since[q]
    BY ContentsDistinct DEF Seen
  <2>6. StampsTrue'
    BY <2>1, <2>5 DEF Types, StampsTrue, Decided, Loaded, Resolved
  <2> QED BY <2>3, <2>4, <2>6
<1> QED BY <1>1, <1>2

\* The digest remembered with the stamp that was seen.
LEMMA HitKeepsInv ==
  ASSUME Inv, NEW q \in Requests, Resolve(q), StampHit(q)
  PROVE  Inv'
<1> USE ResolveKeepsRest DEF Inv
<1>1. /\ pc[q] = "stamp" /\ files # None /\ files.stamp = statted[q]
      /\ digest' = [digest EXCEPT ![q] = files.digest]
      /\ pc' = [pc EXCEPT ![q] = "verify"] /\ UNCHANGED <<files, statted>>
  BY DEF StampHit, Remembered, Goto, caches
<1>2. files.digest \in Contents \union {Torn}
  BY <1>1 DEF Types
<1>3. Types'
  BY <1>1, <1>2 DEF Types, Steps
<1>4. Flow' /\ Seen'
  BY <1>1, <1>2 DEF Types, Flow, Seen, Outcomes, Decided, Loaded, Resolved
<1>5. StampsTrue'
  BY <1>1 DEF Types, StampsTrue, Decided, Loaded, Resolved
<1> QED BY <1>3, <1>4, <1>5

\* The file is hashed: what it holds everyone under way has seen it hold.
LEMMA HashKeepsInv ==
  ASSUME Inv, NEW q \in Requests, Resolve(q), Hash(q)
  PROVE  Inv'
<1> USE ResolveKeepsRest DEF Inv
<1>1. PICK d \in {file.content, Torn} :
        /\ pc[q] = "stamp"
        /\ digest' = [digest EXCEPT ![q] = d]
        /\ d = file.content \/ file.stamp # statted[q] \/ restamped
        /\ pc' = [pc EXCEPT ![q] = "hashed"] /\ UNCHANGED <<files, statted>>
  BY DEF Hash, Goto, caches
<1>2. d \in Contents \union {Torn}
  BY DEF Types
<1>3. Types'
  BY <1>1, <1>2 DEF Types, Steps
<1>4. Flow' /\ Seen'
  BY <1>1, <1>2 DEF Types, Flow, Seen, Outcomes, Decided, Loaded, Resolved
<1>5. \A x \in Requests : pc[x] = "stamp" => d \in since[x] \union {Torn}
  BY DEF Seen, Flow, Outcomes
<1>6. StampsTrue'
  BY <1>1, <1>5 DEF Types, StampsTrue, Decided, Loaded, Resolved
<1> QED BY <1>3, <1>4, <1>6

\* The digest is remembered with the stamp seen before the file was read.
LEMMA InsertKeepsInv ==
  ASSUME Inv, NEW q \in Requests, Resolve(q), InsertStamp(q)
  PROVE  Inv'
<1> USE ResolveKeepsRest DEF Inv
<1>1. /\ pc[q] = "hashed" /\ files' = [stamp |-> statted[q], digest |-> digest[q]]
      /\ pc' = [pc EXCEPT ![q] = "verify"] /\ UNCHANGED <<digest, statted>>
  BY DEF InsertStamp, Goto, resolution
<1>2. /\ digest[q] \in Contents \union {Torn} /\ statted[q] \in used /\ used \subseteq 0..MaxStamp
      /\ src[q].type = "Path"
  BY <1>1 DEF Flow, Types
<1>3. statted[q] \in 0..MaxStamp
  BY <1>2
<1>4. Types'
  BY <1>1, <1>2, <1>3 DEF Types, Steps
<1>5. Flow' /\ Seen'
  BY <1>1, <1>2 DEF Types, Flow, Seen, Outcomes, Decided, Loaded, Resolved
<1>6. files'.stamp = statted[q] /\ files'.digest = digest[q]
  BY <1>1
<1>7. StampsTrue'
  BY <1>1, <1>2, <1>6 DEF Types, StampsTrue, Decided, Loaded, Resolved
<1> QED BY <1>4, <1>5, <1>7

-----------------------------------------------------------------------------
(* The module, its manifest, and the run *)

\* No torn digest is in the module cache, so none gets past it.
LEMMA LoadKeepsInv ==
  ASSUME Inv, NEW q \in Requests, LoadHit(q) \/ Fetch(q), UNCHANGED pipeline
  PROVE  Inv'
<1> USE DEF Inv
<1>1. /\ pc[q] = "load" /\ pc' = [pc EXCEPT ![q] = "manifest"]
      /\ UNCHANGED <<file, files, cached, stored, used, restamped, resolution, scenario>>
      /\ answer' = answer
  BY DEF LoadHit, Fetch, Goto, caches, stamps, pipeline
<1>2. src[q] \in Sources
  BY <1>1 DEF Flow, Types, Outcomes
<1>3. digest[q] \in Contents \union {s.digest : s \in Sources}
  <2>1. CASE LoadHit(q)
    BY <2>1 DEF LoadHit, Types
  <2>2. CASE Fetch(q) /\ src[q].type = "Path"
    BY <2>2 DEF Fetch, Types
  <2>3. CASE Fetch(q) /\ src[q].type # "Path"
    BY <1>1, <1>2, <2>3 DEF Flow, Resolved, Loaded, Decided
  <2> QED BY <2>1, <2>2, <2>3
<1>4. digest[q] # Torn
  BY <1>3, ContentsDistinct
<1>5. modules' \subseteq Contents \union {s.digest : s \in Sources}
  BY <1>3 DEF LoadHit, Fetch, caches, Types
<1> HIDE DEF Inv
<1>6. PICK p \in {"manifest"} : pc' = [pc EXCEPT ![q] = p]
  BY <1>1
<1> QED BY <1>1, <1>4, <1>5, <1>6, GateKeepsInv

\* The file has changed under its digest.
LEMMA ChangedKeepsInv ==
  ASSUME Inv, NEW q \in Requests, FetchChanged(q), UNCHANGED pipeline
  PROVE  Inv'
<1>1. /\ Finish(q, "error") /\ files' = None /\ answer' = answer
      /\ UNCHANGED <<file, modules, cached, stored, used, restamped, scenario>>
  BY DEF FetchChanged, stamps, pipeline
<1>2. answer' = [x \in Requests |-> answer'[x]]
  BY <1>1 DEF Inv, Types
<1>3. Core'
  BY <1>1, <1>2, FinishKeepsCore DEF Outcomes
<1>4. pc'[q] # "ok" /\ \A x \in Requests : x # q => pc'[x] = pc[x]
  BY <1>1 DEF Inv, Types, Finish, Goto
<1>5. PassedFences'
  BY <1>1, <1>4, KeepsFences
<1> QED BY <1>3, <1>5 DEF Core, Inv

\* The manifest is read from a tier or downloaded.
LEMMA ManifestKeepsInv ==
  ASSUME Inv, NEW q \in Requests, ReadManifest(q), UNCHANGED pipeline
  PROVE  Inv'
<1> USE DEF Inv
<1>1. PICK r \in Reads(src[q]) :
        /\ pc[q] = "manifest" /\ pc' = [pc EXCEPT ![q] = "decide"]
        /\ manifest' = [manifest EXCEPT ![q] = r.bytes] /\ cached' = r.memory /\ stored' = r.disk
        /\ UNCHANGED <<file, files, modules, src, statted, digest, since, used, restamped, scenario, answer>>
  BY DEF ReadManifest, Goto, stamps, pipeline
<1>2. src[q] \in Sources
  BY <1>1 DEF Flow, Types, Outcomes
<1>3. /\ CacheTrue(r.memory) /\ r.disk \subseteq Keys
      /\ r.bytes \in Manifests \union {Empty}
      /\ src[q].manifest # None /\ src[q].type = "OCI" => r.bytes = LayerBytes(src[q].digest)
      /\ src[q].manifest # None /\ src[q].type = "HTTP" => Means(src[q].manifest, r.bytes)
  BY <1>2, ReadsTrue DEF Types
<1>4. Types'
  BY <1>1, <1>3 DEF Types, Steps
<1>5. Flow' /\ Seen'
  BY <1>1 DEF Types, Flow, Seen, Outcomes, Decided, Loaded, Resolved
<1>6. StampsTrue'
  BY <1>1 DEF Types, StampsTrue, Decided, Loaded, Resolved
<1>7. ManifestPinned'
  BY <1>1, <1>3 DEF Types, ManifestPinned, LayerBytes, Means
<1>8. CacheTrue(cached)'
  <2>1. CacheTrue(cached')
    BY <1>1, <1>3
  <2> QED BY <2>1 DEF CacheTrue, Means, LayerBytes, Keys
<1>9. PassedFences'
  <2>1. pc'[q] # "ok" /\ \A x \in Requests : x # q => pc'[x] = pc[x]
    BY <1>1 DEF Types
  <2> QED BY <1>1, <2>1, KeepsFences
<1> QED BY <1>4, <1>5, <1>6, <1>7, <1>8, <1>9

\* A response passes the fences and is passed on.
LEMMA PassOnKeepsInv ==
  ASSUME Inv, NEW q \in Requests, PassOn(q)
  PROVE  Inv'
<1>1. /\ Finish(q, "ok") /\ Fenced(answer[q]) /\ answer' = answer
      /\ UNCHANGED <<file, files, modules, cached, stored, used, restamped, scenario>>
  BY DEF PassOn, resolver, caches, stamps, pipeline
<1>2. answer' = [x \in Requests |-> answer'[x]]
  BY <1>1 DEF Inv, Types
<1>3. Core'
  BY <1>1, <1>2, FinishKeepsCore DEF Outcomes
<1>4. \A x \in Requests : x # q => pc'[x] = pc[x]
  BY <1>1 DEF Inv, Types, Finish, Goto
<1>5. PassedFences'
  BY <1>1, <1>4, KeepsFences
<1> QED BY <1>3, <1>5 DEF Core, Inv

\* Every step of every request, and of the world around them.
LEMMA NextKeepsInv == Inv /\ [Next]_vars => Inv'
<1> SUFFICES ASSUME Inv, [Next]_vars PROVE Inv'
  OBVIOUS
<1>0. RequestsOf[scenario.kind] \subseteq Requests /\ SourcesOf[scenario.kind] \subseteq Sources
  BY ScenarioKnown DEF Inv
<1>1. CASE Environment
  BY <1>1, RewriteKeepsInv, EvictKeepsInv DEF Environment
<1>2. ASSUME NEW q \in Requests, Turned(q) \/ Skip(q) \/ Fail(q) \/ DecideAgainst(q) \/ RefuseResponse(q)
      PROVE  Inv'
  <2>1. UNCHANGED resolver /\ \E o \in {"refused", "skipped", "error"} : End(q, o)
    BY <1>2 DEF Turned, Skip, Fail, DecideAgainst, RefuseResponse
  <2> QED BY <2>1, EndKeepsInv DEF Outcomes
<1>3. ASSUME NEW q \in Requests, Resolve(q) PROVE Inv'
  BY <1>3, LookKeepsInv, HitKeepsInv, HashKeepsInv, InsertKeepsInv DEF Resolve
<1>4. ASSUME NEW q \in Requests, Load(q) PROVE Inv'
  BY <1>4, LoadKeepsInv, ChangedKeepsInv, ManifestKeepsInv DEF Load
<1>5. ASSUME NEW q \in Requests, Verify(q) \/ Decide(q) \/ \E rsp \in ResponsesOf[scenario.kind] : Run(q, rsp)
      PROVE  Inv'
  <2>1. /\ UNCHANGED <<file, files, cached, stored, used, restamped, resolution, scenario>> /\ modules' = modules
        /\ answer' = answer \/ \E a : answer' = [answer EXCEPT ![q] = a]
    BY <1>5 DEF Verify, Decide, Run, resolver, caches, stamps, pipeline
  <2>2. \/ pc[q] = "verify" /\ pc' = [pc EXCEPT ![q] = "load"]
        \/ pc[q] = "decide" /\ pc' = [pc EXCEPT ![q] = "run"]
        \/ pc[q] = "run" /\ pc' = [pc EXCEPT ![q] = "judge"]
    BY <1>5 DEF Verify, Decide, Run, Goto
  <2>3. modules' \subseteq Contents \union {s.digest : s \in Sources}
    BY <2>1 DEF Inv, Types
  <2> QED BY <2>1, <2>2, <2>3, GateKeepsInv
<1>6. ASSUME NEW q \in Requests, PassOn(q) PROVE Inv'
  BY <1>6, PassOnKeepsInv
<1>7. ASSUME NEW q \in Requests, NEW s \in Sources, Begin(q, s) PROVE Inv'
  BY <1>7, BeginKeepsInv
<1>8. CASE UNCHANGED vars
  <2>1. UNCHANGED <<file, files, modules, cached, stored, used, restamped, pc, src, statted, digest, manifest, since, scenario, answer>>
    BY <1>8 DEF vars, resolver, caches, resolution, stamps, pipeline
  <2>2. Types' /\ Flow' /\ Seen'
    BY <2>1 DEF Inv, Types, Flow, Seen
  <2>3. StampsTrue' /\ ManifestPinned'
    BY <2>1 DEF Inv, StampsTrue, ManifestPinned
  <2>4. PassedFences' /\ CacheTrue(cached)'
    BY <2>1 DEF Inv, PassedFences, Fenced, Layers, CacheTrue
  <2> QED BY <2>2, <2>3, <2>4 DEF Inv
<1> QED BY <1>0, <1>1, <1>2, <1>3, <1>4, <1>5, <1>6, <1>7, <1>8 DEF Next

-----------------------------------------------------------------------------
(* What holds of every request *)

\* The strengthening holds throughout.
THEOREM PipelineInvariant == Spec => []Inv
BY InitInv, NextKeepsInv, PTL DEF Spec

\* file_digest never answers with a module the file did not hold while the
\* request was served, whatever stamps and digests other requests left in
\* files between its stat, its look and its hash, as long as the file never
\* gets back a size and mtime it had.
THEOREM ModuleIsFresh == Spec => []FreshModule
<1>1. Inv => FreshModule
  <2> SUFFICES ASSUME Inv, NEW q \in Requests, src[q] # None, src[q].type = "Path", manifest[q] # None, ~restamped
               PROVE  digest[q] \in since[q]
    BY DEF FreshModule
  <2>1. pc[q] \in Decided /\ pc[q] \in Loaded /\ pc[q] \in Resolved
    BY DEF Inv, Flow, Decided, Loaded, Resolved
  <2>2. digest[q] # Torn
    BY <2>1 DEF Inv, Seen
  <2>3. digest[q] \in since[q] \union {Torn}
    BY <2>1 DEF Inv, StampsTrue
  <2> QED BY <2>2, <2>3
<1> QED BY PipelineInvariant, <1>1, PTL

\* manifest and manifest_by_digest give a module the manifest its source
\* pins, through every mix of hits, evictions and downloads of the two tiers.
THEOREM ManifestIsPinned == Spec => []ManifestPinned
<1>1. Inv => ManifestPinned
  BY DEF Inv
<1> QED BY PipelineInvariant, <1>1, PTL

\* A change between two sides of a resource is one changes reports.
LEMMA ResourceJudged ==
  ASSUME NEW layer, NEW b, NEW a, NEW k,
         \A c \in ComposedChanges(b, a) : c \in layer.compose
  PROVE  PermittedBy(layer, k, FALSE, Has(b, k), Has(a, k), b = a)
<1>1. CASE b # None /\ a # None /\ b.kind # a.kind
  BY <1>1 DEF PermittedBy, Has, ComposedChanges
<1>2. CASE ~(b # None /\ a # None /\ b.kind # a.kind) /\ b # a
  <2>1. PICK d \in {"add", "remove", "modify"} :
          /\ Diff(b, a) = {d}
          /\ d = "add" <=> b = None
          /\ d = "remove" <=> (b # None /\ a = None)
    BY <1>2 DEF Diff
  <2>2. Change(IF a # None THEN a.kind ELSE b.kind, d, FALSE) \in layer.compose
    BY <1>2, <2>1 DEF ComposedChanges
  <2> QED BY <1>2, <2>1, <2>2 DEF PermittedBy, Has
<1>3. CASE b = a
  BY <1>3 DEF PermittedBy, Has
<1> QED BY <1>1, <1>2, <1>3

\* What is returned to the caller asks to read and changes only what both
\* layers permit: changes and requirements miss no way a state can differ.
THEOREM AppliedWithinFences == Spec => []AppliedIsFenced
<1>1. Inv => AppliedIsFenced
  <2> SUFFICES ASSUME Inv, NEW q \in Requests, NEW l \in Layers, pc[q] = "ok", answer[q] # None
               PROVE  LET b == scenario.before
                          a == answer[q].desired
                          asks == answer[q].asks
                      IN  /\ l.scopesRequire => asks.resources \union asks.extraResources \subseteq l.require
                          /\ l.scopesCompose /\ ~answer[q].fatal =>
                               /\ \A n \in DOMAIN b.resources, k \in Kinds(b) \union Kinds(a) :
                                    PermittedBy(l, k, FALSE, Has(b.resources[n], k), Has(a.resources[n], k),
                                                b.resources[n] = a.resources[n])
                               /\ PermittedBy(l, CompositeKind, TRUE, b.composite # None, a.composite # None,
                                              b.composite = a.composite)
    BY DEF AppliedIsFenced
  <2> DEFINE b == scenario.before
             a == answer[q].desired
             asks == answer[q].asks
  <2>1. Fenced(answer[q])
    BY DEF Inv, PassedFences
  <2>2. l.scopesRequire => asks.resources \union asks.extraResources \subseteq l.require
    BY <2>1 DEF Fenced, RequireFenced, AdmitRequire, RequireRefused, Requirements
  <2>3. ASSUME l.scopesCompose, ~answer[q].fatal
        PROVE  \A c \in Changes(b, a, CompositeKind) : c \in l.compose
    BY <2>1, <2>3 DEF Fenced, ComposeFenced, AdmitCompose, ComposeRefused
  <2>4. ASSUME l.scopesCompose, ~answer[q].fatal, NEW n \in DOMAIN b.resources, NEW k
        PROVE  PermittedBy(l, k, FALSE, Has(b.resources[n], k), Has(a.resources[n], k),
                           b.resources[n] = a.resources[n])
    <3>1. ComposedChanges(b.resources[n], a.resources[n]) \subseteq Changes(b, a, CompositeKind)
      BY DEF Changes
    <3>2. \A c \in ComposedChanges(b.resources[n], a.resources[n]) : c \in l.compose
      BY <2>3, <2>4, <3>1
    <3> QED BY <3>2, ResourceJudged
  <2>5. ASSUME l.scopesCompose, ~answer[q].fatal
        PROVE  PermittedBy(l, CompositeKind, TRUE, b.composite # None, a.composite # None, b.composite = a.composite)
    <3>1. \A d \in Diff(b.composite, a.composite) : Change(CompositeKind, d, TRUE) \in l.compose
      BY <2>3, <2>5 DEF Changes
    <3> HIDE DEF b, a
    <3> QED BY <3>1 DEF PermittedBy, Diff
  <2> QED BY <2>2, <2>4, <2>5
<1> QED BY PipelineInvariant, <1>1, PTL

-----------------------------------------------------------------------------
(* What the guest is given *)

\* A guest's request is the edit of the caller's for its manifest.
Forwarding ==
  /\ forward = [q \in Requests |-> forward[q]]
  /\ \A q \in Requests : pc[q] \in Decided => manifest[q] \in Manifests \union {Empty}
  /\ \A q \in Requests : forward[q] # None =>
       /\ pc[q] = "run"
       /\ Needs[manifest[q]] \subseteq Credentials
       /\ forward[q] = Forwarded(q, Needs[manifest[q]])

\* A step of one request that gives its guest nothing.
LEMMA StepKeepsForwarding ==
  ASSUME Types, Forwarding, NEW p \in Requests, NEW w,
         pc' = [pc EXCEPT ![p] = w], scenario' = scenario,
         \A x \in Requests \ {p} : src'[x] = src[x] /\ manifest'[x] = manifest[x],
         w \in Decided => manifest'[p] \in Manifests \union {Empty},
         forward' = [forward EXCEPT ![p] = None] \/ (forward' = forward /\ pc[p] # "run")
  PROVE  Forwarding'
<1>1. \A x \in Requests : pc'[x] = IF x = p THEN w ELSE pc[x]
  BY DEF Types
<1>2. forward' = [q \in Requests |-> forward'[q]]
  BY DEF Forwarding
<1>3. forward'[p] = None /\ \A x \in Requests \ {p} : forward'[x] = forward[x]
  BY DEF Forwarding
<1>4. \A x \in Requests : pc'[x] \in Decided => manifest'[x] \in Manifests \union {Empty}
  BY <1>1 DEF Forwarding
<1>5. ASSUME NEW x \in Requests, forward'[x] # None
      PROVE  /\ pc'[x] = "run" /\ Needs[manifest'[x]] \subseteq Credentials'
             /\ forward'[x] = Forwarded(x, Needs[manifest[x]])'
  <2>1. x # p /\ forward'[x] = forward[x]
    BY <1>3, <1>5
  <2>2. /\ pc[x] = "run" /\ Needs[manifest[x]] \subseteq Credentials
        /\ forward[x] = Forwarded(x, Needs[manifest[x]])
    BY <1>5, <2>1 DEF Forwarding
  <2> QED BY <1>1, <2>1, <2>2 DEF Forwarded, Credentials
<1> QED BY <1>2, <1>4, <1>5 DEF Forwarding

LEMMA NextKeepsForwarding == Inv /\ Forwarding /\ [Next]_vars => Forwarding'
<1> SUFFICES ASSUME Inv, Forwarding, [Next]_vars PROVE Forwarding'
  OBVIOUS
<1>0. RequestsOf[scenario.kind] \subseteq Requests /\ Types
  BY ScenarioKnown DEF Inv
<1>1. CASE Environment
  <2>1. UNCHANGED <<pc, src, manifest, scenario, forward>>
    BY <1>1 DEF Environment, Rewrite, Evict, pipeline, resolution
  <2> QED BY <2>1 DEF Forwarding, Forwarded, Credentials
<1>2. ASSUME NEW q \in Requests, Turned(q) \/ Skip(q) \/ Fail(q) \/ DecideAgainst(q) \/ RefuseResponse(q)
      PROVE  Forwarding'
  <2>1. PICK o \in {"refused", "skipped", "error"} : End(q, o)
    BY <1>2 DEF Turned, Skip, Fail, DecideAgainst, RefuseResponse
  <2>2. /\ pc' = [pc EXCEPT ![q] = o] /\ src' = [src EXCEPT ![q] = None]
        /\ manifest' = [manifest EXCEPT ![q] = None] /\ forward' = [forward EXCEPT ![q] = None]
        /\ scenario' = scenario
    BY <2>1 DEF End, Finish, Goto
  <2>3. \A x \in Requests \ {q} : src'[x] = src[x] /\ manifest'[x] = manifest[x]
    BY <1>0, <2>2 DEF Types
  <2>4. o \notin Decided
    BY DEF Decided
  <2> QED BY <1>0, <2>2, <2>3, <2>4, StepKeepsForwarding
<1>3. ASSUME NEW q \in Requests, Resolve(q) PROVE Forwarding'
  <2>1. PICK w \in {"verify", "stamp", "hashed"} : pc' = [pc EXCEPT ![q] = w]
    BY <1>3 DEF Resolve, ResolvePinned, Stat, StampHit, Hash, InsertStamp, Goto
  <2>2. pc[q] # "run" /\ UNCHANGED <<src, manifest, forward, scenario>>
    BY <1>3 DEF Resolve, ResolvePinned, Stat, StampHit, Hash, InsertStamp, resolution, pipeline
  <2>3. w \notin Decided
    BY DEF Decided
  <2> QED BY <1>0, <2>1, <2>2, <2>3, StepKeepsForwarding
<1>4. ASSUME NEW q \in Requests, LoadHit(q) \/ Fetch(q) \/ Verify(q), UNCHANGED pipeline PROVE Forwarding'
  <2>1. PICK w \in {"manifest", "load"} : pc' = [pc EXCEPT ![q] = w]
    BY <1>4 DEF LoadHit, Fetch, Verify, Goto
  <2>2. pc[q] # "run" /\ UNCHANGED <<src, manifest, forward, scenario>>
    BY <1>4 DEF LoadHit, Fetch, Verify, resolution, pipeline
  <2>3. w \notin Decided
    BY DEF Decided
  <2> QED BY <1>0, <2>1, <2>2, <2>3, StepKeepsForwarding
<1>5. ASSUME NEW q \in Requests, FetchChanged(q), UNCHANGED pipeline PROVE Forwarding'
  <2>1. /\ pc[q] = "load" /\ pc' = [pc EXCEPT ![q] = "error"] /\ src' = [src EXCEPT ![q] = None]
        /\ manifest' = [manifest EXCEPT ![q] = None] /\ forward' = forward /\ scenario' = scenario
    BY <1>5 DEF FetchChanged, Finish, Goto, pipeline
  <2>2. \A x \in Requests \ {q} : src'[x] = src[x] /\ manifest'[x] = manifest[x]
    BY <1>0, <2>1 DEF Types
  <2>3. "error" \notin Decided
    BY DEF Decided
  <2> QED BY <1>0, <2>1, <2>2, <2>3, StepKeepsForwarding
<1>6. ASSUME NEW q \in Requests, ReadManifest(q), UNCHANGED pipeline PROVE Forwarding'
  <2>1. PICK r \in Reads(src[q]) : manifest' = [manifest EXCEPT ![q] = r.bytes]
    BY <1>6 DEF ReadManifest
  <2>2. /\ pc[q] = "manifest" /\ pc' = [pc EXCEPT ![q] = "decide"]
        /\ src' = src /\ forward' = forward /\ scenario' = scenario
    BY <1>6 DEF ReadManifest, Goto, pipeline
  <2>3. src[q] \in Sources
    BY <2>2 DEF Inv, Types, Flow, Outcomes
  <2>4. r.bytes \in Manifests \union {Empty}
    BY <2>3, ReadsTrue DEF Inv, Types
  <2>5. manifest'[q] = r.bytes /\ \A x \in Requests \ {q} : manifest'[x] = manifest[x]
    BY <1>0, <2>1 DEF Types
  <2> QED BY <1>0, <2>2, <2>4, <2>5, StepKeepsForwarding
<1>7. ASSUME NEW q \in Requests, Decide(q) PROVE Forwarding'
  <2>1. /\ pc[q] = "decide" /\ pc' = [pc EXCEPT ![q] = "run"]
        /\ forward' = [forward EXCEPT ![q] = Forwarded(q, Needs[manifest[q]])]
        /\ Needs[manifest[q]] \subseteq Credentials
        /\ UNCHANGED <<src, manifest, scenario>>
    BY <1>7 DEF Decide, Available, Goto, resolution
  <2>2. \A x \in Requests : pc'[x] = IF x = q THEN "run" ELSE pc[x]
    BY <1>0, <2>1 DEF Types
  <2>3. \A x \in Requests : forward'[x] = IF x = q THEN Forwarded(q, Needs[manifest[q]]) ELSE forward[x]
    BY <2>1 DEF Forwarding
  <2>4. forward' = [x \in Requests |-> forward'[x]]
    BY <2>1 DEF Forwarding
  <2>5. \A x \in Requests : pc'[x] \in Decided => manifest'[x] \in Manifests \union {Empty}
    BY <2>1, <2>2 DEF Forwarding, Decided
  <2>6. \A x \in Requests : Forwarded(x, Needs[manifest[x]])' = Forwarded(x, Needs[manifest[x]])
    BY <2>1 DEF Forwarded, Credentials
  <2>7. \A x \in Requests : forward'[x] # None =>
          /\ pc'[x] = "run" /\ Needs[manifest'[x]] \subseteq Credentials'
          /\ forward'[x] = Forwarded(x, Needs[manifest[x]])'
    <3>1. Credentials' = Credentials
      BY <2>1 DEF Credentials
    <3> QED BY <2>1, <2>2, <2>3, <2>6, <3>1 DEF Forwarding
  <2> QED BY <2>4, <2>5, <2>7 DEF Forwarding
<1>8. ASSUME NEW q \in Requests, NEW rsp, Run(q, rsp) PROVE Forwarding'
  <2>1. /\ pc[q] = "run" /\ pc' = [pc EXCEPT ![q] = "judge"]
        /\ forward' = [forward EXCEPT ![q] = None] /\ UNCHANGED <<src, manifest, scenario>>
    BY <1>8 DEF Run, Goto, resolution
  <2>2. manifest'[q] \in Manifests \union {Empty}
    BY <2>1 DEF Forwarding, Decided
  <2> QED BY <1>0, <2>1, <2>2, StepKeepsForwarding
<1>9. ASSUME NEW q \in Requests, PassOn(q) PROVE Forwarding'
  <2>1. /\ pc[q] = "judge" /\ pc' = [pc EXCEPT ![q] = "ok"] /\ src' = [src EXCEPT ![q] = None]
        /\ manifest' = [manifest EXCEPT ![q] = None] /\ forward' = forward /\ scenario' = scenario
    BY <1>9 DEF PassOn, Finish, Goto, pipeline
  <2>2. \A x \in Requests \ {q} : src'[x] = src[x] /\ manifest'[x] = manifest[x]
    BY <1>0, <2>1 DEF Types
  <2>3. "ok" \notin Decided
    BY DEF Decided
  <2> QED BY <1>0, <2>1, <2>2, <2>3, StepKeepsForwarding
<1>10. ASSUME NEW q \in Requests, NEW s, Begin(q, s) PROVE Forwarding'
  <2>1. /\ pc[q] # "run" /\ pc' = [pc EXCEPT ![q] = "resolve"] /\ src' = [src EXCEPT ![q] = s]
        /\ UNCHANGED <<manifest, forward, scenario>>
    BY <1>10 DEF Begin, Goto, Outcomes
  <2>2. \A x \in Requests \ {q} : src'[x] = src[x] /\ manifest'[x] = manifest[x]
    BY <1>0, <2>1 DEF Types
  <2>3. "resolve" \notin Decided
    BY DEF Decided
  <2> QED BY <1>0, <2>1, <2>2, <2>3, StepKeepsForwarding
<1>11. CASE UNCHANGED vars
  <2>1. UNCHANGED <<pc, src, manifest, scenario, forward>>
    BY <1>11 DEF vars, resolution, pipeline
  <2> QED BY <2>1 DEF Forwarding, Forwarded, Credentials
<1>12. ASSUME NEW q \in Requests, Load(q) PROVE Forwarding'
  BY <1>4, <1>5, <1>6, <1>12 DEF Load
<1>13. ASSUME NEW q \in Requests, Verify(q) PROVE Forwarding'
  <2>1. UNCHANGED pipeline
    BY <1>13 DEF Verify
  <2> QED BY <1>4, <1>13, <2>1
<1> QED BY <1>0, <1>1, <1>2, <1>3, <1>7, <1>8, <1>9, <1>10, <1>11, <1>12, <1>13 DEF Next

\* Where the edit can read a key it is the key a decoder reads.
LEMMA SameKey ==
  ASSUME NEW entry
  PROVE  /\ MapEntryKey(entry) # None => MapEntryKey(entry) = DecodedKey(entry)
         /\ Skippable(entry) /\ DecodedKey(entry) # NoName => MapEntryKey(entry) = DecodedKey(entry)
BY DEF MapEntryKey, DecodedKey

\* retain_credentials, for every message whose credentials are map entries:
\* what a decoder reads of the edit is what was granted of what it reads of
\* the message.
LEMMA EditReads ==
  ASSUME NEW msg, NEW granted, None \notin granted, NoName \notin granted, Skippable(msg),
         \A i \in DOMAIN msg : msg[i].name = "credentials" => msg[i].wire = "len"
  PROVE  /\ DOMAIN DecodedCredentials(RetainCredentials(msg, granted)) \subseteq granted
         /\ Readable(msg) /\ granted \subseteq DecodedKeys(msg) =>
              DecodedCredentials(RetainCredentials(msg, granted)) = Restrict(DecodedCredentials(msg), granted)
         /\ Others(RetainCredentials(msg, granted)) = Others(msg)
<1> DEFINE C == {i \in DOMAIN msg : msg[i].name = "credentials"}
           K == {i \in DOMAIN msg : msg[i].name = "credentials" =>
                   msg[i].wire = "len" /\ MapEntryKey(msg[i].content) \in granted}
           key(i) == DecodedKey(msg[i].content)
<1>1. PICK edit : edit = RetainCredentials(msg, granted)
  OBVIOUS
<1>2. edit = [i \in K |-> msg[i]]
  BY <1>1 DEF RetainCredentials, Restrict
<1>3. DOMAIN edit = K /\ \A i \in K : edit[i] = msg[i]
  BY <1>2
<1>4. Named(msg, "credentials") = [i \in C |-> msg[i]]
  BY DEF Named, Restrict
<1>5. Named(edit, "credentials") = [i \in K \intersect C |-> msg[i]]
  <2>1. {i \in DOMAIN edit : edit[i].name = "credentials"} = K \intersect C
    BY <1>3
  <2>2. Named(edit, "credentials") = [i \in K \intersect C |-> edit[i]]
    BY <2>1 DEF Named, Restrict
  <2> QED BY <1>3, <2>2
<1>6. \A i \in K \intersect C : key(i) \in granted
  BY SameKey
<1>7. ASSUME Readable(msg), NEW i \in C, key(i) \in granted
      PROVE  i \in K
  <2>1. Skippable(msg[i].content)
    BY <1>4, <1>7 DEF Readable, Range
  <2> QED BY <1>7, <2>1, SameKey
<1>8. /\ DecodedKeys(msg) = {key(i) : i \in C}
      /\ DecodedKeys(edit) = {key(i) : i \in K \intersect C}
  BY <1>4, <1>5 DEF DecodedKeys, Range
<1>9. DOMAIN DecodedCredentials(edit) \subseteq granted
  BY <1>6, <1>8 DEF DecodedCredentials
<1>10. \A k : /\ EntriesOf(msg, k) = [i \in {j \in C : key(j) = k} |-> msg[i]]
              /\ EntriesOf(edit, k) = [i \in {j \in K \intersect C : key(j) = k} |-> msg[i]]
  <2> SUFFICES ASSUME NEW k
               PROVE  /\ EntriesOf(msg, k) = [i \in {j \in C : key(j) = k} |-> msg[i]]
                      /\ EntriesOf(edit, k) = [i \in {j \in K \intersect C : key(j) = k} |-> msg[i]]
    OBVIOUS
  <2> HIDE DEF C, K
  <2> QED BY <1>4, <1>5 DEF EntriesOf, Restrict
<1>11. ASSUME Readable(msg), granted \subseteq DecodedKeys(msg)
       PROVE  DecodedCredentials(edit) = Restrict(DecodedCredentials(msg), granted)
  <2>1. \A k \in granted : {j \in K \intersect C : key(j) = k} = {j \in C : key(j) = k}
    BY <1>7, <1>11
  <2>2. DecodedKeys(edit) = granted
    <3>1. DecodedKeys(edit) \subseteq granted
      BY <1>6, <1>8
    <3>2. \A k \in granted : \E j \in C : key(j) = k
      BY <1>8, <1>11
    <3>3. \A k \in granted : \E j \in K \intersect C : key(j) = k
      BY <2>1, <3>2
    <3> QED BY <1>8, <3>1, <3>3
  <2>3. \A k \in granted : EntriesOf(edit, k) = EntriesOf(msg, k)
    BY <1>10, <2>1
  <2> HIDE DEF C, K
  <2>4. \A k \in granted : DecodedCredentials(msg)[k] = DecodedValue(Final(EntriesOf(msg, k)).content)
    BY <1>11 DEF DecodedCredentials
  <2> QED BY <2>2, <2>3, <2>4 DEF DecodedCredentials, Restrict
<1>12. Others(edit) = Others(msg)
  <2>1. {i \in DOMAIN edit : edit[i].name # "credentials"} = {i \in DOMAIN msg : msg[i].name # "credentials"}
    BY <1>3
  <2>2. \A i \in {j \in DOMAIN msg : msg[j].name # "credentials"} : edit[i] = msg[i]
    BY <1>3
  <2> QED BY <2>1, <2>2 DEF Others, Restrict
<1> QED BY <1>1, <1>9, <1>11, <1>12

\* What a decoder reads of a whole message the caller is granted all of.
LEMMA WholeReads ==
  ASSUME NEW msg, NEW granted, DecodedKeys(msg) \subseteq granted, granted \subseteq DecodedKeys(msg)
  PROVE  /\ DOMAIN DecodedCredentials(msg) \subseteq granted
         /\ DecodedCredentials(msg) = Restrict(DecodedCredentials(msg), granted)
BY DEF DecodedCredentials, Restrict

\* A guest reads the step credentials its manifest requires, as the caller
\* sent them, and no other, whatever else is in the message and whatever
\* other requests do.
THEOREM GuestsReadGranted == Spec => []GuestReadsGranted
<1>1. Init => Forwarding
  BY DEF Init, Forwarding, Outcomes, Decided
<1>2. Inv /\ Forwarding /\ [Next]_vars => Forwarding'
  BY NextKeepsForwarding
<1>3. Spec => []Forwarding
  BY <1>1, <1>2, PipelineInvariant, PTL DEF Spec
<1>4. Inv /\ Forwarding => GuestReadsGranted
  <2> SUFFICES ASSUME Inv, Forwarding, NEW q \in Requests, forward[q] # None,
                      NEW granted, granted = Needs[manifest[q]] \ {src[q].cred}
               PROVE  /\ DOMAIN DecodedCredentials(forward[q]) \subseteq granted
                      /\ Readable(scenario.raw) =>
                           DecodedCredentials(forward[q]) = Restrict(DecodedCredentials(scenario.raw), granted)
                      /\ Others(forward[q]) = Others(scenario.raw)
    BY DEF GuestReadsGranted
  <2>1. /\ pc[q] = "run" /\ Needs[manifest[q]] \subseteq DecodedKeys(scenario.raw)
        /\ forward[q] = Forwarded(q, Needs[manifest[q]])
        /\ manifest[q] \in Manifests \union {Empty}
    BY DEF Forwarding, Credentials, Decided
  <2>2. None \notin granted /\ NoName \notin granted /\ granted \subseteq DecodedKeys(scenario.raw)
    BY <2>1, NeedsNamed
  <2>3. CASE DecodedKeys(scenario.raw) \subseteq granted
    <3>1. forward[q] = scenario.raw
      BY <2>1, <2>3 DEF Forwarded, Credentials
    <3> QED BY <2>2, <2>3, <3>1, WholeReads
  <2>4. CASE ~(DecodedKeys(scenario.raw) \subseteq granted)
    <3>1. forward[q] = RetainCredentials(scenario.raw, granted)
      BY <2>1, <2>4 DEF Forwarded, Credentials
    <3>2. Skippable(scenario.raw)
      BY <3>1 DEF RetainCredentials
    <3>3. \A i \in DOMAIN scenario.raw : scenario.raw[i].name = "credentials" => scenario.raw[i].wire = "len"
      BY RequestsDecoded DEF Inv, Types
    <3> QED BY <2>2, <3>1, <3>2, <3>3, EditReads
  <2> QED BY <2>3, <2>4
<1> QED BY <1>3, <1>4, PipelineInvariant, PTL
=============================================================================
