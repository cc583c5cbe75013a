------------------------------ MODULE Resolver ------------------------------
(***************************************************************************)
(* Module resolution, crates/function/src/resolver.rs: which module a      *)
(* request's source means, its bytes, and its manifest.  OCI and HTTP      *)
(* sources are pinned by a digest; a file under --module-dir is hashed     *)
(* when its size or mtime is not the one remembered with its digest.       *)
(* Manifests are remembered in memory by two kinds of key, the digest of   *)
(* the artifact that pins one and its own, and on disk by its own.         *)
(*                                                                         *)
(* A file's digest is its content.  Downloads fail or succeed as they      *)
(* please and what a plain HTTP server sends may be anything; a registry   *)
(* client checks what it reads against the digest (oci.rs, external here). *)
(* RequestPipeline has the handler that calls these steps.                 *)
(***************************************************************************)
EXTENDS Naturals, FiniteSets

CONSTANTS
  Requests, None,
  Sources,       \* records: type, digest, manifest (what names it), cred, by
  Contents,      \* what the module file may hold
  Torn,          \* the hash of a file read while it was written: no module's
  Manifests,     \* manifest bytes
  Empty,         \* the empty bytes of a module without one
  Own,           \* the digest of manifest bytes
  LayerOf,       \* the manifest layer of an artifact, None without one
  MaxCached,     \* MAX_CACHED_MANIFESTS
  MaxStamp       \* bound: how many stamps the file may have, less one

ASSUME ContentsDistinct ==
  /\ Torn \notin Contents \union {s.digest : s \in Sources}
  /\ None \notin Contents \union Manifests \union Sources
\* No two byte strings have one digest, those of an artifact's own OCI manifest
\* among them, which nobody serves as a module's.
ASSUME DigestsApart ==
  /\ \A m, n \in Manifests : Own[m] = Own[n] => m = n
  /\ \A m \in Manifests : Own[m] \notin DOMAIN LayerOf
  /\ \A a \in DOMAIN LayerOf : LayerOf[a] \in Manifests \union {None}
\* An artifact's manifest is its layer.
ASSUME SourcesNamed ==
  \A s \in Sources : s.type = "OCI" /\ s.manifest # None =>
    s.manifest = s.digest /\ s.digest \in DOMAIN LayerOf
ASSUME BoundsNatural == MaxCached \in Nat \ {0} /\ MaxStamp \in Nat

VARIABLES
  file,      \* the module file: its content, and its size and mtime as a stamp
  files,     \* Resolver.files: the stamp and digest remembered for it
  modules,   \* the digests the module cache has
  cached,    \* Resolver.cached_manifests
  stored,    \* the digests the manifest store has
  pc,        \* where a request is
  src,       \* its source
  statted,   \* the stamp file_digest saw
  digest,    \* Resolved.digest
  manifest,  \* the manifest bytes it read, None before
  since,     \* history: what the file has held since the request began
  used,      \* history: the stamps the file has had
  restamped  \* history: a rewrite left it, or brought back, one of them

caches == <<files, modules, cached, stored>>
stamps == <<used, restamped>>
resolution == <<src, statted, digest, manifest, since>>

\* The digests a manifest is asked for by.
Keys ==
  {Own[m] : m \in Manifests} \union DOMAIN LayerOf
  \union ({s.manifest : s \in {t \in Sources : t.type = "HTTP"}} \ {None})

ResolverTypeOK ==
  /\ file \in [content : Contents, stamp : 0..MaxStamp]
  /\ files \in {None} \union [stamp : 0..MaxStamp, digest : Contents \union {Torn}]
  /\ modules \subseteq Contents \union {s.digest : s \in Sources}
  /\ cached \in [Keys -> Manifests \union {Empty, None}]
  /\ stored \subseteq Keys
  /\ src \in [Requests -> Sources \union {None}]
  /\ statted \in [Requests -> 0..MaxStamp \union {None}]
  /\ digest \in [Requests -> {s.digest : s \in Sources} \union Contents \union {Torn, None}]
  /\ manifest \in [Requests -> Manifests \union {Empty, None}]
  /\ since \in [Requests -> SUBSET Contents]
  /\ used \subseteq 0..MaxStamp
  /\ restamped \in BOOLEAN

ResolverInit ==
  /\ \E c \in Contents : file = [content |-> c, stamp |-> 0]
  /\ files = None
  /\ modules = {}
  /\ cached = [k \in Keys |-> None]
  /\ stored = {}
  /\ src = [q \in Requests |-> None]
  /\ statted = [q \in Requests |-> None]
  /\ digest = [q \in Requests |-> None]
  /\ manifest = [q \in Requests |-> None]
  /\ since = [q \in Requests |-> {}]
  /\ used = {0}
  /\ restamped = FALSE

Goto(q, p) == pc' = [pc EXCEPT ![q] = p]

\* The request is answered, and its state dropped.
Finish(q, outcome) ==
  /\ Goto(q, outcome)
  /\ src' = [src EXCEPT ![q] = None]
  /\ statted' = [statted EXCEPT ![q] = None]
  /\ digest' = [digest EXCEPT ![q] = None]
  /\ manifest' = [manifest EXCEPT ![q] = None]
  /\ since' = [since EXCEPT ![q] = {}]

\* Somebody writes the file, or puts another in its place: with a stamp it
\* never had, or with one it had before (the same size within the granularity
\* of mtime; an older file moved, linked or copied back with its times).
Rewrite(c, s) ==
  /\ file' = [content |-> c, stamp |-> s]
  /\ file' # file
  /\ used' = used \union {s}
  /\ restamped' = (restamped \/ s \in used)
  /\ since' = [q \in Requests |-> IF src[q] = None THEN {} ELSE since[q] \union {c}]
  /\ UNCHANGED <<caches, pc, src, statted, digest, manifest>>

-----------------------------------------------------------------------------
(* resolve *)

\* A pinned source says its digest.
ResolvePinned(q) ==
  /\ pc[q] = "resolve"
  /\ src[q].type # "Path"
  /\ digest' = [digest EXCEPT ![q] = src[q].digest]
  /\ Goto(q, "verify")
  /\ UNCHANGED <<file, caches, src, statted, manifest, since, stamps>>

\* file_digest asks for the file's size and mtime ...
Stat(q) ==
  /\ pc[q] = "resolve"
  /\ src[q].type = "Path"
  /\ statted' = [statted EXCEPT ![q] = file.stamp]
  /\ Goto(q, "stamp")
  /\ UNCHANGED <<file, caches, src, digest, manifest, since, stamps>>

Remembered(q) == files # None /\ files.stamp = statted[q]

\* ... looks for a digest remembered with them ...
StampHit(q) ==
  /\ pc[q] = "stamp"
  /\ Remembered(q)
  /\ digest' = [digest EXCEPT ![q] = files.digest]
  /\ Goto(q, "verify")
  /\ UNCHANGED <<file, caches, src, statted, manifest, since, stamps>>

\* ... and otherwise hashes what the file holds by then, or what it read of
\* it while it was rewritten.
Hash(q) ==
  /\ pc[q] = "stamp"
  /\ ~Remembered(q)
  /\ \/ digest' = [digest EXCEPT ![q] = file.content]
     \/ /\ file.stamp # statted[q] \/ restamped
        /\ digest' = [digest EXCEPT ![q] = Torn]
  /\ Goto(q, "hashed")
  /\ UNCHANGED <<file, caches, src, statted, manifest, since, stamps>>

\* fault: the stamp is taken after the hash
InsertLateStamp(q) ==
  /\ pc[q] = "hashed"
  /\ files' = [stamp |-> file.stamp, digest |-> digest[q]]
  /\ Goto(q, "verify")
  /\ UNCHANGED <<file, modules, cached, stored, resolution, stamps>>

InsertStamp(q) ==
  /\ pc[q] = "hashed"
  /\ files' = [stamp |-> statted[q], digest |-> digest[q]]
  /\ Goto(q, "verify")
  /\ UNCHANGED <<file, modules, cached, stored, resolution, stamps>>

-----------------------------------------------------------------------------
(* The module: the cache's answer, or fetch and compile (ModuleCache). *)

LoadHit(q) ==
  /\ pc[q] = "load"
  /\ digest[q] \in modules
  /\ Goto(q, "manifest")
  /\ UNCHANGED <<file, caches, resolution, stamps>>

\* fetch checks the bytes against the digest; a file's are read now.
Fetch(q) ==
  /\ pc[q] = "load"
  /\ digest[q] \notin modules
  /\ src[q].type = "Path" => file.content = digest[q]
  /\ modules' = modules \union {digest[q]}
  /\ Goto(q, "manifest")
  /\ UNCHANGED <<file, files, cached, stored, resolution, stamps>>

\* A file that has changed under its digest is an error, and the stamp that
\* lied is forgotten.
FetchChanged(q) ==
  /\ pc[q] = "load"
  /\ digest[q] \notin modules
  /\ src[q].type = "Path"
  /\ file.content # digest[q]
  /\ files' = None
  /\ Finish(q, "error")
  /\ UNCHANGED <<file, modules, cached, stored, stamps>>

\* The cache's bound or age, or a restart, drops a module.
Evict(d) ==
  /\ d \in modules
  /\ modules' = modules \ {d}
  /\ UNCHANGED <<file, files, cached, stored, pc, resolution, stamps>>

-----------------------------------------------------------------------------
(* The manifest *)

\* remember, which starts over at the bound.
Remember(map, key, bytes) ==
  LET full == Cardinality({k \in Keys : map[k] # None}) >= MaxCached
  IN  [k \in Keys |-> IF k = key THEN bytes ELSE IF full THEN None ELSE map[k]]

\* fault: downloaded bytes are not checked
Trusted(bytes, d) == TRUE
\* verified: what was downloaded has the digest it was asked for by.
Verified(bytes, d) == Own[bytes] = d

\* What a read of a manifest may come to: the bytes, and the two tiers after.
Read(bytes, memory, disk) == [bytes |-> bytes, memory |-> memory, disk |-> disk]

\* manifest_by_digest: from memory, from disk, whose store checks the digest
\* too, or downloaded and kept in both, on disk if there is room.
ByDigest(d) ==
  IF cached[d] # None THEN {Read(cached[d], cached, stored)}
  ELSE IF d \in stored
  THEN {Read(m, Remember(cached, d, m), stored) : m \in {n \in Manifests : Own[n] = d}}
  ELSE {Read(m, Remember(cached, d, m), disk) :
          m \in {n \in Manifests : Verified(n, d)}, disk \in {stored, stored \union {d}}}

\* An artifact's manifest is remembered by the artifact's digest as well, and
\* so is that it has none.
OfArtifact(a) ==
  IF cached[a] # None THEN {Read(cached[a], cached, stored)}
  ELSE IF LayerOf[a] = None THEN {Read(Empty, Remember(cached, a, Empty), stored)}
  ELSE {[r EXCEPT !.memory = Remember(r.memory, a, r.bytes)] : r \in ByDigest(Own[LayerOf[a]])}

\* cached_manifest, then manifest; a manifest file is read afresh each time.
Reads(s) ==
  IF s.manifest = None THEN {Read(Empty, cached, stored)}
  ELSE IF s.type = "OCI" THEN OfArtifact(s.manifest)
  ELSE IF s.type = "HTTP" THEN ByDigest(s.manifest)
  ELSE {Read(m, cached, stored) : m \in Manifests}

ReadManifest(q) ==
  /\ pc[q] = "manifest"
  /\ \E r \in Reads(src[q]) :
       /\ manifest' = [manifest EXCEPT ![q] = r.bytes]
       /\ cached' = r.memory
       /\ stored' = r.disk
  /\ Goto(q, "decide")
  /\ UNCHANGED <<file, files, modules, src, statted, digest, since, stamps>>

-----------------------------------------------------------------------------
(* Properties *)

\* The module a request runs from a file is one the file held while the
\* request was served, whatever other requests remembered and whoever rewrote
\* it when, as long as the file is never given a size and mtime it had before.
\* (It may be otherwise: a request that saw a stamp and read the next content
\* remembers the one with the other, and the stamp then comes back.)
FreshModule ==
  \A q \in Requests :
    src[q] # None /\ src[q].type = "Path" /\ manifest[q] # None /\ ~restamped =>
      digest[q] \in since[q]

\* The manifest that decides what a module may do is the one its source pins:
\* the layer of the artifact, or bytes with the digest stated.  An HTTP
\* source that states the digest of an artifact is left out: the memory
\* tier's two kinds of key are then one.
ManifestPinned ==
  \A q \in Requests : src[q] # None /\ src[q].manifest # None /\ manifest[q] # None =>
    /\ src[q].type = "OCI" =>
         manifest[q] = IF LayerOf[src[q].digest] = None THEN Empty ELSE LayerOf[src[q].digest]
    /\ src[q].type = "HTTP" /\ src[q].manifest \notin DOMAIN LayerOf =>
         Own[manifest[q]] = src[q].manifest
=============================================================================
