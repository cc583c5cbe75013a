------------------------- MODULE SignatureVerifier -------------------------
(***************************************************************************)
(* Signature verification and its trusted root: Verifier of                *)
(* crates/function/src/cosign.rs and the Refresher of trustroot.rs that    *)
(* replaces the root under it.  Requests examine a module's signature      *)
(* bundles one by one, each under the root in use at that moment, and      *)
(* remember a module that verified; a changed root forgets the memory.     *)
(* What a bundle proves is abstracted to the roots it verifies under       *)
(* (sigstore-verify and the operator's trustSigner rules); the TUF walk to *)
(* a fetch that yields the published root or fails.                        *)
(***************************************************************************)
EXTENDS Naturals, FiniteSets

CONSTANTS
  Requests,
  Digests,    \* manifest digests
  Bundles,
  BundlesOf,  \* digest -> the bundles among its referrers
  Accepts,    \* bundle -> the roots it verifies under; a key-based one, all
  MaxRoot,    \* roots are numbered as they are published; 0 is no root
  Usable,     \* the published roots this runtime can parse
  NoDigest

Roots == 0..MaxRoot

ASSUME BundlesKnown == BundlesOf \in [Digests -> SUBSET Bundles]
ASSUME AcceptsKnown == Accepts \in [Bundles -> SUBSET (0..MaxRoot)]
ASSUME RootsKnown == MaxRoot \in Nat \ {0} /\ Usable \subseteq 1..MaxRoot
ASSUME NoDigestOutside == NoDigest \notin Digests

VARIABLES
  published,  \* the root the TUF repository serves
  cache,      \* the root in the verified cache on the volume
  fetched,    \* what the refresh under way has in hand
  refresher,  \* where it is
  root,       \* Verifier.keyless: the root in use
  inUse,      \* history: the roots that have been in use
  verified,   \* Verifier.verified: the digests remembered
  digest,     \* what a request is verifying
  left,       \* the bundles it has yet to examine
  under,      \* history: the root its accepted bundle was examined under
  late,       \* history: digests remembered after that root was replaced
  verdict,
  pc

vars == <<published, cache, fetched, refresher, root, inUse, verified,
          digest, left, under, late, verdict, pc>>
request == <<digest, left, under, late, verdict, pc>>

TypeOK ==
  /\ published \in Roots \ {0}
  /\ cache \in Roots
  /\ fetched \in Roots
  /\ refresher \in {"waiting", "fetching", "fallback", "setting"}
  /\ root \in Usable \union {0}
  /\ inUse \in SUBSET Roots
  /\ verified \in SUBSET Digests
  /\ digest \in [Requests -> Digests \union {NoDigest}]
  /\ left \in [Requests -> SUBSET Bundles]
  /\ under \in [Requests -> Roots]
  /\ late \in SUBSET Digests
  /\ verdict \in [Requests -> {"none", "ok", "refused"}]
  /\ pc \in [Requests -> {"idle", "examining", "remembering"}]

\* A pod may find an earlier one's cache on the volume.
Init ==
  /\ published = 1
  /\ cache \in 0..1
  /\ fetched = 0
  /\ refresher = "waiting"
  /\ root = 0
  /\ inUse = {0}
  /\ verified = {}
  /\ digest = [r \in Requests |-> NoDigest]
  /\ left = [r \in Requests |-> {}]
  /\ under = [r \in Requests |-> 0]
  /\ late = {}
  /\ verdict = [r \in Requests |-> "none"]
  /\ pc = [r \in Requests |-> "idle"]

-----------------------------------------------------------------------------
(* The refresher *)

\* Sigstore rotates its keys.
Rotate ==
  /\ published < MaxRoot
  /\ published' = published + 1
  /\ UNCHANGED <<cache, fetched, refresher, root, inUse, verified, request>>

\* One refresh, at startup and then once per interval.
Refresh ==
  /\ refresher = "waiting"
  /\ refresher' = "fetching"
  /\ UNCHANGED <<published, cache, fetched, root, inUse, verified, request>>

\* The walk succeeds, and caches what it verified.
FetchOk ==
  /\ refresher = "fetching"
  /\ fetched' = published
  /\ cache' = published
  /\ refresher' = "setting"
  /\ UNCHANGED <<published, root, inUse, verified, request>>

\* It fails or passes its bound: with a root in use the last good one stays,
\* with none the cache is tried.
FetchFails ==
  /\ refresher = "fetching"
  /\ refresher' = IF root # 0 THEN "waiting" ELSE "fallback"
  /\ UNCHANGED <<published, cache, fetched, root, inUse, verified, request>>

Cached ==
  /\ refresher = "fallback"
  /\ cache # 0
  /\ fetched' = cache
  /\ refresher' = "setting"
  /\ UNCHANGED <<published, cache, root, inUse, verified, request>>

\* No cache, or its metadata has expired.
CacheFails ==
  /\ refresher = "fallback"
  /\ refresher' = "waiting"
  /\ UNCHANGED <<published, cache, fetched, root, inUse, verified, request>>

\* fault: the memory outlives the root
SetKeepMemory ==
  /\ refresher = "setting"
  /\ fetched \in Usable
  /\ root' = fetched
  /\ inUse' = inUse \union {fetched}
  /\ fetched' = 0
  /\ refresher' = "waiting"
  /\ UNCHANGED <<published, cache, verified, request>>

\* fault: only the first root is put in use
SetOnce ==
  /\ refresher = "setting"
  /\ fetched \in Usable
  /\ root' = IF root = 0 THEN fetched ELSE root
  /\ inUse' = inUse \union {root'}
  /\ fetched' = 0
  /\ refresher' = "waiting"
  /\ UNCHANGED <<published, cache, verified, request>>

\* set_trusted_root with a root that parses: the same one again changes
\* nothing, another one replaces it and forgets the memory, both under the
\* write lock no examination overlaps.
SetTrustedRoot ==
  /\ refresher = "setting"
  /\ fetched \in Usable
  /\ root' = fetched
  /\ verified' = IF fetched = root THEN verified ELSE {}
  /\ late' = IF fetched = root THEN late ELSE {}
  /\ inUse' = inUse \union {fetched}
  /\ fetched' = 0
  /\ refresher' = "waiting"
  /\ UNCHANGED <<published, cache, digest, left, under, verdict, pc>>

\* fault: a root that does not parse takes the one in use with it
SetClears ==
  /\ refresher = "setting"
  /\ fetched \notin Usable
  /\ root' = 0
  /\ fetched' = 0
  /\ refresher' = "waiting"
  /\ UNCHANGED <<published, cache, inUse, verified, request>>

\* A root that does not parse leaves the one in use.
SetFails ==
  /\ refresher = "setting"
  /\ fetched \notin Usable
  /\ fetched' = 0
  /\ refresher' = "waiting"
  /\ UNCHANGED <<published, cache, root, inUse, verified, request>>

-----------------------------------------------------------------------------
(* verify *)

\* The digest is remembered.
VerifyRemembered(r, d) ==
  /\ pc[r] = "idle"
  /\ d \in verified
  /\ digest' = [digest EXCEPT ![r] = d]
  /\ verdict' = [verdict EXCEPT ![r] = "ok"]
  /\ UNCHANGED <<published, cache, fetched, refresher, root, inUse, verified, left, under, late, pc>>

\* It is not: its referrers are listed.
Verify(r, d) ==
  /\ pc[r] = "idle"
  /\ d \notin verified
  /\ digest' = [digest EXCEPT ![r] = d]
  /\ left' = [left EXCEPT ![r] = BundlesOf[d]]
  /\ verdict' = [verdict EXCEPT ![r] = "none"]
  /\ pc' = [pc EXCEPT ![r] = "examining"]
  /\ UNCHANGED <<published, cache, fetched, refresher, root, inUse, verified, under, late>>

\* fault: without a root a keyless bundle passes
AcceptedPending(b) == root = 0 \/ root \in Accepts[b]
\* check_bundle under the root in use; with none, only a key-based bundle.
Accepted(b) == root \in Accepts[b]

\* A bundle is fetched and accepted.
ExamineOk(r, b) ==
  /\ pc[r] = "examining"
  /\ b \in left[r]
  /\ Accepted(b)
  /\ left' = [left EXCEPT ![r] = {}]
  /\ under' = [under EXCEPT ![r] = root]
  /\ pc' = [pc EXCEPT ![r] = "remembering"]
  /\ UNCHANGED <<published, cache, fetched, refresher, root, inUse, verified, digest, late, verdict>>

\* It cannot be fetched, or is not accepted.
ExamineNext(r, b) ==
  /\ pc[r] = "examining"
  /\ b \in left[r]
  /\ left' = [left EXCEPT ![r] = @ \ {b}]
  /\ UNCHANGED <<published, cache, fetched, refresher, root, inUse, verified, digest,
                 under, late, verdict, pc>>

\* The digest is remembered and the module admitted.
Remember(r) ==
  /\ pc[r] = "remembering"
  /\ verified' = verified \union {digest[r]}
  /\ late' = IF under[r] = root THEN late ELSE late \union {digest[r]}
  /\ under' = [under EXCEPT ![r] = 0]
  /\ verdict' = [verdict EXCEPT ![r] = "ok"]
  /\ pc' = [pc EXCEPT ![r] = "idle"]
  /\ UNCHANGED <<published, cache, fetched, refresher, root, inUse, digest, left>>

\* None of its bundles was accepted: an error, which is not remembered.
RefuseModule(r) ==
  /\ pc[r] = "examining"
  /\ left[r] = {}
  /\ verdict' = [verdict EXCEPT ![r] = "refused"]
  /\ pc' = [pc EXCEPT ![r] = "idle"]
  /\ UNCHANGED <<published, cache, fetched, refresher, root, inUse, verified, digest,
                 left, under, late>>

RefresherStep == FetchOk \/ FetchFails \/ Cached \/ CacheFails \/ SetTrustedRoot \/ SetFails

Next ==
  \/ Rotate \/ Refresh \/ RefresherStep
  \/ \E r \in Requests :
       \/ \E d \in Digests : VerifyRemembered(r, d) \/ Verify(r, d)
       \/ \E b \in Bundles : ExamineOk(r, b) \/ ExamineNext(r, b)
       \/ Remember(r) \/ RefuseModule(r)

Spec == Init /\ [][Next]_vars

\* The refresh loop never ends, every fetch is bounded in time, and a
\* repository asked time and again answers in the end.
FairSpec == Spec /\ WF_vars(Refresh) /\ WF_vars(RefresherStep) /\ SF_vars(FetchOk)

-----------------------------------------------------------------------------
(* Properties *)

AcceptedUnder(d, roots) == \E b \in BundlesOf[d] : Accepts[b] \intersect roots # {}

\* A module is remembered, or admitted, only if a bundle of it was accepted
\* under a root this process had in use: not one it fetched and could not
\* use, nor for want of a root.
AdmittedWasVouched ==
  /\ \A d \in verified : AcceptedUnder(d, inUse)
  /\ \A r \in Requests : verdict[r] = "ok" => AcceptedUnder(digest[r], inUse)

\* Every remembered digest is one the root in use vouches for, but for those
\* whose verification was under way when the root was replaced.
MemoForgotten == \A d \in verified \ late : AcceptedUnder(d, {root})

\* The root in use only moves forward, through failed fetches, fallbacks to
\* the cache and roots that do not parse: keyless verification once possible
\* stays so, never under an older root.
RootForward == [][root' >= root]_vars

\* The verifier comes to use what the repository serves, if it can.
RootCatchesUp == \A n \in Usable : published = n ~> (root = n \/ published # n)

\* Remembered digests are ones the root in use vouches for: a signer a new
\* root no longer vouches for is verified again.
MemoCurrent == \A d \in verified : AcceptedUnder(d, {root})
=============================================================================
