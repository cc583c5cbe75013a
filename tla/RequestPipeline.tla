-------------------------- MODULE RequestPipeline --------------------------
(***************************************************************************)
(* The request handler, handle_raw of crates/function/src/runner.rs: from  *)
(* the caller's bytes to the guest's answer, through every gate in order.  *)
(* Requests run side by side, awaiting between the steps, over Resolver's  *)
(* shared caches and a module file that changes; Wire edits the request a  *)
(* guest is given, Fences judges what it returns.                          *)
(*                                                                         *)
(* Gates whose verdict is another component's, or a pure check of the      *)
(* Input (validation, signatures, the manifest's own check, the run), let  *)
(* through or refuse at will.  A behaviour has one scenario: who makes     *)
(* requests, what they carry and name, and what guests return.             *)
(***************************************************************************)
EXTENDS Resolver

CONSTANTS
  NoName,
  Scenarios,        \* records: kind, raw, before, layers
  RequestsOf,       \* by kind of scenario: who makes requests,
  SourcesOf,        \* what they name,
  ResponsesOf,      \* what guests return
  Changing,         \* the kinds in which the module file changes
  Rules,            \* what a layer scopes and permits, as Fences reads it
  CompositeKind,    \* the observed composite's kind
  Needs,            \* the step credentials a manifest requires, whole or for its env
  CompositionSpend, \* what the compositionPolicy lets be spent, None unscoped
  OperatorSpend,    \* what the operator policy does, None without one
  PullPermitted,    \* sources a composite resource may choose
  SignedOnly,       \* sources that must carry a signature
  Verifier          \* the runtime has a verifier

ASSUME ScenariosKnown ==
  \A s \in Scenarios : RequestsOf[s.kind] \subseteq Requests /\ SourcesOf[s.kind] \subseteq Sources

\* The request has decoded, so that a credentials field is a map entry; a
\* manifest that requires a credential without a name does not parse.
ASSUME RequestsDecoded ==
  \A s \in Scenarios : \A i \in DOMAIN s.raw : s.raw[i].name = "credentials" => s.raw[i].wire = "len"
ASSUME NeedsNamed ==
  \A m \in Manifests \union {Empty} : None \notin Needs[m] /\ NoName \notin Needs[m]

VARIABLES
  scenario,
  forward,   \* the bytes the guest is given
  answer     \* the guest's response

pipeline == <<scenario, forward, answer>>
resolver == <<file, caches, stamps>>
vars == <<resolver, pc, resolution, pipeline>>

INSTANCE Wire
INSTANCE Fences

Outcomes == {"ok", "skipped", "refused", "error"}
Steps == {"resolve", "stamp", "hashed", "verify", "load", "manifest", "decide", "run", "judge"}

TypeOK ==
  /\ ResolverTypeOK
  /\ pc \in [Requests -> Outcomes \union Steps]
  /\ scenario.kind \in DOMAIN SourcesOf
  /\ \A q \in Requests :
       /\ forward[q] # None => pc[q] = "run" /\ Range(forward[q]) \subseteq Range(scenario.raw)
       /\ answer[q] # None => pc[q] \in {"judge", "ok"} /\ answer[q] \in ResponsesOf[scenario.kind]

Init ==
  /\ ResolverInit
  /\ pc = [q \in Requests |-> "skipped"]
  /\ scenario \in Scenarios
  /\ forward = [q \in Requests |-> None]
  /\ answer = [q \in Requests |-> None]

\* The environment's part: the file is rewritten, a module evicted.
Environment ==
  /\ scenario.kind \in Changing
  /\ (\E c \in Contents, s \in 0..MaxStamp : Rewrite(c, s)) \/ (\E d \in modules : Evict(d))
  /\ UNCHANGED pipeline

\* A request that ends without an answer of its guest's.
End(q, outcome) ==
  /\ Finish(q, outcome)
  /\ forward' = [forward EXCEPT ![q] = None]
  /\ answer' = [answer EXCEPT ![q] = None]
  /\ UNCHANGED scenario

-----------------------------------------------------------------------------
(* Before the module is resolved *)

Credentials == DecodedKeys(scenario.raw)

\* from_composite's fence around what a composite resource chooses, the rule
\* that only an OCI source can be signed, and the pull credential, which the
\* request must carry.
Admissible(s) ==
  /\ s.by = "composite" => s \in PullPermitted
  /\ s \in SignedOnly => s.type = "OCI"
  /\ s.cred # None => s.cred \in Credentials

Begin(q, s) ==
  /\ pc[q] \in Outcomes
  /\ Admissible(s)
  /\ src' = [src EXCEPT ![q] = s]
  /\ since' = [since EXCEPT ![q] = {file.content}]
  /\ answer' = [answer EXCEPT ![q] = None]
  /\ Goto(q, "resolve")
  /\ UNCHANGED <<resolver, statted, digest, manifest, scenario, forward>>

\* The Input is refused, or the source is.
Turned(q) ==
  /\ pc[q] \in Outcomes
  /\ End(q, "refused")
  /\ UNCHANGED resolver

\* The composite resource chose no module, and may: noop_response returns the
\* request's desired state and context.
Skip(q) ==
  /\ pc[q] \in Outcomes
  /\ End(q, "skipped")
  /\ UNCHANGED resolver

-----------------------------------------------------------------------------
(* The module and what it may do *)

Resolve(q) ==
  /\ ResolvePinned(q) \/ Stat(q) \/ StampHit(q) \/ Hash(q) \/ InsertStamp(q)
  /\ UNCHANGED pipeline

\* The signature, where one is required, before any cache is asked.
Verify(q) ==
  /\ pc[q] = "verify"
  /\ src[q] \in SignedOnly => Verifier
  /\ Goto(q, "load")
  /\ UNCHANGED <<resolver, resolution, pipeline>>

Load(q) ==
  /\ LoadHit(q) \/ Fetch(q) \/ FetchChanged(q) \/ ReadManifest(q)
  /\ UNCHANGED pipeline

\* A step that fails, is refused by its component or panics: a path that
\* cannot be read, a signature that does not verify, a manifest that cannot
\* be had, a load or a run that fails.
Fail(q) ==
  /\ pc[q] = "verify" => src[q] \in SignedOnly
  /\ \/ /\ pc[q] \in {"resolve", "stamp", "verify", "manifest"}
        /\ End(q, "refused") \/ End(q, "error")
     \/ pc[q] \in {"load", "run"} /\ End(q, "error")
  /\ UNCHANGED resolver

\* admit_requires for the credentials: the composition layer where it scopes
\* them, and the operator's, which permits nothing unless it says so.
Permitted(names) ==
  \/ names = {}
  \/ /\ CompositionSpend # None => names \subseteq CompositionSpend
     /\ OperatorSpend # None
     /\ names \subseteq OperatorSpend

\* check_credentials: the request has them, and the pull credential is none.
Available(q, names) == src[q].cred \notin names /\ names \subseteq Credentials

\* What the guest is given: the caller's bytes where nothing is withheld.
Forwarded(q, names) ==
  LET forwarded == names \ {src[q].cred}
  IN  IF Credentials \subseteq forwarded THEN scenario.raw
      ELSE RetainCredentials(scenario.raw, forwarded)

Decide(q) ==
  LET names == Needs[manifest[q]]
  IN  /\ pc[q] = "decide"
      /\ Permitted(names) /\ Available(q, names)
      /\ Forwarded(q, names) # None
      /\ forward' = [forward EXCEPT ![q] = Forwarded(q, names)]
      /\ Goto(q, "run")
      /\ UNCHANGED <<resolver, resolution, scenario, answer>>

\* The manifest does not parse or its check fails, the layers or the request
\* refuse what it requires, or the bytes cannot be edited.
DecideAgainst(q) ==
  LET names == Needs[manifest[q]]
  IN  /\ pc[q] = "decide"
      /\ \/ End(q, "refused")
         \/ /\ Permitted(names) /\ Available(q, names)
            /\ Forwarded(q, names) = None
            /\ End(q, "error")
      /\ UNCHANGED resolver

-----------------------------------------------------------------------------
(* The run and what comes of it *)

Run(q, rsp) ==
  /\ pc[q] = "run"
  /\ answer' = [answer EXCEPT ![q] = rsp]
  /\ forward' = [forward EXCEPT ![q] = None]
  /\ Goto(q, "judge")
  /\ UNCHANGED <<resolver, resolution, scenario>>

Layers == {Rules[l] : l \in scenario.layers}

\* The read fence, for every response, and the output fence, for those that
\* are applied.
Fenced(rsp) ==
  /\ RequireFenced(Layers) => AdmitRequire(Layers, rsp.asks)
  /\ ComposeFenced(Layers) /\ ~rsp.fatal =>
       AdmitCompose(Layers, scenario.before, rsp.desired, CompositeKind)

PassOn(q) ==
  /\ pc[q] = "judge"
  /\ Fenced(answer[q])
  /\ Finish(q, "ok")
  /\ UNCHANGED <<resolver, pipeline>>

RefuseResponse(q) ==
  /\ pc[q] = "judge"
  /\ ~Fenced(answer[q])
  /\ End(q, "refused")
  /\ UNCHANGED resolver

Next ==
  \/ Environment
  \/ \E q \in RequestsOf[scenario.kind] :
       \/ Turned(q) \/ Skip(q) \/ Resolve(q) \/ Verify(q) \/ Load(q) \/ Fail(q)
       \/ Decide(q) \/ DecideAgainst(q) \/ PassOn(q) \/ RefuseResponse(q)
       \/ \E s \in SourcesOf[scenario.kind] : Begin(q, s)
       \/ \E rsp \in ResponsesOf[scenario.kind] : Run(q, rsp)

Spec == Init /\ [][Next]_vars

-----------------------------------------------------------------------------
(* Properties *)

Others(msg) == Restrict(msg, {i \in DOMAIN msg : msg[i].name # "credentials"})
Readable(msg) == \A f \in Range(Named(msg, "credentials")) : Skippable(f.content)

\* A guest that decodes its request reads the step credentials its manifest
\* requires and no other, never the one that pulled it, and everything else
\* of the request as it was sent; what it does read is what the caller meant,
\* unless an entry has a group in it, which no encoder writes.
GuestReadsGranted ==
  \A q \in Requests : forward[q] # None =>
    LET all == DecodedCredentials(scenario.raw)
        read == DecodedCredentials(forward[q])
        granted == Needs[manifest[q]] \ {src[q].cred}
    IN  /\ DOMAIN read \subseteq granted
        /\ Readable(scenario.raw) => read = Restrict(all, granted)
        /\ Others(forward[q]) = Others(scenario.raw)

Has(r, k) == r # None /\ r.kind = k
Kinds(s) == {s.resources[n].kind : n \in {m \in DOMAIN s.resources : s.resources[m] # None}}

\* Something that was there or was not, and is there or is not.
PermittedBy(layer, kind, composite, had, has, same) ==
  /\ ~had /\ has => Change(kind, "add", composite) \in layer.compose
  /\ had /\ ~has => Change(kind, "remove", composite) \in layer.compose
  /\ had /\ has /\ ~same => Change(kind, "modify", composite) \in layer.compose

\* A response passed on asks to read, and one that is applied makes the
\* desired state differ, only in ways both layers permit: for every name and
\* kind, an object that appears is a permitted add, one that goes a permitted
\* remove, one that stays and differs a permitted modify.
AppliedIsFenced ==
  \A q \in Requests, l \in Layers : pc[q] = "ok" /\ answer[q] # None =>
    LET b == scenario.before
        a == answer[q].desired
        asks == answer[q].asks
    IN  /\ l.scopesRequire => asks.resources \union asks.extraResources \subseteq l.require
        /\ l.scopesCompose /\ ~answer[q].fatal =>
             /\ \A n \in DOMAIN b.resources, k \in Kinds(b) \union Kinds(a) :
                  PermittedBy(l, k, FALSE, Has(b.resources[n], k), Has(a.resources[n], k),
                              b.resources[n] = a.resources[n])
             /\ PermittedBy(l, CompositeKind, TRUE, b.composite # None, a.composite # None,
                            b.composite = a.composite)
=============================================================================
