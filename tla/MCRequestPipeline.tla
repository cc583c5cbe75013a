------------------------- MODULE MCRequestPipeline -------------------------
(* Four kinds of scenario: two requests over a module file that changes,   *)
(* two over sources whose manifests are pinned, one with every small       *)
(* request message, one with every small change and policy.                *)
EXTENDS RequestPipeline, SequencesExt, TLC

CONSTANTS q1, q2, c1, c2, a1, a2, h1, m1, m2, d1, d2, ca, cb, kA, kB, kX, n1

MCManifests == {m1, m2}
MCOwn == m1 :> d1 @@ m2 :> d2
MCLayerOf == a1 :> m1 @@ a2 :> None
MCNeeds == m1 :> {cb} @@ m2 :> {ca} @@ Empty :> {}

Source(t, d, m, c, by) == [type |-> t, digest |-> d, manifest |-> m, cred |-> c, by |-> by]
PathPlain == Source("Path", None, None, None, "input")
PathWith == Source("Path", None, "file", None, "composite")
OciLayered == Source("OCI", a1, a1, None, "input")
OciPulled == Source("OCI", a1, a1, ca, "composite")
OciBare == Source("OCI", a2, a2, None, "input")
HttpPinned == Source("HTTP", h1, d1, None, "composite")
HttpOther == Source("HTTP", h1, d2, None, "input")
HttpConfused == Source("HTTP", h1, a1, None, "input")
Unfenced == Source("HTTP", h1, None, None, "composite")
MCSources == {PathPlain, PathWith, OciLayered, OciPulled, OciBare, HttpPinned, HttpOther,
              HttpConfused, Unfenced}
MCPullPermitted == {PathWith, OciPulled, HttpPinned}
MCSignedOnly == {OciPulled}

-----------------------------------------------------------------------------
(* Messages *)

Key(n) == Field("key", "len", n)
Value(v) == Field("value", "len", v)
Group == Field("unknown", "group", None)
Credential(entry) == Field("credentials", "len", entry)
Ca == Credential(<<Key(ca), Value(1)>>)
Cb == Credential(<<Key(cb), Value(2)>>)
Entries == {Ca, Cb, Credential(<<Key(ca), Key(cb), Value(3)>>), Credential(<<Key(cb), Key(ca), Value(4)>>),
            Credential(<<Value(5)>>), Credential(<<Key(cb), Group, Value(6)>>)}
Messages == BoundedSeq(Entries \union {Group, Field("desired", "len", None)}, 3)

(* States and policies *)

Resource(k, v) == [kind |-> k, body |-> v]
StateOf(c, r) == [composite |-> c, resources |-> n1 :> r]
Befores == {StateOf(c, r) : c \in {None, Resource(kX, 1)},
                            r \in {None, Resource(kA, 1), Resource(kB, 1), Resource(None, 1)}}
Afters == {StateOf(c, r) : c \in {None, Resource(kX, 1), Resource(kX, 2)},
             r \in {None, Resource(kA, 1), Resource(kA, 2), Resource(kB, 1), Resource(None, 1)}}
Asks == {[resources |-> r, extraResources |-> e] : r \in {{}, {kA}}, e \in {{}, {kB}, {None}}}
Answers == {[desired |-> d, fatal |-> f, asks |-> k] : d \in Afters, f \in BOOLEAN, k \in Asks}

Layer(sc, c, sr, r) == [scopesCompose |-> sc, compose |-> c, scopesRequire |-> sr, require |-> r]
ChangesOf(k, cs, composite) == {Change(k, c, composite) : c \in cs}
AnyChange == {"add", "remove", "modify"}
OfComposite == ChangesOf(kX, AnyChange, TRUE)
MCRules ==
  [silent |-> Layer(FALSE, {}, FALSE, {}),
   reader |-> Layer(FALSE, {}, TRUE, {kA}),
   keeper |-> Layer(TRUE, ChangesOf(kA, {"modify", "add"}, FALSE) \union OfComposite, FALSE, {}),
   mover |-> Layer(TRUE, ChangesOf(kB, AnyChange, FALSE) \union ChangesOf(kA, {"remove"}, FALSE), TRUE, {kA, kB}),
   owner |-> Layer(TRUE, ChangesOf(kA, AnyChange, FALSE) \union ChangesOf(None, AnyChange, FALSE)
                         \union OfComposite, FALSE, {})]

-----------------------------------------------------------------------------

Before == StateOf(None, None)
Quiet == {[desired |-> Before, fatal |-> FALSE, asks |-> [resources |-> {}, extraResources |-> {}]]}

MCRequestsOf == [file |-> {q1, q2}, manifests |-> {q1, q2}, message |-> {q1}, policy |-> {q1}]
MCSourcesOf == [file |-> {PathPlain},
                manifests |-> {OciLayered, OciBare, HttpPinned, HttpOther, HttpConfused},
                message |-> {OciLayered, OciPulled, PathWith, Unfenced},
                policy |-> {PathPlain}]
MCResponsesOf == [file |-> Quiet, manifests |-> Quiet, message |-> Quiet, policy |-> Answers]
MCChanging == {"file"}

Scenario(k, raw, b, ls) == [kind |-> k, raw |-> raw, before |-> b, layers |-> ls]
Plain == <<Ca, Cb>>

MCScenarios ==
  {Scenario(k, Plain, Before, {}) : k \in {"file", "manifests"}}
  \union {Scenario("message", raw, Before, {}) : raw \in Messages}
  \union {Scenario("policy", Plain, b, {x, y}) : b \in Befores, x, y \in DOMAIN MCRules}
=============================================================================
