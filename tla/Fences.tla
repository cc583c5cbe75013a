------------------------------- MODULE Fences -------------------------------
(***************************************************************************)
(* The fences on a module's response: the changes it makes to the desired  *)
(* state (crates/function/src/compose.rs), the resources it asks to read   *)
(* (require.rs), and the judgement of both by the two policy layers        *)
(* (admission.rs).                                                         *)
(*                                                                         *)
(* A resource is a record of its kind (group and kind; None when the body  *)
(* states none) and its body, which stands for all a comparison by value   *)
(* sees; None is no resource.  A state is a record of the composite and a  *)
(* function from resource names.  A layer is a record, for each of the two *)
(* actions, of whether its rules scope it and what they permit; a missing  *)
(* policy scopes nothing.  The order of judgement, which decides only      *)
(* which refusal is reported, is left out.                                 *)
(***************************************************************************)
EXTENDS Naturals

CONSTANT None

Change(kind, change, composite) == [kind |-> kind, change |-> change, composite |-> composite]

\* diff: what happened between two sides of one entry.
Diff(before, after) ==
  IF before = after THEN {}
  ELSE IF before = None THEN {"add"}
  ELSE IF after = None THEN {"remove"}
  ELSE {"modify"}

\* fault: a kind replaced under one name is a change of the new one
ChangedInPlace(before, after) ==
  {Change(IF after # None THEN after.kind ELSE before.kind, c, FALSE) : c \in Diff(before, after)}

\* A kind replaced under one name is a remove and an add.
ComposedChanges(before, after) ==
  IF before # None /\ after # None /\ before.kind # after.kind
  THEN {Change(before.kind, "remove", FALSE), Change(after.kind, "add", FALSE)}
  ELSE {Change(IF after # None THEN after.kind ELSE before.kind, c, FALSE) :
          c \in Diff(before, after)}

\* changes cannot judge a response's resource that states no kind.
Unjudgeable(after) ==
  \E n \in DOMAIN after.resources : after.resources[n] # None /\ after.resources[n].kind = None

\* changes, for a composite whose kind is the observed one's.
Changes(before, after, kind) ==
  {Change(kind, c, TRUE) : c \in Diff(before.composite, after.composite)}
  \union UNION {ComposedChanges(before.resources[n], after.resources[n]) :
                  n \in DOMAIN before.resources}

\* compose_refused_by and require_refused_by for one layer.
ComposeRefused(layer, change) == layer.scopesCompose /\ change \notin layer.compose
RequireRefused(layer, kind) == layer.scopesRequire /\ kind \notin layer.require

ComposeFenced(layers) == \E l \in layers : l.scopesCompose
RequireFenced(layers) == \E l \in layers : l.scopesRequire

\* admit_compose over changes' answer.
AdmitCompose(layers, before, after, kind) ==
  /\ ~Unjudgeable(after)
  /\ \A l \in layers, c \in Changes(before, after, kind) : ~ComposeRefused(l, c)

\* requirements: the kinds asked for, in either map.
Requirements(asks) == asks.resources \union asks.extraResources

\* admit_require over requirements' answer.
AdmitRequire(layers, asks) ==
  /\ None \notin Requirements(asks)
  /\ \A l \in layers, k \in Requirements(asks) : ~RequireRefused(l, k)
=============================================================================
