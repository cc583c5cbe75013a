------------------------ MODULE MCSignatureVerifier ------------------------
(* Three roots published, the second unusable by this runtime.  One module *)
(* is signed with a key, one by a signer the third root drops, one by a    *)
(* signer of the first root and again by one of the third.                 *)
EXTENDS SignatureVerifier, TLC

CONSTANTS key, lapsed, kept, d1, d2, d3

MCBundles == {key, lapsed, kept}
MCDigests == {d1, d2, d3}
MCBundlesOf == d1 :> {key} @@ d2 :> {lapsed} @@ d3 :> {lapsed, kept}
MCAccepts == key :> 0..3 @@ lapsed :> {1, 2} @@ kept :> {3}
MCUsable == {1, 3}

Symmetry == Permutations(Requests)
=============================================================================
