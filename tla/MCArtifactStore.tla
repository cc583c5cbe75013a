-------------------------- MODULE MCArtifactStore --------------------------
(* ArtifactStore on a small instance: threads and artifact versions are    *)
(* each interchangeable.                                                   *)
EXTENDS ArtifactStore, TLC

Symmetry == Permutations(Threads) \union Permutations(Versions)
=============================================================================
