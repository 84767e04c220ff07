---------------------------- MODULE MCArtifactStore ----------------------------
(* ArtifactStore for TLC: two artifacts, interchangeable processes.          *)
EXTENDS ArtifactStore, TLC

StoreSymmetry == Permutations(Artifacts) \cup Permutations(Deleters)
===============================================================================
