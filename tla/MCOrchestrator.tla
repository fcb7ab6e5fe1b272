--------------------------- MODULE MCOrchestrator ---------------------------
(* Two uploads for Orchestrator: d2 carries the name it was uploaded under, *)
(* d1 was uploaded as "a" and its manifest says "b"; SameName: both as "b". *)
EXTENDS Orchestrator, TLC
MCServices == {"a", "b"}
MCDeploys == {"d1", "d2"}
SameService == {"b"}
SameName == [d \in MCDeploys |-> "b"]
MCNameOf == [d \in MCDeploys |-> IF d = "d1" THEN "a" ELSE "b"]
MCManifestName == [d \in MCDeploys |-> "b"]
MCReleaseOf == [d \in MCDeploys |-> IF d = "d1" THEN "r1" ELSE "r2"]
Symmetry == Permutations(Tasks)
\* Policies are interchangeable where no boot looks at them.
PolicySymmetry == Permutations(Tasks) \cup Permutations(Policies)
=============================================================================
