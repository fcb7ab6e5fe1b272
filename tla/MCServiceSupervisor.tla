------------------------ MODULE MCServiceSupervisor ------------------------
(* Model values and symmetry for ServiceSupervisor.                        *)
EXTENDS ServiceSupervisor, TLC
Symmetry ==
  Permutations(Runners) \cup Permutations(Tasks) \cup Permutations(Requests)

=============================================================================
