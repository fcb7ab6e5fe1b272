------------------------ MODULE MCCommandLifecycle ------------------------
(* CommandLifecycle with three streams: two of one session, one of another. *)
EXTENDS CommandLifecycle, TLC
CONSTANTS h1, h2, h3, s1, s2

MCHandlers == {h1, h2, h3}
MCSessions == {s1, s2}
MCSessionOf == [h \in MCHandlers |-> IF h = h3 THEN s2 ELSE s1]

\* Streams of one session, and request ids, are interchangeable.
Symmetry == Permutations({h1, h2}) \cup Permutations(Requests)
=============================================================================
