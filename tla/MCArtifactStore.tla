-------------------------- MODULE MCArtifactStore --------------------------
(***************************************************************************)
(* TLC instance for the artifact store with interchangeable tasks, keys,   *)
(* prints and chunks, and for the range list of one of its sessions in     *)
(* bytes (ByteRanges).  The first state chooses which of the two the       *)
(* behaviour is about; the other does not move.                            *)
(***************************************************************************)
EXTENDS ArtifactStore, TLC

CONSTANTS Total, MaxChunk
\* prepare refuses an artifact_size of 0.
ASSUME RangesAssumption == Total \in Nat \ {0} /\ MaxChunk \in Nat

VARIABLES subject, received_ranges, received

Ranges == INSTANCE ByteRanges
rangeVars == <<received_ranges, received>>

Symmetry == Permutations(Tasks) \cup Permutations(Keys) \cup
            Permutations(Prints) \cup Permutations(Chunks)

MCInit == subject \in {"store", "ranges"} /\ Init /\ Ranges!Init
StoreNext == subject = "store" /\ Next /\ UNCHANGED <<subject, rangeVars>>
RangesNext == subject = "ranges" /\ Ranges!Next /\ UNCHANGED <<subject, vars>>
MCSpec == MCInit /\ [][StoreNext \/ RangesNext]_<<subject, vars, rangeVars>>

\* merge_range keeps the list canonical and equal to the bytes received, and
\* is_complete is exact (RangesAreReceived); what all_missing_ranges and
\* next_missing_range ask the client to send is exactly the rest
\* (MissingIsTheRest).
RangesAreExact == Ranges!RangesAreReceived /\ Ranges!MissingIsTheRest
=============================================================================
