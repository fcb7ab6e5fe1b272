----------------------------- MODULE ByteRanges -----------------------------
(***************************************************************************)
(* The received_ranges list of an upload session (imagod-control/src/      *)
(* artifact_store/commit.rs): a sorted list of byte ranges to which every  *)
(* accepted chunk is merged.  Chunks arrive in any order and may overlap   *)
(* or repeat; the reference is the set of bytes received so far.           *)
(*                                                                         *)
(* push checks offset + length <= artifact_size before it merges, so the   *)
(* u64 arithmetic of the source never saturates here.                      *)
(***************************************************************************)
EXTENDS Integers, Sequences, FiniteSets, SequencesExt

CONSTANTS
  Total,      \* artifact_size, in bytes
  MaxChunk    \* max_chunk_size

VARIABLES
  received_ranges,   \* the session's list
  received           \* reference: the bytes received so far

vars == <<received_ranges, received>>

ByteRange == [offset : 0..Total, length : 0..Total]
NoRange == [offset |-> Total, length |-> 0]

end(r) == r.offset + r.length
range_from_start_end(start, stop) == [offset |-> start, length |-> stop - start]

(***************************************************************************)
(* merge_range: push, sort by offset, and join neighbours.                 *)
(***************************************************************************)
\* Seeded faults: ranges that only touch are not joined; the end of the later
\* range is taken even when the earlier one reaches further.
touching_kept_apart(last, r) == r.offset < end(last)
joins(last, r) == r.offset <= end(last)
later_end(last, r) == end(r)
merged_end(last, r) == IF end(last) >= end(r) THEN end(last) ELSE end(r)

Absorb(merged, r) ==
  IF merged # <<>> /\ joins(Last(merged), r)
    THEN ReplaceAt(merged, Len(merged),
           range_from_start_end(Last(merged).offset, merged_end(Last(merged), r)))
    ELSE Append(merged, r)

\* sort_by_key(|r| r.offset), which is stable: the k-th is preceded by k - 1.
Precedes(s, j, i) ==
  s[j].offset < s[i].offset \/ (s[j].offset = s[i].offset /\ j < i)
sort_by_offset(s) ==
  [k \in DOMAIN s |->
     s[CHOOSE i \in DOMAIN s :
         Cardinality({j \in DOMAIN s : Precedes(s, j, i)}) = k - 1]]

merge_range(ranges, incoming) ==
  FoldLeft(Absorb, <<>>, sort_by_offset(Append(ranges, incoming)))

is_complete(ranges, total) ==
  Len(ranges) = 1 /\ ranges[1].offset = 0 /\ ranges[1].length = total

\* next_missing_range: the cursor stops at the first gap.
ToFirstGap(scan, r) ==
  IF scan.gap # NoRange THEN scan
  ELSE IF scan.cursor < r.offset
    THEN [scan EXCEPT !.gap = range_from_start_end(scan.cursor, r.offset)]
    ELSE [scan EXCEPT !.cursor = end(r)]

next_missing_range(ranges, total) ==
  LET scan == FoldLeft(ToFirstGap, [cursor |-> 0, gap |-> NoRange], ranges)
  IN IF scan.gap # NoRange THEN scan.gap
     ELSE IF scan.cursor < total THEN range_from_start_end(scan.cursor, total)
     ELSE NoRange

\* Seeded fault: the last gap is forgotten.
gaps_before(missing, cursor, total) == missing
with_last_gap(missing, cursor, total) ==
  IF cursor < total THEN Append(missing, range_from_start_end(cursor, total))
                    ELSE missing

\* all_missing_ranges: every gap, in order.
PastGap(scan, r, total) ==
  IF scan.cursor >= total THEN scan ELSE
    [missing |-> IF scan.cursor < r.offset
                 THEN Append(scan.missing, range_from_start_end(scan.cursor, r.offset))
                 ELSE scan.missing,
     cursor |-> IF scan.cursor >= end(r) THEN scan.cursor ELSE end(r)]

all_missing_ranges(ranges, total) ==
  LET scan == FoldLeft(LAMBDA a, r : PastGap(a, r, total),
                       [missing |-> <<>>, cursor |-> 0], ranges)
  IN with_last_gap(scan.missing, scan.cursor, total)

(***************************************************************************)
(* The uploads.                                                            *)
(***************************************************************************)
Init == received_ranges = <<>> /\ received = {}

\* The second critical section of push, for a chunk that passed its checks.
Push(offset, length) ==
  /\ offset + length <= Total
  /\ received_ranges' = merge_range(received_ranges,
                          range_from_start_end(offset, offset + length))
  /\ received' = received \cup offset..(offset + length - 1)

Next == \E offset \in 0..(Total - 1), length \in 1..MaxChunk : Push(offset, length)

Spec == Init /\ [][Next]_vars

(***************************************************************************)
(* Properties.                                                             *)
(***************************************************************************)
Bytes(ranges) ==
  UNION {ranges[i].offset..(end(ranges[i]) - 1) : i \in DOMAIN ranges}
Separate(ranges) ==
  \A i \in 1..(Len(ranges) - 1) : end(ranges[i]) < ranges[i + 1].offset

\* merge_range keeps the list equal to the bytes received, inside the artifact,
\* and canonical: in order, with a gap between any two ranges.  So is_complete,
\* the gate of artifact.commit, opens exactly when every byte has been
\* received, however the chunks were cut, repeated or reordered.
RangesAreReceived ==
  /\ received_ranges \in Seq(ByteRange)
  /\ Bytes(received_ranges) = received
  /\ Separate(received_ranges)
  /\ is_complete(received_ranges, Total) <=> received = 0..(Total - 1)

\* What a client is asked to send next (deploy.prepare and the push ack) is
\* exactly what is missing, and the ack names the first of the gaps.
MissingIsTheRest ==
  LET missing == all_missing_ranges(received_ranges, Total)
  IN /\ Bytes(missing) = 0..(Total - 1) \ received
     /\ Separate(missing)
     /\ next_missing_range(received_ranges, Total) =
          IF missing = <<>> THEN NoRange ELSE missing[1]
=============================================================================
