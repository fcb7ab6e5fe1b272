----------------------------- MODULE LogBuffer -----------------------------
(***************************************************************************)
(* The bounded buffer that keeps a running service's newest output         *)
(* (imagod-control/src/service_supervisor/log_buffer.rs), and how a        *)
(* logs.request cuts its last lines out of it.  The reference is the       *)
(* newest MaxBytes bytes written, however they were cut into reads.        *)
(***************************************************************************)
EXTENDS Integers, Sequences, FiniteSets, SequencesExt

CONSTANTS
  MaxBytes,   \* runner_log_buffer_bytes
  MaxRead     \* the longest read of a drain task

VARIABLES
  events,        \* the ring: each event is a non-empty string of bytes
  total_bytes,   \* its size as the buffer counts it
  newest         \* reference: the newest bytes written, at most MaxBytes

vars == <<events, total_bytes, newest>>

Byte == {"x", "\n"}   \* a newline, or any other byte
Reads == UNION {[1..n -> Byte] : n \in 1..MaxRead}

Bytes(evs) == FlattenSeq(evs)
From(s, n) == SubSeq(s, n + 1, Len(s))    \* s without its first n bytes

(***************************************************************************)
(* BoundedLogEventBuffer.                                                  *)
(***************************************************************************)
\* Seeded fault: the front event is evicted whole.
whole_event(e, n) == <<>>
trimmed(e, n) == <<From(e, n)>>

\* evict_front_bytes: whole events while they fit, then part of the next.
EvictEvent(a, e) ==
  IF a.left = 0 THEN [a EXCEPT !.kept = Append(@, e)]
  ELSE IF Len(e) <= a.left THEN [a EXCEPT !.left = @ - Len(e)]
  ELSE [left |-> 0, kept |-> a.kept \o trimmed(e, a.left)]

evict_front_bytes(evs, n) ==
  FoldLeft(EvictEvent, [left |-> n, kept |-> <<>>], evs).kept

\* push: a read larger than the buffer keeps its end only.
Push(read) ==
  LET event == IF Len(read) > MaxBytes THEN From(read, Len(read) - MaxBytes) ELSE read
      total == total_bytes + Len(event)
      over == IF total > MaxBytes THEN total - MaxBytes ELSE 0
  IN /\ events' = evict_front_bytes(Append(events, event), over)
     /\ total_bytes' = total - over
     /\ LET all == newest \o read
        IN newest' = IF Len(all) > MaxBytes THEN From(all, Len(all) - MaxBytes) ELSE all

(***************************************************************************)
(* The snapshot of a logs.request.                                         *)
(***************************************************************************)
\* Seeded fault: a newline that ends the buffer begins an empty last line.
newline_begins_line(index, total) == TRUE
begins_line(index, total) == index + 1 < total

\* compute_tail_start_offset_by_lines: one pass that remembers the last
\* tail_lines line starts.
SeeByte(a, b, total, limit) ==
  LET new == b = "\n" /\ begins_line(a.index, total)
      starts == IF new THEN Append(a.recent, a.index + 1) ELSE a.recent
  IN [index |-> a.index + 1,
      count |-> IF new THEN a.count + 1 ELSE a.count,
      recent |-> IF Len(starts) > limit THEN Tail(starts) ELSE starts]

compute_tail_start_offset(evs, total, tail_lines) ==
  LET limit == IF tail_lines < total + 1 THEN tail_lines ELSE total + 1
      scan == FoldLeft(LAMBDA a, b : SeeByte(a, b, total, limit),
                       [index |-> 0, count |-> 1, recent |-> <<0>>], Bytes(evs))
  IN IF tail_lines = 0 \/ total = 0 THEN total
     ELSE IF scan.count <= tail_lines THEN 0 ELSE Head(scan.recent)

\* slice_events_from_offset: the events without their first `offset' bytes,
\* `remaining' bytes in all.
SliceEvent(a, e) ==
  IF a.remaining = 0 THEN a
  ELSE IF a.offset >= Len(e) THEN [a EXCEPT !.offset = @ - Len(e)]
  ELSE LET rest == From(e, a.offset)
           take == IF Len(rest) < a.remaining THEN Len(rest) ELSE a.remaining
       IN [offset |-> 0, remaining |-> a.remaining - take,
           out |-> Append(a.out, SubSeq(rest, 1, take))]

slice_events(evs, offset, remaining) ==
  FoldLeft(SliceEvent, [offset |-> offset, remaining |-> remaining, out |-> <<>>], evs).out

\* tail_snapshot_events; tail_snapshot_bytes is the same bytes in one piece.
tail_snapshot(tail_lines) ==
  LET start == compute_tail_start_offset(events, total_bytes, tail_lines)
  IN slice_events(events, start, total_bytes - start)

Init == events = <<>> /\ total_bytes = 0 /\ newest = <<>>
Next == \E read \in Reads : Push(read)
Spec == Init /\ [][Next]_vars

(***************************************************************************)
(* Properties.                                                             *)
(***************************************************************************)
\* The ring holds exactly the newest bytes, at most runner_log_buffer_bytes of
\* them, counts them right, and never keeps an empty event, whatever sizes the
\* reads have (evict_front_bytes cuts through an event).
KeepsNewestBytes ==
  /\ Bytes(events) = newest
  /\ total_bytes = Len(newest)
  /\ <<>> \notin Range(events)

\* Where the lines of s begin.
LineStarts(s) == {0} \cup {i \in 1..(Len(s) - 1) : s[i] = "\n"}

\* --tail n is the last n lines of what the buffer holds: all of it if it has
\* no more, nothing for 0, and a newline at the very end opens no further line.
TailIsLastLines ==
  \A n \in 0..(MaxBytes + 1) :
    Bytes(tail_snapshot(n)) =
      IF n = 0 \/ newest = <<>> THEN <<>>
      ELSE LET starts == LineStarts(newest)
               first == {p \in starts : Cardinality({q \in starts : q >= p}) <= n}
           IN From(newest, CHOOSE p \in first : \A q \in first : p <= q)
=============================================================================
