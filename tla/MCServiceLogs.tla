--------------------------- MODULE MCServiceLogs ---------------------------
(***************************************************************************)
(* TLC instance for the logs of a service, in three parts that do not      *)
(* share state: the pipeline from the runner to the reader (ServiceLogs),  *)
(* the buffer in bytes (LogBuffer), and the retained logs on disk          *)
(* (RetainedStore).  The first state chooses which of them the behaviour   *)
(* is about; the others do not move.                                       *)
(***************************************************************************)
EXTENDS ServiceLogs

CONSTANTS
  MaxBytes, MaxRead,
  Names, Capacity, MaxSize, MaxUpserts, MaxFaults

VARIABLES
  subject,
  events, total_bytes, newest,
  pc, job, disk, entries, retained_bytes, latest, stuck, clock, faults

\* Capacity and the bounds of RetainedStore are natural numbers.
ASSUME RetainedAssumption == Capacity \in Nat /\ MaxSize \in Nat /\ MaxUpserts \in Nat

\* BoundedLogEventBuffer::new makes the size of the buffer at least 1.
ASSUME BufferAssumption == MaxBytes \in Nat \ {0} /\ MaxRead \in Nat

bufferVars == <<events, total_bytes, newest>>
retainedVars == <<pc, job, disk, entries, retained_bytes, latest, stuck, clock, faults>>

Buffer == INSTANCE LogBuffer
Retained == INSTANCE RetainedStore WITH total_bytes <- retained_bytes

MCInit ==
  /\ subject \in {"pipeline", "buffer", "retained"}
  /\ Init /\ Buffer!Init /\ Retained!Init

PipelineNext == subject = "pipeline" /\ Next /\ UNCHANGED <<subject, bufferVars, retainedVars>>
BufferNext == subject = "buffer" /\ Buffer!Next /\ UNCHANGED <<subject, vars, retainedVars>>
RetainedNext == subject = "retained" /\ Retained!Next /\ UNCHANGED <<subject, vars, bufferVars>>

\* No fair action of the pipeline is enabled while it is in its first state.
MCSpec ==
  /\ MCInit
  /\ [][PipelineNext \/ BufferNext \/ RetainedNext]_<<subject, vars, bufferVars, retainedVars>>
  /\ Fairness

\* The ring of BoundedLogEventBuffer holds exactly the newest bytes, however
\* the drains' reads cut them (KeepsNewestBytes), and tail_snapshot returns the
\* last lines asked for of them (TailIsLastLines).
TailIsNewestLines == Buffer!KeepsNewestBytes /\ Buffer!TailIsLastLines

\* RetainedStore!RetainedIsLatest: an index entry leads to the last log renamed
\* into place by upsert, whole, after any crash or failed file operation, and
\* evict_if_needed works on the true size of the retained logs.
RetainedIsLatest == Retained!RetainedIsLatest
=============================================================================
