--------------------------- MODULE RetainedStore ---------------------------
(***************************************************************************)
(* The logs of stopped services on disk (imagod-control/src/               *)
(* service_supervisor/retained_file_store.rs): an index in memory over one *)
(* file per service, each replaced by a rename, the oldest evicted when    *)
(* the files exceed the capacity.  The daemon may die between any two file *)
(* operations, and nothing is fsynced.                                     *)
(*                                                                         *)
(* All of it runs under one mutex, so only its file operations are steps.  *)
(***************************************************************************)
EXTENDS Integers, FiniteSets, Functions

CONSTANTS
  Names,       \* service names
  Capacity,    \* retained_logs_capacity_bytes
  MaxSize,     \* bound: the size of one encoded log
  MaxUpserts,  \* bound: logs written
  MaxFaults    \* bound: failed file operations and crashes

VARIABLES
  pc,           \* what the holder of the mutex does next
  job,          \* the log being written
  disk,         \* retained-logs/
  entries,      \* the index: service -> its file
  total_bytes,
  latest,       \* history: service -> the version last renamed into place
  stuck,        \* history: the last eviction stopped at a failed remove
  clock, faults

vars == <<pc, job, disk, entries, total_bytes, latest, stuck, clock, faults>>

\* A file: a log as of some upsert, its time being its version; a torn one
\* does not decode.
File == [name : Names, ver : 1..MaxUpserts, size : 1..MaxSize,
         tmp : BOOLEAN, whole : BOOLEAN]
NoJob == CHOOSE f \in File : ~f.whole
\* The size of files: the number of their bytes, each named by its place.
BytesOf(files) == UNION {{f} \X (1..f.size) : f \in files}
Sizes(files) == Cardinality(BytesOf(files))
saturating_sub(a, b) == IF a > b THEN a - b ELSE 0

Fault == faults < MaxFaults /\ faults' = faults + 1
NoFault == UNCHANGED faults

(***************************************************************************)
(* upsert.                                                                 *)
(***************************************************************************)
Upsert(s, size) ==
  /\ pc = "idle" /\ clock < MaxUpserts
  /\ clock' = clock + 1
  /\ job' = [name |-> s, ver |-> clock + 1, size |-> size, tmp |-> TRUE, whole |-> FALSE]
  /\ disk' = disk \cup {job'}
  /\ pc' = "write"
  /\ UNCHANGED <<entries, total_bytes, latest, stuck, faults>>

\* fs::write: on an error the torn temporary file stays.
WriteTmp ==
  /\ pc = "write"
  /\ \/ /\ job' = [job EXCEPT !.whole = TRUE]
        /\ disk' = (disk \ {job}) \cup {job'}
        /\ pc' = "rename" /\ NoFault
     \/ /\ pc' = "idle" /\ Fault /\ UNCHANGED <<job, disk>>
  /\ UNCHANGED <<entries, total_bytes, latest, stuck, clock>>

FileOf(s) == {f \in disk : f.name = s /\ ~f.tmp}

\* fs::rename: on an error the temporary file is removed, if that works.
Rename ==
  /\ pc = "rename"
  /\ \/ /\ job' = [job EXCEPT !.tmp = FALSE]
        /\ disk' = (disk \ (FileOf(job.name) \cup {job})) \cup {job'}
        /\ latest' = [latest EXCEPT ![job.name] = job.ver]
        /\ pc' = "index" /\ NoFault
     \/ /\ disk' \in {disk, disk \ {job}}
        /\ pc' = "idle" /\ Fault /\ UNCHANGED <<job, latest>>
  /\ UNCHANGED <<entries, total_bytes, stuck, clock>>

\* Seeded fault: the size of the file that was replaced stays counted.
replaced_still_counted(s) == total_bytes
without_previous(s) ==
  IF s \in DOMAIN entries THEN saturating_sub(total_bytes, entries[s].size) ELSE total_bytes

Index ==
  /\ pc = "index"
  /\ total_bytes' = without_previous(job.name) + job.size
  /\ entries' = [s \in DOMAIN entries \cup {job.name} |->
                   IF s = job.name THEN job ELSE entries[s]]
  /\ pc' = "evict"
  /\ UNCHANGED <<job, disk, latest, stuck, clock, faults>>

(***************************************************************************)
(* evict_if_needed, after an upsert or a start.                            *)
(***************************************************************************)
Oldest == CHOOSE s \in DOMAIN entries : \A x \in DOMAIN entries : entries[s].ver <= entries[x].ver

Evict ==
  /\ pc \in {"evict", "start"} /\ total_bytes > Capacity /\ DOMAIN entries # {}
  /\ total_bytes' = saturating_sub(total_bytes, entries[Oldest].size)
  /\ entries' = [s \in DOMAIN entries \ {Oldest} |-> entries[s]]
  /\ \/ disk' = disk \ {entries[Oldest]} /\ NoFault /\ UNCHANGED <<pc, stuck>>
     \/ /\ Fault /\ stuck' = TRUE /\ UNCHANGED disk
        /\ pc' = IF pc = "start" THEN "down" ELSE "idle"
  /\ UNCHANGED <<job, latest, clock>>

EvictDone ==
  /\ pc \in {"evict", "start"} /\ (total_bytes <= Capacity \/ DOMAIN entries = {})
  /\ pc' = "idle" /\ stuck' = FALSE
  /\ UNCHANGED <<job, disk, entries, total_bytes, latest, clock, faults>>

(***************************************************************************)
(* A crash, and new.                                                       *)
(***************************************************************************)
\* The daemon dies; after a power loss any file may be torn.  A rename that has
\* returned is taken to last: nothing syncs the directory, so a power loss may
\* undo it on some file systems, which is left out.
Crash(torn) ==
  /\ pc # "down" /\ Fault
  /\ torn \subseteq disk
  /\ disk' = (disk \ torn) \cup {[f EXCEPT !.whole = FALSE] : f \in torn}
  /\ pc' = "down" /\ entries' = << >> /\ total_bytes' = 0
  /\ UNCHANGED <<job, latest, stuck, clock>>

\* Seeded fault: temporary files of an earlier process are left alone.
tmp_left(files) == files
initialize_retained_dir(files) == {f \in files : ~f.tmp}

\* rebuild_index_from_disk: files that do not decode are removed; of two files
\* of a service the one read last is indexed.
Restart ==
  /\ pc = "down"
  /\ disk' = {f \in initialize_retained_dir(disk) : f.whole}
  /\ LET names == {f.name : f \in disk'}
     IN entries' \in {e \in [names -> disk'] : \A s \in names : e[s].name = s}
  /\ total_bytes' = Sizes(Range(entries'))
  /\ pc' = "start"
  /\ UNCHANGED <<job, latest, stuck, clock, faults>>

Init ==
  /\ pc = "down" /\ disk = {} /\ entries = << >> /\ total_bytes = 0 /\ job = NoJob
  /\ latest = [s \in Names |-> 0] /\ stuck = FALSE /\ clock = 0 /\ faults = 0

Next ==
  \/ \E s \in Names, size \in 1..MaxSize : Upsert(s, size)
  \/ WriteTmp \/ Rename \/ Index \/ Evict \/ EvictDone
  \/ \E torn \in SUBSET disk : Crash(torn)
  \/ Restart

Spec == Init /\ [][Next]_vars

(***************************************************************************)
(* Properties.                                                             *)
(***************************************************************************)
\* What is served is the service's last log, whole: whatever failed or crashed
\* in an upsert, an index entry leads to a file that decodes and holds the
\* version last renamed into place, never an older or an unfinished one.  And
\* the index counts its files exactly; they fit the capacity unless an eviction
\* could not remove a file.
RetainedIsLatest ==
  pc = "idle" =>
    /\ \A s \in DOMAIN entries :
         entries[s] \in disk /\ entries[s].whole /\ entries[s].ver = latest[s]
    /\ total_bytes = Sizes(Range(entries))
    /\ total_bytes <= Capacity \/ stuck
=============================================================================
