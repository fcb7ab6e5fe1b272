---------------------------- MODULE ServiceLogs ----------------------------
(***************************************************************************)
(* The logs of one service, from the runner's pipes to the user's terminal *)
(* (imagod-control/src/service_supervisor/log_buffer.rs and open_logs,     *)
(* imagod-server/src/protocol_handler/logs_forwarder.rs, imago-cli/src/    *)
(* commands/logs/mod.rs).                                                  *)
(*                                                                         *)
(* Each run of the service has two drain tasks, which append what they     *)
(* read to the run's bounded buffer and then broadcast it; a reader        *)
(* (logs.request) subscribes, takes a snapshot of the buffer and then      *)
(* forwards broadcast events through a bounded queue.  A reader that is    *)
(* too slow lags: the channel overwrites events it has not received, and   *)
(* the forwarder skips as many sequence numbers.  When the run ends its    *)
(* buffer is retained on disk and served until the next run.               *)
(*                                                                         *)
(* An event is one line, sent as one chunk; sizes in bytes, and how a      *)
(* snapshot is cut by lines, are module LogBuffer.                         *)
(***************************************************************************)
EXTENDS Integers, Sequences, Functions

CONSTANTS
  Streams,      \* stdout and stderr
  Readers,      \* logs.request handlers
  MaxRuns,      \* bound: runs of the service
  MaxEvents,    \* bound: lines written, over all runs
  BufferCap,    \* runner_log_buffer_bytes, in lines
  ChannelCap,   \* LOG_CHANNEL_CAPACITY
  QueueCap,     \* the forwarder's mpsc::channel(128)
  TailLines     \* tail_lines of the requests

ASSUME CapsAssumption ==
  /\ {BufferCap, ChannelCap, QueueCap} \subseteq Nat \ {0}
  /\ {MaxRuns, MaxEvents, TailLines} \subseteq Nat

VARIABLES
  phase,      \* run -> where the supervisor has it
  exited,     \* runs whose process has ended
  written,    \* lines written so far; a line is its number
  pipe,       \* run -> stream -> lines written and not yet read
  drain,      \* run -> stream -> the drain task
  pushed,     \* history: run -> stream -> lines appended to the buffer, in order
  buffer,     \* run -> CompositeLogBuffer
  channel,    \* run -> every line broadcast; the channel keeps the last ones
  retained,   \* the retained log: its run and lines
  reader,     \* logs.request handlers and their forwarding tasks
  client      \* the CLI that reads the answer

supervisorVars == <<phase, exited, retained>>
drainVars == <<written, pipe, drain, pushed, buffer, channel>>
vars == <<phase, exited, written, pipe, drain, pushed, buffer, channel,
          retained, reader, client>>

Runs == 1..MaxRuns
Lines == 1..MaxEvents
NoRun == 0
NoLine == 0
NoLog == [run |-> NoRun, lines |-> <<>>]

\* A message of the forwarding task: a line, or the number of lines lost.
Msg == [line : Lines \cup {NoLine}, lagged : Nat]
NoMsg == [line |-> NoLine, lagged |-> 0]

Reader == [pc : {"idle", "subscribed", "retained", "sending", "following",
                 "ended", "refused"},
           run : Runs \cup {NoRun}, follow : BOOLEAN,
           start : Nat,           \* the receiver's position when it subscribed
           pos : Nat,             \* its position now
           out : Seq(Lines),      \* snapshot lines still to send
           hold : Msg,            \* what the forwarding task waits to enqueue
           queue : Seq(Msg), closed : BOOLEAN, seq : Nat,
           missed : SUBSET Lines] \* history: lines it lagged past
NoReader == [pc |-> "idle", run |-> NoRun, follow |-> FALSE, start |-> 0,
             pos |-> 0, out |-> <<>>, hold |-> NoMsg, queue |-> <<>>,
             closed |-> FALSE, seq |-> 0, missed |-> {}]
NoClient == [expected |-> 0, warned |-> FALSE, got |-> <<>>]

TypeOK ==
  /\ phase \in [Runs -> {"none", "running", "stopping", "reaping", "retired"}]
  /\ exited \subseteq Runs
  /\ written \in 0..MaxEvents
  /\ pipe \in [Runs -> [Streams -> Seq(Lines)]]
  /\ drain \in [Runs -> [Streams -> Lines \cup {NoLine, -1}]]
  /\ pushed \in [Runs -> [Streams -> Seq(Lines)]]
  /\ {buffer, channel} \subseteq [Runs -> Seq(Lines)]
  /\ retained \in [run : Runs \cup {NoRun}, lines : Seq(Lines)]
  /\ reader \in [Readers -> Reader]
  /\ client \in [Readers -> [expected : Nat, warned : BOOLEAN, got : Seq(Lines)]]

Init ==
  /\ phase = [r \in Runs |-> "none"] /\ exited = {} /\ written = 0
  /\ pipe = [r \in Runs |-> [s \in Streams |-> <<>>]]
  /\ drain = [r \in Runs |-> [s \in Streams |-> NoLine]]
  /\ pushed = pipe
  /\ buffer = [r \in Runs |-> <<>>] /\ channel = buffer
  /\ retained = NoLog
  /\ reader = [q \in Readers |-> NoReader]
  /\ client = [q \in Readers |-> NoClient]

(***************************************************************************)
(* The supervisor: at most one run is in inner.                            *)
(***************************************************************************)
Running == {r \in Runs : phase[r] = "running"}
Stopping == {r \in Runs : phase[r] = "stopping"}

\* start: the command gate keeps it apart from a stop; a reap by the
\* maintenance task may still be under way.
Start(r) ==
  /\ phase[r] = "none" /\ \A e \in 1..(r - 1) : phase[e] # "none"
  /\ Running = {} /\ Stopping = {}
  /\ phase' = [phase EXCEPT ![r] = "running"]
  /\ UNCHANGED <<exited, retained, drainVars, reader, client>>

\* The process ends by itself, or at the request of stop.
Exit(r) ==
  /\ phase[r] \in {"running", "stopping"} /\ r \notin exited
  /\ exited' = exited \cup {r}
  /\ UNCHANGED <<phase, retained, drainVars, reader, client>>

\* stop: begin_stop_service and take_running.
Stop(r) ==
  /\ phase[r] = "running"
  /\ phase' = [phase EXCEPT ![r] = "stopping"]
  /\ UNCHANGED <<exited, retained, drainVars, reader, client>>

\* reap_finished_service takes an exited run out of inner.
Reap(r) ==
  /\ phase[r] = "running" /\ r \in exited
  /\ phase' = [phase EXCEPT ![r] = "reaping"]
  /\ UNCHANGED <<exited, retained, drainVars, reader, client>>

\* retain_composite_snapshot, once the process has ended: the buffer as it is
\* now, of which the drains may have more.  The write may fail, and the log of
\* another service may evict ours later.  The RunningService, and with it its
\* log_sender, is dropped.
Retain(r) ==
  /\ r \in exited /\ phase[r] \in {"stopping", "reaping"}
  /\ phase' = [phase EXCEPT ![r] = "retired"]
  /\ \/ retained' = [run |-> r, lines |-> buffer[r]]
     \/ UNCHANGED retained
  /\ UNCHANGED <<exited, drainVars, reader, client>>

EvictRetained ==
  /\ retained # NoLog
  /\ retained' = NoLog
  /\ UNCHANGED <<phase, exited, drainVars, reader, client>>

(***************************************************************************)
(* The runner writes; spawn_log_drain reads.                               *)
(***************************************************************************)
Write(r, s) ==
  /\ phase[r] \in {"running", "stopping"} /\ r \notin exited
  /\ written < MaxEvents
  /\ written' = written + 1
  /\ pipe' = [pipe EXCEPT ![r][s] = Append(@, written + 1)]
  /\ UNCHANGED <<supervisorVars, drain, pushed, buffer, channel, reader, client>>

LastLines(seq, n) == SubSeq(seq, IF Len(seq) > n THEN Len(seq) - n + 1 ELSE 1, Len(seq))

\* Read one line and append it under the buffer's lock, evicting the oldest.
Drain(r, s) ==
  /\ drain[r][s] = NoLine /\ pipe[r][s] # <<>>
  /\ LET line == Head(pipe[r][s])
     IN /\ drain' = [drain EXCEPT ![r][s] = line]
        /\ pushed' = [pushed EXCEPT ![r][s] = Append(@, line)]
        /\ buffer' = [buffer EXCEPT ![r] = LastLines(Append(@, line), BufferCap)]
  /\ pipe' = [pipe EXCEPT ![r][s] = Tail(@)]
  /\ UNCHANGED <<supervisorVars, written, channel, reader, client>>

\* sender.send, after the lock is released.
Broadcast(r, s) ==
  /\ drain[r][s] \in Lines
  /\ channel' = [channel EXCEPT ![r] = Append(@, drain[r][s])]
  /\ drain' = [drain EXCEPT ![r][s] = NoLine]
  /\ UNCHANGED <<supervisorVars, written, pipe, pushed, buffer, reader, client>>

\* End of file: the task ends and drops its sender.
DrainEnd(r, s) ==
  /\ drain[r][s] = NoLine /\ pipe[r][s] = <<>> /\ r \in exited
  /\ drain' = [drain EXCEPT ![r][s] = -1]
  /\ UNCHANGED <<supervisorVars, written, pipe, pushed, buffer, channel, reader, client>>

(***************************************************************************)
(* logs.request: open_logs.                                                *)
(***************************************************************************)
\* Under inner's read lock: a running service gives its buffer and, to follow,
\* a receiver; a stopping one has no logs; otherwise the retained log is read.
Open(q, follow) ==
  /\ reader[q].pc = "idle"
  /\ reader' = [reader EXCEPT ![q] =
       IF Running # {}
         THEN LET r == CHOOSE x \in Running : TRUE
              IN [NoReader EXCEPT !.pc = "subscribed", !.run = r, !.follow = follow,
                                  !.start = Len(channel[r])]
         ELSE [NoReader EXCEPT !.pc = IF Stopping # {} THEN "refused" ELSE "retained"]]
  /\ UNCHANGED <<supervisorVars, drainVars, client>>

\* Under the buffer's lock: the last lines of it.
ReadBuffer(q) ==
  /\ reader[q].pc = "subscribed"
  /\ reader' = [reader EXCEPT ![q].pc = "sending",
                              ![q].out = LastLines(buffer[reader[q].run], TailLines)]
  /\ UNCHANGED <<supervisorVars, drainVars, client>>

\* read_retained_events, on the blocking pool; nothing to follow.
ReadRetained(q) ==
  /\ reader[q].pc = "retained"
  /\ reader' = [reader EXCEPT ![q] =
       IF retained = NoLog THEN [NoReader EXCEPT !.pc = "refused"]
       ELSE [NoReader EXCEPT !.pc = "sending", !.run = retained.run,
                             !.out = LastLines(retained.lines, TailLines)]]
  /\ UNCHANGED <<supervisorVars, drainVars, client>>

(***************************************************************************)
(* logs_forwarder: the snapshot, then the broadcast events.                *)
(***************************************************************************)
\* The CLI: a sequence number that is not the expected one means lost lines.
seq_gap(c, seq) == seq # c.expected
Receive(c, seq, lines) ==
  [expected |-> seq + 1, warned |-> c.warned \/ seq_gap(c, seq), got |-> c.got \o lines]

\* send_single_log_chunk.
SendChunk(q, lines) ==
  client' = [client EXCEPT ![q] = Receive(@, reader[q].seq, lines)]

SendSnapshot(q) ==
  /\ reader[q].pc = "sending" /\ reader[q].out # <<>>
  /\ SendChunk(q, <<Head(reader[q].out)>>)
  /\ reader' = [reader EXCEPT ![q].out = Tail(@), ![q].seq = @ + 1]
  /\ UNCHANGED <<supervisorVars, drainVars>>

\* The terminal chunk, and logs.end with the next number.
SendEnd(q) ==
  /\ client' = [client EXCEPT ![q] = Receive(Receive(@, reader[q].seq, <<>>),
                                             reader[q].seq + 1, <<>>)]
  /\ reader' = [reader EXCEPT ![q].pc = "ended", ![q].seq = @ + 1]
  /\ UNCHANGED <<supervisorVars, drainVars>>

\* Seeded fault: the handler subscribes once the snapshot is sent.
late_receiver(q) == Len(channel[reader[q].run])
\* open_logs made the receiver, before it read the buffer.
receiver_at(q) == reader[q].start

SnapshotSent(q) ==
  /\ reader[q].pc = "sending" /\ reader[q].out = <<>>
  /\ IF reader[q].follow
       THEN /\ reader' = [reader EXCEPT ![q].pc = "following", ![q].pos = receiver_at(q)]
            /\ UNCHANGED <<supervisorVars, drainVars, client>>
       ELSE SendEnd(q)

\* The channel is closed once the RunningService and both drains are gone.
SenderDropped(r) ==
  phase[r] = "retired" /\ \A s \in Streams : drain[r][s] = -1

\* receiver.recv in the forwarding task: a receiver that is more than the
\* channel's capacity behind is told how many it lost and moved to the oldest.
Recv(q) ==
  LET r == reader[q].run
      behind == Len(channel[r]) - reader[q].pos
  IN /\ reader[q].pc = "following" /\ reader[q].hold = NoMsg /\ ~reader[q].closed
     /\ \/ /\ behind > ChannelCap
           /\ reader' = [reader EXCEPT ![q].hold.lagged = behind - ChannelCap,
                                       ![q].pos = @ + behind - ChannelCap,
                                       ![q].missed = @ \cup
                                         {channel[r][reader[q].pos + i] :
                                            i \in 1..(behind - ChannelCap)}]
        \/ /\ behind \in 1..ChannelCap
           /\ reader' = [reader EXCEPT ![q].hold.line = channel[r][reader[q].pos + 1],
                                       ![q].pos = @ + 1]
        \/ /\ behind = 0 /\ SenderDropped(r)
           /\ reader' = [reader EXCEPT ![q].closed = TRUE]
     /\ UNCHANGED <<supervisorVars, drainVars, client>>

\* tx.send waits for room in the queue.
Enqueue(q) ==
  /\ reader[q].pc = "following" /\ reader[q].hold # NoMsg
  /\ Len(reader[q].queue) < QueueCap
  /\ reader' = [reader EXCEPT ![q].queue = Append(@, reader[q].hold), ![q].hold = NoMsg]
  /\ UNCHANGED <<supervisorVars, drainVars, client>>

\* Seeded fault: lines lost to a lag are not counted.
lag_not_counted(seq, dropped) == seq
advance_seq_for_lagged(seq, dropped) == seq + dropped

\* The handler takes a message off the queue and writes it to the stream.
Forward(q) ==
  /\ reader[q].pc = "following" /\ reader[q].queue # <<>>
  /\ LET m == Head(reader[q].queue)
     IN IF m.line # NoLine
          THEN /\ SendChunk(q, <<m.line>>)
               /\ reader' = [reader EXCEPT ![q].queue = Tail(@), ![q].seq = @ + 1]
          ELSE /\ reader' = [reader EXCEPT ![q].queue = Tail(@),
                               ![q].seq = advance_seq_for_lagged(@, m.lagged)]
               /\ UNCHANGED client
  /\ UNCHANGED <<supervisorVars, drainVars>>

\* Seeded fault: the handler keeps the sender it cloned for its tasks.
own_tx_kept(q) == FALSE
\* drop(tx): only the forwarding task holds a sender of the queue.
queue_closed(q) == reader[q].closed /\ reader[q].hold = NoMsg

\* The forwarding task has ended and the queue is empty.
FollowEnd(q) ==
  /\ reader[q].pc = "following" /\ queue_closed(q) /\ reader[q].queue = <<>>
  /\ SendEnd(q)

\* The client goes away (close_signal).
Close(q) ==
  /\ reader[q].pc \in {"following", "sending"}
  /\ reader' = [reader EXCEPT ![q] = [NoReader EXCEPT !.pc = "refused"]]
  /\ client' = [client EXCEPT ![q] = NoClient]
  /\ UNCHANGED <<supervisorVars, drainVars>>

ReaderStep(q) ==
  \/ ReadBuffer(q) \/ ReadRetained(q) \/ SendSnapshot(q) \/ SnapshotSent(q)
  \/ Recv(q) \/ Enqueue(q) \/ Forward(q) \/ FollowEnd(q)

Next ==
  \/ EvictRetained
  \/ \E r \in Runs :
       \/ Start(r) \/ Exit(r) \/ Stop(r) \/ Reap(r) \/ Retain(r)
       \/ \E s \in Streams : Write(r, s) \/ Drain(r, s) \/ Broadcast(r, s) \/ DrainEnd(r, s)
  \/ \E q \in Readers :
       ReaderStep(q) \/ Close(q) \/ \E follow \in BOOLEAN : Open(q, follow)

Spec == Init /\ [][Next]_vars

(***************************************************************************)
(* Fairness: tokio polls the drains, the reaper and the handlers; a stop   *)
(* ends its process.  Nobody has to start or stop the service, to write,   *)
(* or to open a log.  A client reads, or goes away: one that stays and     *)
(* never reads keeps its forwarder in the write.                           *)
(***************************************************************************)
Fairness ==
  /\ \A r \in Runs :
       /\ WF_vars(Reap(r)) /\ WF_vars(Retain(r))
       /\ WF_vars(phase[r] = "stopping" /\ Exit(r))
       /\ \A s \in Streams :
            WF_vars(Drain(r, s) \/ Broadcast(r, s) \/ DrainEnd(r, s))
  /\ \A q \in Readers :
       /\ WF_vars(Recv(q)) /\ WF_vars(Enqueue(q)) /\ WF_vars(Forward(q))
       /\ WF_vars(ReadBuffer(q) \/ ReadRetained(q) \/ SendSnapshot(q)
                   \/ SnapshotSent(q) \/ FollowEnd(q))

FairSpec == Spec /\ Fairness

(***************************************************************************)
(* Properties.                                                             *)
(***************************************************************************)
Got(q) == Range(client[q].got)

\* "<<logs truncated>>" is the truth: when the stream ends, the user has been
\* warned exactly if the channel overwrote a line before a slow reader received
\* it, at whatever point of the stream that was.
WarnedIffLost ==
  \A q \in Readers : reader[q].pc = "ended" =>
    (client[q].warned <=> reader[q].missed # {})

\* Snapshot and follow join without a hole: if a follower that was not warned
\* has seen a line, it has seen every later line of the same stream; a line
\* that comes between the subscription and the snapshot is not lost.  (Lines of
\* different streams may change places: each drain broadcasts after it has let
\* go of the buffer.)
NoHole ==
  \A q \in Readers : reader[q].pc = "ended" /\ reader[q].follow /\ ~client[q].warned =>
    \A s \in Streams :
      LET p == pushed[reader[q].run][s]
      IN \A i, j \in DOMAIN p : i < j /\ p[i] \in Got(q) => p[j] \in Got(q)

\* A follower's stream ends once the run it follows has ended, in whatever
\* order the drains, the reaper, a stop and the forwarder get there.
FollowEnds ==
  \A q \in Readers :
    reader[q].pc = "following" /\ reader[q].run \in exited
      ~> reader[q].pc \in {"ended", "refused"}
=============================================================================
