--------------------------- MODULE DaemonSessions ---------------------------
(***************************************************************************)
(* The daemon's accept loop and the end of it (imagod/src/                 *)
(* manager_runtime.rs, shutdown.rs) with the sessions it spawns            *)
(* (imagod-server/src/protocol_handler/session_loop.rs): every connection  *)
(* is a session task that holds a permit, every stream of a session is a   *)
(* task of its own, an error of one aborts the others, and a shutdown      *)
(* drains the sessions for a while and aborts what is left.                *)
(*                                                                         *)
(* A connection of the control socket is one request that the session task *)
(* reads and answers itself; it is a session with one stream here.         *)
(* An abort takes effect when the task yields: until then it runs on.      *)
(* Sessions are not told of a shutdown.  What the handlers do is in the    *)
(* other modules; here a request is short, follows a log or invokes a      *)
(* guest.                                                                  *)
(***************************************************************************)
EXTENDS Integers, FiniteSets

CONSTANTS
  Clients,       \* bound: connections
  Streams,       \* 1..n, bound: stream tasks of a session at a time
  MaxSessions    \* max_concurrent_sessions

VARIABLES
  daemon,    \* the main task
  signal,    \* SIGINT has come, or the endpoint is closed
  session,   \* client -> its session task
  peer,      \* clients that are connected
  stream,    \* client, stream -> its task
  aborted    \* client -> streams that have been told to end

vars == <<daemon, signal, session, peer, stream, aborted>>

Live(c) ==
  {i \in Streams : stream[c][i] \in {"handling", "following", "invoking", "writing"}}

TypeOK ==
  /\ daemon \in {"accepting", "rejecting", "draining", "aborting", "stopping", "exited"}
  /\ signal \in BOOLEAN
  /\ session \in [Clients -> {"none", "connecting", "rejected", "responding", "serving",
                              "closing", "failing", "ended"}]
  /\ peer \subseteq Clients
  /\ stream \in [Clients -> [Streams -> {"none", "handling", "following", "invoking",
                                         "writing", "failed"}]]
  /\ aborted \in [Clients -> SUBSET Streams]

Init ==
  /\ daemon = "accepting" /\ signal = FALSE
  /\ session = [c \in Clients |-> "none"] /\ peer = {}
  /\ stream = [c \in Clients |-> [i \in Streams |-> "none"]]
  /\ aborted = [c \in Clients |-> {}]

\* Stream numbers are interchangeable: a new task takes the first unused one.
IsNextStream(c, i) ==
  stream[c][i] = "none" /\ \A j \in Streams : j < i => stream[c][j] # "none"
SetSession(c, s) == session' = [session EXCEPT ![c] = s]
SetStream(c, i, s) == stream' = [stream EXCEPT ![c][i] = s]
StreamVars == <<stream, aborted>>

\* Session tasks, each with a permit.
Holding == {c \in Clients : session[c] \in {"responding", "serving", "closing", "failing"}}

(***************************************************************************)
(* The clients.                                                            *)
(***************************************************************************)
Connect(c) ==
  /\ session[c] = "none" /\ c \notin peer
  /\ peer' = peer \cup {c} /\ SetSession(c, "connecting")
  /\ UNCHANGED <<daemon, signal, StreamVars>>

\* The client closes, or dies and the idle timeout passes.
Disconnect(c) ==
  /\ c \in peer
  /\ peer' = peer \ {c}
  /\ UNCHANGED <<daemon, signal, session, StreamVars>>

(***************************************************************************)
(* The accept loop.                                                        *)
(***************************************************************************)
Signal ==
  /\ ~signal /\ signal' = TRUE
  /\ UNCHANGED <<daemon, session, peer, StreamVars>>

\* try_acquire_owned: a session, or an answer the loop itself waits for (a
\* connection of the control socket is just dropped).
Accept(c) ==
  /\ daemon = "accepting" /\ session[c] = "connecting"
  /\ IF Cardinality(Holding) < MaxSessions
       THEN SetSession(c, "responding") /\ UNCHANGED daemon
       ELSE SetSession(c, "rejected") /\ daemon' = "rejecting"
  /\ UNCHANGED <<signal, peer, StreamVars>>

\* respond(TOO_MANY_REQUESTS) is written, or fails.
Rejected ==
  /\ daemon = "rejecting" /\ daemon' = "accepting"
  /\ UNCHANGED <<signal, session, peer, StreamVars>>

\* begin_shutdown, and the loop ends.
BeginShutdown ==
  /\ daemon = "accepting" /\ signal
  /\ daemon' = "draining"
  /\ UNCHANGED <<signal, session, peer, StreamVars>>

(***************************************************************************)
(* drain_session_tasks.                                                    *)
(***************************************************************************)
\* Seeded fault: the sessions are told to end and not waited for.
not_awaited == TRUE
\* join_next has returned every session task.
all_joined == Holding = {}

Drained ==
  /\ daemon \in {"draining", "aborting"} /\ all_joined
  /\ daemon' = "stopping"
  /\ UNCHANGED <<signal, session, peer, StreamVars>>

\* Seeded fault: what does not end in time is waited for all the same.
drain_patiently == FALSE
\* SESSION_TASK_DRAIN_TIMEOUT_SECS have passed.
drain_timed_out == TRUE

DrainTimeout ==
  /\ daemon = "draining" /\ drain_timed_out
  /\ daemon' = "aborting"
  /\ UNCHANGED <<signal, session, peer, StreamVars>>

\* A session task that abort_all has hit is dropped, and with it its JoinSet:
\* its streams are told to end, and nobody waits for them.
DropSession(c) ==
  /\ daemon = "aborting" /\ c \in Holding
  /\ SetSession(c, "ended")
  /\ aborted' = [aborted EXCEPT ![c] = Live(c)]
  /\ UNCHANGED <<daemon, signal, peer, stream>>

\* stop_all_services, the maintenance task, and the process ends.
Exit ==
  /\ daemon = "stopping" /\ daemon' = "exited"
  /\ UNCHANGED <<signal, session, peer, StreamVars>>

(***************************************************************************)
(* run_session_loop.                                                       *)
(***************************************************************************)
Up == daemon # "exited"

\* respond(OK) and the peer's identity.
Respond(c) ==
  /\ Up /\ session[c] = "responding"
  /\ \/ c \in peer /\ SetSession(c, "serving")
     \/ SetSession(c, "ended")
  /\ UNCHANGED <<daemon, signal, peer, StreamVars>>

AcceptStream(c, i) ==
  /\ Up /\ session[c] = "serving" /\ c \in peer /\ IsNextStream(c, i)
  /\ SetStream(c, i, "handling")
  /\ UNCHANGED <<daemon, signal, session, peer, aborted>>

\* accept_bi fails: the streams are awaited.
CloseSession(c) ==
  /\ Up /\ session[c] = "serving" /\ c \notin peer
  /\ SetSession(c, "closing")
  /\ UNCHANGED <<daemon, signal, peer, StreamVars>>

\* Seeded fault: a stream that fails leaves the others alone.
only_itself(c, i) == {}
\* first_error: abort_all.
aborted_by(c, i) == Live(c)

\* collect_stream_task_result of a stream that failed.  The result of any
\* other has no effect, and its task is gone when it ends.
Join(c, i) ==
  /\ Up /\ session[c] \in {"serving", "closing", "failing"} /\ stream[c][i] = "failed"
  /\ SetStream(c, i, "none")
  /\ IF session[c] = "serving"
       THEN SetSession(c, "failing") /\ aborted' = [aborted EXCEPT ![c] = aborted_by(c, i)]
       ELSE UNCHANGED <<session, aborted>>
  /\ UNCHANGED <<daemon, signal, peer>>

EndSession(c) ==
  /\ Up /\ session[c] \in {"closing", "failing"}
  /\ \A i \in Streams : stream[c][i] = "none"
  /\ SetSession(c, "ended")
  /\ UNCHANGED <<daemon, signal, peer, StreamVars>>

(***************************************************************************)
(* run_stream_io.                                                          *)
(***************************************************************************)
\* read_stream_with_timeout, and the handler: an answer, the error of a read
\* that failed or timed out, a log to follow, or a guest to call.
Handle(c, i) ==
  /\ Up /\ stream[c][i] = "handling"
  /\ \E s \in {"following", "invoking", "writing"} : SetStream(c, i, s)
  /\ UNCHANGED <<daemon, signal, session, peer, aborted>>

\* rpc.invoke: the runner answers, or its connection breaks.  The call has no
\* time-out and does not look at the client.
InvokeReturns(c, i) ==
  /\ Up /\ stream[c][i] = "invoking"
  /\ SetStream(c, i, "writing")
  /\ UNCHANGED <<daemon, signal, session, peer, aborted>>

\* Seeded fault: a follower looks only at the log.
never_closed(c) == FALSE
close_signal(c) == c \notin peer

\* stream_logs_chunks: the service has ended, or the client has gone.
FollowEnds(c, i) ==
  /\ Up /\ stream[c][i] = "following"
  /\ SetStream(c, i, "writing")
  /\ UNCHANGED <<daemon, signal, session, peer, aborted>>

\* write_envelope and finish_stream: a client that reads takes it; behind one
\* that does not read it waits; it fails on a stream that was reset, and when
\* the client has gone.
Write(c, i) ==
  /\ Up /\ stream[c][i] = "writing"
  /\ SetStream(c, i, "failed") \/ (c \in peer /\ SetStream(c, i, "none"))
  /\ UNCHANGED <<daemon, signal, session, peer, aborted>>

\* The task yields and is dropped.
DropStream(c, i) ==
  /\ Up /\ i \in aborted[c] /\ i \in Live(c)
  /\ SetStream(c, i, "none")
  /\ UNCHANGED <<daemon, signal, session, peer, aborted>>

(***************************************************************************)
(* Specification.                                                          *)
(***************************************************************************)
DaemonStep ==
  Rejected \/ BeginShutdown \/ Drained \/ DrainTimeout \/ Exit
    \/ \E c \in Clients : DropSession(c)

StreamStep(c, i) ==
  \/ Handle(c, i) \/ FollowEnds(c, i) \/ InvokeReturns(c, i)
  \/ Write(c, i) \/ DropStream(c, i)

Next ==
  \/ Signal \/ DaemonStep
  \/ \E c \in Clients :
       \/ Connect(c) \/ Disconnect(c) \/ Accept(c)
       \/ Respond(c) \/ CloseSession(c) \/ EndSession(c)
       \/ \E i \in Streams : AcceptStream(c, i) \/ Join(c, i) \/ StreamStep(c, i)

Spec == Init /\ [][Next]_vars

(***************************************************************************)
(* Fairness: tokio polls every task, reads have a time-out, requests other *)
(* than rpc.invoke end.  A client need not read, so a write ends for       *)
(* certain only without one; a followed service need not end, and a guest  *)
(* need not return.                                                        *)
(***************************************************************************)
Fairness ==
  /\ WF_vars(DaemonStep)
  /\ \A c \in Clients :
       /\ WF_vars(Respond(c)) /\ WF_vars(CloseSession(c)) /\ WF_vars(EndSession(c))
       /\ \A i \in Streams :
            /\ WF_vars(Join(c, i)) /\ WF_vars(Handle(c, i))
            /\ WF_vars(close_signal(c) /\ FollowEnds(c, i))
            /\ WF_vars(c \notin peer /\ Write(c, i))
            /\ WF_vars(DropStream(c, i))

FairSpec == Spec /\ Fairness

(***************************************************************************)
(* Properties.                                                             *)
(***************************************************************************)
\* A session ends, and its permit comes back, once one of its streams has
\* failed, whatever the others are doing; and once its client has gone, unless
\* it waits for a guest that never returns (run_session_loop awaits the other
\* streams there and does not abort them).  A signal ends the daemon, although
\* sessions are not told of it, clients may stay, follow a log or never read,
\* and guests may never return.
SessionsEnd ==
  /\ \A c \in Clients :
       /\ session[c] = "failing" ~> c \notin Holding
       /\ c \in Holding /\ c \notin peer ~>
            (c \notin Holding \/ [](\E i \in Streams : stream[c][i] = "invoking"))
  /\ signal ~> daemon = "exited"

\* When the services are stopped nothing is left that could start one: every
\* session task has ended, and a stream whose task still runs has been told to
\* end at its next await.
StopIsLast ==
  daemon \in {"stopping", "exited"} =>
    \A c \in Clients : c \notin Holding /\ Live(c) \subseteq aborted[c]
=============================================================================
