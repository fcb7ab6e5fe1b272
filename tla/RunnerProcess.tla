--------------------------- MODULE RunnerProcess ---------------------------
(***************************************************************************)
(* One runner process, from registration to exit (imagod-runtime/src/      *)
(* runner_process.rs) with the tasks it spawns: the inbound server and the *)
(* heartbeats (imagod-runtime-control), the run of the component           *)
(* (imagod-runtime-wasmtime/src/runtime_entry.rs) and, for an http app,    *)
(* the ingress (imagod-runtime-ingress) and the worker (http_supervisor).  *)
(*                                                                         *)
(* The tasks are tied together by one watch channel, shutdown.  A receiver *)
(* made by subscribe() counts the current value as seen, so the ingress,   *)
(* which subscribes late, is told only of what is sent after that.         *)
(***************************************************************************)
EXTENDS Integers, FiniteSets, Sequences

CONSTANTS
  Requests,      \* http requests from outside
  Invocations,   \* Invoke calls from other services' runners
  ShutdownCall,          \* the manager's ShutdownRunner call
  Permits,       \* MAX_INBOUND_CONNECTION_HANDLERS of the inbound server
  HttpPermits,   \* MAX_INBOUND_CONNECTION_HANDLERS of the ingress
  QueueCap,      \* http_worker_queue_capacity
  MaxFailures,   \* MAX_CONSECUTIVE_HEARTBEAT_FAILURES
  MaxFaults      \* bound: failed calls, accepts and binds

ASSUME RunnerAssumption ==
  /\ {Permits, HttpPermits, QueueCap, MaxFailures} \subseteq Nat \ {0}
  /\ MaxFaults \in Nat /\ ShutdownCall \notin Invocations

VARIABLES
  app,           \* app_type: http, rpc, or cli (socket runs like cli)
  main,          \* run_runner_from_stdin_with_registry
  shutdown,      \* the value of the watch channel
  told,          \* a value was sent since the ingress subscribed
  run,           \* run_task
  inbound,       \* run_inbound_server
  caller,        \* the connections to it
  ingress,       \* run_http_ingress_server
  conn,          \* the connections to that
  queue, worker, \* the worker's queue and the request it handles
  wedged,        \* a guest never returns from a call
  heartbeat, failures,
  manager,       \* the daemon: up, refusing this runner, or gone
  marked,        \* the manager has the runner_ready
  faults

taskVars == <<run, queue, worker, wedged>>
inboundVars == <<inbound, caller>>
ingressVars == <<ingress, conn>>
beatVars == <<heartbeat, failures>>
outside == <<app, manager>>
vars == <<app, main, shutdown, told, run, inbound, caller, ingress, conn, queue, worker,
          wedged, heartbeat, failures, manager, marked, faults>>

Callers == Invocations \cup {ShutdownCall}
Idle == "idle"

TypeOK ==
  /\ app \in {"http", "rpc", "cli"}
  /\ main \in {"register", "starting", "bind", "mark", "join", "mark_finished", "down", "exited"}
  /\ run \in {"none", "loading", "up", "draining", "ok", "err"}
  /\ inbound \in {"none", "accepting", "ended"}
  /\ caller \in [Callers -> {"none", "connecting", "handling", "answered", "refused"}]
  /\ ingress \in {"none", "accepting", "ended"}
  /\ conn \in [Requests -> {"none", "reading", "queued", "answered", "cut"}]
  /\ queue \in Seq(Requests) /\ Len(queue) <= QueueCap
  /\ worker \in Requests \cup {Idle}
  /\ heartbeat \in {"none", "due", "sleeping", "ended"}
  /\ failures \in 0..MaxFailures /\ faults \in 0..MaxFaults
  /\ manager \in {"up", "refusing", "gone"}
  /\ {shutdown, told, wedged, marked} \subseteq BOOLEAN

Init ==
  /\ app \in {"http", "rpc", "cli"}
  /\ main = "register" /\ run = "none"
  /\ shutdown = FALSE /\ told = FALSE
  /\ inbound = "none" /\ caller = [c \in Callers |-> "none"]
  /\ ingress = "none" /\ conn = [r \in Requests |-> "none"]
  /\ queue = <<>> /\ worker = Idle /\ wedged = FALSE
  /\ heartbeat = "none" /\ failures = 0
  /\ manager = "up" /\ marked = FALSE /\ faults = 0

Alive == main # "exited"
Fault == faults < MaxFaults /\ faults' = faults + 1
NoFault == UNCHANGED faults

\* shutdown_tx.send(true): receivers are told even when the value is the same.
SendShutdown == shutdown' = TRUE /\ told' = (told \/ ingress # "none")
NoSend == UNCHANGED <<shutdown, told>>

(***************************************************************************)
(* The main task.                                                          *)
(***************************************************************************)
\* Seeded fault: shutdown_runner_tasks sends only what has not been sent.
signal_if_unset == IF shutdown THEN NoSend ELSE SendShutdown
\* shutdown_runner_tasks sends, then awaits the tasks (Exit).
down_signal == SendShutdown
Down == main' = "down" /\ down_signal

\* A call to the manager that succeeds, or does not.
CallOk == manager = "up" /\ NoFault
CallFails == IF manager = "up" THEN Fault ELSE NoFault

\* register; then the inbound server and the run are spawned.
Register ==
  /\ main = "register"
  /\ \/ CallOk /\ main' = "starting" /\ run' = "loading" /\ inbound' = "accepting"
     \/ CallFails /\ main' = "exited" /\ UNCHANGED <<run, inbound>>
  /\ NoSend
  /\ UNCHANGED <<outside, caller, ingressVars, queue, worker, wedged, beatVars, marked>>

\* Seeded fault: the runner is marked ready before its ingress is bound.
ready_before_ingress == "mark"
after_http_ready == "bind"

\* wait_http_runtime_ready_or_exit: the run registered its component or ended;
\* when both have happened select! may take either.  A run that failed before
\* it was ready has also dropped the sender: that error returns at once.
WaitHttpReady ==
  /\ main = "starting" /\ app = "http"
  /\ \/ run \in {"up", "draining", "ok"} /\ main' = after_http_ready /\ NoSend
     \/ run = "ok" /\ main' = "mark_finished" /\ NoSend
     \/ run = "err" /\ Down
     \/ run = "err" /\ main' = "exited" /\ NoSend
  /\ NoFault
  /\ UNCHANGED <<outside, taskVars, inboundVars, ingressVars, beatVars, marked>>

\* observe_startup_window: the window passes, or the run ends in it.
ObserveStartup ==
  /\ main = "starting" /\ app # "http"
  /\ \/ main' = "mark" /\ NoSend
     \/ run = "ok" /\ main' = "mark_finished" /\ NoSend
     \/ run = "err" /\ Down
  /\ NoFault
  /\ UNCHANGED <<outside, taskVars, inboundVars, ingressVars, beatVars, marked>>

\* spawn_http_ingress_server with a fresh subscription.
BindIngress ==
  /\ main = "bind"
  /\ \/ /\ main' = "mark" /\ ingress' = "accepting" /\ told' = FALSE /\ NoFault
        /\ UNCHANGED shutdown
     \/ Fault /\ Down /\ UNCHANGED ingress
  /\ UNCHANGED <<outside, taskVars, inboundVars, conn, beatVars, marked>>

\* mark_ready, and the heartbeats are spawned.
MarkReady ==
  /\ main = "mark"
  /\ \/ CallOk /\ marked' = TRUE /\ main' = "join" /\ heartbeat' = "due" /\ NoSend
     \/ CallFails /\ Down /\ UNCHANGED <<marked, heartbeat>>
  /\ UNCHANGED <<outside, taskVars, inboundVars, ingressVars, failures>>

\* A run that has already finished well is reported ready all the same.
MarkFinished ==
  /\ main = "mark_finished"
  /\ \/ CallOk /\ marked' = TRUE
     \/ CallFails /\ UNCHANGED marked
  /\ Down
  /\ UNCHANGED <<outside, taskVars, inboundVars, ingressVars, beatVars>>

JoinRun ==
  /\ main = "join" /\ run \in {"ok", "err"}
  /\ Down /\ NoFault
  /\ UNCHANGED <<outside, taskVars, inboundVars, ingressVars, beatVars, marked>>

\* Every task has been awaited; calls still being handled die with the process.
Exit ==
  /\ main = "down"
  /\ heartbeat \in {"none", "ended"} /\ run \in {"ok", "err"}
  /\ ingress \in {"none", "ended"} /\ inbound = "ended"
  /\ main' = "exited"
  /\ NoSend /\ NoFault
  /\ UNCHANGED <<outside, taskVars, inboundVars, ingressVars, beatVars, marked>>

(***************************************************************************)
(* run_task.  Loading does not look at shutdown; an http component is      *)
(* registered before it waits for it.  An rpc app loads per invocation.    *)
(***************************************************************************)
RunLoad ==
  /\ Alive /\ run = "loading"
  /\ \/ run' = "up" /\ NoFault
     \/ app # "rpc" /\ run' = "err" /\ Fault
  /\ NoSend
  /\ UNCHANGED <<outside, main, inboundVars, ingressVars, queue, worker, wedged, beatVars, marked>>

\* A cli component returns or traps by itself.
RunReturns ==
  /\ Alive /\ run = "up" /\ app = "cli" /\ ~wedged /\ run' \in {"ok", "err"}
  /\ NoSend /\ NoFault
  /\ UNCHANGED <<outside, main, inboundVars, ingressVars, queue, worker, wedged, beatVars, marked>>

\* wait_for_shutdown, which a cli guest in a host call that blocks its thread
\* keeps from being polled; an http run unregisters its component and lets the
\* worker finish its queue.
RunShutdown ==
  /\ Alive
  /\ \/ /\ run = "up" /\ shutdown /\ (app = "cli" => ~wedged)
        /\ run' = IF app = "http" THEN "draining" ELSE "ok"
     \/ run = "draining" /\ queue = <<>> /\ worker = Idle /\ run' = "ok"
  /\ NoSend /\ NoFault
  /\ UNCHANGED <<outside, main, inboundVars, ingressVars, queue, worker, wedged, beatVars, marked>>

\* run_http_worker: one request at a time, in order; the sender of the
\* response may have gone.
WorkerTake ==
  /\ Alive /\ run \in {"up", "draining"} /\ worker = Idle /\ queue # <<>>
  /\ worker' = Head(queue) /\ queue' = Tail(queue)
  /\ NoSend /\ NoFault
  /\ UNCHANGED <<outside, main, run, wedged, inboundVars, ingressVars, beatVars, marked>>

WorkerAnswer ==
  /\ Alive /\ worker # Idle /\ ~wedged
  /\ conn' = [conn EXCEPT ![worker] = IF @ = "queued" THEN "answered" ELSE @]
  /\ worker' = Idle
  /\ NoSend /\ NoFault
  /\ UNCHANGED <<outside, main, run, queue, wedged, inboundVars, ingress, beatVars, marked>>

\* The guest does not return, from a request, from an invocation or, as a cli
\* component, from a call of another service (call_ipc_sync).
Wedge ==
  /\ Alive /\ ~wedged
  /\ \/ worker # Idle
     \/ \E i \in Invocations : caller[i] = "handling"
     \/ app = "cli" /\ run = "up"
  /\ wedged' = TRUE
  /\ NoSend /\ NoFault
  /\ UNCHANGED <<outside, main, run, queue, worker, inboundVars, ingressVars, beatVars, marked>>

(***************************************************************************)
(* run_inbound_server: a permit, then a connection, then a handler.        *)
(***************************************************************************)
\* An invocation of an app that is not rpc is refused at once and left out.
Connect(c) ==
  /\ Alive /\ inbound # "none" /\ caller[c] = "none"
  /\ c = ShutdownCall \/ app = "rpc"
  /\ caller' = [caller EXCEPT ![c] = IF inbound = "ended" THEN "refused" ELSE "connecting"]
  /\ NoSend /\ NoFault
  /\ UNCHANGED <<outside, main, taskVars, inbound, ingressVars, beatVars, marked>>

Handling == {c \in Callers : caller[c] = "handling"}

InboundAccept(c) ==
  /\ Alive /\ inbound = "accepting" /\ caller[c] = "connecting"
  /\ Cardinality(Handling) < Permits
  /\ caller' = [caller EXCEPT ![c] = "handling"]
  /\ NoSend /\ NoFault
  /\ UNCHANGED <<outside, main, taskVars, inbound, ingressVars, beatVars, marked>>

\* ShutdownRunner sends; Invoke runs the component.
HandleInbound(c) ==
  /\ Alive /\ caller[c] = "handling"
  /\ IF c = ShutdownCall THEN SendShutdown ELSE ~wedged /\ NoSend
  /\ caller' = [caller EXCEPT ![c] = "answered"]
  /\ NoFault
  /\ UNCHANGED <<outside, main, taskVars, inbound, ingressVars, beatVars, marked>>

\* The shutdown is seen, or accept fails for good: waiting callers are reset.
InboundEnd ==
  /\ Alive /\ inbound = "accepting"
  /\ (shutdown /\ NoFault) \/ Fault
  /\ inbound' = "ended"
  /\ caller' = [c \in Callers |-> IF caller[c] = "connecting" THEN "refused" ELSE caller[c]]
  /\ NoSend
  /\ UNCHANGED <<outside, main, taskVars, ingressVars, beatVars, marked>>

(***************************************************************************)
(* The ingress.                                                            *)
(***************************************************************************)
Open == {r \in Requests : conn[r] \in {"reading", "queued"}}

HttpAccept(r) ==
  /\ Alive /\ ingress = "accepting" /\ conn[r] = "none"
  /\ Cardinality(Open) < HttpPermits
  /\ conn' = [conn EXCEPT ![r] = "reading"]
  /\ NoSend /\ NoFault
  /\ UNCHANGED <<outside, main, taskVars, inboundVars, ingress, beatVars, marked>>

\* handle_http_request: no component, or a full queue, is answered with an error.
Dispatch(r) ==
  /\ Alive /\ conn[r] = "reading"
  /\ IF run = "up" /\ Len(queue) < QueueCap
       THEN queue' = Append(queue, r) /\ conn' = [conn EXCEPT ![r] = "queued"]
       ELSE conn' = [conn EXCEPT ![r] = "answered"] /\ UNCHANGED queue
  /\ NoSend /\ NoFault
  /\ UNCHANGED <<outside, main, run, worker, wedged, inboundVars, ingress, beatVars, marked>>

\* Seeded fault: the connection task waits without a limit.
waits_for_ever(r) == FALSE
\* HTTP_INGRESS_CONNECTION_TIMEOUT_SECS has passed for the connection.
timed_out(r) == conn[r] \in {"reading", "queued"}

ConnTimeout(r) ==
  /\ Alive /\ timed_out(r)
  /\ conn' = [conn EXCEPT ![r] = "cut"]
  /\ NoSend /\ NoFault
  /\ UNCHANGED <<outside, main, taskVars, inboundVars, ingress, beatVars, marked>>

\* The loop ends when it is told of the shutdown, or asks for it when accept
\* fails for good; either way its connection tasks are aborted.
IngressEnd ==
  /\ Alive /\ ingress = "accepting"
  /\ \/ told /\ NoSend /\ NoFault
     \/ Fault /\ SendShutdown
  /\ ingress' = "ended"
  /\ conn' = [r \in Requests |-> IF r \in Open THEN "cut" ELSE conn[r]]
  /\ UNCHANGED <<outside, main, taskVars, inboundVars, beatVars, marked>>

(***************************************************************************)
(* send_heartbeats.                                                        *)
(***************************************************************************)
\* Seeded fault: only an answer of the manager counts as a failure.
transport_error_ignored(n) == FALSE
\* apply_retryable_heartbeat_failure.
too_many_failures(n) == n >= MaxFailures

Beat ==
  /\ Alive /\ heartbeat = "due"
  /\ \/ shutdown /\ heartbeat' = "ended" /\ NoSend /\ NoFault
        /\ UNCHANGED failures
     \/ ~shutdown /\ CallOk /\ failures' = 0
        /\ heartbeat' = "sleeping" /\ NoSend
     \/ ~shutdown /\ manager = "refusing" /\ NoFault /\ SendShutdown
        /\ heartbeat' = "ended" /\ UNCHANGED failures
     \/ ~shutdown /\ manager # "refusing" /\ CallFails
        /\ failures' = (IF failures < MaxFailures THEN failures + 1 ELSE failures)
        /\ IF too_many_failures(failures')
             THEN SendShutdown /\ heartbeat' = "ended"
             ELSE NoSend /\ heartbeat' = "sleeping"
  /\ UNCHANGED <<outside, main, taskVars, inboundVars, ingressVars, marked>>

BeatSleep ==
  /\ Alive /\ heartbeat = "sleeping"
  /\ heartbeat' \in IF shutdown THEN {"ended", "due"} ELSE {"due"}
  /\ NoSend /\ NoFault
  /\ UNCHANGED <<outside, main, taskVars, inboundVars, ingressVars, failures, marked>>

\* The daemon dies, or takes this runner for dead.
ManagerLost ==
  /\ manager = "up" /\ manager' \in {"gone", "refusing"}
  /\ NoSend /\ NoFault
  /\ UNCHANGED <<app, main, taskVars, inboundVars, ingressVars, beatVars, marked>>

MainStep ==
  Register \/ WaitHttpReady \/ ObserveStartup \/ BindIngress \/ MarkReady
    \/ MarkFinished \/ JoinRun \/ Exit

Next ==
  \/ MainStep \/ RunLoad \/ RunReturns \/ RunShutdown
  \/ WorkerTake \/ WorkerAnswer \/ Wedge
  \/ \E c \in Callers : Connect(c) \/ InboundAccept(c) \/ HandleInbound(c)
  \/ InboundEnd
  \/ \E r \in Requests : HttpAccept(r) \/ Dispatch(r) \/ ConnTimeout(r)
  \/ IngressEnd \/ Beat \/ BeatSleep \/ ManagerLost

Spec == Init /\ [][Next]_vars

(***************************************************************************)
(* Fairness: tokio polls every task, calls and timers end, and a guest     *)
(* that is not wedged returns.  Nobody has to connect or to fail.          *)
(***************************************************************************)
Fairness ==
  /\ WF_vars(MainStep) /\ WF_vars(RunLoad) /\ WF_vars(RunShutdown)
  /\ WF_vars(WorkerTake \/ WorkerAnswer)
  /\ \A c \in Callers : WF_vars(HandleInbound(c)) /\ WF_vars(InboundAccept(c))
  /\ WF_vars(shutdown /\ InboundEnd) /\ WF_vars(told /\ IngressEnd)
  /\ \A r \in Requests : WF_vars(Dispatch(r)) /\ WF_vars(ConnTimeout(r))
  /\ WF_vars(Beat) /\ WF_vars(BeatSleep)

FairSpec == Spec /\ Fairness

(***************************************************************************)
(* Properties.                                                             *)
(***************************************************************************)
\* A shutdown, whoever asked for it and however early in the start it came,
\* ends the process: no task sleeps through the signal (the ingress subscribes
\* late).  And a runner does not outlive its daemon: once the manager is gone,
\* or does not know the runner, heartbeats (or the calls of the start) end it.
\* Only a guest call that never returns leaves it to the supervisor's kill.
ProcessExits == shutdown \/ manager # "up" ~> main = "exited" \/ wedged

\* runner_ready is sent when the service can serve: an http runner has its
\* component registered and its ingress bound, whatever raced with the start,
\* unless a shutdown has been asked for.
ReadyIsServing ==
  [][marked' /\ ~marked /\ app = "http" /\ ~shutdown => run = "up" /\ ingress = "accepting"]_vars

\* Every accepted http connection ends in a response or is cut, even behind a
\* guest that never returns: its permit comes back.
ConnectionsEnd ==
  \A r \in Requests :
    conn[r] \in {"reading", "queued"} ~> conn[r] \in {"answered", "cut"}
=============================================================================
