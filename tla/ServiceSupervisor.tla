------------------------- MODULE ServiceSupervisor -------------------------
(***************************************************************************)
(* The service supervisor of imagod                                        *)
(* (imagod-control/src/service_supervisor.rs): start, stop, replace,       *)
(* stop_all and reap_finished over the map `inner' of running services,    *)
(* the runner processes behind it, and the control requests those          *)
(* processes send back (service_supervisor/manager_control.rs).            *)
(*                                                                         *)
(* Each step below is what happens between two await points: one critical  *)
(* section of one of the locks, or one wait.  The locks are never nested,  *)
(* so anything may happen between two steps of a call: a runner exits, the *)
(* maintenance task reaps it, a late RunnerReady arrives, the caller is    *)
(* dropped by a session abort.                                             *)
(*                                                                         *)
(* Commands hold the orchestrator's per-service command gate around their  *)
(* calls, and stop_all runs once the sessions are drained.                 *)
(*                                                                         *)
(* Left out: the logs (module ServiceLogs), endpoints, bootstrap and launch*)
(* payloads, heartbeat times.  What callers may rely on is ServiceContract.*)
(***************************************************************************)
EXTENDS Integers, FiniteSets

CONSTANTS
  Services,         \* service names
  Runners,          \* runner ids (uuids: each is used once)
  Tasks,            \* concurrent callers of the supervisor
  Requests,         \* concurrent manager control connections
  Ops,              \* the calls made, a subset of Op
  Heartbeats,       \* runners also send RegisterRunner and Heartbeat
  MaxKillFailures,  \* bound: kill_and_wait / child.wait failures
  MaxAborts         \* bound: callers dropped by a session abort

ASSUME HeartbeatsAssumption == Heartbeats \in BOOLEAN
ASSUME BoundsAssumption == MaxKillFailures \in Nat /\ MaxAborts \in Nat

VARIABLES
  inner,              \* service -> runner of its RunningService
  is_ready,           \* runners whose RunningService says is_ready
  runner_index,       \* runners in runner_index (the name is service_of)
  service_of,         \* runner -> the service it was launched for
  pending_ready,      \* runners with a sender in pending_ready
  ready_rx,           \* runners whose ready channel holds Ok(())
  starting_services,  \* reserved service names
  process,            \* runner -> state of its OS process
  bootstrapped,       \* runners whose stdin was taken and written
  announced,          \* runners whose process has sent RunnerReady
  task,               \* callers
  request,            \* control requests being handled
  reaping,            \* runners reap_finished removed and has yet to unindex
  phase,              \* how far the daemon's shutdown is
  to_stop,            \* services stop_all has yet to begin to stop
  failures,           \* kill failures so far
  aborts              \* aborted callers so far

vars == <<inner, is_ready, runner_index, service_of, pending_ready, ready_rx,
          starting_services, process, bootstrapped, announced, task, request,
          reaping, phase, to_stop, failures, aborts>>

NoRunner == "no runner"
NoService == "no service"
ASSUME NamesAssumption == NoRunner \notin Runners /\ NoService \notin Services

Op == {"start", "stop", "force stop", "replace"}
ASSUME OpsAssumption == Ops \subseteq Op
Result == {"none", "ok", "busy", "not found", "failed", "exited before ready"}

StopPC == {"take", "taken", "graceful", "grace", "kill", "killing", "restore",
           "reindex", "displaced"}
\* The start calls that hold the reservation of their service.
ReservedPC == {"reap again", "check", "spawn", "insert", "index", "bootstrap",
               "wait", "unpend", "cleanup", "condemned", "cleaning", "release"}
\* The ones among them that own the ready channel of their runner.
AwaitPC == {"insert", "index", "bootstrap", "wait", "unpend"}
PC == {"idle", "done", "reap", "reserve"} \cup StopPC \cup ReservedPC

Task == [pc : PC, op : Op \cup {"none"}, service : Services \cup {NoService},
         runner : Runners \cup {NoRunner}, result : Result]
NoTask == [pc |-> "idle", op |-> "none", service |-> NoService,
           runner |-> NoRunner, result |-> "none"]

RequestPC == {"idle", "index", "validate", "forget", "scan", "remember",
              "apply", "drop", "signal"}
Request == [pc : RequestPC, ready : BOOLEAN, runner : Runners \cup {NoRunner}]
NoRequest == [pc |-> "idle", ready |-> FALSE, runner |-> NoRunner]

Phases == {"serving", "draining", "stopping", "forcing", "down"}

TypeOK ==
  /\ inner \in [Services -> Runners \cup {NoRunner}]
  /\ service_of \in [Runners -> Services \cup {NoService}]
  /\ \A s \in Services : inner[s] # NoRunner => service_of[inner[s]] = s
  /\ is_ready \subseteq Runners /\ runner_index \subseteq Runners
  /\ pending_ready \subseteq Runners /\ ready_rx \subseteq Runners
  /\ starting_services \subseteq Services
  /\ process \in [Runners -> {"unborn", "live", "killed", "exited"}]
  /\ bootstrapped \subseteq Runners /\ announced \subseteq Runners
  /\ task \in [Tasks -> Task]
  /\ request \in [Requests -> Request]
  /\ reaping \subseteq Runners
  /\ phase \in Phases
  /\ to_stop \subseteq Services
  /\ failures \in 0..MaxKillFailures
  /\ aborts \in 0..MaxAborts

Init ==
  /\ inner = [s \in Services |-> NoRunner]
  /\ service_of = [r \in Runners |-> NoService]
  /\ is_ready = {} /\ runner_index = {} /\ pending_ready = {}
  /\ ready_rx = {} /\ starting_services = {}
  /\ process = [r \in Runners |-> "unborn"]
  /\ bootstrapped = {} /\ announced = {}
  /\ task = [t \in Tasks |-> NoTask]
  /\ request = [q \in Requests |-> NoRequest]
  /\ reaping = {} /\ phase = "serving" /\ to_stop = {}
  /\ failures = 0 /\ aborts = 0

(***************************************************************************)
(* Processes.  A killed process is one that was sent SIGKILL and has not   *)
(* exited yet; exited is what try_wait and wait observe.                   *)
(***************************************************************************)
Alive(r) == process[r] \in {"live", "killed"}
Exited(r) == r # NoRunner /\ process[r] = "exited"
Tracked(r) == service_of[r] \in Services /\ inner[service_of[r]] = r
Active(t) == task[t].pc \notin {"idle", "done"}

ProcessVars == <<process, bootstrapped, announced>>
ReadyVars == <<is_ready, pending_ready, ready_rx>>
DaemonVars == <<request, reaping, phase, to_stop, aborts>>

Goto(t, pc) == task' = [task EXCEPT ![t].pc = pc]
Hold(t, pc, r) == task' = [task EXCEPT ![t].pc = pc, ![t].runner = r]
End(t, result) ==
  task' = [task EXCEPT ![t].pc = "done", ![t].result = result]

(***************************************************************************)
(* Callers.                                                                *)
(***************************************************************************)
FirstPC(op) == IF op = "start" THEN "reap" ELSE "take"

BeginCall(t, op, s) ==
  /\ task[t].pc = "idle"
  /\ task' = [task EXCEPT ![t] = [NoTask EXCEPT !.pc = FirstPC(op),
                                                !.op = op, !.service = s]]

\* ServiceCommandGate::acquire: one command per service; a command that finds
\* the gate taken never reaches the supervisor.
gate_free(s) == \A u \in Tasks : task[u].pc # "idle" => task[u].service # s

\* run, stop and deploy (and a rollback's start and forced stop) reach the
\* supervisor; no command starts once the shutdown has begun.
Call(t, op, s) ==
  /\ phase = "serving"
  /\ gate_free(s)
  /\ BeginCall(t, op, s)
  /\ UNCHANGED <<inner, service_of, runner_index, starting_services, failures,
                 ReadyVars, ProcessVars, DaemonVars>>

\* The call has returned and the caller lets go of the gate.
Return(t) ==
  /\ task[t].pc = "done"
  /\ task' = [task EXCEPT ![t] = NoTask]
  /\ UNCHANGED <<inner, service_of, runner_index, starting_services, failures,
                 ReadyVars, ProcessVars, DaemonVars>>

\* A session abort drops the caller at an await point.  Nothing it holds is
\* undone: a Child dropped this way keeps running (no kill_on_drop).
Abort(t) ==
  /\ Active(t)
  /\ phase \in {"serving", "draining"}
  /\ aborts < MaxAborts
  /\ aborts' = aborts + 1
  /\ task' = [task EXCEPT ![t] = NoTask]
  /\ UNCHANGED <<inner, service_of, runner_index, starting_services, failures,
                 request, reaping, phase, to_stop, ReadyVars, ProcessVars>>

(***************************************************************************)
(* start_internal.                                                         *)
(***************************************************************************)
\* reap_finished_service: an exited runner leaves inner, then runner_index,
\* and senders nobody waits for any more leave pending_ready.
awaited(r) == \E t \in Tasks : task[t].pc \in AwaitPC /\ task[t].runner = r

ReapFinished(t, pc, next) ==
  /\ task[t].pc = pc
  /\ LET r == inner[task[t].service] IN
     IF task[t].runner # NoRunner
     THEN \* second half: the runner taken out of inner below
       /\ runner_index' = runner_index \ {task[t].runner}
       /\ pending_ready' = {p \in pending_ready : awaited(p)}
       /\ Hold(t, next, NoRunner)
       /\ UNCHANGED inner
     ELSE IF Exited(r)
     THEN /\ inner' = [inner EXCEPT ![task[t].service] = NoRunner]
          /\ Hold(t, pc, r)
          /\ UNCHANGED <<runner_index, pending_ready>>
     ELSE /\ Goto(t, next)
          /\ UNCHANGED <<inner, runner_index, pending_ready>>
  /\ UNCHANGED <<service_of, starting_services, failures, is_ready, ready_rx,
                 ProcessVars, DaemonVars>>

ReapFirst(t) == ReapFinished(t, "reap", "reserve")
ReapAgain(t) == ReapFinished(t, "reap again", "check")

\* reserve_start, first half: a second start of the same service is Busy.
start_unreserved(s) == s \notin starting_services

ReserveStart(t) ==
  /\ task[t].pc = "reserve"
  /\ IF start_unreserved(task[t].service)
     THEN /\ starting_services' = starting_services \cup {task[t].service}
          /\ Goto(t, "reap again")
     ELSE /\ End(t, "busy")
          /\ UNCHANGED starting_services
  /\ UNCHANGED <<inner, service_of, runner_index, failures, ReadyVars,
                 ProcessVars, DaemonVars>>

\* reserve_start, second half: Busy if the service still has a runner.
\* Fault: the reservation is taken for the whole check.
running_unchecked(s) == FALSE
already_running(s) == inner[s] # NoRunner
\* Fault: the early return forgets release_start.
busy_keeps_reservation == "done"
after_busy == "release"

CheckRunning(t) ==
  /\ task[t].pc = "check"
  /\ IF already_running(task[t].service)
     THEN task' = [task EXCEPT ![t].pc = after_busy, ![t].result = "busy"]
     ELSE Goto(t, "spawn")
  /\ UNCHANGED <<inner, service_of, runner_index, starting_services, failures,
                 ReadyVars, ProcessVars, DaemonVars>>

\* The launch is refused (effective_http_worker_queue_capacity, spawn error,
\* after which the sender is taken back) or a process with a fresh runner id
\* and a sender in pending_ready exists.
SpawnRunner(t) ==
  /\ task[t].pc = "spawn"
  /\ \/ /\ task' = [task EXCEPT ![t].pc = "release", ![t].result = "failed"]
        /\ UNCHANGED <<service_of, pending_ready, process>>
     \/ \E r \in Runners :
          /\ process[r] = "unborn"
          /\ process' = [process EXCEPT ![r] = "live"]
          /\ service_of' = [service_of EXCEPT ![r] = task[t].service]
          /\ pending_ready' = pending_ready \cup {r}
          /\ Hold(t, "insert", r)
  /\ UNCHANGED <<inner, runner_index, starting_services, failures, is_ready,
                 ready_rx, bootstrapped, announced, DaemonVars>>

\* inner.insert replaces whatever is there: a RunningService that stop put
\* back meanwhile is dropped.
InsertService(t) ==
  /\ task[t].pc = "insert"
  /\ inner' = [inner EXCEPT ![task[t].service] = task[t].runner]
  /\ Goto(t, "index")
  /\ UNCHANGED <<service_of, runner_index, starting_services, failures,
                 ReadyVars, ProcessVars, DaemonVars>>

UpsertIndex(t) ==
  /\ task[t].pc = "index"
  /\ runner_index' = runner_index \cup {task[t].runner}
  /\ Goto(t, "bootstrap")
  /\ UNCHANGED <<inner, service_of, starting_services, failures, ReadyVars,
                 ProcessVars, DaemonVars>>

\* write_bootstrap_to_running_service: the stdin of whatever runs under the
\* service's name.  It may be gone, taken already, or closed by an exit.
WriteBootstrap(t) ==
  /\ task[t].pc = "bootstrap"
  /\ LET r == inner[task[t].service] IN
     \/ /\ r # NoRunner /\ r \notin bootstrapped
        /\ bootstrapped' = bootstrapped \cup {r}
        /\ Goto(t, "wait")
     \/ /\ r = NoRunner \/ r \in bootstrapped \/ Exited(r)
        /\ bootstrapped' = bootstrapped \cup ({r} \ {NoRunner})
        /\ task' = [task EXCEPT ![t].pc = "unpend", ![t].result = "failed"]
  /\ UNCHANGED <<inner, service_of, runner_index, starting_services, failures,
                 ReadyVars, process, announced, DaemonVars>>

\* wait_for_runner_ready: the ready signal, an exit seen by polling inner, or
\* the timeout, which looks at the channel once more.  select! takes any
\* branch that is ready.  (The sender leaves pending_ready by a send or once
\* nobody waits, so the channel is never found closed.)
exit_seen(s) == inner[s] = NoRunner \/ Exited(inner[s])
\* Fault: an empty channel at the timeout is taken for success.
timeout_is_success(r) == "ok"
timeout_result(r) == IF r \in ready_rx THEN "ok" ELSE "failed"

WaitReady(t) ==
  /\ task[t].pc = "wait"
  /\ \E result \in Result :
       /\ \/ task[t].runner \in ready_rx /\ result = "ok"
          \/ exit_seen(task[t].service) /\ result = "exited before ready"
          \/ result = timeout_result(task[t].runner)
       /\ task' = [task EXCEPT ![t].pc = "unpend", ![t].result = result]
  /\ UNCHANGED <<inner, service_of, runner_index, starting_services, failures,
                 ReadyVars, ProcessVars, DaemonVars>>

\* The sender is taken out of pending_ready, whatever happened.
without_sender(r) == pending_ready \ {r}

RemovePending(t) ==
  /\ task[t].pc = "unpend"
  /\ pending_ready' = without_sender(task[t].runner)
  /\ ready_rx' = ready_rx \ {task[t].runner}
  /\ Goto(t, IF task[t].result = "ok" THEN "release" ELSE "cleanup")
  /\ UNCHANGED <<inner, service_of, runner_index, starting_services, failures,
                 is_ready, ProcessVars, DaemonVars>>

\* cleanup_start_failure: whatever runs under the service's name is removed ...
\* Fault: the signal is never sent.
no_signal(r) == process
start_kill(r) == [process EXCEPT ![r] = IF @ = "live" THEN "killed" ELSE @]
\* Fault: the killed child is not waited for.
cleanup_without_wait == "release"
after_cleanup_kill == "cleaning"

CleanupFailure(t) ==
  /\ task[t].pc = "cleanup"
  /\ LET r == inner[task[t].service] IN
     IF r = NoRunner
     THEN Goto(t, "release") /\ UNCHANGED inner
     ELSE /\ inner' = [inner EXCEPT ![task[t].service] = NoRunner]
          /\ Hold(t, "condemned", r)
  /\ UNCHANGED <<service_of, runner_index, starting_services, failures,
                 ReadyVars, ProcessVars, DaemonVars>>

\* ... unindexed and killed ...
CleanupKill(t) ==
  /\ task[t].pc = "condemned"
  /\ runner_index' = runner_index \ {task[t].runner}
  /\ process' = start_kill(task[t].runner)
  /\ Goto(t, after_cleanup_kill)
  /\ UNCHANGED <<inner, service_of, starting_services, failures, ReadyVars,
                 bootstrapped, announced, DaemonVars>>

\* ... and waited for.
CleanupWait(t) ==
  /\ task[t].pc = "cleaning"
  /\ Exited(task[t].runner)
  /\ Goto(t, "release")
  /\ UNCHANGED <<inner, service_of, runner_index, starting_services, failures,
                 ReadyVars, ProcessVars, DaemonVars>>

ReleaseStart(t) ==
  /\ task[t].pc = "release"
  /\ starting_services' = starting_services \ {task[t].service}
  /\ Goto(t, "done")
  /\ UNCHANGED <<inner, service_of, runner_index, failures, ReadyVars,
                 ProcessVars, DaemonVars>>

(***************************************************************************)
(* stop, and the stop half of replace.                                     *)
(***************************************************************************)
\* replace goes on to start unless the stop failed.
StopEnds(t, result) ==
  IF task[t].op = "replace" /\ result \in {"ok", "not found"}
  THEN Hold(t, "reap", NoRunner)
  ELSE End(t, result)

\* take_running, first half.
TakeRunning(t) ==
  /\ task[t].pc = "take"
  /\ LET r == inner[task[t].service] IN
     IF r = NoRunner
     THEN StopEnds(t, "not found") /\ UNCHANGED inner
     ELSE /\ inner' = [inner EXCEPT ![task[t].service] = NoRunner]
          /\ Hold(t, "taken", r)
  /\ UNCHANGED <<service_of, runner_index, starting_services, failures,
                 ReadyVars, ProcessVars, DaemonVars>>

\* take_running, second half, and the first look at the child.
UnindexTaken(t) ==
  /\ task[t].pc = "taken"
  /\ runner_index' = runner_index \ {task[t].runner}
  /\ IF Exited(task[t].runner)
     THEN StopEnds(t, "not found")
     ELSE Goto(t, IF task[t].op = "force stop" THEN "kill" ELSE "graceful")
  /\ UNCHANGED <<inner, service_of, starting_services, failures, ReadyVars,
                 ProcessVars, DaemonVars>>

\* The ShutdownRunner call answers, fails or times out; it may use up the
\* whole grace period.
GracefulShutdown(t) ==
  /\ task[t].pc = "graceful"
  /\ Goto(t, "grace") \/ Goto(t, "kill")
  /\ UNCHANGED <<inner, service_of, runner_index, starting_services, failures,
                 ReadyVars, ProcessVars, DaemonVars>>

\* The child exits within the grace period, or is killed at its end.
AwaitExit(t) ==
  /\ task[t].pc = "grace"
  /\ \/ Exited(task[t].runner) /\ StopEnds(t, "ok")
     \/ Goto(t, "kill")
  /\ UNCHANGED <<inner, service_of, runner_index, starting_services, failures,
                 ReadyVars, ProcessVars, DaemonVars>>

\* kill_and_wait, in stop and for a displaced runner.
wait_over(r) == Exited(r)

Kill(t) ==
  /\ task[t].pc \in {"kill", "displaced"}
  /\ process' = start_kill(task[t].runner)
  /\ Goto(t, "killing")
  /\ UNCHANGED <<inner, service_of, runner_index, starting_services, failures,
                 ReadyVars, bootstrapped, announced, DaemonVars>>

\* A displaced runner is killed on behalf of a stop that has failed already.
KillWait(t) ==
  /\ task[t].pc = "killing"
  /\ wait_over(task[t].runner)
  /\ IF task[t].result = "failed" THEN End(t, "failed") ELSE StopEnds(t, "ok")
  /\ UNCHANGED <<inner, service_of, runner_index, starting_services, failures,
                 ReadyVars, ProcessVars, DaemonVars>>

\* The signal cannot be sent or the wait fails: stop puts the service back; a
\* displaced runner is given up.
KillFails(t) ==
  /\ task[t].pc \in {"grace", "kill", "killing", "displaced"}
  /\ failures < MaxKillFailures
  /\ failures' = failures + 1
  /\ IF task[t].result = "failed"
     THEN End(t, "failed")
     ELSE task' = [task EXCEPT ![t].pc = "restore", ![t].result = "failed"]
  /\ UNCHANGED <<inner, service_of, runner_index, starting_services,
                 ReadyVars, ProcessVars, DaemonVars>>

\* restore_service_after_stop_error.
can_restore(s) == inner[s] = NoRunner

RestoreService(t) ==
  /\ task[t].pc = "restore"
  /\ LET s == task[t].service  r == task[t].runner IN
     IF Exited(r) THEN End(t, "failed") /\ UNCHANGED inner
     ELSE IF can_restore(s)
     THEN inner' = [inner EXCEPT ![s] = r] /\ Goto(t, "reindex")
     ELSE Goto(t, "displaced") /\ UNCHANGED inner
  /\ UNCHANGED <<service_of, runner_index, starting_services, failures,
                 ReadyVars, ProcessVars, DaemonVars>>

ReindexRestored(t) ==
  /\ task[t].pc = "reindex"
  /\ runner_index' = runner_index \cup {task[t].runner}
  /\ End(t, "failed")
  /\ UNCHANGED <<inner, service_of, starting_services, failures, ReadyVars,
                 ProcessVars, DaemonVars>>

(***************************************************************************)
(* Runner processes and the control requests they send.                    *)
(***************************************************************************)
RunnerExit(r) ==
  /\ Alive(r)
  /\ process' = [process EXCEPT ![r] = "exited"]
  /\ UNCHANGED <<inner, service_of, runner_index, starting_services, failures,
                 task, ReadyVars, bootstrapped, announced, DaemonVars>>

RequestVars == <<inner, service_of, starting_services, failures, process,
                 bootstrapped, task, reaping, phase, to_stop, aborts>>

\* A runner that has its bootstrap sends RegisterRunner or Heartbeat (which
\* touch last_heartbeat_at only) or RunnerReady.
SendRequest(q, r, ready) ==
  /\ request[q].pc = "idle"
  /\ ready \/ Heartbeats
  /\ r \in bootstrapped /\ Alive(r)
  /\ request' = [request EXCEPT ![q] = [pc |-> "index", ready |-> ready,
                                       runner |-> r]]
  /\ announced' = IF ready THEN announced \cup {r} ELSE announced
  /\ UNCHANGED <<runner_index, ReadyVars, RequestVars>>

RequestGoto(q, pc) ==
  request' = [request EXCEPT ![q] =
                IF pc = "idle" THEN NoRequest ELSE [@ EXCEPT !.pc = pc]]

\* resolve_runner_service_name: the index is only a hint.  An entry that inner
\* does not confirm is dropped, and inner is scanned.
ResolveIndexed(q) ==
  LET r == request[q].runner IN
  /\ \/ /\ request[q].pc = "index"
        /\ RequestGoto(q, IF r \in runner_index THEN "validate" ELSE "scan")
     \/ /\ request[q].pc = "validate"
        /\ RequestGoto(q, IF Tracked(r) THEN "apply" ELSE "forget")
     \/ /\ request[q].pc = "scan"
        /\ RequestGoto(q, IF Tracked(r) THEN "remember" ELSE "idle")
  /\ UNCHANGED <<runner_index, announced, ReadyVars, RequestVars>>

ForgetIndexed(q) ==
  /\ request[q].pc \in {"forget", "drop"}
  /\ runner_index' = runner_index \ {request[q].runner}
  /\ RequestGoto(q, IF request[q].pc = "forget" THEN "scan" ELSE "idle")
  /\ UNCHANGED <<announced, ReadyVars, RequestVars>>

RememberIndexed(q) ==
  /\ request[q].pc = "remember"
  /\ runner_index' = runner_index \cup {request[q].runner}
  /\ RequestGoto(q, "apply")
  /\ UNCHANGED <<announced, ReadyVars, RequestVars>>

\* The handler looks again, under the lock it writes with: the service still
\* runs, under this runner id, and the proof matches its secret.
\* Fault: the runner id and the proof are not looked at again.
name_is_enough(r) == TRUE
is_current(r) == inner[service_of[r]] = r

ApplyRequest(q) ==
  /\ request[q].pc = "apply"
  /\ LET r == request[q].runner IN
     IF inner[service_of[r]] # NoRunner /\ is_current(r)
     THEN /\ is_ready' = IF request[q].ready
                         THEN is_ready \cup {inner[service_of[r]]}
                         ELSE is_ready
          /\ RequestGoto(q, IF request[q].ready THEN "signal" ELSE "idle")
     ELSE RequestGoto(q, "drop") /\ UNCHANGED is_ready
  /\ UNCHANGED <<runner_index, announced, pending_ready, ready_rx, RequestVars>>

\* RunnerReady, second half: the sender, if there is one, fires; the start that
\* made it may have been dropped.
SignalReady(q) ==
  /\ request[q].pc = "signal"
  /\ LET r == request[q].runner IN
     /\ pending_ready' = pending_ready \ {r}
     /\ ready_rx' = IF r \in pending_ready /\ awaited(r)
                    THEN ready_rx \cup {r} ELSE ready_rx
  /\ RequestGoto(q, "idle")
  /\ UNCHANGED <<runner_index, announced, is_ready, RequestVars>>

(***************************************************************************)
(* The maintenance task's reap_finished.                                   *)
(***************************************************************************)
Maintain ==
  /\ phase # "down"
  /\ reaping = {}
  /\ LET gone == {s \in Services : Exited(inner[s])} IN
     /\ gone # {}
     /\ inner' = [s \in Services |-> IF s \in gone THEN NoRunner ELSE inner[s]]
     /\ reaping' = {inner[s] : s \in gone}
  /\ UNCHANGED <<service_of, runner_index, starting_services, failures, task,
                 request, phase, to_stop, aborts, ReadyVars, ProcessVars>>

UnindexReaped(r) ==
  /\ r \in reaping
  /\ reaping' = reaping \ {r}
  /\ runner_index' = runner_index \ {r}
  /\ UNCHANGED <<inner, service_of, starting_services, failures, task, request,
                 phase, to_stop, aborts, ReadyVars, ProcessVars>>

(***************************************************************************)
(* Shutdown of the daemon: no new command, sessions drained (or aborted),  *)
(* a graceful stop_all, and a forced one if anything is left.              *)
(***************************************************************************)
ShutdownVars == <<inner, service_of, runner_index, starting_services, failures,
                  request, reaping, aborts, ReadyVars, ProcessVars>>
AllIdle == \A t \in Tasks : task[t].pc = "idle"
stopping_count == Cardinality({t \in Tasks : task[t].pc \in StopPC})
live_names == {s \in Services : inner[s] # NoRunner}
\* Fault: only stops in progress count.
only_stopping_is_live == stopping_count > 0
has_live_services == stopping_count > 0 \/ live_names # {}

BeginShutdown ==
  /\ phase = "serving"
  /\ phase' = "draining"
  /\ UNCHANGED <<task, to_stop, ShutdownVars>>

\* stop_all(false) and then, if need be, stop_all(true).
StopAll ==
  /\ AllIdle /\ to_stop = {}
  /\ \/ phase = "draining" /\ phase' = "stopping" /\ to_stop' = live_names
     \/ /\ phase = "stopping" /\ has_live_services
        /\ phase' = "forcing" /\ to_stop' = live_names
     \/ /\ phase = "forcing" \/ (phase = "stopping" /\ ~has_live_services)
        /\ phase' = "down" /\ UNCHANGED to_stop
  /\ UNCHANGED <<task, ShutdownVars>>

\* One of the tasks stop_all spawns begins.
StopOne(t, s) ==
  /\ s \in to_stop
  /\ to_stop' = to_stop \ {s}
  /\ BeginCall(t, IF phase = "forcing" THEN "force stop" ELSE "stop", s)
  /\ UNCHANGED <<phase, ShutdownVars>>

Terminated == phase = "down" /\ UNCHANGED vars

(***************************************************************************)
(* Specification.                                                          *)
(***************************************************************************)
StartStep(t) ==
  \/ ReapFirst(t) \/ ReserveStart(t) \/ ReapAgain(t) \/ CheckRunning(t)
  \/ SpawnRunner(t) \/ InsertService(t) \/ UpsertIndex(t) \/ WriteBootstrap(t)
  \/ WaitReady(t) \/ RemovePending(t) \/ CleanupFailure(t) \/ CleanupKill(t)
  \/ CleanupWait(t) \/ ReleaseStart(t)

StopStep(t) ==
  \/ TakeRunning(t) \/ UnindexTaken(t) \/ GracefulShutdown(t) \/ AwaitExit(t)
  \/ Kill(t) \/ KillWait(t) \/ RestoreService(t) \/ ReindexRestored(t)

RequestStep(q) ==
  \/ ResolveIndexed(q) \/ ForgetIndexed(q) \/ RememberIndexed(q)
  \/ ApplyRequest(q) \/ SignalReady(q)

Next ==
  \/ \E t \in Tasks, s \in Services :
       StopOne(t, s) \/ \E op \in Ops : Call(t, op, s)
  \/ \E t \in Tasks :
       StartStep(t) \/ StopStep(t) \/ KillFails(t) \/ Return(t) \/ Abort(t)
  \/ \E q \in Requests :
       \/ RequestStep(q)
       \/ \E r \in Runners, ready \in BOOLEAN : SendRequest(q, r, ready)
  \/ \E r \in Runners : RunnerExit(r) \/ UnindexReaped(r)
  \/ Maintain \/ BeginShutdown \/ StopAll \/ Terminated

Spec == Init /\ [][Next]_vars

\* tokio polls every ready task and fires its timers; a killed process exits.
Fairness ==
  /\ \A t \in Tasks : WF_vars(StartStep(t) \/ StopStep(t) \/ Return(t))
  /\ \A s \in Services : WF_vars(\E t \in Tasks : StopOne(t, s))
  /\ \A r \in Runners : WF_vars(process[r] = "killed" /\ RunnerExit(r))
  /\ WF_vars(StopAll)

FairSpec == Spec /\ Fairness

(***************************************************************************)
(* Properties of the daemon, as long as no caller is aborted.              *)
(***************************************************************************)
\* A runner process is never lost: while it is alive, either inner tracks it or
\* a start or stop that will insert, kill or put it back holds it.  (stop takes
\* a service out of inner before it kills it, and a failed kill or a failed
\* start must not drop the Child.)
NoOrphan ==
  \A r \in Runners : Alive(r) =>
    \/ Tracked(r)
    \/ \E t \in Tasks : Active(t) /\ task[t].runner = r

\* "one runner process per service": two processes of one service are never
\* alive together, whatever mix of deploys, runs, stops, exits and failed
\* kills, and however late the maintenance task reaps.
OneRunner ==
  \A r1, r2 \in Runners :
    Alive(r1) /\ Alive(r2) /\ service_of[r1] = service_of[r2] => r1 = r2

\* The two stop_all passes of the shutdown survive one failed kill: when the
\* daemon is down no runner process is left behind.
ShutdownIsClean ==
  phase = "down" /\ failures <= 1 => \A r \in Runners : ~Alive(r)

(***************************************************************************)
(* The contract.  A service's process in the abstract is the one that is   *)
(* alive, wherever the supervisor keeps it; a call is open from Call or    *)
(* StopOne until it is done, and what it has found out so far stays inside.*)
(***************************************************************************)
running_of(s) ==
  LET alive == {r \in Runners : Alive(r) /\ service_of[r] = s}
  IN IF alive = {} THEN NoRunner ELSE CHOOSE r \in alive : TRUE
call_of(t) ==
  IF task[t].pc = "idle"
  THEN [stage |-> "none", op |-> "none", service |-> NoService, result |-> "none"]
  ELSE [stage |-> IF task[t].pc = "done" THEN "answered" ELSE "open",
        op |-> task[t].op, service |-> task[t].service,
        result |-> IF task[t].pc = "done" THEN task[t].result ELSE "none"]

Contract == INSTANCE ServiceContract WITH
  Ops <- Op, Results <- Result,
  running <- [s \in Services |-> running_of(s)],
  spent <- {r \in Runners : process[r] # "unborn"},
  call <- [t \in Tasks |-> call_of(t)]

\* The supervisor implements its contract: through the reservation, the
\* half-removed services, the failed kills that put a service back and the
\* late reaps, every step is a step of ServiceContract or invisible to it.
\* So a launch never meets a live process of the service, and a stop that
\* answers "ok" or "not found" leaves none.
ImplementsContract == Contract!Spec

\* The reservation is exactly as long as its start: every early return and
\* error path of start releases it, and takes the sender of its runner out of
\* pending_ready.
ReservationIsExact ==
  /\ starting_services =
       {task[t].service : t \in {u \in Tasks : task[u].pc \in ReservedPC}}
  /\ \A r \in pending_ready : awaited(r)

\* A runner is called ready only if it said so itself: a RunnerReady that was
\* resolved before its service was replaced never readies the successor.
ReadyIsOwn == is_ready \subseteq announced

\* A start that succeeds has seen the RunnerReady of the process it spawned,
\* also when the answer races the timeout.
StartedIsReady ==
  \A t \in Tasks :
    task[t].pc \in {"release", "done"} /\ task[t].result = "ok"
      /\ task[t].op \in {"start", "replace"}
      => task[t].runner \in is_ready

\* Readiness is never claimed for a process that did not announce it, neither
\* in the service table (RunnerReady) nor to the caller of start.
ReadyIsTrue == ReadyIsOwn /\ StartedIsReady

(***************************************************************************)
(* Liveness.                                                               *)
(***************************************************************************)
\* Every start, stop and replace returns, whatever its runner does, and a
\* shutdown that has begun comes to its end.
EverythingEnds ==
  /\ \A t \in Tasks : task[t].pc # "idle" ~> task[t].pc = "idle"
  /\ phase = "draining" ~> phase = "down"

=============================================================================
