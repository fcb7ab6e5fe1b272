------------------------- MODULE CommandLifecycle -------------------------
(***************************************************************************)
(* The life of a `command.start` request in imagod: the OperationManager   *)
(* (imagod-control/src/operation_state.rs), the handler that drives it     *)
(* (imagod-server/src/protocol_handler/router.rs) and the session loop     *)
(* that owns, and may abort, the handler's task (session_loop.rs).         *)
(*                                                                         *)
(* A handler is one QUIC stream task.  Its `pc' is the await point it is   *)
(* suspended at, so everything between two values of `pc' is atomic, as it *)
(* is in the code.  Dropping a task (JoinSet::abort_all) ends it at its    *)
(* current await point and runs none of the statements after it.           *)
(*                                                                         *)
(* The orchestrator is abstracted to the outcome of deploy/run/stop; the   *)
(* artifact store to the set of deploy ids with an upload session.         *)
(***************************************************************************)
EXTENDS Integers, FiniteSets

CONSTANTS
  Requests,          \* request ids (uuids) the clients use
  Handlers,          \* stream tasks that receive a command.start
  Sessions,          \* client sessions
  SessionOf,         \* the session whose JoinSet owns a handler
  Deploys,           \* deploy ids of uploaded artifacts
  NoDeploy,          \* the deploy id of a run or stop command
  MaxWriteFailures   \* bound: writes to the client that fail

ASSUME SessionOfAssumption == SessionOf \in [Handlers -> Sessions]
ASSUME NoDeployAssumption == NoDeploy \notin Deploys
ASSUME MaxWriteFailuresAssumption == MaxWriteFailures \in Nat

VARIABLES
  operations,          \* OperationManager.inner: request id -> OperationEntry
  pc,                  \* handler -> its await point
  job,                 \* handler -> the decoded CommandStartRequest
  outcome,             \* handler -> result of the orchestrator call
  told,                \* handler -> last command event the client has received
  ending,              \* handler -> how its task ended before the handler did
  shutdown_requested,  \* the shutdown flag shared by all handlers
  uploads,             \* deploy ids whose session the artifact store holds
  write_failures,      \* number of failed writes so far
  granted              \* history: handlers whose command a client has been
                       \* promised (cancellable: true) to be canceled

vars == <<operations, pc, job, outcome, told, ending, shutdown_requested,
          uploads, write_failures, granted>>

(***************************************************************************)
(* Data.                                                                   *)
(***************************************************************************)
CommandState == {"accepted", "running", "succeeded", "failed", "canceled"}
OperationPhase == {"Starting", "Spawned"}
OperationEntry ==
  [state : CommandState, cancel_requested : BOOLEAN, phase : OperationPhase]
is_terminal(state) == state \in {"succeeded", "failed", "canceled"}

Job == [req : Requests, deploy : Deploys \cup {NoDeploy}]

\* The result of the orchestrator: Err splits on what
\* should_purge_deploy_session_after_terminal looks at, "retryable" being an
\* error with code Busy or marked retryable.
Outcome == {"none", "ok", "retryable", "fatal", "canceled"}

Event == {"none", "refused", "accepted", "progress", "succeeded", "failed", "canceled"}

\* Await points before and after the cancel decision.
BeforeSpawn == {"accepting", "announced", "starting", "marking"}
AfterSpawn  == {"executing", "reporting", "closing", "finishing", "removing"}
Owning == BeforeSpawn \cup AfterSpawn
PC == {"idle", "refusing", "admitted", "purging", "ended"} \cup Owning

\* Handlers responsible for the entry of request r.
Owners(r) == {h \in Handlers : pc[h] \in Owning /\ job[h].req = r}

\* The await points of the writes whose error a handler returns.
FailedWrite == {"refusing", "accepting", "starting", "reporting", "closing"}
\* What collect_stream_task_result is given: a handler's error ends its session.
broken == {SessionOf[h] : h \in {g \in Handlers : ending[g] \in FailedWrite}}

TypeOK ==
  /\ DOMAIN operations \subseteq Requests
  /\ operations \in [DOMAIN operations -> OperationEntry]
  /\ pc \in [Handlers -> PC]
  /\ job \in [Handlers -> Job]
  /\ outcome \in [Handlers -> Outcome]
  /\ told \in [Handlers -> Event]
  /\ ending \in [Handlers -> {"none", "dropped"} \cup FailedWrite]
  /\ shutdown_requested \in BOOLEAN
  /\ uploads \subseteq Deploys
  /\ write_failures \in 0..MaxWriteFailures
  /\ granted \subseteq Handlers

(***************************************************************************)
(* OperationManager: each method holds the write lock from start to end.   *)
(***************************************************************************)
\* Seeded fault: the new entry keeps a cancel of the previous operation.
stale_entry == [state |-> "accepted", cancel_requested |-> TRUE,
                phase |-> "Starting"]
NewEntry == [state |-> "accepted", cancel_requested |-> FALSE,
             phase |-> "Starting"]

\* Methods that write one entry, as the map they leave behind.
WithEntry(r, e) == [q \in DOMAIN operations \cup {r} |->
                      IF q = r THEN e ELSE operations[q]]
\* Seeded fault: remove leaves the terminal entry behind.
kept_entry(r) == operations
WithoutEntry(r) == [q \in DOMAIN operations \ {r} |-> operations[q]]

\* Seeded fault: start does not look for an entry of the same id.
start_unchecked(r) == TRUE
start_allowed(r) == r \notin DOMAIN operations

set_state(r, s) == WithEntry(r, [operations[r] EXCEPT !.state = s])

\* mark_spawned_if_not_canceled clears the flag on the canceled path too.
spawned_entry(r) == [operations[r] EXCEPT !.phase = "Spawned",
                                          !.cancel_requested = FALSE]
\* Seeded fault: the cancel flag is never looked at.
cancel_ignored(r) == FALSE
cancel_pending(r) == operations[r].cancel_requested

finish(r, s) == WithEntry(r, [state |-> s, cancel_requested |-> FALSE,
                              phase |-> "Spawned"])

\* What state.request and command.cancel find.
snapshot_running(r) ==
  r \in DOMAIN operations /\ ~is_terminal(operations[r].state)

cancellable(r) == snapshot_running(r) /\ operations[r].phase = "Starting"

(***************************************************************************)
(* The handler.                                                            *)
(***************************************************************************)
Init ==
  /\ operations = [r \in {} |-> NewEntry]
  /\ pc = [h \in Handlers |-> "idle"]
  /\ job \in [Handlers -> Job]
  /\ outcome = [h \in Handlers |-> "none"]
  /\ told = [h \in Handlers |-> "none"]
  /\ ending = [h \in Handlers |-> "none"]
  /\ shutdown_requested = FALSE
  /\ uploads = Deploys
  /\ write_failures = 0
  /\ granted = {}

Goto(h, label) == pc' = [pc EXCEPT ![h] = label]

\* A stream is accepted and its request decoded; refused once shutdown has
\* been requested, or when the request is invalid (its two request ids differ).
ReceiveStart(h) ==
  /\ pc[h] = "idle"
  /\ SessionOf[h] \notin broken
  /\ \/ ~shutdown_requested /\ Goto(h, "admitted")
     \/ Goto(h, "refusing")
  /\ UNCHANGED <<operations, job, outcome, told, ending, shutdown_requested,
                 uploads, write_failures, granted>>

\* OperationManager::start.
StartOperation(h) ==
  /\ pc[h] = "admitted"
  /\ IF start_allowed(job[h].req)
       THEN /\ operations' = WithEntry(job[h].req, NewEntry)
            /\ Goto(h, "accepting")
       ELSE /\ UNCHANGED operations
            /\ Goto(h, "refusing")
  /\ UNCHANGED <<job, outcome, told, ending, shutdown_requested, uploads,
                 write_failures, granted>>

\* A write_envelope(..).await followed by `?'.  When it fails the handler
\* returns the error, which the session loop records as first_error.
WriteOrFail(h, event, next) ==
  \/ /\ told' = [told EXCEPT ![h] = event]
     /\ Goto(h, next)
     /\ UNCHANGED <<ending, write_failures>>
  \/ /\ write_failures < MaxWriteFailures
     /\ write_failures' = write_failures + 1
     /\ ending' = [ending EXCEPT ![h] = pc[h]]
     /\ Goto(h, "ended")
     /\ UNCHANGED told

\* An error of stage command.start is answered on the stream; the session
\* goes on when the answer can be written.
WriteRefusal(h) ==
  /\ pc[h] = "refusing"
  /\ WriteOrFail(h, "refused", "ended")
  /\ UNCHANGED <<operations, job, outcome, shutdown_requested, uploads, granted>>

\* The accepted response and the accepted event.
WriteAccepted(h) ==
  /\ pc[h] = "accepting"
  /\ WriteOrFail(h, "accepted", "announced")
  /\ UNCHANGED <<operations, job, outcome, shutdown_requested, uploads, granted>>

SetRunning(h) ==
  /\ pc[h] = "announced"
  /\ operations' = set_state(job[h].req, "running")
  /\ Goto(h, "starting")
  /\ UNCHANGED <<job, outcome, told, ending, shutdown_requested, uploads,
                 write_failures, granted>>

WriteStarting(h) ==
  /\ pc[h] = "starting"
  /\ WriteOrFail(h, "progress", "marking")
  /\ UNCHANGED <<operations, job, outcome, shutdown_requested, uploads, granted>>

\* mark_spawned_if_not_canceled: the one place that decides between running
\* the command and canceling it.
MarkSpawned(h) ==
  /\ pc[h] = "marking"
  /\ operations' = WithEntry(job[h].req, spawned_entry(job[h].req))
  /\ IF cancel_pending(job[h].req)
       THEN /\ outcome' = [outcome EXCEPT ![h] = "canceled"]
            /\ Goto(h, "closing")
       ELSE /\ UNCHANGED outcome
            /\ Goto(h, "executing")
  /\ UNCHANGED <<job, told, ending, shutdown_requested, uploads,
                 write_failures, granted>>

\* orchestrator.deploy / run / stop return.
Execute(h) ==
  /\ pc[h] = "executing"
  /\ \E o \in {"ok", "retryable", "fatal"} :
       /\ outcome' = [outcome EXCEPT ![h] = o]
       /\ Goto(h, IF o = "ok" THEN "reporting" ELSE "closing")
  /\ UNCHANGED <<operations, job, told, ending, shutdown_requested, uploads,
                 write_failures, granted>>

\* The release progress event of a command that succeeded.
WriteReport(h) ==
  /\ pc[h] = "reporting"
  /\ WriteOrFail(h, "progress", "closing")
  /\ UNCHANGED <<operations, job, outcome, shutdown_requested, uploads, granted>>

TerminalState(h) == CASE outcome[h] = "ok" -> "succeeded"
                      [] outcome[h] = "canceled" -> "canceled"
                      [] OTHER -> "failed"

\* Seeded fault: the error of the terminal write is returned at once.
terminal_error_returned(h) == "ended"
after_terminal_write_error(h) == "finishing"

\* The terminal event.  Its write result is kept until the entry is gone, and
\* only then returned to the session loop.
WriteTerminal(h) ==
  /\ pc[h] = "closing"
  /\ \/ /\ told' = [told EXCEPT ![h] = TerminalState(h)]
        /\ Goto(h, "finishing")
        /\ UNCHANGED <<ending, write_failures>>
     \/ /\ write_failures < MaxWriteFailures
        /\ write_failures' = write_failures + 1
        /\ Goto(h, after_terminal_write_error(h))
        /\ UNCHANGED <<told, ending>>
  /\ UNCHANGED <<operations, job, outcome, shutdown_requested, uploads, granted>>

Finish(h) ==
  /\ pc[h] = "finishing"
  /\ operations' = IF job[h].req \in DOMAIN operations
                     THEN finish(job[h].req, TerminalState(h))
                     ELSE operations
  /\ Goto(h, "removing")
  /\ UNCHANGED <<job, outcome, told, ending, shutdown_requested, uploads,
                 write_failures, granted>>

Remove(h) ==
  /\ pc[h] = "removing"
  /\ operations' = WithoutEntry(job[h].req)
  /\ Goto(h, "purging")
  /\ UNCHANGED <<job, outcome, told, ending, shutdown_requested, uploads,
                 write_failures, granted>>

\* should_purge_deploy_session_after_terminal.
should_purge(h) == outcome[h] \in {"ok", "fatal"}

\* purge_deploy_session_if_needed, then the kept write result.
Purge(h) ==
  /\ pc[h] = "purging"
  /\ uploads' = IF should_purge(h) THEN uploads \ {job[h].deploy} ELSE uploads
  /\ ending' = IF told[h] = TerminalState(h) THEN ending
                                             ELSE [ending EXCEPT ![h] = "closing"]
  /\ Goto(h, "ended")
  /\ UNCHANGED <<operations, job, outcome, told, shutdown_requested,
                 write_failures, granted>>

(***************************************************************************)
(* Everyone else.                                                          *)
(***************************************************************************)
\* command.cancel, from any session; only the granting answer changes state.
RequestCancel(r) ==
  /\ cancellable(r)
  /\ operations' = WithEntry(r, [operations[r] EXCEPT !.cancel_requested = TRUE])
  /\ granted' = granted \cup Owners(r)
  /\ UNCHANGED <<pc, job, outcome, told, ending, shutdown_requested, uploads,
                 write_failures>>

\* run_session_loop: after first_error, abort_all drops every stream task of
\* the session at its await point.
AbortSession(s) ==
  LET Dropped == {h \in Handlers : SessionOf[h] = s /\ pc[h] \notin {"idle", "ended"}}
  IN /\ s \in broken /\ Dropped # {}
     /\ pc' = [h \in Handlers |-> IF h \in Dropped THEN "ended" ELSE pc[h]]
     /\ ending' = [h \in Handlers |-> IF h \in Dropped /\ pc[h] \in Owning
                                         THEN "dropped" ELSE ending[h]]
     /\ UNCHANGED <<operations, job, outcome, told, shutdown_requested, uploads,
                    write_failures, granted>>

BeginShutdown ==
  /\ ~shutdown_requested
  /\ shutdown_requested' = TRUE
  /\ UNCHANGED <<operations, pc, job, outcome, told, ending, uploads,
                 write_failures, granted>>

HandlerStep(h) ==
  \/ StartOperation(h) \/ WriteRefusal(h) \/ WriteAccepted(h) \/ SetRunning(h)
  \/ WriteStarting(h) \/ MarkSpawned(h) \/ Execute(h) \/ WriteReport(h)
  \/ WriteTerminal(h) \/ Finish(h) \/ Remove(h) \/ Purge(h)

Next ==
  \/ \E h \in Handlers : ReceiveStart(h) \/ HandlerStep(h)
  \/ \E r \in Requests : RequestCancel(r)
  \/ \E s \in Sessions : AbortSession(s)
  \/ BeginShutdown

\* A task that is not dropped is polled until it ends: the runtime's promise.
Fairness == \A h \in Handlers : WF_vars(HandlerStep(h))
Spec == Init /\ [][Next]_vars /\ Fairness

(***************************************************************************)
(* Properties.                                                             *)
(***************************************************************************)
\* A cancel that was answered `cancellable: true' (request_cancel) is
\* honoured: the orchestrator is never called for that command.
CancelHonoured ==
  \A h \in granted : /\ pc[h] \notin {"executing", "reporting"}
                     /\ outcome[h] \in {"none", "canceled"}

\* Nobody is told `canceled' unless some client was granted the cancel: the
\* flag of an earlier operation of the same request id does not leak into the
\* next one (start, mark_spawned_if_not_canceled, remove).
CanceledOnlyOnGrant ==
  \A h \in Handlers : outcome[h] = "canceled" => h \in granted

\* Between start and remove a request id belongs to one handler, and that
\* handler finds its entry in the phase it left it in: set_state and
\* mark_spawned_if_not_canceled never answer NotFound to it.
EntryFollowsHandler ==
  \A h \in Handlers : pc[h] \in Owning =>
    /\ Owners(job[h].req) = {h}
    /\ job[h].req \in DOMAIN operations
    /\ operations[job[h].req].phase =
         IF pc[h] \in BeforeSpawn THEN "Starting" ELSE "Spawned"

\* An entry that nobody will remove is left by a handler that could not write
\* an event before the terminal one, or that was dropped because a write of
\* another stream of its session failed.  A handler that gets to its terminal
\* event removes its entry whether that write succeeds or not
\* (finalize_operation_after_terminal_event), and an abort never comes from
\* another session.
AbandonedOnlyMidway ==
  \A r \in DOMAIN operations : Owners(r) = {} =>
    \E h \in Handlers :
      /\ job[h].req = r
      /\ \/ ending[h] \in {"accepting", "starting", "reporting"}
         \/ /\ ending[h] = "dropped"
            /\ \E g \in Handlers \ {h} :
                 SessionOf[g] = SessionOf[h] /\ ending[g] \in FailedWrite

\* A granted cancel is confirmed by the canceled event.
GrantedCancelIsConfirmed ==
  \A h \in Handlers : (h \in granted) ~> (told[h] = "canceled")

\* A request id is free again after its operation: the entry is short-lived.
RequestIdIsFreed ==
  \A r \in Requests : (r \in DOMAIN operations) ~> (r \notin DOMAIN operations)
=============================================================================
