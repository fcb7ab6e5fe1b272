----------------------------- MODULE Invocation -----------------------------
(***************************************************************************)
(* Calls between services.  A guest calls another service through          *)
(* rpc_bridge (imagod-runtime-wasmtime): the manager resolves the target   *)
(* to the endpoint of its runner and a short-lived token, and the caller   *)
(* presents both to the runner's inbound server; the guest is blocked      *)
(* until the answer is there, and local calls have no time-out.  rpc.invoke*)
(* requests from outside are resolved and called by the manager itself.    *)
(* Calls to a service of another daemon go through the manager, which      *)
(* holds one of its control handlers meanwhile.                            *)
(*                                                                         *)
(* Runners come and go as ServiceContract lets them.  A token is bound to  *)
(* the runner that it was issued for by the runner's own random secret, so *)
(* it is modelled by that runner and its expiry.                           *)
(***************************************************************************)
EXTENDS Integers, FiniteSets, Functions

CONSTANTS
  Services, Runners,
  Calls,            \* bound: the calls that are made
  Daemon,           \* the manager as the caller of an rpc.invoke
  Bindings,         \* <<s, t>>: the manifest of s binds an interface of t
  InboundSlots,     \* MAX_INBOUND_CONNECTION_HANDLERS
  ControlSlots,     \* MAX_MANAGER_CONTROL_CONNECTION_HANDLERS
  TokenTtl,         \* INVOCATION_TOKEN_TTL_SECS
  MaxTime           \* bound: seconds that pass

None == "none"

VARIABLES
  inner,        \* the supervisor's map: service -> its runner
  is_ready,     \* runners that have said RunnerReady
  service_of,   \* runner -> its service, None before it is spawned
  alive,        \* processes
  call,
  clock

vars == <<inner, is_ready, service_of, alive, call, clock>>
runnerVars == <<inner, is_ready, service_of, alive>>

Ops == {"local", "rpc", "remote"}
PC == {"idle", "asking", "away", "resolved", "queued", "running", "done"}
Call == [pc : PC, op : Ops, by : Runners \cup {Daemon, None},
         parent : Calls \cup {None},      \* the invocation whose guest calls
         target : Services, runner : Runners \cup {None},
         exp : 0..(MaxTime + TokenTtl)]
NoCall == [pc |-> "idle", op |-> "local", by |-> None, parent |-> None,
           target |-> CHOOSE s \in Services : TRUE, runner |-> None, exp |-> 0]
Done == [NoCall EXCEPT !.pc = "done"]

TypeOK ==
  /\ inner \in [Services -> Runners \cup {None}]
  /\ service_of \in [Runners -> Services \cup {None, "gone"}]
  /\ is_ready \subseteq Runners /\ alive \subseteq Runners
  /\ call \in [Calls -> Call]
  /\ clock \in 0..MaxTime

Init ==
  /\ inner = [s \in Services |-> None]
  /\ service_of = [r \in Runners |-> None]
  /\ is_ready = {} /\ alive = {}
  /\ call = [c \in Calls |-> NoCall]
  /\ clock = 0

Goto(c, pc) == call' = [call EXCEPT ![c].pc = pc]
\* The caller has its answer, an error or the end of the connection.
Answer(c) == call' = [call EXCEPT ![c] = Done]
\* Calls and runner ids are interchangeable: a new one takes the next unused.
NewCall == CHOOSE c \in Calls : call[c].pc = "idle"
NewRunner == CHOOSE r \in Runners : service_of[r] = None
Waiting(p) == \E c \in Calls : call[c].parent = p

(***************************************************************************)
(* The caller: a guest of a runner, or the manager.                        *)
(***************************************************************************)
\* invoke_connection and connect_remote_via_manager, by the guest of a run or
\* of an invocation p.
Ask(c, r, p, op, s) ==
  /\ call[c].pc = "idle" /\ c = NewCall /\ r \in alive
  /\ op # "rpc"
  /\ op = "remote" => s = NoCall.target   \* it names a connection instead
  /\ \/ p = None
     \/ /\ p \in Calls /\ call[p].pc = "running" /\ call[p].runner = r
        /\ ~Waiting(p)
  /\ call' = [call EXCEPT ![c] = [NoCall EXCEPT !.pc = "asking", !.op = op, !.by = r,
                                                !.parent = p, !.target = s]]
  /\ UNCHANGED <<runnerVars, clock>>

\* handle_rpc_invoke.
RpcInvoke(c, s) ==
  /\ call[c].pc = "idle" /\ c = NewCall
  /\ call' = [call EXCEPT ![c] = [NoCall EXCEPT !.pc = "asking", !.op = "rpc",
                                                !.by = Daemon, !.target = s]]
  /\ UNCHANGED <<runnerVars, clock>>

(***************************************************************************)
(* The manager.                                                            *)
(***************************************************************************)
\* A control handler is free; only calls to other daemons keep one.
control_free == Cardinality({c \in Calls : call[c].pc = "away"}) < ControlSlots

\* The source runner is the one inner has for its service.
registered(r) == inner[service_of[r]] = r
is_binding_allowed(c) == <<service_of[call[c].by], call[c].target>> \in Bindings

\* Seeded fault: a runner that has not said RunnerReady is resolved too.
any_target(s) == inner[s] # None
target_ready(s) == inner[s] # None /\ inner[s] \in is_ready

\* Seeded fault: the request waits until the target is ready.
wait_for_target(c) == UNCHANGED call
refuse(c) == Answer(c)

\* issue_invocation_token, and the endpoint of the runner: its path is a hash
\* of the service name and the runner id.
Resolved(c) ==
  LET r == inner[call[c].target]
  IN call' = [call EXCEPT ![c].pc = "resolved", ![c].runner = r,
                          ![c].exp = clock + TokenTtl]

\* ResolveInvocationTarget, and the first half of ServiceSupervisor::invoke.
Resolve(c) ==
  /\ call[c].pc = "asking"
  /\ \/ call[c].op = "local" /\ control_free
     \/ call[c].op = "rpc"
  /\ IF /\ call[c].op = "local" => registered(call[c].by) /\ is_binding_allowed(c)
        /\ target_ready(call[c].target)
     THEN Resolved(c)
     ELSE refuse(c)
  /\ UNCHANGED <<runnerVars, clock>>

\* RpcConnectRemote, RpcInvokeRemote and RpcDisconnectRemote: the handler is
\* kept while the other daemon is asked.  An invoke may also be refused for
\* want of a binding or of its connection, and a disconnect asks nobody.
AskAway(c) ==
  /\ call[c].pc = "asking" /\ call[c].op = "remote" /\ control_free
  /\ \/ registered(call[c].by) /\ Goto(c, "away")
     \/ Answer(c)
  /\ UNCHANGED <<runnerVars, clock>>

\* It answers, or one of the time-outs of request_response passes.
BackAgain(c) ==
  /\ call[c].pc = "away"
  /\ Answer(c)
  /\ UNCHANGED <<runnerVars, clock>>

(***************************************************************************)
(* The target's inbound server.                                            *)
(***************************************************************************)
\* The caller connects and writes; nobody listens where a runner has ended.
Connect(c) ==
  /\ call[c].pc = "resolved"
  /\ IF call[c].runner \in alive THEN Goto(c, "queued") ELSE Answer(c)
  /\ UNCHANGED <<runnerVars, clock>>

Busy(r) == {c \in Calls : call[c].pc = "running" /\ call[c].runner = r}

verify_invocation_token(c) == clock < call[c].exp

\* run_inbound_server takes a permit and a connection; handle_inbound_request
\* verifies the token when its turn has come.
Accept(c) ==
  /\ call[c].pc = "queued" /\ Cardinality(Busy(call[c].runner)) < InboundSlots
  /\ IF verify_invocation_token(c) THEN Goto(c, "running") ELSE Answer(c)
  /\ UNCHANGED <<runnerVars, clock>>

\* invoke_component returns or traps; the guest is blocked while it calls.
Finish(c) ==
  /\ call[c].pc = "running" /\ ~Waiting(c)
  /\ Answer(c)
  /\ UNCHANGED <<runnerVars, clock>>

(***************************************************************************)
(* Runners.                                                                *)
(***************************************************************************)
Start(s, r) ==
  /\ service_of[r] = None /\ r = NewRunner /\ inner[s] = None
  /\ \A x \in alive : service_of[x] # s
  /\ inner' = [inner EXCEPT ![s] = r]
  /\ service_of' = [service_of EXCEPT ![r] = s]
  /\ alive' = alive \cup {r}
  /\ UNCHANGED <<is_ready, call, clock>>

RunnerReady(r) ==
  /\ r \in alive \ is_ready /\ registered(r)
  /\ is_ready' = is_ready \cup {r}
  /\ UNCHANGED <<inner, service_of, alive, call, clock>>

\* A runner id that nobody knows any more.
Forget(known) ==
  /\ is_ready' = is_ready \cap known
  /\ service_of' = [r \in Runners |->
       IF service_of[r] # None /\ r \notin known THEN "gone" ELSE service_of[r]]

\* take_running and reap_finished.
TakeRunning(s) ==
  /\ inner[s] # None
  /\ inner' = [inner EXCEPT ![s] = None]
  /\ Forget(alive \cup Range(inner'))
  /\ UNCHANGED <<alive, call, clock>>

\* Its guests end.  Callers that wait for it read the end of the connection;
\* what others do for it goes on, and nobody reads the answer.
Exit(r) ==
  /\ r \in alive
  /\ alive' = alive \ {r}
  /\ Forget(alive' \cup Range(inner))
  /\ call' = [c \in Calls |->
       LET own == call[c].by = r
       IN IF \/ own /\ call[c].pc \in {"asking", "resolved"}
             \/ call[c].runner = r /\ call[c].pc \in {"queued", "running"} THEN Done
          ELSE IF own THEN [call[c] EXCEPT !.by = None, !.parent = None]
          ELSE call[c]]
  /\ UNCHANGED <<inner, clock>>

Tick ==
  /\ clock < MaxTime
  /\ clock' = clock + 1
  /\ UNCHANGED <<runnerVars, call>>

(***************************************************************************)
(* Specification.                                                          *)
(***************************************************************************)
ManagerStep(c) == Resolve(c) \/ AskAway(c) \/ BackAgain(c)
Step(c) == ManagerStep(c) \/ Connect(c) \/ Accept(c) \/ Finish(c)

Next ==
  \/ \E c \in Calls : Step(c)
  \/ \E c \in Calls, s \in Services : RpcInvoke(c, s)
  \/ \E c \in Calls, r \in Runners, p \in Calls \cup {None}, op \in Ops, s \in Services :
       Ask(c, r, p, op, s)
  \/ \E s \in Services, r \in Runners : Start(s, r)
  \/ \E r \in Runners : RunnerReady(r) \/ Exit(r)
  \/ \E s \in Services : TakeRunning(s)
  \/ Tick

Spec == Init /\ [][Next]_vars

\* Listen backlogs and tokio's semaphores are first come, first served, so no
\* call is overtaken for ever (here, because Calls is finite); remote calls
\* have time-outs; a guest returns in the end, unless it waits for a call.
Fairness == \A c \in Calls : WF_vars(Step(c))

FairSpec == Spec /\ Fairness

(***************************************************************************)
(* Properties.                                                             *)
(***************************************************************************)
\* Every call returns to its guest, although neither rpc_bridge nor invoke has
\* a time-out: while services do not call each other in a circle, the slots a
\* chain of nested calls holds come back, and a runner that is replaced or
\* dies answers its callers by closing their connections.
InvocationsReturn ==
  \A c \in Calls : call[c].pc # "idle" ~> call[c].pc = "done"

\* A runner executes an invocation only if it was ready and serving the target
\* when the manager resolved it, which is less than the token's life ago,
\* however long the connection waited for a slot and whatever was replaced
\* since.
InvokedIsResolved ==
  [][\A c \in Calls :
       call[c].pc = "queued" /\ call'[c].pc = "running" =>
         LET r == call[c].runner
         IN /\ r \in alive \cap is_ready /\ service_of[r] = call[c].target
            /\ clock < call[c].exp /\ call[c].exp <= clock + TokenTtl]_vars
=============================================================================
