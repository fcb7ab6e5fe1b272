--------------------------- MODULE ServiceContract ---------------------------
(***************************************************************************)
(* What the service supervisor promises its callers, without saying how:   *)
(* a service has at most one process; a process is launched only on behalf *)
(* of a start or replace that is open, and only where there is none; it    *)
(* may end at any time; and a stop is answered "ok" or "not found" only    *)
(* when the service has no process.  ServiceSupervisor implements it.      *)
(***************************************************************************)
CONSTANTS Services, Runners, Tasks, Ops, Results, NoRunner, NoService

VARIABLES
  running,   \* service -> the runner whose process is alive, or NoRunner
  spent,     \* runner ids that have been used
  call       \* task -> the call it has made, and the answer

vars == <<running, spent, call>>

Starting == {"start", "replace"}
Stopping == {"stop", "force stop"}
NoCall == [stage |-> "none", op |-> "none", service |-> NoService, result |-> "none"]

Init ==
  /\ running = [s \in Services |-> NoRunner]
  /\ spent = {}
  /\ call = [t \in Tasks |-> NoCall]

Invoke(t, op, s) ==
  /\ call[t].stage = "none"
  /\ call' = [call EXCEPT ![t] = [stage |-> "open", op |-> op, service |-> s,
                                  result |-> "none"]]
  /\ UNCHANGED <<running, spent>>

Launch(t, r) ==
  LET s == call[t].service
  IN /\ call[t].stage = "open" /\ call[t].op \in Starting
     /\ running[s] = NoRunner /\ r \notin spent
     /\ running' = [running EXCEPT ![s] = r]
     /\ spent' = spent \cup {r}
     /\ UNCHANGED call

\* By itself, at a request or by a signal.
Vanish(s) ==
  /\ running[s] # NoRunner
  /\ running' = [running EXCEPT ![s] = NoRunner]
  /\ UNCHANGED <<spent, call>>

Answer(t, result) ==
  /\ call[t].stage = "open"
  /\ call[t].op \in Stopping /\ result \in {"ok", "not found"}
       => running[call[t].service] = NoRunner
  /\ call' = [call EXCEPT ![t] = [stage |-> "answered", op |-> call[t].op,
                                  service |-> call[t].service, result |-> result]]
  /\ UNCHANGED <<running, spent>>

Forget(t) ==
  /\ call[t].stage = "answered"
  /\ call' = [call EXCEPT ![t] = NoCall]
  /\ UNCHANGED <<running, spent>>

\* What the supervisor does where its callers cannot see it.
Hidden == UNCHANGED vars

Next ==
  \/ Hidden
  \/ \E t \in Tasks :
       \/ \E op \in Ops, s \in Services : Invoke(t, op, s)
       \/ \E r \in Runners : Launch(t, r)
       \/ \E result \in Results : Answer(t, result)
       \/ Forget(t)
  \/ \E s \in Services : Vanish(s)

Spec == Init /\ [][Next]_vars
=============================================================================
