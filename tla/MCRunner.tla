------------------------------ MODULE MCRunner ------------------------------
(***************************************************************************)
(* TLC instance for runners, in two parts that do not share state: one     *)
(* process from registration to exit (RunnerProcess), and the calls that   *)
(* runners make to each other (Invocation).  The first state chooses which *)
(* of them the behaviour is about; the other does not move.                *)
(***************************************************************************)
EXTENDS RunnerProcess

CONSTANTS Services, Bindings, Runners, Calls, Daemon, InboundSlots, ControlSlots,
          TokenTtl, MaxTime

VARIABLES subject, inner, is_ready, service_of, alive, call, clock

callVars == <<inner, is_ready, service_of, alive, call, clock>>

Invoking == INSTANCE Invocation

ASSUME CallsAssumption ==
  /\ Services # {} /\ Invoking!None \notin Services
  /\ TokenTtl \in Nat /\ MaxTime \in Nat

\* Two services, one of which calls the other.
MCServices == {"mid", "back"}
MCBindings == {<<"mid", "back">>}

\* A process that has ended, so that no fair action of it is enabled.
Ended ==
  /\ app = "cli" /\ main = "exited" /\ run = "ok"
  /\ shutdown = TRUE /\ told = FALSE
  /\ inbound = "ended" /\ caller = [c \in Callers |-> "none"]
  /\ ingress = "none" /\ conn = [r \in Requests |-> "none"]
  /\ queue = <<>> /\ worker = Idle /\ wedged = FALSE
  /\ heartbeat = "ended" /\ failures = 0
  /\ manager = "gone" /\ marked = TRUE /\ faults = 0

MCInit ==
  /\ \/ subject = "process" /\ Init
     \/ subject = "calls" /\ Ended
  /\ Invoking!Init

ProcessNext == subject = "process" /\ Next /\ UNCHANGED <<subject, callVars>>
CallsNext == subject = "calls" /\ Invoking!Next /\ UNCHANGED <<subject, vars>>

MCSpec ==
  /\ MCInit /\ [][ProcessNext \/ CallsNext]_<<subject, vars, callVars>>
  /\ Fairness /\ Invoking!Fairness

\* Invocation!InvocationsReturn: every call between services returns to its
\* guest, although rpc_bridge sets no time-out.
InvocationsReturn == Invoking!InvocationsReturn

\* Invocation!InvokedIsResolved: a runner executes an invocation only if it was
\* ready and serving the target when the manager resolved it, a token's life
\* ago at most.
InvokedIsResolved == Invoking!InvokedIsResolved
=============================================================================
