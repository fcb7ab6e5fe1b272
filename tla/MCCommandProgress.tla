------------------------- MODULE MCCommandProgress -------------------------
(***************************************************************************)
(* TLC instance for what must come to an end in the daemon: sessions and   *)
(* the daemon itself (DaemonSessions), and commands (CommandLifecycle).    *)
(* The first state chooses which of the two the behaviour is about; the    *)
(* other does not move, and none of its fair actions is enabled there.     *)
(***************************************************************************)
EXTENDS DaemonSessions

CONSTANTS h1, h2, s1, s2, Requests, Handlers, Sessions, SessionOf, Deploys, NoDeploy,
          MaxWriteFailures

VARIABLES subject, operations, pc, job, outcome, told, ending, shutdown_requested,
          uploads, write_failures, granted

commandVars == <<operations, pc, job, outcome, told, ending, shutdown_requested,
                 uploads, write_failures, granted>>
Commands == INSTANCE CommandLifecycle

\* One command stream in each of two sessions.
MCHandlers == {h1, h2}
MCSessions == {s1, s2}
MCSessionOf == [h \in MCHandlers |-> IF h = h1 THEN s1 ELSE s2]

MCInit ==
  /\ subject \in {"commands", "sessions"} /\ Init /\ Commands!Init
  /\ subject = "sessions" => job = CHOOSE j \in [Handlers -> Commands!Job] : TRUE
CommandsNext == subject = "commands" /\ Commands!Next /\ UNCHANGED <<subject, vars>>
SessionsNext == subject = "sessions" /\ Next /\ UNCHANGED <<subject, commandVars>>

MCSpec ==
  /\ MCInit /\ [][CommandsNext \/ SessionsNext]_<<subject, vars, commandVars>>
  /\ Fairness /\ Commands!Fairness

\* A cancel that was granted is confirmed by the canceled event, and a request
\* id is free again after its operation: handle_command_start gets to
\* finalize_operation_after_terminal_event.
CommandsEnd == Commands!GrantedCancelIsConfirmed /\ Commands!RequestIdIsFreed
=============================================================================
