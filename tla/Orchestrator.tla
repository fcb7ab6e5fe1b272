---------------------------- MODULE Orchestrator ----------------------------
(***************************************************************************)
(* The orchestrator of imagod (imagod-control/src/orchestrator.rs): deploy *)
(* with automatic rollback, run, stop and the restore at boot, over the    *)
(* files of a service                                                      *)
(*                                                                         *)
(*   services/<name>/<release>/        a promoted release                  *)
(*   services/<name>/active_release    its name                            *)
(*   services/<name>/restart_policy                                        *)
(*   staging/<deploy id>/              an unpacked artifact                *)
(*                                                                         *)
(* and the per-service command gate.  Every file operation is a step, so   *)
(* another command or a crash may come between two of them; fs::write is   *)
(* two steps, since it truncates before it writes.  The supervisor is what *)
(* its callers see of it: a call succeeds or fails, and a service that     *)
(* runs may exit at any time (module ServiceSupervisor has the details).   *)
(***************************************************************************)
EXTENDS Integers, FiniteSets

CONSTANTS
  Services,     \* service names
  Releases,     \* release hashes
  Deploys,      \* deploy ids with a committed artifact
  NameOf,       \* deploy id -> service_name of its upload session
  ManifestName, \* deploy id -> name in the manifest it carries
  ReleaseOf,    \* deploy id -> release_id_from_artifact_digest
  Expected,     \* values of expected_current_release used
  Policies,     \* supported restart policies used
  Tasks,        \* concurrent commands
  MaxErrors,    \* bound: failed file operations
  MaxCrashes    \* bound: crashes of the daemon

None == "none"    \* no file; also how expected_current_release spells it
Empty == "empty"  \* a truncated file
AnyRelease == "any"

ASSUME ServicesAssumption == None \notin Services
ASSUME ReleasesAssumption == {None, Empty, AnyRelease} \cap Releases = {}
ASSUME DeploysAssumption ==
  /\ NameOf \in [Deploys -> Services] /\ ManifestName \in [Deploys -> Services]
  /\ ReleaseOf \in [Deploys -> Releases]
  /\ Expected \subseteq Releases \cup {None, AnyRelease}
ASSUME PoliciesAssumption == {None, Empty} \cap Policies = {}
ASSUME BoundsAssumption == MaxErrors \in Nat /\ MaxCrashes \in Nat

VARIABLES
  active_release,  \* service -> content of its active_release file
  restart_policy,  \* service -> content of its restart_policy file
  release_dirs,    \* service -> release -> state of that directory
  backups,         \* service -> release -> what its .swap-backup holds
  staging,         \* deploy id -> state of its staging directory
  running,         \* service -> release the supervisor runs
  task,            \* commands
  to_restore,      \* services the boot restore has yet to look at
  desired,         \* history: service -> what its last successful deploy wrote
  errors,          \* failed file operations so far
  crashes          \* crashes so far

disk == <<active_release, restart_policy, release_dirs, backups, staging>>
vars == <<disk, running, task, to_restore, desired, errors, crashes>>

Dir == {"absent", "partial", "whole"}
NoDirs == [r \in Releases |-> "absent"]
\* fs::remove_dir_all removes a directory entry by entry: an error or a crash
\* on the way leaves the rest of it.
Removing(dir) == IF dir = "whole" THEN "partial" ELSE "absent"

WritePC == {"truncate active", "write active", "truncate policy",
            "write policy"}
RollbackPC == {"rb truncate active", "rb write active", "rb truncate policy",
               "rb write policy", "rb load", "rb start", "rb stop",
               "rb start again"}
PC == {"idle", "done", "clean", "extract", "unpack", "rebind", "read",
       "promote", "swap", "unswap", "drop backup", "cleanup", "launch",
       "replace", "stop", "run"} \cup WritePC \cup RollbackPC

Result == {None, "ok", "failed", "busy", "not found", "precondition failed",
           "rolled back", "rollback failed"}

Task == [pc : PC, gate : Services \cup {None}, deploy : Deploys \cup {None},
         expected : Expected \cup {None}, policy : Policies \cup {None},
         auto_rollback : BOOLEAN, previous : Releases \cup {None, Empty},
         previous_policy : Policies \cup {None}, result : Result]
NoTask == [pc |-> "idle", gate |-> None, deploy |-> None, expected |-> None,
           policy |-> None, auto_rollback |-> FALSE, previous |-> None,
           previous_policy |-> None, result |-> None]

TypeOK ==
  /\ active_release \in [Services -> Releases \cup {None, Empty}]
  /\ restart_policy \in [Services -> Policies \cup {None, Empty}]
  /\ release_dirs \in [Services -> [Releases -> Dir]]
  /\ backups \in [Services -> [Releases -> Dir]]
  /\ staging \in [Deploys -> Dir]
  /\ running \in [Services -> Releases \cup {None}]
  /\ task \in [Tasks -> Task]
  /\ to_restore \subseteq Services
  /\ desired \in [Services -> [release : Releases \cup {None},
                               policy : Policies \cup {None}]]
  /\ errors \in 0..MaxErrors /\ crashes \in 0..MaxCrashes

Init ==
  /\ active_release = [s \in Services |-> None]
  /\ restart_policy = [s \in Services |-> None]
  /\ release_dirs = [s \in Services |-> NoDirs]
  /\ backups = [s \in Services |-> NoDirs]
  /\ staging = [d \in Deploys |-> "absent"]
  /\ running = [s \in Services |-> None]
  /\ task = [t \in Tasks |-> NoTask]
  /\ to_restore = {}
  /\ desired = [s \in Services |-> [release |-> None, policy |-> None]]
  /\ errors = 0 /\ crashes = 0

Goto(t, pc) == task' = [task EXCEPT ![t].pc = pc]
\* The command ends and its guard releases the gate.
End(t, result) ==
  task' = [task EXCEPT ![t].pc = "done", ![t].gate = None, ![t].result = result]

(***************************************************************************)
(* ServiceCommandGate::acquire.                                            *)
(***************************************************************************)
\* Fault: the gate never refuses.
gate_open(s) == TRUE
gate_free(s) == \A u \in Tasks : task[u].gate # s

\* A command begins: it takes the gate of service s and goes to pc, or is Busy.
Begin(t, cmd, s) ==
  /\ to_restore = {}
  /\ task[t].pc = "idle"
  /\ task' = [task EXCEPT ![t] =
       IF gate_free(s) THEN [cmd EXCEPT !.gate = s]
       ELSE [cmd EXCEPT !.pc = "done", !.result = "busy"]]
  /\ UNCHANGED <<disk, running, to_restore, desired, errors, crashes>>

Run(t, s) == Begin(t, [NoTask EXCEPT !.pc = "run"], s)
Stop(t, s) == Begin(t, [NoTask EXCEPT !.pc = "stop"], s)
Deploy(t, d, expected, policy, auto_rollback) ==
  Begin(t, [NoTask EXCEPT !.pc = "clean", !.deploy = d, !.expected = expected,
              !.policy = policy, !.auto_rollback = auto_rollback], NameOf[d])

Return(t) ==
  /\ task[t].pc = "done"
  /\ task' = [task EXCEPT ![t] = NoTask]
  /\ UNCHANGED <<disk, running, to_restore, desired, errors, crashes>>

(***************************************************************************)
(* deploy: staging.                                                        *)
(***************************************************************************)
StagingStep(t, pc) ==
  /\ task[t].pc = pc
  /\ UNCHANGED <<active_release, restart_policy, release_dirs, backups,
                 running, to_restore, desired, crashes>>

\* clean_dir: a step of the removal of what an earlier attempt left.
CleanStaging(t) ==
  /\ StagingStep(t, "clean")
  /\ staging' = [staging EXCEPT ![task[t].deploy] = Removing(@)]
  /\ IF staging[task[t].deploy] = "whole" THEN UNCHANGED task
     ELSE Goto(t, "extract")
  /\ UNCHANGED errors

BeginExtract(t) ==
  /\ StagingStep(t, "extract")
  /\ staging' = [staging EXCEPT ![task[t].deploy] = "partial"]
  /\ Goto(t, "unpack")
  /\ UNCHANGED errors

\* extract_tar and the manifest checks; a failure leaves the staging directory.
EndExtract(t) ==
  /\ StagingStep(t, "unpack")
  /\ \/ /\ staging' = [staging EXCEPT ![task[t].deploy] = "whole"]
        /\ Goto(t, "rebind")
     \/ End(t, "failed") /\ UNCHANGED staging
  /\ UNCHANGED errors

\* rebind_deploy_service_command_guard: the gate moves to the manifest's name.
\* Fault: the guard is renamed without acquiring the other gate.
rebind_unchecked(t, m) == TRUE
can_rebind(t, m) == gate_free(m)

Rebind(t) ==
  /\ StagingStep(t, "rebind")
  /\ LET m == ManifestName[task[t].deploy] IN
     IF m = task[t].gate THEN Goto(t, "read")
     ELSE IF can_rebind(t, m)
     THEN task' = [task EXCEPT ![t].pc = "read", ![t].gate = m]
     ELSE End(t, "busy")
  /\ UNCHANGED <<staging, errors>>

(***************************************************************************)
(* deploy: prepare_release_from_staged_inner, under the manifest's gate.   *)
(***************************************************************************)
\* validate_deploy_preconditions.
\* Fault: a service without a release takes any expectation.
first_deploy_unchecked(t, actual) ==
  actual = None \/ task[t].expected \in {AnyRelease, actual}
expected_holds(t, actual) ==
  task[t].expected = AnyRelease \/ task[t].expected = actual

ReadCurrent(t) ==
  /\ StagingStep(t, "read")
  /\ LET s == task[t].gate IN
     IF restart_policy[s] = Empty
     THEN End(t, "failed")
     ELSE IF ~expected_holds(t, active_release[s])
     THEN End(t, "precondition failed")
     ELSE task' = [task EXCEPT ![t].pc = "promote",
                     ![t].previous = active_release[s],
                     ![t].previous_policy = restart_policy[s]]
  /\ UNCHANGED <<staging, errors>>

DirStep(t, pc) ==
  /\ task[t].pc = pc
  /\ UNCHANGED <<active_release, restart_policy, running, to_restore, desired,
                 crashes>>

NewRelease(t) == ReleaseOf[task[t].deploy]

\* fs::rename(staging, release_dir): fails if the staging directory is gone.
RenameStaging(t) ==
  /\ staging[task[t].deploy] # "absent"
  /\ release_dirs' = [release_dirs EXCEPT ![task[t].gate][NewRelease(t)] =
                        staging[task[t].deploy]]
  /\ staging' = [staging EXCEPT ![task[t].deploy] = "absent"]

RenameFails(t) ==
  \/ staging[task[t].deploy] = "absent" /\ UNCHANGED errors
  \/ errors < MaxErrors /\ errors' = errors + 1

\* promote_staging_release: a plain rename, or, where the release exists, a
\* swap through a backup directory.
Promote(t) ==
  /\ DirStep(t, "promote")
  /\ LET s == task[t].gate  r == NewRelease(t) IN
     \/ /\ release_dirs[s][r] = "absent"
        /\ RenameStaging(t)
        /\ Goto(t, "cleanup")
        /\ UNCHANGED <<backups, errors>>
     \/ /\ release_dirs[s][r] = "absent"
        /\ RenameFails(t)
        /\ End(t, "failed")
        /\ UNCHANGED <<release_dirs, backups, staging>>
     \/ /\ release_dirs[s][r] # "absent"
        /\ release_dirs' = [release_dirs EXCEPT ![s][r] = "absent"]
        /\ backups' = [backups EXCEPT ![s][r] = release_dirs[s][r]]
        /\ Goto(t, "swap")
        /\ UNCHANGED <<staging, errors>>

Swap(t) ==
  /\ DirStep(t, "swap")
  /\ \/ RenameStaging(t) /\ Goto(t, "drop backup") /\ UNCHANGED errors
     \/ /\ RenameFails(t)
        /\ Goto(t, "unswap")
        /\ UNCHANGED <<release_dirs, staging>>
  /\ UNCHANGED backups

\* The failed move is undone.
\* Fault: the backup is left where it is.
backup_left(t, s, r) == release_dirs
after_unswap(t, s, r) == [release_dirs EXCEPT ![s][r] = backups[s][r]]

UndoSwap(t) ==
  /\ DirStep(t, "unswap")
  /\ release_dirs' = after_unswap(t, task[t].gate, NewRelease(t))
  /\ backups' = [backups EXCEPT ![task[t].gate][NewRelease(t)] = "absent"]
  /\ End(t, "failed")
  /\ UNCHANGED <<staging, errors>>

DropBackup(t) ==
  /\ DirStep(t, "drop backup")
  /\ LET s == task[t].gate  r == NewRelease(t) IN
     /\ backups' = [backups EXCEPT ![s][r] = Removing(@)]
     /\ IF backups[s][r] = "whole" THEN UNCHANGED task ELSE Goto(t, "cleanup")
  /\ UNCHANGED <<release_dirs, staging, errors>>

\* cleanup_old_releases: every other directory of the service goes, in any
\* order, each by a removal that may stop midway.
\* Fault: only the new release is kept.
only_new_kept(t) == {NewRelease(t)}
kept_releases(t) == {NewRelease(t), task[t].previous}

CleanupOld(t) ==
  /\ DirStep(t, "cleanup")
  /\ LET s == task[t].gate
         old == {r \in Releases \ kept_releases(t) : release_dirs[s][r] # "absent"}
         stale == {r \in Releases : backups[s][r] # "absent"} IN
     \/ /\ \E r \in old :
             release_dirs' = [release_dirs EXCEPT ![s][r] = Removing(@)]
        /\ UNCHANGED <<backups, task>>
     \/ /\ \E r \in stale : backups' = [backups EXCEPT ![s][r] = Removing(@)]
        /\ UNCHANGED <<release_dirs, task>>
     \/ /\ old = {} /\ stale = {}
        /\ Goto(t, "launch")
        /\ UNCHANGED <<release_dirs, backups>>
  /\ UNCHANGED <<staging, errors>>

\* build_launch_from_release: the manifest may ask for what is not there.
BuildLaunch(t) ==
  /\ DirStep(t, "launch")
  /\ Goto(t, "replace") \/ End(t, "failed")
  /\ UNCHANGED <<release_dirs, backups, staging, errors>>

(***************************************************************************)
(* The supervisor, as its callers see it: what a call may leave running    *)
(* and what it returns.                                                    *)
(***************************************************************************)
Outcome(result, release) == [result |-> result, release |-> release]

\* stop: the runner is gone, was not there, or could not be killed.
StopOutcomes(s) ==
  IF running[s] = None THEN {Outcome("not found", None)}
  ELSE {Outcome("ok", None), Outcome("failed", running[s])}

\* start: Busy if the service runs; otherwise it becomes ready or is cleaned up.
StartOutcomes(s, r) ==
  IF running[s] # None THEN {Outcome("busy", running[s])}
  ELSE {Outcome("ok", r), Outcome("failed", None)}

\* replace: stop, then start unless the stop failed.
ReplaceOutcomes(s, r) ==
  {Outcome("ok", r), Outcome("failed", None)}
    \cup {o \in StopOutcomes(s) : o.result = "failed"}

SupervisorStep(t, pc) ==
  /\ task[t].pc = pc
  /\ UNCHANGED <<disk, to_restore, desired, errors, crashes>>

Leaves(s, o) == running' = [running EXCEPT ![s] = o.release]

\* A service that runs may exit at any time; the supervisor reaps it.
RunnerExit(s) ==
  /\ running[s] # None
  /\ running' = [running EXCEPT ![s] = None]
  /\ UNCHANGED <<disk, task, to_restore, desired, errors, crashes>>

(***************************************************************************)
(* stop and run.                                                           *)
(***************************************************************************)
StopService(t) ==
  /\ SupervisorStep(t, "stop")
  /\ \E o \in StopOutcomes(task[t].gate) :
       Leaves(task[t].gate, o) /\ End(t, o.result)

\* load_launch_from_release succeeds only on a release that is on disk, and
\* fails there too when the release asks for what the host does not have.
Loadable(s, r) == r \in Releases /\ release_dirs[s][r] # "absent"

RunService(t) ==
  /\ SupervisorStep(t, "run")
  /\ LET s == task[t].gate  r == active_release[s] IN
     IF r = None THEN End(t, "not found") /\ UNCHANGED running
     ELSE \/ End(t, "failed") /\ UNCHANGED running
          \/ /\ Loadable(s, r)
             /\ \E o \in StartOutcomes(s, r) : Leaves(s, o) /\ End(t, o.result)

(***************************************************************************)
(* deploy: replacement, the two files, and the rollback.                   *)
(***************************************************************************)
after_failed_start(t) ==
  IF task[t].auto_rollback /\ task[t].previous # None
  THEN "rb truncate active" ELSE "done"

Replace(t) ==
  /\ SupervisorStep(t, "replace")
  /\ \E o \in ReplaceOutcomes(task[t].gate, NewRelease(t)) :
       /\ Leaves(task[t].gate, o)
       /\ IF o.result = "ok" THEN Goto(t, "truncate active")
          ELSE IF after_failed_start(t) = "done" THEN End(t, "failed")
          ELSE Goto(t, after_failed_start(t))

FileStep(t, pc) ==
  /\ task[t].pc = pc
  /\ UNCHANGED <<release_dirs, backups, staging, running, to_restore, crashes>>

SetActive(t, value) ==
  active_release' = [active_release EXCEPT ![task[t].gate] = value]
SetPolicy(t, value) ==
  restart_policy' = [restart_policy EXCEPT ![task[t].gate] = value]

\* fs::write(active_release): truncated, then written.
TruncateActive(t) ==
  /\ \/ FileStep(t, "truncate active") /\ Goto(t, "write active")
     \/ FileStep(t, "rb truncate active") /\ Goto(t, "rb write active")
  /\ SetActive(t, Empty)
  /\ UNCHANGED <<restart_policy, desired, errors>>

\* Fault: the failed release stays active.
rollback_to_new(t) == NewRelease(t)
rollback_target(t) == task[t].previous

WriteActive(t) ==
  /\ \/ /\ FileStep(t, "write active")
        /\ SetActive(t, NewRelease(t)) /\ Goto(t, "truncate policy")
     \/ /\ FileStep(t, "rb write active")
        /\ SetActive(t, rollback_target(t)) /\ Goto(t, "rb truncate policy")
  /\ UNCHANGED <<restart_policy, desired, errors>>

\* write_restart_policy; a rollback to a service without a policy removes the
\* file instead.
TruncatePolicy(t) ==
  /\ \/ /\ FileStep(t, "truncate policy")
        /\ SetPolicy(t, Empty) /\ Goto(t, "write policy")
     \/ /\ FileStep(t, "rb truncate policy")
        /\ IF task[t].previous_policy = None
           THEN SetPolicy(t, None) /\ Goto(t, "rb load")
           ELSE SetPolicy(t, Empty) /\ Goto(t, "rb write policy")
  /\ UNCHANGED <<active_release, desired, errors>>

\* Fault: the policy of the failed deploy stays.
policy_of_failed_deploy(t) == task[t].policy
restored_policy(t) == task[t].previous_policy

WritePolicy(t) ==
  /\ \/ /\ FileStep(t, "write policy")
        /\ SetPolicy(t, task[t].policy)
        /\ desired' = [desired EXCEPT ![task[t].gate] =
                         [release |-> NewRelease(t), policy |-> task[t].policy]]
        /\ End(t, "ok")
     \/ /\ FileStep(t, "rb write policy")
        /\ SetPolicy(t, restored_policy(t))
        /\ Goto(t, "rb load")
        /\ UNCHANGED desired
  /\ UNCHANGED <<active_release, errors>>

\* A file operation fails and the command with it; a file it was to write may
\* be truncated already, and a failed "unswap" leaves the release in its backup.
OperationFails(t) ==
  /\ task[t].pc \in WritePC \cup {"clean", "extract", "read", "promote", "unswap",
                     "drop backup", "cleanup", "run", "rb truncate active",
                     "rb write active", "rb truncate policy", "rb write policy"}
  /\ errors < MaxErrors
  /\ errors' = errors + 1
  /\ End(t, IF task[t].pc \in RollbackPC THEN "rollback failed" ELSE "failed")
  /\ UNCHANGED <<disk, running, to_restore, desired, crashes>>

LoadPrevious(t) ==
  /\ SupervisorStep(t, "rb load")
  /\ \/ Loadable(task[t].gate, task[t].previous) /\ Goto(t, "rb start")
     \/ End(t, "rollback failed")
  /\ UNCHANGED running

\* start_previous_release_with_busy_recovery.
StartPrevious(t) ==
  /\ SupervisorStep(t, "rb start") \/ SupervisorStep(t, "rb start again")
  /\ \E o \in StartOutcomes(task[t].gate, task[t].previous) :
       /\ Leaves(task[t].gate, o)
       /\ IF o.result = "ok" THEN End(t, "rolled back")
          ELSE IF o.result = "busy" /\ task[t].pc = "rb start"
          THEN Goto(t, "rb stop")
          ELSE End(t, "rollback failed")

ForceStopCurrent(t) ==
  /\ SupervisorStep(t, "rb stop")
  /\ \E o \in StopOutcomes(task[t].gate) :
       /\ Leaves(task[t].gate, o)
       /\ IF o.result = "failed" THEN End(t, "rollback failed")
          ELSE Goto(t, "rb start again")

(***************************************************************************)
(* Crash and boot.                                                         *)
(***************************************************************************)
Crash ==
  /\ crashes < MaxCrashes
  /\ crashes' = crashes + 1
  /\ running' = [s \in Services |-> None]
  /\ task' = [t \in Tasks |-> NoTask]
  /\ to_restore' = Services
  /\ UNCHANGED <<disk, desired, errors>>

\* collect_boot_restore_candidates: restart_policy=always and an active release.
boot_candidate(s) ==
  restart_policy[s] = "always" /\ active_release[s] \in Releases

\* restore_active_services_on_boot, one service; a failure is only reported.
RestoreOnBoot(s) ==
  /\ s \in to_restore
  /\ to_restore' = to_restore \ {s}
  /\ IF boot_candidate(s) /\ Loadable(s, active_release[s])
     THEN \E o \in StartOutcomes(s, active_release[s]) : Leaves(s, o)
     ELSE UNCHANGED running
  /\ UNCHANGED <<disk, task, desired, errors, crashes>>

(***************************************************************************)
(* Specification.                                                          *)
(***************************************************************************)
CommandStep(t) ==
  \/ CleanStaging(t) \/ BeginExtract(t) \/ EndExtract(t) \/ Rebind(t)
  \/ ReadCurrent(t) \/ Promote(t) \/ Swap(t) \/ UndoSwap(t) \/ DropBackup(t)
  \/ CleanupOld(t) \/ BuildLaunch(t) \/ Replace(t) \/ TruncateActive(t)
  \/ WriteActive(t) \/ TruncatePolicy(t) \/ WritePolicy(t) \/ OperationFails(t)
  \/ LoadPrevious(t) \/ StartPrevious(t) \/ ForceStopCurrent(t)
  \/ StopService(t) \/ RunService(t) \/ Return(t)

Next ==
  \/ \E t \in Tasks :
       \/ CommandStep(t)
       \/ \E s \in Services : Run(t, s) \/ Stop(t, s)
       \/ \E d \in Deploys, e \in Expected, p \in Policies, a \in BOOLEAN :
            Deploy(t, d, e, p, a)
  \/ \E s \in Services : RunnerExit(s) \/ RestoreOnBoot(s)
  \/ Crash

Spec == Init /\ [][Next]_vars

(***************************************************************************)
(* Properties.                                                             *)
(***************************************************************************)
Quiet(s) == \A t \in Tasks : task[t].gate # s

\* Between commands, what runs is the active release: deploy writes the file
\* after the replacement and a rollback before it, either may fail midway, and
\* the daemon may crash and restore its services.  (While no file operation has
\* failed: a deploy whose write of active_release fails leaves its release
\* running.)
RunningIsActive ==
  errors = 0 =>
    \A s \in Services :
      Quiet(s) /\ running[s] # None => running[s] = active_release[s]

\* Between commands, active_release and restart_policy are those of the last
\* deploy that succeeded: a failed deploy, rolled back or not, leaves no trace
\* in them.  (fs::write is not atomic: after a crash or a failed write the file
\* may be empty, and an empty restart_policy fails every later deploy.)
FilesFollowDeploys ==
  errors = 0 /\ crashes = 0 =>
    \A s \in Services : Quiet(s) =>
      /\ active_release[s] = desired[s].release
      /\ restart_policy[s] = desired[s].policy

\* promote_staging_release is not atomic: what stops it between its two renames
\* leaves a release in a backup nobody looks for.  That takes a crash, or the
\* failure of the rename that undoes the first after the second has failed; the
\* second fails by itself where another deploy of the upload, under the name it
\* was uploaded as, has taken the staging directory.
NamesAgree == \A d \in Deploys : NameOf[d] = ManifestName[d]
SwapsUndone == crashes = 0 /\ (errors = 0 \/ (NamesAgree /\ errors = 1))

\* Between commands the active release is on disk, so run, the boot restore and
\* the next rollback find it: cleanup_old_releases never removes it and a
\* redeploy of the same release puts it back, also when a file operation fails.
ActiveIsOnDisk ==
  SwapsUndone =>
    \A s \in Services :
      Quiet(s) /\ active_release[s] \in Releases
        => release_dirs[s][active_release[s]] # "absent"

\* The release a rollback goes back to is there when it is loaded, although the
\* deploy has cleaned up old releases and replaced directories.
RollbackHasRelease ==
  SwapsUndone =>
    \A t \in Tasks :
      task[t].pc \in RollbackPC /\ task[t].previous \in Releases
        => release_dirs[task[t].gate][task[t].previous] # "absent"

\* What a command loads is whole, although directories are unpacked, swapped and
\* removed entry by entry, file operations fail and the daemon crashes: the
\* release a deploy has promoted, the active one that run and the boot restore
\* load, and the one a rollback goes back to.  A removal that stopped midway
\* has only ever touched a release that none of them is.  (Where uploads and
\* manifests agree on the service name.)
Promoted == {"drop backup", "cleanup", "launch", "replace"} \cup WritePC
LoadedIsWhole ==
  /\ \A s \in Services : active_release[s] \in Releases =>
       release_dirs[s][active_release[s]] # "partial"
  /\ \A t \in Tasks :
       /\ task[t].pc \in Promoted =>
            release_dirs[task[t].gate][NewRelease(t)] = "whole"
       /\ task[t].pc \in RollbackPC /\ task[t].previous \in Releases =>
            release_dirs[task[t].gate][task[t].previous] # "partial"

\* The client accepts r as the release it replaces.
Expects(t, r) == task[t].expected = AnyRelease \/ task[t].expected = r

\* expected_current_release is a compare-and-swap: a deploy starts to overwrite
\* active_release only while it is what the client expected, although the check
\* comes long before the write.
DeployIsCompareAndSwap ==
  [][\A t \in Tasks :
       /\ task[t].pc = "truncate active"
       /\ task'[t].pc = "write active"
       => Expects(t, active_release[task[t].gate])]_vars
=============================================================================
