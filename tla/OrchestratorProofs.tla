------------------------- MODULE OrchestratorProofs -------------------------
(***************************************************************************)
(* Proofs about Orchestrator, for any sets of services, releases, uploads, *)
(* policies and commands and any number of failed file operations and      *)
(* crashes.                                                                *)
(*                                                                         *)
(* First, what the gate gives (GateInv): types, the exclusion of the       *)
(* command gate, and that expected_current_release is a compare-and-swap.  *)
(* The last is about two points of a deploy that are ten steps apart.      *)
(* What connects them is the gate: from the check on the file stays what   *)
(* the client expected, because whoever writes it holds the gate of its    *)
(* service and nobody else does.                                           *)
(*                                                                         *)
(* Then the files (ReleaseInv): what runs is what active_release names,    *)
(* the files are those of the last deploy that succeeded, the release they *)
(* name is on disk, and what is loaded is whole (Whole).  Most of it does  *)
(* not hold while a deploy is at work on the service, so this invariant    *)
(* has two halves: what a service at rest satisfies (Rest), and what a     *)
(* deploy that has begun to change it knows at each of its labels (Works), *)
(* which is enough to come to rest again from there.                       *)
(*                                                                         *)
(* Last, the plugin cache (CacheInv).                                      *)
(***************************************************************************)
EXTENDS MCDeploy, TLAPS

USE ServicesAssumption, ReleasesAssumption, DeploysAssumption,
    PoliciesAssumption, BoundsAssumption

\* Labels of a deploy, between the check and the write, and after the previous
\* release was loaded.
NoDeployPC == {"idle", "done", "run", "stop"}
CheckedPC == {"promote", "swap", "unswap", "drop backup", "cleanup", "launch",
              "replace", "truncate active"}
LoadedPC == {"rb start", "rb stop", "rb start again"}

\* A command at work holds the gate of some service, one that has ended none.
WorkHoldsGate ==
  \A t \in Tasks :
    /\ task[t].pc \in {"idle", "done"} => task[t].gate = None
    /\ task[t].pc \notin {"idle", "done"} => task[t].gate \in Services

\* ServiceCommandGate: no two commands hold the gate of one service.
GateIsExclusive ==
  \A t, u \in Tasks :
    task[t].gate # None /\ task[t].gate = task[u].gate => t = u

\* A deploy knows its upload, and a rollback that starts the previous release
\* knows which one that is.
DeployKnown ==
  \A t \in Tasks : task[t].pc \notin NoDeployPC => task[t].deploy \in Deploys
PreviousKnown ==
  \A t \in Tasks : task[t].pc \in LoadedPC => task[t].previous \in Releases

\* From validate_deploy_preconditions to the write, the file is what the client
\* expected.
CheckStillHolds ==
  \A t \in Tasks :
    task[t].pc \in CheckedPC => Expects(t, active_release[task[t].gate])

TasksOK ==
  /\ task \in [Tasks -> Task]
  /\ WorkHoldsGate
  /\ GateIsExclusive
  /\ DeployKnown
  /\ PreviousKnown
  /\ CheckStillHolds

\* The rest of TypeOK.
FilesOK ==
  /\ active_release \in [Services -> Releases \cup {None, Empty}]
  /\ restart_policy \in [Services -> Policies \cup {None, Empty}]
  /\ release_dirs \in [Services -> [Releases -> Dir]]
  /\ backups \in [Services -> [Releases -> Dir]]
  /\ staging \in [Deploys -> Dir]
  /\ running \in [Services -> Releases \cup {None}]
  /\ to_restore \subseteq Services
  /\ desired \in [Services -> [release : Releases \cup {None},
                               policy : Policies \cup {None}]]
  /\ errors \in 0..MaxErrors /\ crashes \in 0..MaxCrashes

GateInv == FilesOK /\ TasksOK

-----------------------------------------------------------------------------
(* Labels and records.                                                     *)

\* The labels a step goes to.
LEMMA Labels ==
  {"idle", "done", "clean", "extract", "unpack", "rebind", "read", "promote",
   "swap", "unswap", "drop backup", "cleanup", "launch", "replace", "stop",
   "run", "truncate active", "write active", "truncate policy",
   "write policy", "rb truncate active", "rb write active",
   "rb truncate policy", "rb write policy", "rb load", "rb start", "rb stop",
   "rb start again"} = PC
  BY DEF PC, WritePC, RollbackPC

\* A command that moves to another label keeps everything else.
LEMMA GotoFields ==
  ASSUME task \in [Tasks -> Task], NEW t \in Tasks, NEW pc \in PC, Goto(t, pc)
  PROVE  /\ task' \in [Tasks -> Task]
         /\ \A u \in Tasks \ {t} : task'[u] = task[u]
         /\ task'[t].pc = pc
         /\ task'[t].gate = task[t].gate
         /\ task'[t].deploy = task[t].deploy
         /\ task'[t].expected = task[t].expected
         /\ task'[t].previous = task[t].previous
  BY DEF Goto, Task

\* A command that ends lets go of its gate.
LEMMA EndFields ==
  ASSUME task \in [Tasks -> Task], NEW t \in Tasks, NEW result \in Result,
         End(t, result)
  PROVE  /\ task' \in [Tasks -> Task]
         /\ \A u \in Tasks \ {t} : task'[u] = task[u]
         /\ task'[t].pc = "done"
         /\ task'[t].gate = None
  <1>1. "done" \in PC
    BY Labels
  <1> DEFINE ended == [task[t] EXCEPT !.pc = "done", !.gate = None,
                                      !.result = result]
  <1>2. task' = [task EXCEPT ![t] = ended]
    BY DEF End
  <1>3. ended \in Task /\ ended.pc = "done" /\ ended.gate = None
    BY <1>1, ZenonT(30) DEF Task
  <1> HIDE DEF ended
  <1> QED
    BY <1>2, <1>3

-----------------------------------------------------------------------------
(* A step of one command keeps TasksOK.                                    *)

\* What a step of command t has to show: the condition on the new record of t,
\* and that it writes active_release for its own service only.
LEMMA OneCommandMoves ==
  ASSUME TasksOK, NEW t \in Tasks,
         task' \in [Tasks -> Task],
         \A u \in Tasks \ {t} : task'[u] = task[u],
         task'[t].pc \in {"idle", "done"} => task'[t].gate = None,
         task'[t].pc \notin {"idle", "done"} => task'[t].gate \in Services,
         \/ task'[t].gate = None
         \/ task'[t].gate = task[t].gate
         \/ \A u \in Tasks : task[u].gate # task'[t].gate,
         task'[t].pc \notin NoDeployPC => task'[t].deploy \in Deploys,
         task'[t].pc \in LoadedPC => task'[t].previous \in Releases,
         task'[t].pc \in CheckedPC =>
           \/ task'[t].expected = AnyRelease
           \/ task'[t].expected = active_release'[task'[t].gate],
         \A s \in Services \ {task[t].gate} :
           active_release'[s] = active_release[s]
  PROVE  TasksOK'
  <1>1. WorkHoldsGate'
    BY DEF TasksOK, WorkHoldsGate
  <1>2. GateIsExclusive'
    BY DEF TasksOK, GateIsExclusive
  <1>3. DeployKnown' /\ PreviousKnown'
    BY DEF TasksOK, DeployKnown, PreviousKnown
  <1>4. CheckStillHolds'
    <2> SUFFICES ASSUME NEW u \in Tasks, task'[u].pc \in CheckedPC
                 PROVE  \/ task'[u].expected = AnyRelease
                        \/ task'[u].expected = active_release'[task'[u].gate]
      BY DEF CheckStillHolds, Expects
    <2>1. CASE u = t
      BY <2>1
    <2>2. CASE u # t
      <3>1. task'[u] = task[u]
        BY <2>2
      <3>2. task[u].gate \in Services
        BY <3>1 DEF TasksOK, WorkHoldsGate, CheckedPC
      <3>3. task[u].gate # task[t].gate
        BY <2>2, <3>2 DEF TasksOK, GateIsExclusive
      <3>4. active_release'[task[u].gate] = active_release[task[u].gate]
        BY <3>2, <3>3
      <3> QED
        BY <3>1, <3>4 DEF TasksOK, CheckStillHolds, Expects
    <2> QED
      BY <2>1, <2>2
  <1> QED
    BY <1>1, <1>2, <1>3, <1>4 DEF TasksOK

\* The command goes on, under the same gate.
LEMMA GotoKeeps ==
  ASSUME TasksOK, NEW t \in Tasks, NEW pc \in PC, Goto(t, pc),
         task[t].pc \notin {"idle", "done"}, pc \notin {"idle", "done"},
         pc \notin NoDeployPC => task[t].pc \notin NoDeployPC,
         pc \in LoadedPC => task[t].previous \in Releases,
         pc \in CheckedPC => /\ task[t].pc \in CheckedPC
                             /\ active_release' = active_release,
         \A s \in Services \ {task[t].gate} :
           active_release'[s] = active_release[s]
  PROVE  TasksOK'
  <1>1. /\ task' \in [Tasks -> Task]
        /\ \A u \in Tasks \ {t} : task'[u] = task[u]
        /\ task'[t].pc = pc
        /\ task'[t].gate = task[t].gate
        /\ task'[t].deploy = task[t].deploy
        /\ task'[t].expected = task[t].expected
        /\ task'[t].previous = task[t].previous
    BY GotoFields DEF TasksOK
  <1>2. task[t].gate \in Services
    BY DEF TasksOK, WorkHoldsGate
  <1>3. pc \notin NoDeployPC => task[t].deploy \in Deploys
    BY DEF TasksOK, DeployKnown
  <1>4. pc \in CheckedPC =>
          \/ task[t].expected = AnyRelease
          \/ task[t].expected = active_release'[task[t].gate]
    BY DEF TasksOK, CheckStillHolds, Expects
  <1> QED
    BY <1>1, <1>2, <1>3, <1>4, OneCommandMoves

\* The command ends.
LEMMA EndKeeps ==
  ASSUME TasksOK, NEW t \in Tasks, NEW result \in Result, End(t, result),
         \A s \in Services \ {task[t].gate} :
           active_release'[s] = active_release[s]
  PROVE  TasksOK'
  <1>1. /\ task' \in [Tasks -> Task]
        /\ \A u \in Tasks \ {t} : task'[u] = task[u]
        /\ task'[t].pc = "done"
        /\ task'[t].gate = None
    BY EndFields DEF TasksOK
  <1>2. "done" \in NoDeployPC /\ "done" \notin LoadedPC \cup CheckedPC
    BY DEF NoDeployPC, LoadedPC, CheckedPC
  <1> QED
    BY <1>1, <1>2, OneCommandMoves

-----------------------------------------------------------------------------
(* Types of what the steps write.                                          *)

\* An outcome has a result, and leaves a release or nothing running.
IsOutcome(o) == o.result \in Result /\ o.release \in Releases \cup {None}

\* The constructor of outcomes.
LEMMA OutcomeType ==
  ASSUME NEW x \in {"ok", "failed", "busy", "not found"},
         NEW y \in Releases \cup {None}
  PROVE  IsOutcome(Outcome(x, y))
  BY DEF IsOutcome, Outcome, Result

\* The outcomes of stop.
LEMMA StopOutcomeTypes ==
  ASSUME FilesOK, NEW s \in Services
  PROVE  \A o \in StopOutcomes(s) : IsOutcome(o)
  <1>1. running[s] \in Releases \cup {None}
    BY DEF FilesOK
  <1>2. /\ IsOutcome(Outcome("not found", None)) /\ IsOutcome(Outcome("ok", None))
        /\ IsOutcome(Outcome("failed", running[s]))
    BY <1>1, OutcomeType
  <1> QED
    BY <1>2, Zenon DEF StopOutcomes

\* The outcomes of start and replace.
LEMMA StartOutcomeTypes ==
  ASSUME FilesOK, NEW s \in Services, NEW r \in Releases
  PROVE  /\ \A o \in StartOutcomes(s, r) : IsOutcome(o)
         /\ \A o \in ReplaceOutcomes(s, r) : IsOutcome(o)
  <1>1. running[s] \in Releases \cup {None}
    BY DEF FilesOK
  <1>2. /\ IsOutcome(Outcome("ok", r)) /\ IsOutcome(Outcome("failed", None))
        /\ IsOutcome(Outcome("busy", running[s]))
    BY <1>1, OutcomeType
  <1>3. \A o \in StartOutcomes(s, r) : IsOutcome(o)
    BY <1>2, Zenon DEF StartOutcomes
  <1>4. \A o \in StopOutcomes(s) : IsOutcome(o)
    BY StopOutcomeTypes
  <1>5. \A o \in ReplaceOutcomes(s, r) : IsOutcome(o)
    BY <1>2, <1>4, Zenon DEF ReplaceOutcomes
  <1> QED
    BY <1>3, <1>5

\* What a supervisor call leaves running.
LEMMA LeavesType ==
  ASSUME FilesOK, NEW s \in Services, NEW o, IsOutcome(o), Leaves(s, o)
  PROVE  running' \in [Services -> Releases \cup {None}]
  BY DEF FilesOK, Leaves, IsOutcome

\* A deploy at work has a gate, an upload and a release.
LEMMA DeployFields ==
  ASSUME GateInv, NEW t \in Tasks, task[t].pc \notin NoDeployPC
  PROVE  /\ task[t].gate \in Services
         /\ task[t].deploy \in Deploys
         /\ NewRelease(t) \in Releases
         /\ staging[task[t].deploy] \in Dir
         /\ task[t].policy \in Policies \cup {None}
         /\ task[t].previous_policy \in Policies \cup {None}
         /\ task[t].previous \in Releases \cup {None, Empty}
  <1>1. task[t] \in Task
    BY DEF GateInv, TasksOK
  <1>2. task[t].gate \in Services
    BY DEF GateInv, TasksOK, WorkHoldsGate, NoDeployPC
  <1>3. task[t].deploy \in Deploys
    BY DEF GateInv, TasksOK, DeployKnown
  <1>4. NewRelease(t) \in Releases /\ staging[task[t].deploy] \in Dir
    BY <1>3 DEF NewRelease, GateInv, FilesOK
  <1> QED
    BY <1>1, <1>2, <1>3, <1>4 DEF Task

-----------------------------------------------------------------------------
(* The inductive invariant.                                                *)

\* The daemon starts with no command and empty directories.
LEMMA GateInit == Init => GateInv
<1> SUFFICES ASSUME Init PROVE GateInv
  OBVIOUS
<1>1. FilesOK
  <2>1. "absent" \in Dir /\ NoDirs \in [Releases -> Dir]
    BY DEF Dir, NoDirs
  <2>2. errors \in 0..MaxErrors /\ crashes \in 0..MaxCrashes
    BY DEF Init
  <2> QED
    BY <2>1, <2>2 DEF Init, FilesOK
<1>2. NoTask \in Task
  BY Labels DEF NoTask, Task, Result
<1>3. /\ task \in [Tasks -> Task]
      /\ \A t \in Tasks : task[t].pc = "idle" /\ task[t].gate = None
  BY <1>2 DEF Init, NoTask
<1>4. TasksOK
  BY <1>3 DEF TasksOK, WorkHoldsGate, GateIsExclusive, DeployKnown,
              PreviousKnown, CheckStillHolds, NoDeployPC, LoadedPC, CheckedPC
<1> QED
  BY <1>1, <1>4 DEF GateInv

\* run, stop and deploy take a free gate or are Busy.
LEMMA BeginKeeps ==
  ASSUME GateInv, NEW t \in Tasks, NEW cmd \in Task, NEW s \in Services,
         cmd.pc \notin {"idle", "done"}, cmd.gate = None,
         cmd.pc \notin LoadedPC \cup CheckedPC,
         cmd.pc \notin NoDeployPC => cmd.deploy \in Deploys,
         Begin(t, cmd, s)
  PROVE  GateInv'
<1>1. FilesOK'
  BY DEF GateInv, FilesOK, Begin, disk
<1>2. TasksOK'
  <2> DEFINE taken == [cmd EXCEPT !.gate = s]
             refused == [cmd EXCEPT !.pc = "done", !.result = "busy"]
  <2>1. task \in [Tasks -> Task] /\ TasksOK
    BY DEF GateInv, TasksOK
  <2>2. active_release' = active_release
    BY DEF Begin, disk
  <2>3. CASE gate_free(s)
    <3>1. task' = [task EXCEPT ![t] = taken]
      BY <2>3 DEF Begin
    <3>2. /\ taken \in Task /\ taken.pc = cmd.pc /\ taken.gate = s
          /\ taken.deploy = cmd.deploy
      BY DEF Task
    <3> HIDE DEF taken
    <3>3. /\ task' \in [Tasks -> Task] /\ task'[t] = taken
          /\ \A u \in Tasks \ {t} : task'[u] = task[u]
      BY <2>1, <3>1, <3>2
    <3>4. \A u \in Tasks : task[u].gate # s
      BY <2>3 DEF gate_free
    <3> QED
      BY <2>1, <2>2, <3>2, <3>3, <3>4, OneCommandMoves
  <2>4. CASE ~gate_free(s)
    <3>1. task' = [task EXCEPT ![t] = refused]
      BY <2>4 DEF Begin
    <3>2. "done" \in PC /\ "busy" \in Result
      BY Labels DEF Result
    <3>3. refused \in Task /\ refused.pc = "done" /\ refused.gate = None
      BY <3>2 DEF Task
    <3> HIDE DEF refused
    <3>4. /\ task' \in [Tasks -> Task] /\ task'[t] = refused
          /\ \A u \in Tasks \ {t} : task'[u] = task[u]
      BY <2>1, <3>1, <3>3
    <3>5. "done" \in NoDeployPC /\ "done" \notin LoadedPC \cup CheckedPC
      BY DEF NoDeployPC, LoadedPC, CheckedPC
    <3> QED
      BY <2>1, <2>2, <3>3, <3>4, <3>5, OneCommandMoves
  <2> QED
    BY <2>3, <2>4
<1> QED
  BY <1>1, <1>2 DEF GateInv

\* The three commands begin.
LEMMA CommandsBegin ==
  ASSUME GateInv, NEW t \in Tasks,
         \/ \E s \in Services : Run(t, s) \/ Stop(t, s)
         \/ \E d \in Deploys, e \in Expected, p \in Policies, a \in BOOLEAN :
              Deploy(t, d, e, p, a)
  PROVE  GateInv'
<1>1. NoTask \in Task
  BY Labels DEF NoTask, Task, Result
<1>2. ASSUME NEW s \in Services, NEW pc \in {"run", "stop"},
             Begin(t, [NoTask EXCEPT !.pc = pc], s)
      PROVE  GateInv'
  <2> DEFINE cmd == [NoTask EXCEPT !.pc = pc]
  <2>1. pc \in PC
    BY <1>2, Labels
  <2>2. cmd \in Task
    BY <1>1, <2>1 DEF Task
  <2>3. cmd.pc = pc /\ cmd.gate = None
    BY DEF NoTask
  <2>4. /\ pc \notin {"idle", "done"} /\ pc \notin LoadedPC \cup CheckedPC
        /\ pc \in NoDeployPC
    BY <1>2 DEF LoadedPC, CheckedPC, NoDeployPC
  <2>5. Begin(t, cmd, s)
    BY <1>2
  <2> HIDE DEF cmd
  <2> QED
    BY <2>2, <2>3, <2>4, <2>5, BeginKeeps
<1>3. ASSUME NEW d \in Deploys, NEW e \in Expected, NEW p \in Policies,
             NEW a \in BOOLEAN, Deploy(t, d, e, p, a)
      PROVE  GateInv'
  <2> DEFINE cmd == [NoTask EXCEPT !.pc = "clean", !.deploy = d, !.expected = e,
                       !.policy = p, !.auto_rollback = a]
  <2>1. "clean" \in PC
    BY Labels
  <2>2. cmd \in Task
    BY <1>1, <2>1 DEF Task
  <2>3. cmd.pc = "clean" /\ cmd.gate = None /\ cmd.deploy = d
    BY DEF NoTask
  <2>4. NameOf[d] \in Services
    OBVIOUS
  <2>5. "clean" \notin LoadedPC \cup CheckedPC
    BY DEF LoadedPC, CheckedPC
  <2>6. Begin(t, cmd, NameOf[d])
    BY <1>3 DEF Deploy
  <2> HIDE DEF cmd
  <2> QED
    BY <2>2, <2>3, <2>4, <2>5, <2>6, BeginKeeps
<1> QED
  BY <1>2, <1>3 DEF Run, Stop

-----------------------------------------------------------------------------
(* deploy, one lemma per part.                                             *)

\* A step of fs::remove_dir_all.
LEMMA RemovingType == \A dir : Removing(dir) \in Dir
  BY DEF Removing, Dir

\* A step of a removal leaves the commands where they are.
LEMMA TasksStand ==
  ASSUME TasksOK, UNCHANGED <<task, active_release>>
  PROVE  TasksOK'
  BY DEF TasksOK, WorkHoldsGate, GateIsExclusive, DeployKnown, PreviousKnown,
         CheckStillHolds, Expects

\* Staging: only the staging directory changes, and rebind exchanges gates.
LEMMA StagingKeeps ==
  ASSUME GateInv, NEW t \in Tasks,
         CleanStaging(t) \/ BeginExtract(t) \/ EndExtract(t) \/ Rebind(t)
  PROVE  GateInv'
<1>1. /\ task[t].pc \in {"clean", "extract", "unpack", "rebind"}
      /\ active_release' = active_release /\ TasksOK
  BY DEF CleanStaging, BeginExtract, EndExtract, Rebind, StagingStep, GateInv
<1>2. task[t].pc \notin NoDeployPC
  BY <1>1 DEF NoDeployPC
<1>3. task[t].gate \in Services /\ task[t].deploy \in Deploys
  BY <1>2, DeployFields
<1>4. FilesOK'
  <2>1. staging' \in [Deploys -> Dir]
    BY <1>3, RemovingType DEF CleanStaging, BeginExtract, EndExtract, Rebind, GateInv,
                FilesOK, Dir
  <2> QED
    BY <2>1 DEF CleanStaging, BeginExtract, EndExtract, Rebind, StagingStep,
                GateInv, FilesOK
<1>5. ASSUME NEW pc \in {"extract", "unpack", "rebind", "read"}, Goto(t, pc)
      PROVE  TasksOK'
  <2>1. pc \in PC /\ pc \notin NoDeployPC \cup LoadedPC \cup CheckedPC
    BY <1>5, Labels DEF NoDeployPC, LoadedPC, CheckedPC
  <2> QED
    BY <1>1, <1>2, <1>5, <2>1, GotoKeeps
<1>6. ASSUME NEW result \in {"failed", "busy"}, End(t, result)
      PROVE  TasksOK'
  BY <1>1, <1>6, EndKeeps DEF Result
<1>7. TasksOK'
  <2>1. CASE CleanStaging(t) \/ BeginExtract(t) \/ EndExtract(t)
    <3>1. CASE UNCHANGED task
      BY <1>1, <3>1, TasksStand
    <3> QED
      BY <1>5, <1>6, <2>1, <3>1 DEF CleanStaging, BeginExtract, EndExtract
  <2>2. CASE Rebind(t)
    <3> DEFINE m == ManifestName[task[t].deploy]
               bound == [task[t] EXCEPT !.pc = "read", !.gate = m]
    <3>1. m \in Services
      BY <1>3
    <3>2. CASE m = task[t].gate
      BY <1>5, <2>2, <3>2 DEF Rebind
    <3>3. CASE m # task[t].gate /\ can_rebind(t, m)
      <4>1. task' = [task EXCEPT ![t] = bound]
        BY <2>2, <3>3 DEF Rebind
      <4>2. task \in [Tasks -> Task] /\ "read" \in PC
        BY <1>1, Labels DEF TasksOK
      <4>3. /\ bound \in Task /\ bound.pc = "read" /\ bound.gate = m
            /\ bound.deploy = task[t].deploy
        BY ZenonT(30), <3>1, <4>2 DEF Task
      <4> HIDE DEF bound
      <4>4. /\ task' \in [Tasks -> Task] /\ task'[t] = bound
            /\ \A u \in Tasks \ {t} : task'[u] = task[u]
        BY <4>1, <4>2, <4>3
      <4>5. \A u \in Tasks : task[u].gate # m
        BY <3>3 DEF can_rebind, gate_free
      <4>6. "read" \notin LoadedPC \cup CheckedPC
        BY DEF LoadedPC, CheckedPC
      <4> HIDE DEF m
      <4> QED
        BY <1>1, <1>3, <3>1, <4>3, <4>4, <4>5, <4>6, OneCommandMoves
    <3>4. CASE m # task[t].gate /\ ~can_rebind(t, m)
      BY <1>6, <2>2, <3>4 DEF Rebind
    <3> QED
      BY <3>2, <3>3, <3>4
  <2> QED
    BY <2>1, <2>2
<1> QED
  BY <1>4, <1>7 DEF GateInv

\* The check: it is where CheckStillHolds begins.
LEMMA ReadKeeps ==
  ASSUME GateInv, NEW t \in Tasks, ReadCurrent(t)
  PROVE  GateInv'
<1>1. task[t].pc = "read" /\ active_release' = active_release /\ TasksOK
  BY DEF ReadCurrent, StagingStep, GateInv
<1>2. task[t].pc \notin NoDeployPC
  BY <1>1 DEF NoDeployPC
<1>3. task[t].gate \in Services /\ task[t].deploy \in Deploys
  BY <1>2, DeployFields
<1>4. FilesOK'
  BY DEF ReadCurrent, StagingStep, GateInv, FilesOK
<1>5. ASSUME NEW result \in {"failed", "precondition failed"}, End(t, result)
      PROVE  TasksOK'
  BY <1>1, <1>5, EndKeeps DEF Result
<1> DEFINE s == task[t].gate
           checked == [task[t] EXCEPT !.pc = "promote",
                         !.previous = active_release[s],
                         !.previous_policy = restart_policy[s]]
<1>6. CASE restart_policy[s] = Empty \/ ~expected_holds(t, active_release[s])
  <2>1. TasksOK'
    BY <1>5, <1>6 DEF ReadCurrent
  <2> QED
    BY <1>4, <2>1 DEF GateInv
<1>7. CASE restart_policy[s] # Empty /\ expected_holds(t, active_release[s])
  <2>1. task' = [task EXCEPT ![t] = checked]
    BY <1>7 DEF ReadCurrent
  <2>2. /\ task \in [Tasks -> Task] /\ "promote" \in PC
        /\ active_release[s] \in Releases \cup {None, Empty}
        /\ restart_policy[s] \in Policies \cup {None}
    BY <1>3, <1>7, Labels DEF TasksOK, GateInv, FilesOK
  <2>3. /\ checked \in Task /\ checked.pc = "promote" /\ checked.gate = s
        /\ checked.deploy = task[t].deploy
        /\ checked.expected = task[t].expected
    BY ZenonT(30), <2>2 DEF Task
  <2> HIDE DEF checked
  <2>4. /\ task' \in [Tasks -> Task] /\ task'[t] = checked
        /\ \A u \in Tasks \ {t} : task'[u] = task[u]
    BY <2>1, <2>2, <2>3
  <2>5. task[t].expected = AnyRelease \/ task[t].expected = active_release'[s]
    BY <1>1, <1>7 DEF expected_holds
  <2>6. "promote" \notin LoadedPC
    BY DEF LoadedPC
  <2>7. TasksOK'
    BY <1>1, <1>3, <2>3, <2>4, <2>5, <2>6, OneCommandMoves
  <2> QED
    BY <1>4, <2>7 DEF GateInv
<1> QED
  BY <1>6, <1>7

\* Directories: promotion, its undoing, and the cleanup of old releases.
LEMMA DirKeeps ==
  ASSUME GateInv, NEW t \in Tasks,
         \/ Promote(t) \/ Swap(t) \/ UndoSwap(t) \/ DropBackup(t)
         \/ CleanupOld(t) \/ BuildLaunch(t)
  PROVE  GateInv'
<1>1. /\ task[t].pc \in CheckedPC \ {"replace", "truncate active"}
      /\ active_release' = active_release /\ restart_policy' = restart_policy
      /\ running' = running /\ to_restore' = to_restore
      /\ desired' = desired /\ crashes' = crashes
      /\ TasksOK
  BY DEF Promote, Swap, UndoSwap, DropBackup, CleanupOld, BuildLaunch, DirStep,
         GateInv, CheckedPC
<1>2. task[t].pc \notin NoDeployPC
  BY <1>1 DEF NoDeployPC, CheckedPC
<1>3. /\ task[t].gate \in Services /\ task[t].deploy \in Deploys
      /\ NewRelease(t) \in Releases /\ staging[task[t].deploy] \in Dir
  BY <1>2, DeployFields
<1>4. /\ "absent" \in Dir
      /\ staging \in [Deploys -> Dir]
      /\ release_dirs \in [Services -> [Releases -> Dir]]
      /\ backups \in [Services -> [Releases -> Dir]]
      /\ errors \in 0..MaxErrors
  BY DEF Dir, GateInv, FilesOK
<1>5. ASSUME NEW pc \in CheckedPC, Goto(t, pc)
      PROVE  TasksOK'
  <2>1. pc \in PC /\ pc \notin NoDeployPC \cup LoadedPC
    BY <1>5, Labels DEF NoDeployPC, LoadedPC, CheckedPC
  <2> QED
    BY <1>1, <1>2, <1>5, <2>1, GotoKeeps DEF NoDeployPC
<1>6. ASSUME End(t, "failed")
      PROVE  TasksOK'
  BY <1>1, <1>6, EndKeeps DEF Result
<1>7. TasksOK'
  <2>1. UNCHANGED task => TasksOK'
    BY <1>1, TasksStand
  <2> QED
    BY <1>5, <1>6, <2>1 DEF Promote, Swap, UndoSwap, DropBackup, CleanupOld,
                            BuildLaunch, CheckedPC
<1>8. RenameStaging(t) => /\ staging' \in [Deploys -> Dir]
                          /\ release_dirs' \in [Services -> [Releases -> Dir]]
  BY <1>3, <1>4 DEF RenameStaging
<1>9. RenameFails(t) => errors' \in 0..MaxErrors
  BY <1>4 DEF RenameFails
<1> DEFINE s == task[t].gate
           r == NewRelease(t)
<1>10. release_dirs[s][r] \in Dir
  BY <1>3, <1>4
<1>11. ASSUME NEW v \in Dir, NEW q \in Releases
       PROVE  /\ [release_dirs EXCEPT ![s][q] = v] \in [Services -> [Releases -> Dir]]
              /\ [backups EXCEPT ![s][q] = v] \in [Services -> [Releases -> Dir]]
  BY <1>3, <1>4
<1>12. errors' \in 0..MaxErrors
  <2>1. CASE Promote(t) \/ Swap(t)
    BY <1>4, <1>9, <2>1, Zenon DEF Promote, Swap
  <2>2. CASE UndoSwap(t) \/ DropBackup(t) \/ CleanupOld(t) \/ BuildLaunch(t)
    BY <1>4, <2>2, Zenon DEF UndoSwap, DropBackup, CleanupOld, BuildLaunch
  <2> QED
    BY <2>1, <2>2
<1>13. staging' \in [Deploys -> Dir]
  <2>1. CASE Promote(t) \/ Swap(t)
    BY <1>4, <1>8, <2>1, Zenon DEF Promote, Swap
  <2>2. CASE UndoSwap(t) \/ DropBackup(t) \/ CleanupOld(t) \/ BuildLaunch(t)
    BY <1>4, <2>2, Zenon DEF UndoSwap, DropBackup, CleanupOld, BuildLaunch
  <2> QED
    BY <2>1, <2>2
<1>14. backups' \in [Services -> [Releases -> Dir]]
  <2>1. CASE Promote(t)
    <3>1. [backups EXCEPT ![s][r] = release_dirs[s][r]]
            \in [Services -> [Releases -> Dir]]
      BY <1>3, <1>10, <1>11
    <3> QED
      BY <1>4, <2>1, <3>1 DEF Promote
  <2>2. CASE UndoSwap(t)
    BY ZenonT(30), <1>3, <1>4, <1>11, <2>2 DEF UndoSwap
  <2>5. CASE DropBackup(t)
    <3>1. backups' = [backups EXCEPT ![s][r] = Removing(backups[s][r])]
      BY <2>5 DEF DropBackup
    <3> QED
      BY <1>3, <1>11, <3>1, RemovingType
  <2>3. CASE CleanupOld(t)
    <3>1. ASSUME NEW q \in Releases, backups' = [backups EXCEPT ![s][q] = Removing(@)]
          PROVE  backups' \in [Services -> [Releases -> Dir]]
      <4>1. backups' = [backups EXCEPT ![s][q] = Removing(backups[s][q])]
        BY <3>1
      <4> QED
        BY <1>11, <4>1, RemovingType
    <3> QED
      BY <1>4, <2>3, <3>1 DEF CleanupOld
  <2>4. CASE Swap(t) \/ BuildLaunch(t)
    BY <1>4, <2>4, Zenon DEF Swap, BuildLaunch
  <2> QED
    BY <2>1, <2>2, <2>3, <2>4, <2>5
<1>15. release_dirs' \in [Services -> [Releases -> Dir]]
  <2>1. CASE Promote(t) \/ Swap(t)
    <3>1. [release_dirs EXCEPT ![s][r] = "absent"]
            \in [Services -> [Releases -> Dir]]
      BY <1>3, <1>4, <1>11
    <3> QED
      BY <1>4, <1>8, <2>1, <3>1 DEF Promote, Swap
  <2>2. CASE UndoSwap(t)
    BY <1>3, <1>4, <2>2 DEF UndoSwap, after_unswap
  <2>3. CASE CleanupOld(t)
    <3>1. ASSUME NEW q \in Releases,
                 release_dirs' = [release_dirs EXCEPT ![s][q] = Removing(@)]
          PROVE  release_dirs' \in [Services -> [Releases -> Dir]]
      <4>1. release_dirs' = [release_dirs EXCEPT ![s][q] = Removing(release_dirs[s][q])]
        BY <3>1
      <4> QED
        BY <1>11, <4>1, RemovingType
    <3> QED
      BY <1>4, <2>3, <3>1 DEF CleanupOld
  <2>4. CASE DropBackup(t) \/ BuildLaunch(t)
    BY <1>4, <2>4 DEF DropBackup, BuildLaunch
  <2> QED
    BY <2>1, <2>2, <2>3, <2>4
<1> QED
  BY <1>1, <1>7, <1>12, <1>13, <1>14, <1>15 DEF GateInv, FilesOK

\* The two files: a write goes to the service whose gate the command holds.
LEMMA FileKeeps ==
  ASSUME GateInv, NEW t \in Tasks,
         TruncateActive(t) \/ WriteActive(t) \/ TruncatePolicy(t) \/ WritePolicy(t)
  PROVE  GateInv'
<1> DEFINE s == task[t].gate
<1>1. /\ task[t].pc \in WritePC \cup RollbackPC /\ TasksOK
      /\ release_dirs' = release_dirs /\ backups' = backups
      /\ staging' = staging /\ running' = running
      /\ to_restore' = to_restore /\ crashes' = crashes /\ errors' = errors
  BY DEF TruncateActive, WriteActive, TruncatePolicy, WritePolicy, FileStep,
         GateInv, WritePC, RollbackPC
<1>2. task[t].pc \notin NoDeployPC
  BY <1>1 DEF NoDeployPC, WritePC, RollbackPC
<1>3. /\ s \in Services /\ NewRelease(t) \in Releases
      /\ task[t].policy \in Policies \cup {None}
      /\ task[t].previous_policy \in Policies \cup {None}
      /\ task[t].previous \in Releases \cup {None, Empty}
  BY <1>2, DeployFields
<1>4. /\ active_release \in [Services -> Releases \cup {None, Empty}]
      /\ restart_policy \in [Services -> Policies \cup {None, Empty}]
      /\ desired \in [Services -> [release : Releases \cup {None},
                                   policy : Policies \cup {None}]]
  BY DEF GateInv, FilesOK
<1>5. /\ active_release' \in [Services -> Releases \cup {None, Empty}]
      /\ \A x \in Services \ {s} : active_release'[x] = active_release[x]
  <2>1. ASSUME NEW v \in Releases \cup {None, Empty}, SetActive(t, v)
        PROVE  <1>5!1 /\ <1>5!2
    BY <1>4, <2>1 DEF SetActive
  <2>2. CASE TruncateActive(t) \/ WriteActive(t)
    BY <1>3, <2>1, <2>2 DEF TruncateActive, WriteActive, rollback_target
  <2>3. CASE TruncatePolicy(t) \/ WritePolicy(t)
    BY <1>4, <2>3 DEF TruncatePolicy, WritePolicy
  <2> QED
    BY <2>2, <2>3
<1>6. restart_policy' \in [Services -> Policies \cup {None, Empty}]
  <2>1. ASSUME NEW v \in Policies \cup {None, Empty}, SetPolicy(t, v)
        PROVE  <1>6
    BY <1>4, <2>1 DEF SetPolicy
  <2>2. CASE TruncateActive(t) \/ WriteActive(t)
    BY <1>4, <2>2 DEF TruncateActive, WriteActive
  <2>3. CASE TruncatePolicy(t) \/ WritePolicy(t)
    BY <1>3, <2>1, <2>3 DEF TruncatePolicy, WritePolicy, restored_policy
  <2> QED
    BY <2>2, <2>3
<1>7. desired' \in [Services -> [release : Releases \cup {None},
                                policy : Policies \cup {None}]]
  <2> DEFINE new == [release |-> NewRelease(t), policy |-> task[t].policy]
  <2>1. new \in [release : Releases \cup {None}, policy : Policies \cup {None}]
    BY <1>3
  <2>2. desired' = desired \/ desired' = [desired EXCEPT ![s] = new]
    BY DEF TruncateActive, WriteActive, TruncatePolicy, WritePolicy
  <2> HIDE DEF new
  <2> QED
    BY <1>3, <1>4, <2>1, <2>2
<1>8. ASSUME NEW pc \in {"write active", "truncate policy", "write policy",
                         "rb write active", "rb truncate policy",
                         "rb write policy", "rb load"}, Goto(t, pc)
      PROVE  TasksOK'
  <2>1. pc \in PC /\ pc \notin NoDeployPC \cup LoadedPC \cup CheckedPC
    BY <1>8, Labels DEF NoDeployPC, LoadedPC, CheckedPC
  <2>2. task[t].pc \notin {"idle", "done"} /\ pc \notin {"idle", "done"}
    BY <1>2, <2>1 DEF NoDeployPC
  <2> QED
    BY <1>1, <1>2, <1>5, <1>8, <2>1, <2>2, GotoKeeps
<1>9. ASSUME End(t, "ok")
      PROVE  TasksOK'
  BY <1>1, <1>5, <1>9, EndKeeps DEF Result
<1>10. TasksOK'
  BY <1>8, <1>9 DEF TruncateActive, WriteActive, TruncatePolicy, WritePolicy
<1>11. FilesOK'
  BY <1>1, <1>5, <1>6, <1>7 DEF GateInv, FilesOK
<1> QED
  BY <1>10, <1>11 DEF GateInv

\* A file operation fails and ends its command.
LEMMA FailureKeeps ==
  ASSUME GateInv, NEW t \in Tasks, OperationFails(t)
  PROVE  GateInv'
<1>1. FilesOK'
  <2>1. errors \in 0..MaxErrors /\ errors < MaxErrors /\ errors' = errors + 1
    BY DEF OperationFails, GateInv, FilesOK
  <2>2. errors' \in 0..MaxErrors
    BY <2>1
  <2> QED
    BY <2>2 DEF OperationFails, GateInv, FilesOK, disk
<1>2. PICK result \in {"rollback failed", "failed"} : End(t, result)
  BY DEF OperationFails
<1>3. TasksOK'
  BY <1>2, EndKeeps DEF OperationFails, GateInv, disk, Result
<1> QED
  BY <1>1, <1>3 DEF GateInv

\* Calls of the supervisor: the disk stays as it is.
LEMMA SupervisorKeeps ==
  ASSUME GateInv, NEW t \in Tasks,
         \/ StopService(t) \/ RunService(t) \/ Replace(t)
         \/ LoadPrevious(t) \/ StartPrevious(t) \/ ForceStopCurrent(t)
  PROVE  GateInv'
<1> DEFINE s == task[t].gate
<1>1. /\ TasksOK /\ FilesOK
      /\ active_release' = active_release
      /\ restart_policy' = restart_policy /\ release_dirs' = release_dirs
      /\ backups' = backups /\ staging' = staging
      /\ to_restore' = to_restore /\ desired' = desired
      /\ errors' = errors /\ crashes' = crashes
  BY DEF StopService, RunService, Replace, LoadPrevious, StartPrevious,
         ForceStopCurrent, SupervisorStep, GateInv, disk
<1>2. s \in Services
  <2>1. task[t].pc \notin {"idle", "done"}
    BY DEF StopService, RunService, Replace, LoadPrevious, StartPrevious,
           ForceStopCurrent, SupervisorStep
  <2> QED
    BY <1>1, <2>1 DEF TasksOK, WorkHoldsGate
<1>3. ASSUME NEW result \in Result, End(t, result)
      PROVE  TasksOK'
  BY <1>1, <1>3, EndKeeps
<1>4. ASSUME running' \in [Services -> Releases \cup {None}], TasksOK'
      PROVE  GateInv'
  BY <1>1, <1>4 DEF GateInv, FilesOK
<1>5. ASSUME NEW r \in Releases, NEW o,
             o \in StopOutcomes(s) \cup StartOutcomes(s, r)
                     \cup ReplaceOutcomes(s, r),
             Leaves(s, o)
      PROVE  /\ running' \in [Services -> Releases \cup {None}]
             /\ o.result \in Result
  <2>1. IsOutcome(o)
    BY <1>1, <1>2, <1>5, StopOutcomeTypes, StartOutcomeTypes
  <2> QED
    BY <1>1, <1>2, <1>5, <2>1, LeavesType DEF IsOutcome
<1>6. running \in [Services -> Releases \cup {None}]
  BY <1>1 DEF FilesOK
<1>7. CASE StopService(t)
  <2>1. PICK o \in StopOutcomes(s) : Leaves(s, o) /\ End(t, o.result)
    BY <1>7 DEF StopService
  <2>2. IsOutcome(o)
    BY <1>1, <1>2, <2>1, StopOutcomeTypes
  <2> QED
    BY <1>1, <1>2, <1>3, <1>4, <2>1, <2>2, LeavesType DEF IsOutcome
<1>8. CASE RunService(t)
  <2> DEFINE r == active_release[s]
  <2>1. CASE End(t, "not found") /\ UNCHANGED running
    BY <1>3, <1>4, <1>6, <2>1 DEF Result
  <2>2. CASE End(t, "failed") /\ UNCHANGED running
    BY <1>3, <1>4, <1>6, <2>2 DEF Result
  <2>3. CASE /\ Loadable(s, r)
             /\ \E o \in StartOutcomes(s, r) : Leaves(s, o) /\ End(t, o.result)
    <3>1. r \in Releases
      BY <2>3 DEF Loadable
    <3> QED
      BY <1>3, <1>4, <1>5, <2>3, <3>1
  <2> QED
    BY <1>8, <2>1, <2>2, <2>3 DEF RunService
<1>9. CASE Replace(t)
  <2>1. task[t].pc = "replace"
    BY <1>9 DEF Replace, SupervisorStep
  <2>2. task[t].pc \notin NoDeployPC /\ task[t].pc \in CheckedPC
    BY <2>1 DEF NoDeployPC, CheckedPC
  <2>3. NewRelease(t) \in Releases
    BY <2>2, DeployFields
  <2>4. ASSUME NEW pc \in {"truncate active", "rb truncate active"}, Goto(t, pc)
        PROVE  TasksOK'
    <3>1. pc \in PC /\ pc \notin NoDeployPC \cup LoadedPC
      BY <2>4, Labels DEF NoDeployPC, LoadedPC
    <3> QED
      BY <1>1, <2>2, <2>4, <3>1, GotoKeeps DEF NoDeployPC
  <2>5. PICK o \in ReplaceOutcomes(s, NewRelease(t)) :
          /\ Leaves(s, o)
          /\ \/ Goto(t, "truncate active") \/ Goto(t, "rb truncate active")
             \/ End(t, "failed")
    BY <1>9 DEF Replace, after_failed_start
  <2>6. TasksOK'
    BY <1>3, <2>4, <2>5 DEF Result
  <2> QED
    BY <1>4, <1>5, <2>3, <2>5, <2>6
<1>10. CASE LoadPrevious(t)
  <2>1. task[t].pc = "rb load" /\ running' = running
    BY <1>10 DEF LoadPrevious, SupervisorStep
  <2>2. CASE Loadable(s, task[t].previous) /\ Goto(t, "rb start")
    <3>1. task[t].previous \in Releases
      BY <2>2 DEF Loadable
    <3>2. /\ "rb start" \in PC /\ "rb start" \notin NoDeployPC \cup CheckedPC
          /\ task[t].pc \notin NoDeployPC
      BY <2>1, Labels DEF NoDeployPC, CheckedPC
    <3>3. TasksOK'
      BY <1>1, <2>1, <2>2, <3>1, <3>2, GotoKeeps
    <3> QED
      BY <1>4, <1>6, <2>1, <3>3
  <2>3. CASE End(t, "rollback failed")
    BY <1>3, <1>4, <1>6, <2>1, <2>3 DEF Result
  <2> QED
    BY <1>10, <2>2, <2>3 DEF LoadPrevious
<1>11. CASE StartPrevious(t) \/ ForceStopCurrent(t)
  <2>1. task[t].pc \in LoadedPC
    BY <1>11 DEF StartPrevious, ForceStopCurrent, SupervisorStep, LoadedPC
  <2>2. task[t].previous \in Releases /\ task[t].pc \notin NoDeployPC
    BY <1>1, <2>1 DEF TasksOK, PreviousKnown, LoadedPC, NoDeployPC
  <2>3. PICK o \in StartOutcomes(s, task[t].previous) \cup StopOutcomes(s) :
          /\ Leaves(s, o)
          /\ \/ Goto(t, "rb stop") \/ Goto(t, "rb start again")
             \/ End(t, "rolled back") \/ End(t, "rollback failed")
    BY <1>11 DEF StartPrevious, ForceStopCurrent
  <2>4. ASSUME NEW pc \in {"rb stop", "rb start again"}, Goto(t, pc)
        PROVE  TasksOK'
    <3>1. pc \in PC /\ pc \notin NoDeployPC \cup CheckedPC
      BY <2>4, Labels DEF NoDeployPC, CheckedPC
    <3> QED
      BY <1>1, <2>2, <2>4, <3>1, GotoKeeps DEF NoDeployPC
  <2>5. TasksOK'
    BY <1>3, <2>3, <2>4 DEF Result
  <2> QED
    BY <1>4, <1>5, <2>2, <2>3, <2>5
<1> QED
  BY <1>7, <1>8, <1>9, <1>10, <1>11

\* The caller of a command that has ended may begin another one.
LEMMA ReturnKeeps ==
  ASSUME GateInv, NEW t \in Tasks, Return(t)
  PROVE  GateInv'
<1>1. FilesOK'
  BY DEF Return, GateInv, FilesOK, disk
<1>2. NoTask \in Task /\ NoTask.pc = "idle" /\ NoTask.gate = None
  BY Labels DEF NoTask, Task, Result
<1>3. /\ TasksOK /\ active_release' = active_release
      /\ task' = [task EXCEPT ![t] = NoTask]
  BY DEF Return, GateInv, disk
<1>4. /\ task' \in [Tasks -> Task] /\ task'[t] = NoTask
      /\ \A u \in Tasks \ {t} : task'[u] = task[u]
  BY <1>2, <1>3 DEF TasksOK
<1>5. "idle" \in NoDeployPC /\ "idle" \notin LoadedPC \cup CheckedPC
  BY DEF NoDeployPC, LoadedPC, CheckedPC
<1>6. TasksOK'
  BY <1>2, <1>3, <1>4, <1>5, OneCommandMoves
<1> QED
  BY <1>1, <1>6 DEF GateInv

\* Exits, crashes and the restore at boot.
LEMMA EnvironmentKeeps ==
  ASSUME GateInv,
         Crash \/ \E s \in Services : RunnerExit(s) \/ RestoreOnBoot(s)
  PROVE  GateInv'
<1>1. ASSUME NEW s \in Services, RunnerExit(s)
      PROVE  GateInv'
  <2>1. FilesOK'
    BY <1>1 DEF RunnerExit, GateInv, FilesOK, disk
  <2>2. TasksOK'
    BY <1>1 DEF RunnerExit, GateInv, disk, TasksOK, WorkHoldsGate,
                GateIsExclusive, DeployKnown, PreviousKnown, CheckStillHolds,
                Expects
  <2> QED
    BY <2>1, <2>2 DEF GateInv
<1>2. ASSUME NEW s \in Services, RestoreOnBoot(s)
      PROVE  GateInv'
  <2>1. running' \in [Services -> Releases \cup {None}]
    <3>1. CASE UNCHANGED running
      BY <3>1 DEF GateInv, FilesOK
    <3>2. CASE boot_candidate(s) /\ \E o \in StartOutcomes(s, active_release[s]) :
                                       Leaves(s, o)
      <4>1. active_release[s] \in Releases
        BY <3>2 DEF boot_candidate
      <4> QED
        BY <3>2, <4>1, StartOutcomeTypes, LeavesType DEF GateInv
    <3> QED
      BY <1>2, <3>1, <3>2 DEF RestoreOnBoot
  <2>2. FilesOK'
    BY <1>2, <2>1 DEF RestoreOnBoot, GateInv, FilesOK, disk
  <2>3. TasksOK'
    BY <1>2 DEF RestoreOnBoot, GateInv, disk, TasksOK, WorkHoldsGate,
                GateIsExclusive, DeployKnown, PreviousKnown, CheckStillHolds,
                Expects
  <2> QED
    BY <2>2, <2>3 DEF GateInv
<1>3. ASSUME Crash
      PROVE  GateInv'
  <2>1. FilesOK'
    BY <1>3 DEF Crash, GateInv, FilesOK, disk
  <2>2. NoTask \in Task
    BY Labels DEF NoTask, Task, Result
  <2>3. /\ task' \in [Tasks -> Task]
        /\ \A t \in Tasks : task'[t].pc = "idle" /\ task'[t].gate = None
    BY <1>3, <2>2 DEF Crash, NoTask
  <2>4. TasksOK'
    BY <2>3 DEF TasksOK, WorkHoldsGate, GateIsExclusive, DeployKnown,
                PreviousKnown, CheckStillHolds, NoDeployPC, LoadedPC, CheckedPC
  <2> QED
    BY <2>1, <2>4 DEF GateInv
<1> QED
  BY <1>1, <1>2, <1>3

\* Every step keeps the invariant.
LEMMA GateStep == GateInv /\ [Next]_vars => GateInv'
<1> SUFFICES ASSUME GateInv, [Next]_vars PROVE GateInv'
  OBVIOUS
<1>1. ASSUME NEW t \in Tasks, CommandStep(t)
      PROVE  GateInv'
  BY <1>1, StagingKeeps, ReadKeeps, DirKeeps, FileKeeps, FailureKeeps,
     SupervisorKeeps, ReturnKeeps DEF CommandStep
<1>2. CASE UNCHANGED vars
  BY <1>2 DEF vars, disk, GateInv, FilesOK, TasksOK, WorkHoldsGate,
              GateIsExclusive, DeployKnown, PreviousKnown, CheckStillHolds,
              Expects
<1> QED
  BY <1>1, <1>2, CommandsBegin, EnvironmentKeeps DEF Next

\* The invariant holds of every reachable state.
LEMMA GateAlways == Spec => []GateInv
<1> QED
  BY GateInit, GateStep, PTL DEF Spec

-----------------------------------------------------------------------------
(* Theorems.                                                               *)

\* The files, the directories and the commands keep their types: no step of a
\* deploy runs without its gate, its upload or, in a rollback, its release.
THEOREM TypeCorrect == Spec => []TypeOK
<1>1. GateInv => TypeOK
  BY DEF GateInv, FilesOK, TasksOK, TypeOK
<1> QED
  BY <1>1, GateAlways, PTL

\* Two commands never hold the gate of one service (ServiceCommandGate),
\* although a deploy exchanges its gate for the manifest's midway.
THEOREM GateExcludes == Spec => []GateIsExclusive
<1>1. GateInv => GateIsExclusive
  BY DEF GateInv, TasksOK
<1> QED
  BY <1>1, GateAlways, PTL

\* A deploy starts to overwrite active_release only while it is what the client
\* expected (validate_deploy_preconditions is a compare-and-swap).
THEOREM DeployIsAtomic == Spec => DeployIsCompareAndSwap
<1>1. GateInv => \A t \in Tasks : task[t].pc = "truncate active"
                   => Expects(t, active_release[task[t].gate])
  BY DEF GateInv, TasksOK, CheckStillHolds, CheckedPC
<1>2. GateInv =>
        [\A t \in Tasks :
           /\ task[t].pc = "truncate active"
           /\ task'[t].pc = "write active"
           => Expects(t, active_release[task[t].gate])]_vars
  BY <1>1
<1> QED
  BY <1>2, GateAlways, PTL DEF DeployIsCompareAndSwap

-----------------------------------------------------------------------------
(* The files.                                                              *)

\* Labels between the two renames of a swap, after the new release is in place,
\* with the staging directory complete, and from the first change on.
SwapPC == {"swap", "unswap"}
PlacedPC == {"drop backup", "cleanup", "launch", "replace"} \cup WritePC
StagedPC == {"rebind", "read", "promote", "swap"}
LatePC == CheckedPC \cup WritePC \cup RollbackPC

-----------------------------------------------------------------------------
(* The inductive invariant.                                                *)

Present(s, r) == r \in Releases => release_dirs[s][r] # "absent"

\* A service that no deploy is changing.
Rest(s) ==
  /\ errors = 0 => running[s] \in {None, active_release[s]}
  /\ errors = 0 /\ crashes = 0 => /\ active_release[s] = desired[s].release
                                  /\ restart_policy[s] = desired[s].policy
  /\ SwapsUndone => Present(s, active_release[s])

\* What a deploy knows of the two files of its service, and of what they are to
\* be after a rollback ...
Files(t) ==
  LET s == task[t].gate IN
  /\ task[t].pc \in CheckedPC => /\ active_release[s] = task[t].previous
                                 /\ restart_policy[s] = task[t].previous_policy
  /\ task[t].pc \in {"write active", "rb write active"} => active_release[s] = Empty
  /\ task[t].pc \in {"truncate policy", "write policy"} =>
       active_release[s] = NewRelease(t)
  /\ task[t].pc \in RollbackPC \ {"rb write active"} =>
       active_release[s] = task[t].previous
  /\ task[t].pc \in LoadedPC \cup {"rb load"} =>
       restart_policy[s] = task[t].previous_policy
  /\ errors = 0 /\ crashes = 0 /\ task[t].pc \in CheckedPC \cup RollbackPC =>
       /\ desired[s].release = task[t].previous
       /\ desired[s].policy = task[t].previous_policy
\* ... of what runs ...
Runs(t) ==
  errors = 0 => running[task[t].gate] \in
    {None, IF task[t].pc \in WritePC THEN NewRelease(t) ELSE task[t].previous}
\* ... and of the directories.
Dirs(t) ==
  LET s == task[t].gate
      r == NewRelease(t)
  IN SwapsUndone =>
       /\ task[t].pc \in CheckedPC \cup RollbackPC =>
            \/ Present(s, task[t].previous)
            \/ task[t].pc \in SwapPC /\ task[t].previous = r
       /\ task[t].pc \in SwapPC => backups[s][r] # "absent"
       /\ task[t].pc \in PlacedPC => Present(s, r)
\* A swap is undone only after a failure that was counted.
Undoes(t) == NamesAgree /\ task[t].pc = "unswap" => errors > 0
Works(t) == Files(t) /\ Runs(t) /\ Dirs(t) /\ Undoes(t)

Busy(s) == \E t \in Tasks : task[t].gate = s /\ task[t].pc \in LatePC
AtRest == \A s \in Services : Busy(s) \/ Rest(s)
AtWork == \A t \in Tasks : task[t].pc \in LatePC => Works(t)

\* The boot restore runs before any command.
BootAlone == to_restore # {} => \A t \in Tasks : task[t].pc = "idle"

\* A release that may be loaded is not partly there ...
Intact(s, r) == r \in Releases => release_dirs[s][r] # "partial"
\* ... nor is what a deploy goes on to load, or would go back to.
Sound(t) ==
  LET s == task[t].gate
      r == NewRelease(t)
  IN /\ task[t].pc \in PlacedPC => release_dirs[s][r] = "whole"
     /\ task[t].pc \in LatePC => Intact(s, task[t].previous)
     /\ task[t].pc \in SwapPC /\ task[t].previous = r => backups[s][r] # "partial"

\* Where uploads and manifests agree on the name, the gate of the service guards
\* the staging directory too, so that only whole artifacts are promoted.
Whole ==
  NamesAgree =>
    /\ \A s \in Services : Intact(s, active_release[s])
    /\ \A t \in Tasks : Sound(t)
    /\ \A t \in Tasks : task[t].pc \notin NoDeployPC =>
         task[t].gate = NameOf[task[t].deploy]
    /\ \A t \in Tasks : task[t].pc \in StagedPC => staging[task[t].deploy] = "whole"

ReleaseInv == GateInv /\ AtRest /\ AtWork /\ BootAlone /\ Whole

-----------------------------------------------------------------------------
(* A step of one command.                                                  *)

\* A command moves, and only that one; it goes to another label; it ends.
Moves(t) == task' \in [Tasks -> Task] /\ \A u \in Tasks \ {t} : task'[u] = task[u]
Goes(t, pc) ==
  /\ Moves(t) /\ task'[t].pc = pc
  /\ task'[t].gate = task[t].gate /\ task'[t].deploy = task[t].deploy
  /\ task'[t].policy = task[t].policy
  /\ task'[t].previous = task[t].previous
  /\ task'[t].previous_policy = task[t].previous_policy
Ends(t) == Moves(t) /\ task'[t].pc = "done" /\ task'[t].gate = None

\* Goto.
LEMMA GoesFields ==
  ASSUME task \in [Tasks -> Task], NEW t \in Tasks, NEW pc \in PC, Goto(t, pc)
  PROVE  Goes(t, pc)
  BY DEF Goto, Task, Goes, Moves

\* A step of a removal, at the same label.
LEMMA StaysFields ==
  ASSUME task \in [Tasks -> Task], NEW t \in Tasks, UNCHANGED task
  PROVE  Goes(t, task[t].pc)
  BY DEF Goes, Moves

\* End.
LEMMA EndsFields ==
  ASSUME task \in [Tasks -> Task], NEW t \in Tasks, NEW result \in Result,
         End(t, result)
  PROVE  Ends(t)
  BY EndFields DEF Ends, Moves

\* The other services are as they were.
Same(e) ==
  /\ active_release'[e] = active_release[e] /\ restart_policy'[e] = restart_policy[e]
  /\ release_dirs'[e] = release_dirs[e] /\ backups'[e] = backups[e]
  /\ running'[e] = running[e] /\ desired'[e] = desired[e]
Frame(s) == \A e \in Services \ {s} : Same(e)

\* Failures are counted, and no crash comes.
Later == errors \in Nat /\ errors' \in Nat /\ errors <= errors' /\ crashes' = crashes

\* What the step of command t, under gate s, has to show: it comes to rest, or
\* knows what it needs at its next label ...
Shown(t, s) ==
  /\ task'[t].pc \in LatePC => task'[t].gate = s /\ Works(t)'
  /\ task'[t].pc \notin LatePC /\ s \in Services => Rest(s)'
\* ... and it keeps whole what may be loaded.
Staged(t) ==
  NamesAgree =>
    /\ task'[t].pc \notin LatePC =>
         \A e \in Services : e = task[t].gate => Intact(e, active_release[e])'
    /\ Sound(t)'
    /\ task'[t].pc \notin NoDeployPC => task'[t].gate = NameOf[task'[t].deploy]
    /\ task'[t].pc \in StagedPC => staging'[task'[t].deploy] = "whole"
    /\ \A d \in Deploys : \/ staging'[d] = staging[d]
                          \/ d = task[t].deploy /\ task[t].pc \notin NoDeployPC

\* Conditions on the counters only get weaker.
LEMMA LaterFacts ==
  ASSUME Later
  PROVE  /\ SwapsUndone' => SwapsUndone
         /\ errors' = 0 => errors = 0
         /\ crashes' = 0 <=> crashes = 0
         /\ errors > 0 => errors' > 0
  BY DEF Later, SwapsUndone, NamesAgree

\* A service that a step leaves alone stays at rest.
LEMMA RestKept ==
  ASSUME Later, NEW e, Same(e), Rest(e)
  PROVE  Rest(e)'
  BY LaterFacts DEF Rest, Same, Present

\* So does what another command knows of its service.
LEMMA WorksKept ==
  ASSUME Later, NEW u \in Tasks, task'[u] = task[u], Same(task[u].gate), Works(u)
  PROVE  Works(u)'
<1>1. Files(u)'
  BY LaterFacts DEF Works, Files, Same, NewRelease
<1>2. Runs(u)'
  BY LaterFacts DEF Works, Runs, Same, NewRelease
<1>3. Dirs(u)'
  BY LaterFacts DEF Works, Dirs, Same, NewRelease, Present
<1>4. Undoes(u)'
  BY LaterFacts DEF Works, Undoes, NamesAgree
<1> QED
  BY <1>1, <1>2, <1>3, <1>4 DEF Works

\* Labels from the first change on.
LEMMA LateLabels ==
  /\ PlacedPC \subseteq LatePC /\ SwapPC \subseteq LatePC
  /\ LatePC \cap NoDeployPC = {}
  BY DEF PlacedPC, SwapPC, LatePC, CheckedPC, WritePC, RollbackPC, NoDeployPC

\* From there on active_release names the previous release, the new one in its
\* place, or nothing.
LEMMA LateIntact ==
  ASSUME NEW t \in Tasks, NEW s, task'[t].gate = s, task'[t].pc \in LatePC,
         Works(t)', Sound(t)'
  PROVE  Intact(s, active_release[s])'
<1>1. CASE task'[t].pc \in CheckedPC \cup (RollbackPC \ {"rb write active"})
  BY <1>1 DEF Works, Files, Sound, Intact
<1>2. CASE task'[t].pc \in {"write active", "rb write active"}
  BY <1>2 DEF Works, Files, Intact
<1>3. CASE task'[t].pc \in {"truncate policy", "write policy"}
  BY <1>3 DEF Works, Files, Sound, Intact, PlacedPC, WritePC
<1> QED
  BY <1>1, <1>2, <1>3 DEF LatePC, WritePC, CheckedPC

\* A step that shows this keeps the invariant of the files.
LEMMA CommandMoves ==
  ASSUME ReleaseInv, NEW t \in Tasks, NEW s, s = task[t].gate, Moves(t), Frame(s),
         Later, Shown(t, s), Staged(t)
  PROVE  AtRest' /\ AtWork' /\ Whole'
<1>1. \A u \in Tasks \ {t} : task'[u] = task[u]
  BY DEF Moves
<1>0. ASSUME NEW u \in Tasks \ {t}, task[u].pc \in LatePC PROVE Same(task[u].gate)
  <2>1. task[u].gate \in Services
    BY <1>0 DEF ReleaseInv, GateInv, TasksOK, WorkHoldsGate, LatePC, CheckedPC,
                WritePC, RollbackPC
  <2>2. task[u].gate # s
    BY <1>0, <2>1 DEF ReleaseInv, GateInv, TasksOK, GateIsExclusive
  <2> QED
    BY <2>1, <2>2 DEF Frame
<1>2. ASSUME NEW u \in Tasks \ {t}, task[u].pc \in LatePC PROVE Works(u)'
  <2>1. Same(task[u].gate)
    BY <1>0, <1>2
  <2>2. Works(u)
    BY <1>2 DEF ReleaseInv, AtWork
  <2> QED
    BY <1>1, <2>1, <2>2, WorksKept
<1>3. AtWork'
  BY <1>1, <1>2 DEF AtWork, Shown
<1>4. ASSUME NEW e \in Services PROVE Busy(e)' \/ Rest(e)'
  <2>1. CASE e = s /\ task'[t].pc \in LatePC
    BY <2>1 DEF Shown, Busy
  <2>2. CASE e = s /\ task'[t].pc \notin LatePC
    BY <2>2 DEF Shown
  <2>3. CASE e # s /\ Busy(e)
    BY <1>1, <2>3 DEF Busy
  <2>4. CASE e # s /\ ~Busy(e)
    <3>1. Rest(e) /\ Same(e)
      BY <2>4 DEF ReleaseInv, AtRest, Frame
    <3> QED
      BY <3>1, RestKept
  <2> QED
    BY <2>1, <2>2, <2>3, <2>4
<1>5. AtRest'
  BY <1>4 DEF AtRest
<1>6. Whole'
  <2> SUFFICES ASSUME NamesAgree PROVE Whole'
    BY DEF Whole, NamesAgree
  <2>1. /\ \A u \in Tasks : task[u].pc \notin NoDeployPC =>
             task[u].gate = NameOf[task[u].deploy] /\ task[u].deploy \in Deploys
        /\ \A u \in Tasks : task[u].pc \in StagedPC => staging[task[u].deploy] = "whole"
        /\ \A e \in Services : Intact(e, active_release[e])
        /\ \A u \in Tasks : Sound(u)
    BY DEF ReleaseInv, Whole, GateInv, TasksOK, DeployKnown
  <2>2. ASSUME NEW u \in Tasks \ {t}, task[u].pc \in StagedPC
        PROVE  staging'[task[u].deploy] = "whole"
    <3>1. task[u].pc \notin NoDeployPC /\ task[u].pc \notin {"idle", "done"}
      BY <2>2 DEF StagedPC, NoDeployPC
    <3>2. task[u].gate # None /\ task[u].deploy \in Deploys
      BY <2>1, <3>1 DEF ReleaseInv, GateInv, TasksOK, WorkHoldsGate
    <3>3. task[u].deploy = task[t].deploy => task[t].pc \in NoDeployPC
      BY <2>1, <3>1, <3>2 DEF ReleaseInv, GateInv, TasksOK, GateIsExclusive
    <3>4. staging'[task[u].deploy] = staging[task[u].deploy]
      BY <3>2, <3>3 DEF Staged
    <3> QED
      BY <2>1, <2>2, <3>4
  <2>3. \A u \in Tasks : task'[u].pc \notin NoDeployPC =>
          task'[u].gate = NameOf[task'[u].deploy]
    BY <1>1, <2>1 DEF Staged
  <2>4. \A u \in Tasks : task'[u].pc \in StagedPC => staging'[task'[u].deploy] = "whole"
    BY <1>1, <2>2 DEF Staged
  <2>5. ASSUME NEW u \in Tasks PROVE Sound(u)'
    <3>1. CASE u = t
      BY <3>1 DEF Staged
    <3>2. CASE u # t /\ task[u].pc \notin LatePC
      BY <1>1, <3>2, LateLabels DEF Sound
    <3>3. CASE u # t /\ task[u].pc \in LatePC
      <4>1. Same(task[u].gate) /\ task'[u] = task[u] /\ Sound(u)
        BY <1>0, <1>1, <2>1, <3>3
      <4> QED
        BY <4>1 DEF Sound, Intact, Same, NewRelease
    <3> QED
      BY <3>1, <3>2, <3>3
  <2>6. ASSUME NEW e \in Services PROVE Intact(e, active_release[e])'
    <3>1. CASE e # s
      <4>1. Same(e) /\ Intact(e, active_release[e])
        BY <2>1, <3>1 DEF Frame
      <4> QED
        BY <4>1 DEF Same, Intact
    <3>2. CASE e = s /\ task'[t].pc \in LatePC
      BY <2>5, <3>2, LateIntact DEF Shown
    <3>3. CASE e = s /\ task'[t].pc \notin LatePC
      BY <3>3 DEF Staged
    <3> QED
      BY <3>1, <3>2, <3>3
  <2> QED
    BY <2>3, <2>4, <2>5, <2>6 DEF Whole
<1> QED
  BY <1>3, <1>5, <1>6

\* A command that has not begun to change its service finds it at rest.
LEMMA HolderRests ==
  ASSUME ReleaseInv, NEW t \in Tasks, task[t].gate \in Services, task[t].pc \notin LatePC
  PROVE  Rest(task[t].gate)
<1>1. ~Busy(task[t].gate)
  BY DEF Busy, ReleaseInv, GateInv, TasksOK, GateIsExclusive
<1> QED
  BY <1>1 DEF ReleaseInv, AtRest

\* Where neither the directories nor active_release change, a command that has
\* not come to its first change, or ends, keeps them whole.
LEMMA StillStaged ==
  ASSUME ReleaseInv, NEW t \in Tasks,
         UNCHANGED <<active_release, release_dirs, backups, staging>>,
         task'[t].pc \notin LatePC,
         \/ task'[t].pc \in NoDeployPC
         \/ /\ task[t].pc \notin NoDeployPC
            /\ task'[t].gate = task[t].gate /\ task'[t].deploy = task[t].deploy
            /\ task'[t].pc \in StagedPC => task[t].pc \in StagedPC
  PROVE  Staged(t)
<1>1. task'[t].pc \in NoDeployPC => task'[t].pc \notin StagedPC
  BY DEF NoDeployPC, StagedPC
<1>2. Sound(t)'
  BY LateLabels DEF Sound
<1> QED
  BY <1>1, <1>2 DEF Staged, Intact, ReleaseInv, Whole

\* What a command keeps whole once it has begun to change its service.
LEMMA LateStaged ==
  ASSUME ReleaseInv, NEW t \in Tasks, NEW s, NEW r, NEW pc \in LatePC, Goes(t, pc),
         s = task[t].gate, r = NewRelease(t), task[t].pc \notin NoDeployPC,
         pc \in StagedPC => task[t].pc \in StagedPC /\ UNCHANGED staging,
         \A d \in Deploys : staging'[d] = staging[d] \/ d = task[t].deploy,
         NamesAgree =>
           /\ pc \in PlacedPC => release_dirs'[s][r] = "whole"
           /\ task[t].previous \in Releases =>
                release_dirs'[s][task[t].previous] # "partial"
           /\ pc \in SwapPC /\ task[t].previous = r => backups'[s][r] # "partial"
  PROVE  Staged(t)
<1>1. /\ task'[t].pc = pc /\ task'[t].gate = s /\ task'[t].deploy = task[t].deploy
      /\ task'[t].previous = task[t].previous /\ NewRelease(t)' = r
  BY DEF Goes, NewRelease
<1>2. NamesAgree => Sound(t)'
  BY <1>1 DEF Sound, Intact
<1>3. NamesAgree => /\ task[t].gate = NameOf[task[t].deploy]
                    /\ task[t].pc \in StagedPC => staging[task[t].deploy] = "whole"
  BY DEF ReleaseInv, Whole
<1> QED
  BY <1>1, <1>2, <1>3 DEF Staged

\* What it knows to be whole.
LEMMA SoundFields ==
  ASSUME ReleaseInv, NamesAgree, NEW t \in Tasks, task[t].pc \in LatePC, NEW s, NEW r,
         s = task[t].gate, r = NewRelease(t)
  PROVE  /\ task[t].pc \in PlacedPC => release_dirs[s][r] = "whole"
         /\ task[t].previous \in Releases => release_dirs[s][task[t].previous] # "partial"
         /\ task[t].pc \in SwapPC /\ task[t].previous = r => backups[s][r] # "partial"
         /\ task[t].pc \in StagedPC => staging[task[t].deploy] = "whole"
  BY DEF ReleaseInv, Whole, Sound, Intact

\* What a step of a command, other than its first, leaves alone.
LEMMA CommandKeeps ==
  ASSUME ReleaseInv, GateInv', NEW t \in Tasks, NEW s, s = task[t].gate,
         task[t].pc # "idle", UNCHANGED to_restore, Moves(t), Frame(s), Later,
         Shown(t, s), Staged(t)
  PROVE  ReleaseInv'
<1>1. AtRest' /\ AtWork' /\ Whole'
  BY CommandMoves
<1>2. to_restore = {}
  BY DEF ReleaseInv, BootAlone
<1>3. BootAlone'
  BY <1>2 DEF BootAlone
<1> QED
  BY <1>1, <1>3 DEF ReleaseInv

\* The counters of a step without a failure.
LEMMA NothingFails ==
  ASSUME GateInv, UNCHANGED <<errors, crashes>>
  PROVE  Later
  BY DEF GateInv, FilesOK, Later

\* The files of all services stay as they are, but for what runs.
StillFiles == UNCHANGED <<active_release, restart_policy, release_dirs, backups, desired>>

-----------------------------------------------------------------------------
(* Commands begin and end.                                                 *)

\* run, stop and deploy begin.
LEMMA BeginsWell ==
  ASSUME ReleaseInv, GateInv', NEW t \in Tasks, NEW cmd \in Task, NEW s \in Services,
         cmd.pc \in {"run", "stop", "clean"}, cmd.gate = None,
         cmd.pc = "clean" => s = NameOf[cmd.deploy],
         Begin(t, cmd, s)
  PROVE  ReleaseInv'
<1>0. /\ to_restore = {} /\ task[t].pc = "idle" /\ StillFiles
      /\ UNCHANGED <<staging, running, to_restore, errors, crashes>>
      /\ task \in [Tasks -> Task] /\ task' \in [Tasks -> Task]
  BY DEF Begin, disk, StillFiles, ReleaseInv, GateInv, TasksOK
<1>1. task[t].gate = None
  BY <1>0 DEF ReleaseInv, GateInv, TasksOK, WorkHoldsGate
<1> DEFINE taken == [cmd EXCEPT !.gate = s]
           refused == [cmd EXCEPT !.pc = "done", !.result = "busy"]
<1>2. /\ taken.pc = cmd.pc /\ taken.gate = s /\ taken.deploy = cmd.deploy
      /\ refused.pc = "done"
  BY DEF Task
<1>3. PICK c \in {taken, refused} : task' = [task EXCEPT ![t] = c]
  BY DEF Begin
<1> HIDE DEF taken, refused
<1>4. Moves(t) /\ task'[t] = c
  BY <1>0, <1>3 DEF Moves
<1>5. task'[t].pc \notin LatePC \cup StagedPC
  BY <1>2, <1>4 DEF LatePC, StagedPC, CheckedPC, WritePC, RollbackPC
<1>6. task'[t].pc \notin NoDeployPC => task'[t].gate = NameOf[task'[t].deploy]
  BY <1>2, <1>4 DEF NoDeployPC
<1>7. Frame(None) /\ Later
  BY <1>0, NothingFails DEF Frame, Same, StillFiles, ReleaseInv
<1>8. Shown(t, None)
  BY <1>5 DEF Shown
<1>9. Staged(t)
  <2>1. Sound(t)'
    BY <1>5, LateLabels DEF Sound
  <2> QED
    BY <1>0, <1>1, <1>5, <1>6, <2>1 DEF Staged, StillFiles
<1>10. AtRest' /\ AtWork' /\ Whole'
  BY <1>1, <1>4, <1>7, <1>8, <1>9, CommandMoves
<1>11. BootAlone'
  BY <1>0 DEF BootAlone
<1> QED
  BY <1>10, <1>11 DEF ReleaseInv

\* The three commands.
LEMMA CommandsBeginWell ==
  ASSUME ReleaseInv, GateInv', NEW t \in Tasks,
         \/ \E s \in Services : Run(t, s) \/ Stop(t, s)
         \/ \E d \in Deploys, e \in Expected, p \in Policies, a \in BOOLEAN :
              Deploy(t, d, e, p, a)
  PROVE  ReleaseInv'
<1>1. NoTask \in Task
  BY Labels DEF NoTask, Task, Result
<1>2. ASSUME NEW s \in Services, NEW pc \in {"run", "stop"},
             Begin(t, [NoTask EXCEPT !.pc = pc], s)
      PROVE  ReleaseInv'
  <2> DEFINE cmd == [NoTask EXCEPT !.pc = pc]
  <2>1. pc \in PC
    BY <1>2, Labels
  <2>2. cmd \in Task
    BY <1>1, <2>1 DEF Task
  <2>3. cmd.pc = pc /\ cmd.gate = None
    BY DEF NoTask
  <2> HIDE DEF cmd
  <2>4. Begin(t, cmd, s)
    BY <1>2 DEF cmd
  <2> QED
    BY <1>2, <2>2, <2>3, <2>4, BeginsWell
<1>3. ASSUME NEW d \in Deploys, NEW e \in Expected, NEW p \in Policies,
             NEW a \in BOOLEAN, Deploy(t, d, e, p, a)
      PROVE  ReleaseInv'
  <2> DEFINE cmd == [NoTask EXCEPT !.pc = "clean", !.deploy = d, !.expected = e,
                       !.policy = p, !.auto_rollback = a]
  <2>1. "clean" \in PC
    BY Labels
  <2>2. cmd \in Task
    BY <1>1, <2>1 DEF Task
  <2>3. cmd.pc = "clean" /\ cmd.gate = None /\ cmd.deploy = d
    BY DEF NoTask
  <2>4. Begin(t, cmd, NameOf[d])
    BY <1>3 DEF Deploy
  <2> HIDE DEF cmd
  <2> QED
    BY <2>2, <2>3, <2>4, BeginsWell
<1> QED
  BY <1>2, <1>3 DEF Run, Stop

\* The caller of a command that has ended may begin another one.
LEMMA ReturnsWell ==
  ASSUME ReleaseInv, GateInv', NEW t \in Tasks, Return(t)
  PROVE  ReleaseInv'
<1>0. /\ task[t].pc = "done" /\ StillFiles
      /\ UNCHANGED <<staging, running, to_restore, errors, crashes>>
      /\ task \in [Tasks -> Task] /\ task' \in [Tasks -> Task]
      /\ task' = [task EXCEPT ![t] = NoTask]
  BY DEF Return, disk, StillFiles, ReleaseInv, GateInv, TasksOK
<1>1. task[t].gate = None
  BY <1>0 DEF ReleaseInv, GateInv, TasksOK, WorkHoldsGate
<1>2. Moves(t) /\ task'[t].pc = "idle"
  BY <1>0 DEF Moves, NoTask
<1>3. task'[t].pc \notin LatePC \cup StagedPC /\ task'[t].pc \in NoDeployPC
  BY <1>2 DEF LatePC, StagedPC, CheckedPC, WritePC, RollbackPC, NoDeployPC
<1>4. Frame(None) /\ Later
  BY <1>0, NothingFails DEF Frame, Same, StillFiles, ReleaseInv
<1>5. Shown(t, None)
  BY <1>3 DEF Shown
<1>6. Staged(t)
  BY <1>0, <1>3, StillStaged DEF StillFiles
<1> QED
  BY <1>0, <1>1, <1>2, <1>4, <1>5, <1>6, CommandKeeps

-----------------------------------------------------------------------------
(* The first half of a deploy: the service is not touched yet.             *)

\* A step between two such labels, and the end of a command there.
LEMMA EarlyShown ==
  ASSUME ReleaseInv, NEW t \in Tasks, NEW s \in Services, s = task[t].gate, Later,
         task[t].pc \notin LatePC, task'[t].pc \notin LatePC, Same(s)
  PROVE  Shown(t, s)
<1>1. Rest(s)
  BY HolderRests
<1> QED
  BY <1>1, RestKept DEF Shown

\* clean, extract, unpack and rebind.
LEMMA StagingWell ==
  ASSUME ReleaseInv, GateInv', NEW t \in Tasks,
         CleanStaging(t) \/ BeginExtract(t) \/ EndExtract(t) \/ Rebind(t)
  PROVE  ReleaseInv'
<1>0. /\ task[t].pc \in {"clean", "extract", "unpack", "rebind"} /\ StillFiles
      /\ UNCHANGED <<running, to_restore, errors, crashes>>
      /\ task \in [Tasks -> Task] /\ GateInv
  BY DEF CleanStaging, BeginExtract, EndExtract, Rebind, StagingStep, StillFiles,
         ReleaseInv, GateInv, TasksOK
<1>1. /\ task[t].pc \notin NoDeployPC \cup LatePC /\ task[t].pc # "idle"
      /\ task[t].deploy \in Deploys /\ task[t].gate \in Services
  <2>1. task[t].pc \notin NoDeployPC \cup LatePC /\ task[t].pc # "idle"
    BY <1>0 DEF NoDeployPC, LatePC, CheckedPC, WritePC, RollbackPC
  <2> QED
    BY <1>0, <2>1, DeployFields
<1>2. PICK s \in Services : s = task[t].gate
  BY <1>1
<1>3. Frame(s) /\ Same(s) /\ Later
  BY <1>0, NothingFails DEF Frame, Same, StillFiles
<1>4. ASSUME Moves(t), task'[t].pc \notin LatePC, Staged(t)
      PROVE  ReleaseInv'
  <2>1. Shown(t, s)
    BY <1>1, <1>2, <1>3, <1>4, EarlyShown
  <2> QED
    BY <1>0, <1>1, <1>2, <1>3, <1>4, <2>1, CommandKeeps
<1>5. ASSUME Ends(t), UNCHANGED staging
      PROVE  ReleaseInv'
  <2>1. Moves(t) /\ task'[t].pc \notin LatePC /\ task'[t].pc \in NoDeployPC
    BY <1>5 DEF Ends, LatePC, CheckedPC, WritePC, RollbackPC, NoDeployPC
  <2>2. Staged(t)
    BY <1>0, <1>5, <2>1, StillStaged DEF StillFiles
  <2> QED
    BY <1>4, <2>1, <2>2
<1>6. ASSUME NEW pc \in {"clean", "extract", "unpack", "rebind", "read"}, Goes(t, pc),
             \A d \in Deploys : staging'[d] = staging[d] \/ d = task[t].deploy,
             pc \in StagedPC => \/ staging'[task[t].deploy] = "whole"
                                \/ task[t].pc \in StagedPC /\ UNCHANGED staging
      PROVE  ReleaseInv'
  <2>1. Moves(t) /\ task'[t].pc \notin LatePC
    BY <1>6 DEF Goes, LatePC, CheckedPC, WritePC, RollbackPC
  <2>2. Staged(t)
    <3>1. Sound(t)'
      BY <2>1, LateLabels DEF Sound
    <3>2. NamesAgree => /\ Intact(s, active_release[s])
                        /\ task[t].gate = NameOf[task[t].deploy]
                        /\ task[t].pc \in StagedPC => staging[task[t].deploy] = "whole"
      BY <1>1 DEF ReleaseInv, Whole
    <3>3. Intact(s, active_release[s])' <=> Intact(s, active_release[s])
      BY <1>0 DEF StillFiles, Intact
    <3> QED
      BY <1>0, <1>1, <1>2, <1>6, <2>1, <3>1, <3>2, <3>3 DEF Staged, Goes
  <2> QED
    BY <1>4, <2>1, <2>2
<1>7. CASE CleanStaging(t)
  <2>1. Goes(t, "clean") \/ Goes(t, "extract")
    BY <1>0, <1>7, Labels, GoesFields, StaysFields DEF CleanStaging, StagingStep
  <2>2. \A d \in Deploys : staging'[d] = staging[d] \/ d = task[t].deploy
    BY <1>0, <1>1, <1>7 DEF CleanStaging, GateInv, FilesOK
  <2> QED
    BY <1>6, <2>1, <2>2 DEF StagedPC
<1>8. CASE BeginExtract(t)
  <2>1. Goes(t, "unpack")
    BY <1>0, <1>8, Labels, GoesFields DEF BeginExtract
  <2>2. \A d \in Deploys : staging'[d] = staging[d] \/ d = task[t].deploy
    BY <1>0, <1>1, <1>8 DEF BeginExtract, GateInv, FilesOK
  <2> QED
    BY <1>6, <2>1, <2>2 DEF StagedPC
<1>9. CASE EndExtract(t)
  <2>1. CASE End(t, "failed") /\ UNCHANGED staging
    BY <1>0, <1>5, <2>1, EndsFields DEF Result
  <2>2. CASE Goto(t, "rebind") /\ staging' = [staging EXCEPT ![task[t].deploy] = "whole"]
    <3>1. Goes(t, "rebind")
      BY <1>0, <2>2, Labels, GoesFields
    <3>2. /\ \A d \in Deploys : staging'[d] = staging[d] \/ d = task[t].deploy
          /\ staging'[task[t].deploy] = "whole"
      BY <1>0, <1>1, <2>2 DEF GateInv, FilesOK
    <3> QED
      BY <1>6, <3>1, <3>2
  <2> QED
    BY <1>9, <2>1, <2>2 DEF EndExtract
<1>10. CASE Rebind(t)
  <2> DEFINE m == ManifestName[task[t].deploy]
  <2>1. task[t].pc = "rebind" /\ UNCHANGED staging
    BY <1>10 DEF Rebind, StagingStep
  <2>2. CASE Goto(t, "read")
    <3>1. Goes(t, "read")
      BY <1>0, <2>2, Labels, GoesFields
    <3> QED
      BY <1>6, <2>1, <3>1 DEF StagedPC
  <2>3. CASE End(t, "busy")
    BY <1>0, <1>5, <2>1, <2>3, EndsFields DEF Result
  <2>4. CASE task' = [task EXCEPT ![t].pc = "read", ![t].gate = m]
    <3> DEFINE c == [task[t] EXCEPT !.pc = "read", !.gate = m]
    <3>1. task' = [task EXCEPT ![t] = c]
      BY <2>4
    <3>2. m \in Services /\ "read" \in PC
      BY <1>1, Labels
    <3>3. c \in Task /\ c.pc = "read" /\ c.gate = m /\ c.deploy = task[t].deploy
      BY <1>0, <3>2, ZenonT(30) DEF Task
    <3> HIDE DEF c
    <3>4. Moves(t) /\ task'[t] = c
      BY <1>0, <3>1, <3>3 DEF Moves
    <3>5. NamesAgree => m = NameOf[task[t].deploy] /\ staging[task[t].deploy] = "whole"
      BY <1>1, <2>1 DEF NamesAgree, ReleaseInv, Whole, StagedPC
    <3>7. task'[t].pc \notin LatePC
      BY <3>3, <3>4 DEF LatePC, CheckedPC, WritePC, RollbackPC
    <3>6. Staged(t)
      <4>1. Sound(t)'
        BY <3>7, LateLabels DEF Sound
      <4>2. NamesAgree => Intact(s, active_release[s])'
        BY <1>0 DEF StillFiles, Intact, ReleaseInv, Whole
      <4> QED
        BY <1>0, <1>2, <2>1, <3>3, <3>4, <3>5, <4>1, <4>2 DEF Staged
    <3> QED
      BY <1>4, <3>4, <3>6, <3>7
  <2> QED
    BY <1>10, <2>2, <2>3, <2>4 DEF Rebind
<1> QED
  BY <1>7, <1>8, <1>9, <1>10

\* The check of the precondition notes what a rollback goes back to.
LEMMA ReadWell ==
  ASSUME ReleaseInv, GateInv', NEW t \in Tasks, ReadCurrent(t)
  PROVE  ReleaseInv'
<1>0. /\ task[t].pc = "read" /\ StillFiles
      /\ UNCHANGED <<staging, running, to_restore, errors, crashes>>
      /\ task \in [Tasks -> Task] /\ task' \in [Tasks -> Task] /\ GateInv
  BY DEF ReadCurrent, StagingStep, StillFiles, ReleaseInv, GateInv, TasksOK
<1>1. /\ task[t].pc \notin NoDeployPC \cup LatePC /\ task[t].pc # "idle"
      /\ task[t].deploy \in Deploys /\ task[t].gate \in Services
  <2>1. task[t].pc \notin NoDeployPC \cup LatePC /\ task[t].pc # "idle"
    BY <1>0 DEF NoDeployPC, LatePC, CheckedPC, WritePC, RollbackPC
  <2> QED
    BY <1>0, <2>1, DeployFields
<1>2. PICK s \in Services : s = task[t].gate
  BY <1>1
<1>3. Frame(s) /\ Same(s) /\ Later
  BY <1>0, NothingFails DEF Frame, Same, StillFiles
<1>4. CASE End(t, "failed") \/ End(t, "precondition failed")
  <2>1. Ends(t)
    BY <1>0, <1>4, EndsFields DEF Result
  <2>2. Moves(t) /\ task'[t].pc \notin LatePC /\ task'[t].pc \in NoDeployPC
    BY <2>1 DEF Ends, LatePC, CheckedPC, WritePC, RollbackPC, NoDeployPC
  <2>3. Staged(t)
    BY <1>0, <2>2, StillStaged DEF StillFiles
  <2>4. Shown(t, s)
    BY <1>1, <1>2, <1>3, <2>2, EarlyShown
  <2> QED
    BY <1>0, <1>2, <1>3, <2>2, <2>3, <2>4, CommandKeeps
<1>5. CASE task' = [task EXCEPT ![t].pc = "promote",
                                ![t].previous = active_release[task[t].gate],
                                ![t].previous_policy = restart_policy[task[t].gate]]
  <2>1. /\ Moves(t) /\ task'[t].pc = "promote" /\ task'[t].gate = s
        /\ task'[t].deploy = task[t].deploy
        /\ task'[t].previous = active_release[s]
        /\ task'[t].previous_policy = restart_policy[s]
    BY <1>0, <1>2, <1>5 DEF Moves, Task
  <2>2. task'[t].pc \in LatePC /\ task'[t].pc \notin NoDeployPC
    BY <2>1 DEF LatePC, CheckedPC, NoDeployPC
  <2>3. Rest(s)
    BY <1>1, <1>2, HolderRests
  <2>4. Files(t)'
    BY <1>0, <2>1, <2>3 DEF Files, Rest, StillFiles, CheckedPC, RollbackPC, LoadedPC
  <2>5. Runs(t)'
    BY <1>0, <2>1, <2>3 DEF Runs, Rest, StillFiles, WritePC
  <2>6. Dirs(t)'
    BY <1>0, <1>3, <2>1, <2>3, LaterFacts
       DEF Dirs, Rest, StillFiles, Present, SwapPC, PlacedPC, WritePC
  <2>7. Shown(t, s)
    BY <2>1, <2>2, <2>4, <2>5, <2>6 DEF Shown, Works, Undoes
  <2>8. Staged(t)
    <3>1. NamesAgree => /\ Intact(s, active_release[s])
                        /\ s = NameOf[task[t].deploy] /\ staging[task[t].deploy] = "whole"
      BY <1>0, <1>1, <1>2 DEF ReleaseInv, Whole, StagedPC
    <3>2. NamesAgree => Sound(t)'
      BY <1>0, <2>1, <3>1 DEF Sound, Intact, StillFiles, PlacedPC, SwapPC, WritePC
    <3> QED
      BY <1>0, <2>1, <2>2, <3>1, <3>2 DEF Staged
  <2> QED
    BY <1>0, <1>2, <1>3, <2>1, <2>7, <2>8, CommandKeeps
<1> QED
  BY <1>4, <1>5 DEF ReadCurrent

-----------------------------------------------------------------------------
(* The directories.                                                        *)

\* One directory is written.
LEMMA DirFields ==
  ASSUME NEW f \in [Services -> [Releases -> Dir]], NEW s \in Services,
         NEW r \in Releases, NEW x, NEW g, g = [f EXCEPT ![s][r] = x]
  PROVE  /\ \A e \in Services \ {s} : g[e] = f[e]
         /\ \A q \in Releases \ {r} : g[s][q] = f[s][q]
         /\ g[s][r] = x
  OBVIOUS

\* What a deploy at work on the directories has and knows.
Working(t, s, r) ==
  /\ task[t].pc \in CheckedPC /\ task[t].pc \notin NoDeployPC /\ task[t].pc # "idle"
  /\ s = task[t].gate /\ s \in Services /\ task[t].deploy \in Deploys
  /\ r = NewRelease(t) /\ r \in Releases
  /\ Works(t)
  /\ task[t].pc \in LatePC
  /\ NamesAgree => s = NameOf[task[t].deploy]

\* Every deploy past the check has it.
LEMMA WorkingFields ==
  ASSUME ReleaseInv, NEW t \in Tasks, task[t].pc \in CheckedPC
  PROVE  \E s \in Services, r \in Releases : Working(t, s, r)
<1>1. task[t].pc \notin NoDeployPC /\ task[t].pc # "idle" /\ task[t].pc \in LatePC
  BY DEF CheckedPC, NoDeployPC, LatePC
<1>2. /\ task[t].gate \in Services /\ task[t].deploy \in Deploys
      /\ NewRelease(t) \in Releases
  BY <1>1, DeployFields DEF ReleaseInv
<1>3. Works(t) /\ (NamesAgree => task[t].gate = NameOf[task[t].deploy])
  BY <1>1 DEF ReleaseInv, AtWork, Whole
<1> QED
  BY <1>1, <1>2, <1>3 DEF Working

\* What a step on the directories leaves alone.
DirsOnly ==
  /\ UNCHANGED <<active_release, restart_policy, running, to_restore, desired>>
  /\ Later

\* A deploy that goes on knows what it knew of the files.
LEMMA DirGoes ==
  ASSUME ReleaseInv, GateInv', NEW t \in Tasks, NEW s, NEW r, Working(t, s, r),
         NEW pc \in CheckedPC \ {"truncate active"}, task[t].pc # "truncate active",
         Goes(t, pc), DirsOnly, Frame(s), Dirs(t)', Undoes(t)', Staged(t)
  PROVE  ReleaseInv'
<1>1. pc \in LatePC /\ task'[t].pc \in LatePC /\ task'[t].gate = s
  BY DEF LatePC, Goes, Working
<1>2. Files(t)'
  BY LaterFacts DEF Working, Works, Files, Goes, DirsOnly, CheckedPC, RollbackPC, LoadedPC
<1>3. Runs(t)'
  BY LaterFacts DEF Working, Works, Runs, Goes, DirsOnly, CheckedPC, WritePC
<1>4. Shown(t, s)
  BY <1>1, <1>2, <1>3 DEF Shown, Works
<1> QED
  BY <1>4, CommandKeeps DEF Working, DirsOnly, Goes

\* A deploy that ends leaves its service at rest if the active release is there.
LEMMA DirEnds ==
  ASSUME ReleaseInv, GateInv', NEW t \in Tasks, NEW s, NEW r, Working(t, s, r),
         task[t].pc # "truncate active", Ends(t), DirsOnly, Frame(s),
         SwapsUndone' => Present(s, active_release[s])',
         NamesAgree => Intact(s, active_release[s])', UNCHANGED staging
  PROVE  ReleaseInv'
<1>1. task'[t].pc \notin LatePC
  BY DEF Ends, LatePC, CheckedPC, WritePC, RollbackPC
<1>2. errors' = 0 => running'[s] \in {None, active_release'[s]}
  BY LaterFacts DEF Working, Works, Runs, Files, DirsOnly, CheckedPC, WritePC
<1>3. errors' = 0 /\ crashes' = 0 => /\ active_release'[s] = desired'[s].release
                                     /\ restart_policy'[s] = desired'[s].policy
  BY LaterFacts DEF Working, Works, Files, DirsOnly
<1>4. Shown(t, s)
  BY <1>1, <1>2, <1>3 DEF Shown, Rest, DirsOnly
<1>5. Staged(t)
  <2>1. Sound(t)'
    BY <1>1, LateLabels DEF Sound
  <2>2. task'[t].pc \in NoDeployPC /\ task'[t].pc \notin StagedPC
    BY DEF Ends, NoDeployPC, StagedPC
  <2> QED
    BY <2>1, <2>2 DEF Staged, Working
<1> QED
  BY <1>4, <1>5, CommandKeeps DEF Working, DirsOnly, Ends

\* fs::rename of the staging directory.
LEMMA RenameFields ==
  ASSUME ReleaseInv, NEW t \in Tasks, NEW s, NEW r, Working(t, s, r), RenameStaging(t)
  PROVE  /\ \A e \in Services \ {s} : release_dirs'[e] = release_dirs[e]
         /\ \A q \in Releases \ {r} : release_dirs'[s][q] = release_dirs[s][q]
         /\ release_dirs'[s][r] = staging[task[t].deploy]
         /\ release_dirs'[s][r] # "absent"
         /\ \A d \in Deploys : staging'[d] = staging[d] \/ d = task[t].deploy
<1>1. /\ release_dirs \in [Services -> [Releases -> Dir]] /\ staging \in [Deploys -> Dir]
      /\ s \in Services /\ r \in Releases /\ task[t].deploy \in Deploys
  BY DEF Working, ReleaseInv, GateInv, FilesOK
<1>2. /\ release_dirs' = [release_dirs EXCEPT ![s][r] = staging[task[t].deploy]]
      /\ staging' = [staging EXCEPT ![task[t].deploy] = "absent"]
      /\ staging[task[t].deploy] # "absent"
  BY DEF RenameStaging, Working
<1>3. /\ \A e \in Services \ {s} : release_dirs'[e] = release_dirs[e]
      /\ \A q \in Releases \ {r} : release_dirs'[s][q] = release_dirs[s][q]
      /\ release_dirs'[s][r] = staging[task[t].deploy]
  BY <1>1, <1>2, DirFields
<1> QED
  BY <1>1, <1>2, <1>3

\* It fails.
LEMMA RenameFailsFields ==
  ASSUME ReleaseInv, NEW t \in Tasks, NEW s, NEW r, Working(t, s, r),
         RenameFails(t), UNCHANGED crashes, task[t].pc \in StagedPC
  PROVE  Later /\ (NamesAgree => errors' > 0)
<1>1. errors \in Nat
  BY DEF ReleaseInv, GateInv, FilesOK
<1>2. NamesAgree => staging[task[t].deploy] = "whole"
  BY DEF ReleaseInv, Whole
<1> QED
  BY <1>1, <1>2 DEF RenameFails, Later

\* promote_staging_release, up to its first rename.
LEMMA PromoteWell ==
  ASSUME ReleaseInv, GateInv', NEW t \in Tasks, Promote(t)
  PROVE  ReleaseInv'
<1>0. /\ task[t].pc = "promote" /\ task \in [Tasks -> Task] /\ GateInv
      /\ UNCHANGED <<active_release, restart_policy, running, to_restore, desired, crashes>>
      /\ release_dirs \in [Services -> [Releases -> Dir]]
      /\ backups \in [Services -> [Releases -> Dir]]
  BY DEF Promote, DirStep, ReleaseInv, GateInv, TasksOK, FilesOK
<1>1. PICK s \in Services, r \in Releases : Working(t, s, r)
  BY <1>0, WorkingFields DEF CheckedPC
<1>2. s = task[t].gate /\ r = NewRelease(t) /\ task[t].pc \in StagedPC
  BY <1>0, <1>1 DEF Working, StagedPC
<1>p. SwapsUndone => Present(s, task[t].previous)
  BY <1>0, <1>1 DEF Working, Works, Dirs, CheckedPC, SwapPC
<1>s. NamesAgree =>
        /\ task[t].previous \in Releases => release_dirs[s][task[t].previous] # "partial"
        /\ staging[task[t].deploy] = "whole"
  BY <1>1, <1>2, SoundFields DEF Working
<1>3. CASE RenameStaging(t) /\ Goto(t, "cleanup") /\ UNCHANGED <<backups, errors>>
  <2>1. Goes(t, "cleanup") /\ DirsOnly
    BY <1>0, <1>3, Labels, GoesFields, NothingFails DEF DirsOnly
  <2>2. /\ \A e \in Services \ {s} : release_dirs'[e] = release_dirs[e]
        /\ \A q \in Releases \ {r} : release_dirs'[s][q] = release_dirs[s][q]
        /\ release_dirs'[s][r] = staging[task[t].deploy]
        /\ release_dirs'[s][r] # "absent"
        /\ \A d \in Deploys : staging'[d] = staging[d] \/ d = task[t].deploy
    BY <1>1, <1>3, RenameFields
  <2>3. Frame(s)
    BY <1>0, <1>3, <2>2 DEF Frame, Same
  <2>4. Dirs(t)'
    <3>1. SwapsUndone' => SwapsUndone
      BY <2>1, LaterFacts DEF DirsOnly
    <3>2. NewRelease(t)' = r /\ task'[t].gate = s /\ task'[t].previous = task[t].previous
      BY <1>2, <2>1 DEF Goes, NewRelease
    <3>3. SwapsUndone' => Present(s, task[t].previous)'
      BY <1>p, <2>2, <3>1, <3>2 DEF Present
    <3> QED
      BY <2>1, <2>2, <3>2, <3>3 DEF Dirs, Goes, Present, SwapPC
  <2>5. Staged(t)
    <3>1. "cleanup" \in LatePC \ (StagedPC \cup SwapPC)
      BY DEF LatePC, CheckedPC, StagedPC, SwapPC
    <3> QED
      BY <1>1, <1>2, <1>s, <2>1, <2>2, <3>1, LateStaged DEF Working
  <2>6. Undoes(t)'
    BY <2>1 DEF Undoes, Goes
  <2> QED
    BY <1>0, <1>1, <2>1, <2>3, <2>4, <2>5, <2>6, DirGoes DEF CheckedPC
<1>4. CASE /\ RenameFails(t) /\ End(t, "failed")
           /\ UNCHANGED <<release_dirs, backups, staging>>
  <2>1. Ends(t) /\ DirsOnly
    BY <1>0, <1>1, <1>2, <1>4, EndsFields, RenameFailsFields DEF DirsOnly, Result
  <2>2. Frame(s)
    BY <1>0, <1>4 DEF Frame, Same
  <2>3. SwapsUndone' => Present(s, active_release[s])'
    <3>1. SwapsUndone' => SwapsUndone
      BY <2>1, LaterFacts DEF DirsOnly
    <3>2. active_release'[s] = task[t].previous
      BY <1>0, <1>1 DEF Working, Works, Files
    <3> QED
      BY <1>4, <1>p, <3>1, <3>2 DEF Present
  <2>4. NamesAgree => Intact(s, active_release[s])'
    BY <1>0, <1>4 DEF Intact, ReleaseInv, Whole
  <2> QED
    BY <1>0, <1>1, <1>4, <2>1, <2>2, <2>3, <2>4, DirEnds
<1>5. CASE /\ release_dirs[s][r] # "absent"
           /\ release_dirs' = [release_dirs EXCEPT ![s][r] = "absent"]
           /\ backups' = [backups EXCEPT ![s][r] = release_dirs[s][r]]
           /\ Goto(t, "swap") /\ UNCHANGED <<staging, errors>>
  <2>1. Goes(t, "swap") /\ DirsOnly
    BY <1>0, <1>5, Labels, GoesFields, NothingFails DEF DirsOnly
  <2>2. /\ \A e \in Services \ {s} : release_dirs'[e] = release_dirs[e]
        /\ \A q \in Releases \ {r} : release_dirs'[s][q] = release_dirs[s][q]
        /\ release_dirs'[s][r] = "absent"
    BY <1>0, <1>5, DirFields
  <2>3. /\ \A e \in Services \ {s} : backups'[e] = backups[e]
        /\ \A q \in Releases \ {r} : backups'[s][q] = backups[s][q]
        /\ backups'[s][r] = release_dirs[s][r]
    BY <1>0, <1>5, DirFields
  <2>4. Frame(s)
    BY <1>0, <2>2, <2>3 DEF Frame, Same
  <2>5. Dirs(t)'
    <3>1. SwapsUndone' => SwapsUndone
      BY <2>1, LaterFacts DEF DirsOnly
    <3>2. NewRelease(t)' = r /\ task'[t].gate = s /\ task'[t].previous = task[t].previous
      BY <1>2, <2>1 DEF Goes, NewRelease
    <3>3. SwapsUndone' => Present(s, task[t].previous)' \/ task[t].previous = r
      BY <1>p, <2>2, <3>1, <3>2 DEF Present
    <3> QED
      BY <1>5, <2>1, <2>3, <3>2, <3>3 DEF Dirs, Goes, Present, SwapPC, PlacedPC, WritePC
  <2>6. Staged(t)
    <3>1. "swap" \in LatePC \ PlacedPC
      BY DEF LatePC, CheckedPC, PlacedPC, WritePC
    <3>2. \A d \in Deploys : staging'[d] = staging[d] \/ d = task[t].deploy
      BY <1>5
    <3>3. NamesAgree =>
            /\ task[t].previous \in Releases =>
                 release_dirs'[s][task[t].previous] # "partial"
            /\ task[t].previous = r => backups'[s][r] # "partial"
      BY <1>s, <2>2, <2>3
    <3> QED
      BY <1>1, <1>2, <1>5, <2>1, <3>1, <3>2, <3>3, LateStaged DEF Working
  <2>7. Undoes(t)'
    BY <2>1 DEF Undoes, Goes
  <2> QED
    BY <1>0, <1>1, <2>1, <2>4, <2>5, <2>6, <2>7, DirGoes DEF CheckedPC
<1> QED
  BY <1>2, <1>3, <1>4, <1>5 DEF Promote

\* Its second rename.
LEMMA SwapWell ==
  ASSUME ReleaseInv, GateInv', NEW t \in Tasks, Swap(t)
  PROVE  ReleaseInv'
<1>0. /\ task[t].pc = "swap" /\ task \in [Tasks -> Task] /\ GateInv
      /\ UNCHANGED <<active_release, restart_policy, running, to_restore, desired, crashes>>
      /\ UNCHANGED backups
  BY DEF Swap, DirStep, ReleaseInv, GateInv, TasksOK
<1>1. PICK s \in Services, r \in Releases : Working(t, s, r)
  BY <1>0, WorkingFields DEF CheckedPC
<1>2. s = task[t].gate /\ r = NewRelease(t) /\ task[t].pc \in StagedPC
  BY <1>0, <1>1 DEF Working, StagedPC
<1>3. SwapsUndone => /\ Present(s, task[t].previous) \/ task[t].previous = r
                     /\ backups[s][r] # "absent"
  BY <1>0, <1>1 DEF Working, Works, Dirs, CheckedPC, SwapPC
<1>s. NamesAgree =>
        /\ task[t].previous \in Releases => release_dirs[s][task[t].previous] # "partial"
        /\ task[t].previous = r => backups[s][r] # "partial"
        /\ staging[task[t].deploy] = "whole"
  BY <1>0, <1>1, <1>2, SoundFields DEF Working, SwapPC
<1>4. CASE RenameStaging(t) /\ Goto(t, "drop backup") /\ UNCHANGED errors
  <2>1. Goes(t, "drop backup") /\ DirsOnly
    BY <1>0, <1>4, Labels, GoesFields, NothingFails DEF DirsOnly
  <2>2. /\ \A e \in Services \ {s} : release_dirs'[e] = release_dirs[e]
        /\ \A q \in Releases \ {r} : release_dirs'[s][q] = release_dirs[s][q]
        /\ release_dirs'[s][r] = staging[task[t].deploy]
        /\ release_dirs'[s][r] # "absent"
        /\ \A d \in Deploys : staging'[d] = staging[d] \/ d = task[t].deploy
    BY <1>1, <1>4, RenameFields
  <2>3. Frame(s)
    BY <1>0, <2>2 DEF Frame, Same
  <2>4. Dirs(t)'
    <3>1. SwapsUndone' => SwapsUndone
      BY <2>1, LaterFacts DEF DirsOnly
    <3>2. NewRelease(t)' = r /\ task'[t].gate = s /\ task'[t].previous = task[t].previous
      BY <1>2, <2>1 DEF Goes, NewRelease
    <3>3. SwapsUndone' => Present(s, task[t].previous)'
      BY <1>3, <2>2, <3>1, <3>2 DEF Present
    <3> QED
      BY <2>1, <2>2, <3>2, <3>3 DEF Dirs, Goes, Present, SwapPC
  <2>5. Staged(t)
    <3>1. "drop backup" \in LatePC \ (StagedPC \cup SwapPC)
      BY DEF LatePC, CheckedPC, StagedPC, SwapPC
    <3>2. NamesAgree => /\ release_dirs'[s][r] = "whole"
                        /\ task[t].previous \in Releases =>
                             release_dirs'[s][task[t].previous] # "partial"
      BY <1>s, <2>2
    <3>3. task[t].pc \notin NoDeployPC
      BY <1>1 DEF Working
    <3> QED
      BY <1>2, <2>1, <2>2, <3>1, <3>2, <3>3, LateStaged
  <2>6. Undoes(t)'
    BY <2>1 DEF Undoes, Goes
  <2> QED
    BY <1>0, <1>1, <2>1, <2>3, <2>4, <2>5, <2>6, DirGoes DEF CheckedPC
<1>5. CASE RenameFails(t) /\ Goto(t, "unswap") /\ UNCHANGED <<release_dirs, staging>>
  <2>1. Goes(t, "unswap") /\ DirsOnly /\ (NamesAgree => errors' > 0)
    BY <1>0, <1>1, <1>2, <1>5, Labels, GoesFields, RenameFailsFields DEF DirsOnly
  <2>2. Frame(s)
    BY <1>0, <1>5 DEF Frame, Same
  <2>3. Dirs(t)'
    <3>1. SwapsUndone' => SwapsUndone
      BY <2>1, LaterFacts DEF DirsOnly
    <3>2. NewRelease(t)' = r /\ task'[t].gate = s /\ task'[t].previous = task[t].previous
      BY <1>2, <2>1 DEF Goes, NewRelease
    <3>3. SwapsUndone' => Present(s, task[t].previous)' \/ task[t].previous = r
      BY <1>3, <1>5, <3>1, <3>2 DEF Present
    <3> QED
      BY <1>0, <1>3, <2>1, <3>1, <3>2, <3>3 DEF Dirs, Goes, SwapPC, PlacedPC, WritePC
  <2>4. Staged(t)
    <3>1. "unswap" \in LatePC \ (StagedPC \cup PlacedPC)
      BY DEF LatePC, CheckedPC, StagedPC, PlacedPC, WritePC
    <3> QED
      BY <1>0, <1>1, <1>2, <1>5, <1>s, <2>1, <3>1, LateStaged DEF Working
  <2>5. Undoes(t)'
    BY <2>1 DEF Undoes, NamesAgree
  <2> QED
    BY <1>0, <1>1, <2>1, <2>2, <2>3, <2>4, <2>5, DirGoes DEF CheckedPC
<1> QED
  BY <1>4, <1>5 DEF Swap

\* The swap is undone: the active release is back in its place.
LEMMA UndoWell ==
  ASSUME ReleaseInv, GateInv', NEW t \in Tasks, UndoSwap(t)
  PROVE  ReleaseInv'
<1>0. /\ task[t].pc = "unswap" /\ task \in [Tasks -> Task] /\ GateInv
      /\ UNCHANGED <<active_release, restart_policy, running, to_restore, desired, crashes>>
      /\ UNCHANGED <<staging, errors>> /\ End(t, "failed")
      /\ release_dirs \in [Services -> [Releases -> Dir]]
      /\ backups \in [Services -> [Releases -> Dir]]
  BY DEF UndoSwap, DirStep, ReleaseInv, GateInv, TasksOK, FilesOK
<1>1. PICK s \in Services, r \in Releases : Working(t, s, r)
  BY <1>0, WorkingFields DEF CheckedPC
<1>2. s = task[t].gate /\ r = NewRelease(t)
  BY <1>1 DEF Working
<1>3. /\ release_dirs' = [release_dirs EXCEPT ![s][r] = backups[s][r]]
      /\ backups' = [backups EXCEPT ![s][r] = "absent"]
  BY <1>2 DEF UndoSwap, after_unswap
<1>4. /\ \A e \in Services \ {s} : release_dirs'[e] = release_dirs[e]
      /\ \A q \in Releases \ {r} : release_dirs'[s][q] = release_dirs[s][q]
      /\ release_dirs'[s][r] = backups[s][r]
  BY <1>0, <1>3, DirFields
<1>5. /\ \A e \in Services \ {s} : backups'[e] = backups[e]
      /\ \A q \in Releases \ {r} : backups'[s][q] = backups[s][q]
      /\ backups'[s][r] = "absent"
  BY <1>0, <1>3, DirFields
<1>6. Ends(t) /\ DirsOnly /\ Frame(s)
  BY <1>0, <1>4, <1>5, EndsFields, NothingFails DEF DirsOnly, Result, Frame, Same
<1>7. SwapsUndone' => Present(s, active_release[s])'
  <2>1. SwapsUndone' => SwapsUndone
    BY <1>6, LaterFacts DEF DirsOnly
  <2>2. active_release'[s] = task[t].previous
    BY <1>0, <1>1 DEF Working, Works, Files
  <2>3. SwapsUndone => /\ Present(s, task[t].previous) \/ task[t].previous = r
                       /\ backups[s][r] # "absent"
    BY <1>0, <1>1 DEF Working, Works, Dirs, CheckedPC, SwapPC
  <2> QED
    BY <1>4, <2>1, <2>2, <2>3 DEF Present
<1>8. NamesAgree => Intact(s, active_release[s])'
  <2>1. active_release'[s] = task[t].previous
    BY <1>0, <1>1 DEF Working, Works, Files
  <2>2. NamesAgree =>
          /\ task[t].previous \in Releases => release_dirs[s][task[t].previous] # "partial"
          /\ task[t].previous = r => backups[s][r] # "partial"
    BY <1>0, <1>1, <1>2, SoundFields DEF Working, SwapPC
  <2> QED
    BY <1>4, <2>1, <2>2 DEF Intact
<1> QED
  BY <1>0, <1>1, <1>6, <1>7, <1>8, DirEnds

\* A deploy with the new release in its place, and the previous one too.
LEMMA PlacedFields ==
  ASSUME NEW t, NEW s, NEW r, Working(t, s, r), task[t].pc \in PlacedPC
  PROVE  SwapsUndone => Present(s, task[t].previous) /\ Present(s, r)
  BY DEF Working, Works, Dirs, PlacedPC, WritePC, SwapPC

\* Dropping the backup, removing the old releases, building the launch.
LEMMA PlacedWell ==
  ASSUME ReleaseInv, GateInv', NEW t \in Tasks,
         DropBackup(t) \/ CleanupOld(t) \/ BuildLaunch(t)
  PROVE  ReleaseInv'
<1>0. /\ task[t].pc \in {"drop backup", "cleanup", "launch"}
      /\ task \in [Tasks -> Task] /\ GateInv
      /\ UNCHANGED <<active_release, restart_policy, running, to_restore, desired, crashes>>
      /\ UNCHANGED <<staging, errors>>
      /\ release_dirs \in [Services -> [Releases -> Dir]]
      /\ backups \in [Services -> [Releases -> Dir]]
  BY DEF DropBackup, CleanupOld, BuildLaunch, DirStep, ReleaseInv, GateInv, TasksOK, FilesOK
<1>1. PICK s \in Services, r \in Releases : Working(t, s, r)
  BY <1>0, WorkingFields DEF CheckedPC
<1>2. s = task[t].gate /\ r = NewRelease(t)
  BY <1>1 DEF Working
<1>3. DirsOnly /\ task[t].pc # "truncate active"
      /\ (SwapsUndone' => Present(s, task[t].previous) /\ Present(s, r))
  BY <1>0, <1>1, PlacedFields, NothingFails, LaterFacts DEF DirsOnly, PlacedPC
<1>s. NamesAgree =>
        /\ release_dirs[s][r] = "whole"
        /\ task[t].previous \in Releases => release_dirs[s][task[t].previous] # "partial"
  <2>1. task[t].pc \in PlacedPC /\ task[t].pc \in LatePC
    BY <1>0, <1>1 DEF Working, PlacedPC
  <2> QED
    BY <1>2, <2>1, SoundFields
<1>4. ASSUME NEW pc \in {"drop backup", "cleanup", "launch", "replace"}, Goes(t, pc),
             Frame(s),
             release_dirs'[s][r] = release_dirs[s][r],
             \A q \in Releases : q = task[t].previous =>
               release_dirs'[s][q] = release_dirs[s][q]
      PROVE  ReleaseInv'
  <2>1. /\ pc \in CheckedPC \ {"truncate active"} /\ pc \in LatePC
        /\ pc \notin StagedPC \cup NoDeployPC \cup SwapPC
    BY <1>4 DEF CheckedPC, StagedPC, NoDeployPC, SwapPC, LatePC
  <2>2. Goes(t, pc)
    BY <1>4
  <2>3. NewRelease(t)' = r /\ task'[t].gate = s /\ task'[t].previous = task[t].previous
    BY <1>2, <2>2 DEF Goes, NewRelease
  <2>4. SwapsUndone' => Present(s, task[t].previous)' /\ Present(s, r)'
    BY <1>3, <1>4, <2>3 DEF Present
  <2>5. Dirs(t)'
    BY <2>1, <2>2, <2>3, <2>4 DEF Dirs, Goes
  <2>6. Undoes(t)'
    BY <1>4, <2>2 DEF Undoes, Goes
  <2>7. Staged(t)
    <3>1. NamesAgree =>
            /\ release_dirs'[s][r] = "whole"
            /\ task[t].previous \in Releases =>
                 release_dirs'[s][task[t].previous] # "partial"
      BY <1>4, <1>s
    <3> QED
      BY <1>0, <1>1, <1>2, <2>1, <2>2, <3>1, LateStaged DEF Working
  <2> QED
    BY <1>1, <1>3, <1>4, <2>1, <2>2, <2>5, <2>6, <2>7, DirGoes
<1>5. ASSUME NEW pc \in {"drop backup", "cleanup"}, Goes(t, pc), NEW q \in Releases,
             backups' = [backups EXCEPT ![s][q] = Removing(@)], UNCHANGED release_dirs
      PROVE  ReleaseInv'
  <2>1. backups' = [backups EXCEPT ![s][q] = Removing(backups[s][q])]
    BY <1>5
  <2>2. \A e \in Services \ {s} : backups'[e] = backups[e]
    BY <1>0, <2>1, DirFields
  <2>3. Frame(s)
    BY <1>0, <1>5, <2>2 DEF Frame, Same
  <2> QED
    BY <1>4, <1>5, <2>3
<1>d. CASE DropBackup(t)
  <2>1. Goes(t, "drop backup") \/ Goes(t, "cleanup")
    BY <1>0, <1>d, Labels, GoesFields, StaysFields DEF DropBackup, DirStep
  <2>2. backups' = [backups EXCEPT ![s][r] = Removing(@)] /\ UNCHANGED release_dirs
    BY <1>2, <1>d DEF DropBackup
  <2> QED
    BY <1>5, <2>1, <2>2
<1>6. CASE CleanupOld(t)
  <2>1. task[t].pc = "cleanup"
    BY <1>6 DEF CleanupOld, DirStep
  <2>2. ASSUME NEW q \in Releases \ {r, task[t].previous}, UNCHANGED <<backups, task>>,
               release_dirs' = [release_dirs EXCEPT ![s][q] = Removing(@)]
        PROVE  ReleaseInv'
    <3>1. release_dirs' = [release_dirs EXCEPT ![s][q] = Removing(release_dirs[s][q])]
      BY <2>2
    <3>2. /\ \A e \in Services \ {s} : release_dirs'[e] = release_dirs[e]
          /\ \A x \in Releases \ {q} : release_dirs'[s][x] = release_dirs[s][x]
      BY <1>0, <3>1, DirFields
    <3>3. Frame(s)
      BY <1>0, <2>2, <3>2 DEF Frame, Same
    <3>4. Goes(t, "cleanup")
      BY <1>0, <2>1, <2>2, StaysFields
    <3> QED
      BY <1>4, <2>2, <3>2, <3>3, <3>4
  <2>3. ASSUME NEW q \in Releases, UNCHANGED <<release_dirs, task>>,
               backups' = [backups EXCEPT ![s][q] = Removing(@)]
        PROVE  ReleaseInv'
    <3>1. Goes(t, "cleanup")
      BY <1>0, <2>1, <2>3, StaysFields
    <3> QED
      BY <1>5, <2>3, <3>1
  <2>4. ASSUME Goto(t, "launch"), UNCHANGED <<release_dirs, backups>>
        PROVE  ReleaseInv'
    <3>1. Goes(t, "launch") /\ Frame(s)
      BY <1>0, <2>4, Labels, GoesFields DEF Frame, Same
    <3> QED
      BY <1>4, <2>4, <3>1
  <2>5. \/ \E q \in Releases \ {r, task[t].previous} :
             /\ release_dirs' = [release_dirs EXCEPT ![s][q] = Removing(@)]
             /\ UNCHANGED <<backups, task>>
        \/ \E q \in Releases : /\ backups' = [backups EXCEPT ![s][q] = Removing(@)]
                               /\ UNCHANGED <<release_dirs, task>>
        \/ Goto(t, "launch") /\ UNCHANGED <<release_dirs, backups>>
    BY <1>2, <1>6 DEF CleanupOld, kept_releases
  <2> QED
    BY <2>2, <2>3, <2>4, <2>5
<1>7. CASE BuildLaunch(t)
  <2>1. UNCHANGED <<release_dirs, backups>> /\ (Goto(t, "replace") \/ End(t, "failed"))
    BY <1>7 DEF BuildLaunch
  <2>2. Frame(s)
    BY <1>0, <2>1 DEF Frame, Same
  <2>3. CASE Goto(t, "replace")
    <3>1. Goes(t, "replace")
      BY <1>0, <2>3, Labels, GoesFields
    <3> QED
      BY <1>4, <2>1, <2>2, <3>1
  <2>4. CASE End(t, "failed")
    <3>1. Ends(t)
      BY <1>0, <2>4, EndsFields DEF Result
    <3>2. active_release'[s] = task[t].previous
      BY <1>0, <1>1 DEF Working, Works, Files
    <3>3. SwapsUndone' => Present(s, active_release[s])'
      BY <1>3, <2>1, <3>2 DEF Present
    <3>4. NamesAgree => Intact(s, active_release[s])'
      BY <1>0, <2>1 DEF Intact, ReleaseInv, Whole
    <3> QED
      BY <1>0, <1>1, <1>3, <2>2, <3>1, <3>3, <3>4, DirEnds
  <2> QED
    BY <2>1, <2>3, <2>4
<1> QED
  BY <1>d, <1>6, <1>7

-----------------------------------------------------------------------------
(* The two files, written by the deploy and by its rollback.               *)

\* What a deploy has and knows from its first change on.
Held(t, s, r) ==
  /\ task[t].pc \in LatePC /\ task[t].pc \notin NoDeployPC /\ task[t].pc # "idle"
  /\ s = task[t].gate /\ s \in Services /\ r = NewRelease(t) /\ r \in Releases
  /\ task[t].previous \in Releases \cup {None, Empty}
  /\ task[t].previous_policy \in Policies \cup {None}
  /\ Works(t)

\* Every such deploy has it.
LEMMA HeldFields ==
  ASSUME ReleaseInv, NEW t \in Tasks, task[t].pc \in LatePC
  PROVE  \E s \in Services, r \in Releases : Held(t, s, r)
<1>1. task[t].pc \notin NoDeployPC /\ task[t].pc # "idle"
  BY DEF LatePC, CheckedPC, WritePC, RollbackPC, NoDeployPC
<1>2. /\ task[t].gate \in Services /\ NewRelease(t) \in Releases
      /\ task[t].previous \in Releases \cup {None, Empty}
      /\ task[t].previous_policy \in Policies \cup {None}
  BY <1>1, DeployFields DEF ReleaseInv
<1>3. Works(t)
  BY DEF ReleaseInv, AtWork
<1> QED
  BY <1>1, <1>2, <1>3 DEF Held

\* What these steps leave alone.
DirsStill == UNCHANGED <<release_dirs, backups, staging, to_restore>> /\ Later

\* Labels that follow one another after the replacement.
Follows(old, new) ==
  \/ old \in WritePC /\ new \in WritePC \ {"truncate active"}
  \/ old \in RollbackPC /\ new \in RollbackPC
  \/ old = "replace" /\ new \in {"truncate active", "rb truncate active"}

\* A deploy goes on, the directories as they were.
LEMMA HeldGoes ==
  ASSUME ReleaseInv, GateInv', NEW t \in Tasks, NEW s, NEW r, Held(t, s, r), NEW pc,
         Goes(t, pc), Follows(task[t].pc, pc), DirsStill, Frame(s), Files(t)', Runs(t)'
  PROVE  ReleaseInv'
<1>1. /\ pc \in LatePC /\ pc \notin NoDeployPC \cup StagedPC \cup SwapPC
      /\ task[t].pc \notin SwapPC
      /\ pc \in CheckedPC \cup RollbackPC => task[t].pc \in CheckedPC \cup RollbackPC
      /\ pc \in PlacedPC => task[t].pc \in PlacedPC
  BY DEF Follows, LatePC, NoDeployPC, StagedPC, SwapPC, CheckedPC, RollbackPC,
         WritePC, PlacedPC
<1>2. /\ task'[t].pc = pc /\ task'[t].gate = s /\ task'[t].previous = task[t].previous
      /\ NewRelease(t)' = r /\ Moves(t) /\ task'[t].deploy = task[t].deploy
  BY DEF Goes, Held, NewRelease
<1>3. SwapsUndone' => SwapsUndone
  BY LaterFacts DEF DirsStill
<1>4. SwapsUndone => /\ pc \in CheckedPC \cup RollbackPC => Present(s, task[t].previous)
                     /\ pc \in PlacedPC => Present(s, r)
  BY <1>1 DEF Held, Works, Dirs
<1>5. Dirs(t)'
  BY <1>1, <1>2, <1>3, <1>4 DEF Dirs, Present, DirsStill
<1>6. Undoes(t)'
  BY <1>1, <1>2 DEF Undoes, SwapPC
<1>7. Shown(t, s)
  BY <1>1, <1>2, <1>5, <1>6 DEF Shown, Works
<1>8. Staged(t)
  <2>1. NamesAgree =>
          /\ task[t].pc \in PlacedPC => release_dirs[s][r] = "whole"
          /\ task[t].previous \in Releases => release_dirs[s][task[t].previous] # "partial"
    BY SoundFields DEF Held
  <2> QED
    BY <1>1, <2>1, LateStaged DEF DirsStill, Held
<1> QED
  BY <1>2, <1>7, <1>8, CommandKeeps DEF Held, DirsStill

\* A deploy ends and leaves its service at rest.
LEMMA HeldEnds ==
  ASSUME ReleaseInv, GateInv', NEW t \in Tasks, NEW s, NEW r, Held(t, s, r),
         Ends(t), DirsStill, UNCHANGED active_release, Frame(s), Rest(s)'
  PROVE  ReleaseInv'
<1>1. Moves(t) /\ task'[t].pc \notin LatePC /\ task'[t].pc \in NoDeployPC
  BY DEF Ends, LatePC, CheckedPC, WritePC, RollbackPC, NoDeployPC
<1>2. Shown(t, s)
  BY <1>1 DEF Shown
<1>3. Staged(t)
  BY <1>1, StillStaged DEF DirsStill
<1> QED
  BY <1>1, <1>2, <1>3, CommandKeeps DEF Held, DirsStill

\* One file is written.
LEMMA FileFields ==
  ASSUME NEW S, NEW f \in [Services -> S], NEW s \in Services, NEW x, NEW g,
         g = [f EXCEPT ![s] = x]
  PROVE  g[s] = x /\ \A e \in Services \ {s} : g[e] = f[e]
  OBVIOUS

\* active_release: emptied, then written.
LEMMA ActiveWell ==
  ASSUME ReleaseInv, GateInv', NEW t \in Tasks, TruncateActive(t) \/ WriteActive(t)
  PROVE  ReleaseInv'
<1>0. /\ task[t].pc \in {"truncate active", "write active", "rb truncate active",
                         "rb write active"}
      /\ UNCHANGED <<release_dirs, backups, staging, running, to_restore, crashes>>
      /\ UNCHANGED <<restart_policy, desired, errors>>
      /\ task \in [Tasks -> Task] /\ GateInv
      /\ active_release \in [Services -> Releases \cup {None, Empty}]
  BY DEF TruncateActive, WriteActive, FileStep, ReleaseInv, GateInv, TasksOK, FilesOK
<1>1. PICK s \in Services, r \in Releases : Held(t, s, r)
  <2>1. task[t].pc \in LatePC
    BY <1>0 DEF LatePC, WritePC, RollbackPC
  <2> QED
    BY <2>1, HeldFields
<1>2. s = task[t].gate /\ r = NewRelease(t) /\ Works(t)
  BY <1>1 DEF Held
<1>3. DirsStill
  BY <1>0, NothingFails DEF DirsStill
<1>4. ASSUME NEW pc \in PC, Goto(t, pc), NEW x, SetActive(t, x),
             \/ task[t].pc = "truncate active" /\ pc = "write active" /\ x = Empty
             \/ task[t].pc = "rb truncate active" /\ pc = "rb write active" /\ x = Empty
             \/ task[t].pc = "write active" /\ pc = "truncate policy" /\ x = r
             \/ /\ task[t].pc = "rb write active" /\ pc = "rb truncate policy"
                /\ x = task[t].previous
      PROVE  ReleaseInv'
  <2>1. Goes(t, pc)
    BY <1>0, <1>4, GoesFields
  <2>2. active_release' = [active_release EXCEPT ![s] = x]
    BY <1>2, <1>4 DEF SetActive
  <2>3. active_release'[s] = x /\ Frame(s)
    BY <1>0, <2>2, FileFields DEF Frame, Same
  <2>4. NewRelease(t)' = r /\ task'[t].gate = s
    BY <1>2, <2>1 DEF Goes, NewRelease
  <2>5. Files(t)'
    BY <1>0, <1>2, <1>4, <2>1, <2>3, <2>4
       DEF Works, Files, Goes, CheckedPC, RollbackPC, LoadedPC
  <2>6. Runs(t)'
    BY <1>0, <1>2, <1>4, <2>1, <2>4 DEF Works, Runs, Goes, WritePC
  <2>7. Follows(task[t].pc, pc)
    BY <1>4 DEF Follows, WritePC, RollbackPC
  <2> QED
    BY <1>1, <1>3, <2>1, <2>3, <2>5, <2>6, <2>7, HeldGoes
<1> QED
  BY <1>2, <1>4, Labels DEF TruncateActive, WriteActive, FileStep, rollback_target

\* restart_policy, and the end of a deploy that succeeds.
LEMMA PolicyWell ==
  ASSUME ReleaseInv, GateInv', NEW t \in Tasks, TruncatePolicy(t) \/ WritePolicy(t)
  PROVE  ReleaseInv'
<1>0. /\ task[t].pc \in {"truncate policy", "write policy", "rb truncate policy",
                         "rb write policy"}
      /\ UNCHANGED <<release_dirs, backups, staging, running, to_restore, crashes>>
      /\ UNCHANGED <<active_release, errors>>
      /\ task \in [Tasks -> Task] /\ GateInv
      /\ restart_policy \in [Services -> Policies \cup {None, Empty}]
      /\ desired \in [Services -> [release : Releases \cup {None},
                                   policy : Policies \cup {None}]]
  BY DEF TruncatePolicy, WritePolicy, FileStep, ReleaseInv, GateInv, TasksOK, FilesOK
<1>1. PICK s \in Services, r \in Releases : Held(t, s, r)
  <2>1. task[t].pc \in LatePC
    BY <1>0 DEF LatePC, WritePC, RollbackPC
  <2> QED
    BY <2>1, HeldFields
<1>2. s = task[t].gate /\ r = NewRelease(t) /\ Works(t)
  BY <1>1 DEF Held
<1>3. DirsStill
  BY <1>0, NothingFails DEF DirsStill
<1>4. ASSUME NEW pc \in PC, Goto(t, pc), NEW x, SetPolicy(t, x), UNCHANGED desired,
             \/ task[t].pc = "truncate policy" /\ pc = "write policy"
             \/ task[t].pc = "rb truncate policy" /\ pc = "rb write policy"
             \/ /\ task[t].pc \in {"rb truncate policy", "rb write policy"}
                /\ pc = "rb load" /\ x = task[t].previous_policy
      PROVE  ReleaseInv'
  <2>1. Goes(t, pc)
    BY <1>0, <1>4, GoesFields
  <2>2. restart_policy' = [restart_policy EXCEPT ![s] = x]
    BY <1>2, <1>4 DEF SetPolicy
  <2>3. restart_policy'[s] = x /\ Frame(s)
    BY <1>0, <1>4, <2>2, FileFields DEF Frame, Same
  <2>4. NewRelease(t)' = r /\ task'[t].gate = s
    BY <1>2, <2>1 DEF Goes, NewRelease
  <2>5. Files(t)'
    BY <1>0, <1>2, <1>4, <2>1, <2>3, <2>4
       DEF Works, Files, Goes, CheckedPC, RollbackPC, LoadedPC
  <2>6. Runs(t)'
    BY <1>0, <1>2, <1>4, <2>1, <2>4 DEF Works, Runs, Goes, WritePC
  <2>7. Follows(task[t].pc, pc)
    BY <1>4 DEF Follows, WritePC, RollbackPC
  <2> QED
    BY <1>1, <1>3, <2>1, <2>3, <2>5, <2>6, <2>7, HeldGoes
<1>5. ASSUME task[t].pc = "write policy", SetPolicy(t, task[t].policy), End(t, "ok"),
             desired' = [desired EXCEPT ![task[t].gate] =
                           [release |-> NewRelease(t), policy |-> task[t].policy]]
      PROVE  ReleaseInv'
  <2> DEFINE new == [release |-> r, policy |-> task[t].policy]
  <2>1. Ends(t)
    BY <1>0, <1>5, EndsFields DEF Result
  <2>2. /\ restart_policy' = [restart_policy EXCEPT ![s] = task[t].policy]
        /\ desired' = [desired EXCEPT ![s] = new]
    BY <1>2, <1>5 DEF SetPolicy
  <2>3. new.release = r /\ new.policy = task[t].policy
    OBVIOUS
  <2> HIDE DEF new
  <2>4. /\ restart_policy'[s] = task[t].policy
        /\ \A e \in Services \ {s} : restart_policy'[e] = restart_policy[e]
    BY <1>0, <2>2, FileFields
  <2>5. desired'[s] = new /\ \A e \in Services \ {s} : desired'[e] = desired[e]
    BY <1>0, <2>2, FileFields
  <2>6. Frame(s)
    BY <1>0, <2>4, <2>5 DEF Frame, Same
  <2>7. /\ active_release[s] = r /\ (errors = 0 => running[s] \in {None, r})
        /\ (SwapsUndone => Present(s, r))
    BY <1>2, <1>5 DEF Works, Files, Runs, Dirs, WritePC, PlacedPC
  <2>8. SwapsUndone' => SwapsUndone
    BY <1>3, LaterFacts DEF DirsStill
  <2>9. Rest(s)'
    BY <1>0, <2>3, <2>4, <2>5, <2>7, <2>8 DEF Rest, Present
  <2> QED
    BY <1>0, <1>1, <1>3, <2>1, <2>6, <2>9, HeldEnds
<1>6. CASE TruncatePolicy(t)
  <2>1. UNCHANGED desired
    BY <1>6 DEF TruncatePolicy
  <2>2. \/ /\ task[t].pc = "truncate policy"
           /\ SetPolicy(t, Empty) /\ Goto(t, "write policy")
        \/ /\ task[t].pc = "rb truncate policy" /\ task[t].previous_policy = None
           /\ SetPolicy(t, None) /\ Goto(t, "rb load")
        \/ /\ task[t].pc = "rb truncate policy"
           /\ SetPolicy(t, Empty) /\ Goto(t, "rb write policy")
    BY <1>6 DEF TruncatePolicy, FileStep
  <2>3. "write policy" \in PC /\ "rb load" \in PC /\ "rb write policy" \in PC
    BY Labels
  <2> QED
    BY <1>4, <2>1, <2>2, <2>3
<1>7. CASE WritePolicy(t)
  BY <1>4, <1>5, <1>7, Labels DEF WritePolicy, FileStep, restored_policy
<1> QED
  BY <1>6, <1>7

\* A file operation fails and ends its command: the active release is still on
\* disk, unless that operation was to put it back.
LEMMA FailureWell ==
  ASSUME ReleaseInv, GateInv', NEW t \in Tasks, OperationFails(t)
  PROVE  ReleaseInv'
<1>0. /\ UNCHANGED <<active_release, restart_policy, release_dirs, backups, staging>>
      /\ UNCHANGED <<running, to_restore, desired, crashes>>
      /\ task \in [Tasks -> Task]
  BY DEF OperationFails, disk, ReleaseInv, GateInv, TasksOK
<1>l. task[t].pc \in WritePC \cup {"clean", "extract", "read", "promote", "unswap",
        "drop backup", "cleanup", "run", "rb truncate active",
        "rb write active", "rb truncate policy", "rb write policy"}
  BY DEF OperationFails
<1>e. errors \in Nat
  BY DEF ReleaseInv, GateInv, FilesOK
<1>n. errors' = errors + 1 /\ crashes' = crashes
  BY DEF OperationFails
<1>1. Later /\ errors' # 0
  BY <1>e, <1>n DEF Later
<1>2. DirsStill /\ \A s : Frame(s) /\ Same(s)
  BY <1>0, <1>1 DEF DirsStill, Frame, Same
<1>3. Ends(t)
  BY <1>0, EndsFields DEF OperationFails, Result
<1>4. SwapsUndone' => SwapsUndone
  BY <1>1, LaterFacts
<1>5. CASE task[t].pc \in LatePC
  <2>1. PICK s \in Services, r \in Releases : Held(t, s, r)
    BY <1>5, HeldFields
  <2>2. s = task[t].gate /\ r = NewRelease(t) /\ Works(t)
    BY <2>1 DEF Held
  <2>3. SwapsUndone' => Present(s, active_release[s])
    <3>1. CASE task[t].pc = "unswap"
      <4>1. NamesAgree => errors > 0
        BY <2>2, <3>1 DEF Works, Undoes
      <4>2. SwapsUndone' => NamesAgree /\ errors' = 1
        BY <1>1 DEF SwapsUndone, NamesAgree
      <4> QED
        BY <1>e, <1>n, <4>1, <4>2
    <3>2. CASE task[t].pc \in {"promote", "drop backup", "cleanup", "truncate active"}
      BY <1>4, <2>2, <3>2 DEF Works, Files, Dirs, CheckedPC, SwapPC
    <3>3. CASE task[t].pc \in {"write active", "rb write active"}
      BY <2>2, <3>3 DEF Works, Files, Present
    <3>4. CASE task[t].pc \in {"truncate policy", "write policy"}
      BY <1>4, <2>2, <3>4 DEF Works, Files, Dirs, PlacedPC, WritePC
    <3>5. CASE task[t].pc \in {"rb truncate active", "rb truncate policy", "rb write policy"}
      BY <1>4, <2>2, <3>5 DEF Works, Files, Dirs, RollbackPC, SwapPC
    <3> QED
      BY <1>l, <1>5, <3>1, <3>2, <3>3, <3>4, <3>5
         DEF WritePC, LatePC, CheckedPC, RollbackPC
  <2>4. Rest(s)'
    BY <1>0, <1>1, <2>3 DEF Rest, Present
  <2> QED
    BY <1>0, <1>2, <1>3, <2>1, <2>4, HeldEnds
<1>6. CASE task[t].pc \notin LatePC
  <2>1. task[t].pc \notin {"idle", "done"}
    BY <1>l DEF WritePC
  <2>2. PICK s \in Services : s = task[t].gate
    BY <2>1 DEF ReleaseInv, GateInv, TasksOK, WorkHoldsGate
  <2>3. Moves(t) /\ task'[t].pc \notin LatePC /\ task'[t].pc \in NoDeployPC
    BY <1>3 DEF Ends, LatePC, CheckedPC, WritePC, RollbackPC, NoDeployPC
  <2>4. Shown(t, s)
    BY <1>1, <1>2, <1>6, <2>2, <2>3, EarlyShown
  <2>5. Staged(t)
    BY <1>0, <2>3, StillStaged
  <2> QED
    BY <1>0, <1>1, <1>2, <2>1, <2>2, <2>3, <2>4, <2>5, CommandKeeps
<1> QED
  BY <1>5, <1>6

-----------------------------------------------------------------------------
(* The supervisor.                                                         *)

\* What its calls leave running.
LEMMA OutcomeFields ==
  ASSUME NEW s, NEW r
  PROVE  /\ \A o \in StopOutcomes(s) : o.release \in {None, running[s]}
         /\ \A o \in StartOutcomes(s, r) : o.release \in {None, running[s], r}
         /\ \A o \in ReplaceOutcomes(s, r) : IF o.result = "ok" THEN o.release = r
                                             ELSE o.release \in {None, running[s]}
<1>1. \A x, y : Outcome(x, y).result = x /\ Outcome(x, y).release = y
  BY DEF Outcome
<1>2. ASSUME NEW o \in StopOutcomes(s) PROVE o.release \in {None, running[s]}
  <2>1. PICK x : o = Outcome(x, None) \/ o = Outcome(x, running[s])
    BY <1>2 DEF StopOutcomes
  <2> QED
    BY <1>1, <2>1
<1>3. ASSUME NEW o \in StartOutcomes(s, r) PROVE o.release \in {None, running[s], r}
  <2>1. \/ o = Outcome("busy", running[s]) \/ o = Outcome("ok", r)
        \/ o = Outcome("failed", None)
    BY <1>3 DEF StartOutcomes
  <2> QED
    BY <1>1, <2>1
<1>4. ASSUME NEW o \in ReplaceOutcomes(s, r)
      PROVE  IF o.result = "ok" THEN o.release = r ELSE o.release \in {None, running[s]}
  <2>1. \/ o = Outcome("ok", r) \/ o = Outcome("failed", None)
        \/ o \in StopOutcomes(s) /\ o.result = "failed"
    BY <1>4 DEF ReplaceOutcomes
  <2>2. o.result = "ok" => o.release = r
    BY <1>1, <2>1
  <2>3. o.result # "ok" => o.release \in {None, running[s]}
    BY <1>1, <1>2, <2>1
  <2> QED
    BY <2>2, <2>3
<1> QED
  BY <1>2, <1>3, <1>4

\* Leaves.
LEMMA LeavesFields ==
  ASSUME GateInv, NEW s \in Services, NEW o, Leaves(s, o)
  PROVE  running'[s] = o.release /\ \A e \in Services \ {s} : running'[e] = running[e]
  BY DEF Leaves, GateInv, FilesOK

\* What a supervisor call of a command leaves alone.
Calls(t, s) ==
  /\ StillFiles /\ UNCHANGED <<staging, to_restore, errors, crashes>>
  /\ s = task[t].gate /\ s \in Services
  /\ Frame(s)

\* A supervisor step of a command is such a call.
LEMMA CallFields ==
  ASSUME ReleaseInv, NEW t \in Tasks, NEW s, s = task[t].gate,
         task[t].pc \notin {"idle", "done"},
         UNCHANGED <<disk, to_restore, desired, errors, crashes>>,
         UNCHANGED running \/ \E o : Leaves(s, o)
  PROVE  Calls(t, s)
<1>1. s \in Services /\ GateInv
  BY DEF ReleaseInv, GateInv, TasksOK, WorkHoldsGate
<1>2. StillFiles /\ UNCHANGED <<staging, to_restore, errors, crashes>>
  BY DEF StillFiles, disk
<1>3. \A e \in Services \ {s} : running'[e] = running[e]
  BY <1>1, LeavesFields
<1> QED
  BY <1>1, <1>2, <1>3 DEF Calls, Frame, Same, StillFiles

\* stop and run, which touch nothing else.
LEMMA StopRunWell ==
  ASSUME ReleaseInv, GateInv', NEW t \in Tasks, StopService(t) \/ RunService(t)
  PROVE  ReleaseInv'
<1>0. /\ task[t].pc \in {"stop", "run"} /\ task \in [Tasks -> Task] /\ GateInv
      /\ UNCHANGED <<disk, to_restore, desired, errors, crashes>>
  BY DEF StopService, RunService, SupervisorStep, ReleaseInv, GateInv, TasksOK
<1>1. task[t].pc \notin LatePC /\ task[t].pc \notin {"idle", "done"}
  BY <1>0 DEF LatePC, CheckedPC, WritePC, RollbackPC
<1>2. PICK s \in Services : s = task[t].gate
  BY <1>1 DEF ReleaseInv, GateInv, TasksOK, WorkHoldsGate
<1>3. Rest(s)
  BY <1>1, <1>2, HolderRests
<1>4. /\ \E result \in Result : End(t, result)
      /\ \/ UNCHANGED running
         \/ \E o : Leaves(s, o) /\ o.release \in {None, running[s], active_release[s]}
  <2>1. CASE StopService(t)
    <3>1. PICK o \in StopOutcomes(s) : Leaves(s, o) /\ End(t, o.result)
      BY <1>2, <2>1 DEF StopService
    <3>2. IsOutcome(o)
      BY <1>0, StopOutcomeTypes DEF GateInv
    <3> QED
      BY <3>1, <3>2, OutcomeFields DEF IsOutcome
  <2>2. CASE RunService(t)
    <3>1. CASE UNCHANGED running /\ (End(t, "not found") \/ End(t, "failed"))
      BY <3>1 DEF Result
    <3>2. CASE /\ Loadable(s, active_release[s])
               /\ \E o \in StartOutcomes(s, active_release[s]) :
                    Leaves(s, o) /\ End(t, o.result)
      <4>1. PICK o \in StartOutcomes(s, active_release[s]) : Leaves(s, o) /\ End(t, o.result)
        BY <3>2
      <4>2. active_release[s] \in Releases
        BY <3>2 DEF Loadable
      <4>3. IsOutcome(o)
        BY <1>0, <4>2, StartOutcomeTypes DEF GateInv
      <4> QED
        BY <4>1, <4>3, OutcomeFields DEF IsOutcome
    <3> QED
      BY <1>2, <2>2, <3>1, <3>2 DEF RunService
  <2> QED
    BY <2>1, <2>2
<1>5. Ends(t)
  BY <1>0, <1>4, EndsFields
<1>6. Calls(t, s)
  BY <1>0, <1>1, <1>2, <1>4, CallFields
<1>7. running'[s] \in {None, running[s], active_release[s]}
  BY <1>0, <1>4, LeavesFields
<1>8. Rest(s)'
  BY <1>3, <1>6, <1>7 DEF Rest, Calls, StillFiles, Present, SwapsUndone, NamesAgree
<1>9. Moves(t) /\ task'[t].pc \notin LatePC /\ task'[t].pc \in NoDeployPC
  BY <1>5 DEF Ends, LatePC, CheckedPC, WritePC, RollbackPC, NoDeployPC
<1>10. Shown(t, s)
  BY <1>8, <1>9 DEF Shown
<1>11. Staged(t)
  BY <1>6, <1>9, StillStaged DEF Calls, StillFiles
<1>12. Later
  BY <1>0, NothingFails
<1> QED
  BY <1>0, <1>1, <1>2, <1>6, <1>9, <1>10, <1>11, <1>12, CommandKeeps DEF Calls

\* A deploy before its first write, and its rollback after the last.
CallPC == {"replace", "rb load"} \cup LoadedPC

\* It ends with the previous release running, or nothing.
LEMMA CallEnds ==
  ASSUME ReleaseInv, GateInv', NEW t \in Tasks, NEW s, NEW r, Held(t, s, r),
         task[t].pc \in CallPC, Calls(t, s), Ends(t),
         running'[s] \in {None, running[s], task[t].previous}
  PROVE  ReleaseInv'
<1>1. Works(t) /\ s = task[t].gate
  BY DEF Held
<1>2. task[t].pc \notin WritePC \cup SwapPC /\ task[t].pc \in CheckedPC \cup RollbackPC
  BY DEF CallPC, LoadedPC, WritePC, SwapPC, CheckedPC, RollbackPC
<1>3. active_release[s] = task[t].previous /\ restart_policy[s] = task[t].previous_policy
  BY <1>1 DEF Works, Files, CallPC, LoadedPC, CheckedPC, RollbackPC
<1>4. errors = 0 /\ crashes = 0 => /\ desired[s].release = task[t].previous
                                   /\ desired[s].policy = task[t].previous_policy
  BY <1>1, <1>2 DEF Works, Files
<1>5. errors = 0 => running[s] \in {None, task[t].previous}
  BY <1>1, <1>2 DEF Works, Runs
<1>6. SwapsUndone => Present(s, task[t].previous)
  BY <1>1, <1>2 DEF Works, Dirs
<1>7. Rest(s)'
  BY <1>3, <1>4, <1>5, <1>6
     DEF Rest, Calls, StillFiles, Present, SwapsUndone, NamesAgree
<1>8. DirsStill
  BY NothingFails DEF DirsStill, Calls, StillFiles, ReleaseInv
<1> QED
  BY <1>7, <1>8, HeldEnds DEF Calls, StillFiles

\* It goes on.
LEMMA CallGoes ==
  ASSUME ReleaseInv, GateInv', NEW t \in Tasks, NEW s, NEW r, Held(t, s, r),
         task[t].pc \in CallPC, Calls(t, s), NEW pc, Goes(t, pc),
         \/ task[t].pc = "replace" /\ pc = "truncate active" /\ running'[s] = r
         \/ /\ task[t].pc = "replace" /\ pc = "rb truncate active"
            /\ running'[s] \in {None, running[s]}
         \/ /\ task[t].pc \in {"rb load"} \cup LoadedPC /\ pc \in LoadedPC
            /\ running'[s] \in {None, running[s], task[t].previous}
  PROVE  ReleaseInv'
<1>1. Works(t) /\ s = task[t].gate /\ r = NewRelease(t)
  BY DEF Held
<1>2. /\ task'[t].pc = pc /\ task'[t].gate = s /\ task'[t].previous = task[t].previous
      /\ task'[t].previous_policy = task[t].previous_policy /\ NewRelease(t)' = r
  BY <1>1 DEF Goes, NewRelease
<1>3. Follows(task[t].pc, pc)
  BY DEF Follows, RollbackPC, LoadedPC
<1>4. DirsStill
  BY NothingFails DEF DirsStill, Calls, StillFiles, ReleaseInv
<1>5. Files(t)'
  BY <1>1, <1>2 DEF Works, Files, Calls, StillFiles, CheckedPC, RollbackPC, LoadedPC
<1>6. errors = 0 => running[s] \in {None, task[t].previous}
  BY <1>1 DEF Works, Runs, CallPC, LoadedPC, WritePC
<1>7. Runs(t)'
  BY <1>2, <1>6 DEF Runs, Calls, LoadedPC, WritePC
<1> QED
  BY <1>3, <1>4, <1>5, <1>7, HeldGoes DEF Calls

\* The replacement, and the start of the previous release in a rollback.
LEMMA ReplaceWell ==
  ASSUME ReleaseInv, GateInv', NEW t \in Tasks,
         Replace(t) \/ LoadPrevious(t) \/ StartPrevious(t) \/ ForceStopCurrent(t)
  PROVE  ReleaseInv'
<1>0. /\ task[t].pc \in CallPC /\ task \in [Tasks -> Task] /\ GateInv
      /\ UNCHANGED <<disk, to_restore, desired, errors, crashes>>
  BY DEF Replace, LoadPrevious, StartPrevious, ForceStopCurrent, SupervisorStep,
         CallPC, LoadedPC, ReleaseInv, GateInv, TasksOK
<1>1. task[t].pc \in LatePC /\ task[t].pc \notin {"idle", "done"}
  BY <1>0 DEF CallPC, LoadedPC, LatePC, CheckedPC, RollbackPC
<1>2. PICK s \in Services, r \in Releases : Held(t, s, r)
  BY <1>1, HeldFields
<1>3. s = task[t].gate /\ r = NewRelease(t)
  BY <1>2 DEF Held
<1>4. ASSUME UNCHANGED running \/ \E o : Leaves(s, o)
      PROVE  Calls(t, s)
  BY <1>0, <1>1, <1>3, <1>4, CallFields
<1>5. ASSUME NEW result \in {"failed", "rolled back", "rollback failed"}, End(t, result)
      PROVE  Ends(t)
  BY <1>0, <1>5, EndsFields DEF Result
<1>6. ASSUME NEW pc \in LoadedPC \cup {"truncate active", "rb truncate active"}, Goto(t, pc)
      PROVE  Goes(t, pc)
  BY <1>0, <1>6, Labels, GoesFields DEF LoadedPC
<1>7. CASE Replace(t)
  <2>1. PICK o \in ReplaceOutcomes(s, r) :
          /\ Leaves(s, o)
          /\ \/ o.result = "ok" /\ Goto(t, "truncate active")
             \/ o.result # "ok" /\ (Goto(t, "rb truncate active") \/ End(t, "failed"))
    BY <1>3, <1>7 DEF Replace, after_failed_start
  <2>2. running'[s] = o.release /\ Calls(t, s) /\ task[t].pc = "replace"
    BY <1>0, <1>4, <1>7, <2>1, LeavesFields DEF Replace, SupervisorStep
  <2>3. IF o.result = "ok" THEN o.release = r ELSE o.release \in {None, running[s]}
    BY OutcomeFields
  <2>4. CASE o.result = "ok" /\ Goto(t, "truncate active")
    <3>1. Goes(t, "truncate active")
      BY <1>6, <2>4
    <3> QED
      BY <1>0, <1>2, <2>2, <2>3, <2>4, <3>1, CallGoes
  <2>5. CASE o.result # "ok" /\ Goto(t, "rb truncate active")
    <3>1. Goes(t, "rb truncate active")
      BY <1>6, <2>5
    <3> QED
      BY <1>0, <1>2, <2>2, <2>3, <2>5, <3>1, CallGoes
  <2>6. CASE o.result # "ok" /\ End(t, "failed")
    <3>1. Ends(t)
      BY <1>5, <2>6
    <3> QED
      BY <1>0, <1>2, <2>2, <2>3, <2>6, <3>1, CallEnds
  <2> QED
    BY <2>1, <2>4, <2>5, <2>6
<1>8. ASSUME task[t].pc \in {"rb load"} \cup LoadedPC, Calls(t, s),
             running'[s] \in {None, running[s], task[t].previous},
             \/ \E pc \in LoadedPC : Goto(t, pc)
             \/ End(t, "rolled back") \/ End(t, "rollback failed")
      PROVE  ReleaseInv'
  <2>1. CASE \E pc \in LoadedPC : Goto(t, pc)
    <3>1. PICK pc \in LoadedPC : Goes(t, pc)
      BY <1>6, <2>1
    <3> QED
      BY <1>0, <1>2, <1>8, <3>1, CallGoes
  <2>2. CASE End(t, "rolled back") \/ End(t, "rollback failed")
    <3>1. Ends(t)
      BY <1>5, <2>2
    <3> QED
      BY <1>0, <1>2, <1>8, <3>1, CallEnds
  <2> QED
    BY <1>8, <2>1, <2>2
<1>9. CASE LoadPrevious(t)
  <2>1. /\ task[t].pc = "rb load" /\ UNCHANGED running
        /\ Goto(t, "rb start") \/ End(t, "rollback failed")
    BY <1>9 DEF LoadPrevious, SupervisorStep
  <2> QED
    BY <1>4, <1>8, <2>1 DEF LoadedPC
<1>10. CASE StartPrevious(t)
  <2>1. PICK o \in StartOutcomes(s, task[t].previous) :
          /\ Leaves(s, o)
          /\ Goto(t, "rb stop") \/ End(t, "rolled back") \/ End(t, "rollback failed")
    BY <1>3, <1>10 DEF StartPrevious
  <2>2. running'[s] = o.release /\ Calls(t, s) /\ task[t].pc \in LoadedPC
    BY <1>0, <1>4, <1>10, <2>1, LeavesFields DEF StartPrevious, SupervisorStep, LoadedPC
  <2>3. o.release \in {None, running[s], task[t].previous}
    BY OutcomeFields
  <2> QED
    BY <1>8, <2>1, <2>2, <2>3 DEF LoadedPC
<1>11. CASE ForceStopCurrent(t)
  <2>1. PICK o \in StopOutcomes(s) :
          Leaves(s, o) /\ (Goto(t, "rb start again") \/ End(t, "rollback failed"))
    BY <1>3, <1>11 DEF ForceStopCurrent
  <2>2. running'[s] = o.release /\ Calls(t, s) /\ task[t].pc \in LoadedPC
    BY <1>0, <1>4, <1>11, <2>1, LeavesFields DEF ForceStopCurrent, SupervisorStep, LoadedPC
  <2>3. o.release \in {None, running[s]}
    BY OutcomeFields
  <2> QED
    BY <1>8, <2>1, <2>2, <2>3 DEF LoadedPC
<1> QED
  BY <1>7, <1>9, <1>10, <1>11

-----------------------------------------------------------------------------
(* Exits, crashes and the restore at boot.                                 *)

\* Steps that touch neither the files nor the commands.
LEMMA WholeStands ==
  ASSUME Whole, UNCHANGED <<active_release, release_dirs, backups, staging, task>>
  PROVE  Whole'
<1>1. \A t \in Tasks : Sound(t) <=> Sound(t)'
  BY DEF Sound, Intact, NewRelease
<1>2. \A s \in Services : Intact(s, active_release[s]) <=> Intact(s, active_release[s])'
  BY DEF Intact
<1> QED
  BY <1>1, <1>2 DEF Whole, NamesAgree

\* A service exits: nothing running is right at every label.
LEMMA ExitWell ==
  ASSUME ReleaseInv, GateInv', NEW s \in Services, RunnerExit(s)
  PROVE  ReleaseInv'
<1>0. /\ StillFiles /\ UNCHANGED <<staging, task, to_restore, errors, crashes>>
      /\ \A e \in Services : running'[e] \in {None, running[e]}
      /\ Later
  BY NothingFails DEF RunnerExit, StillFiles, disk, ReleaseInv, GateInv, FilesOK
<1>1. ASSUME NEW e \in Services, Rest(e) PROVE Rest(e)'
  BY <1>0, <1>1 DEF Rest, StillFiles, Present, SwapsUndone, NamesAgree
<1>2. ASSUME NEW t \in Tasks, task[t].pc \in LatePC PROVE Works(t)'
  <2>1. Works(t)
    BY <1>2 DEF ReleaseInv, AtWork
  <2>2. task[t].gate \in Services
    BY <1>2, HeldFields DEF Held
  <2>3. Files(t)'
    BY <1>0, <2>1 DEF Works, Files, StillFiles, NewRelease
  <2>4. Runs(t)'
    BY <1>0, <2>1, <2>2 DEF Works, Runs, NewRelease
  <2>5. Dirs(t)' /\ Undoes(t)'
    BY <1>0, <2>1
       DEF Works, Dirs, Undoes, StillFiles, NewRelease, Present, SwapsUndone, NamesAgree
  <2> QED
    BY <2>3, <2>4, <2>5 DEF Works
<1>3. AtRest'
  BY <1>0, <1>1 DEF ReleaseInv, AtRest, Busy
<1>4. AtWork'
  BY <1>0, <1>2 DEF AtWork
<1>5. BootAlone' /\ Whole'
  BY <1>0, WholeStands DEF ReleaseInv, BootAlone, StillFiles
<1> QED
  BY <1>3, <1>4, <1>5 DEF ReleaseInv

\* No command is at work while the daemon restores its services.
LEMMA IdleFacts ==
  ASSUME \A t \in Tasks : task[t].pc = "idle"
  PROVE  /\ \A t \in Tasks : /\ task[t].pc \notin LatePC /\ task[t].pc \in NoDeployPC
                             /\ task[t].pc \notin StagedPC
         /\ \A s : ~Busy(s)
<1>1. \A t \in Tasks : /\ task[t].pc \notin LatePC /\ task[t].pc \in NoDeployPC
                       /\ task[t].pc \notin StagedPC
  BY DEF LatePC, CheckedPC, WritePC, RollbackPC, NoDeployPC, StagedPC
<1> QED
  BY <1>1 DEF Busy

\* restore_active_services_on_boot starts the active release.
LEMMA RestoreWell ==
  ASSUME ReleaseInv, GateInv', NEW s \in Services, RestoreOnBoot(s)
  PROVE  ReleaseInv'
<1>0. /\ StillFiles /\ UNCHANGED <<staging, task, errors, crashes>>
      /\ to_restore # {} /\ GateInv
  BY DEF RestoreOnBoot, StillFiles, disk, ReleaseInv
<1>1. \A t \in Tasks : task[t].pc = "idle"
  BY <1>0 DEF ReleaseInv, BootAlone
<1>2. \A e \in Services : running'[e] \in {None, running[e], active_release[e]}
  <2>1. CASE UNCHANGED running
    BY <2>1
  <2>2. CASE \E o \in StartOutcomes(s, active_release[s]) : Leaves(s, o)
    <3>1. PICK o \in StartOutcomes(s, active_release[s]) : Leaves(s, o)
      BY <2>2
    <3> QED
      BY <1>0, <3>1, LeavesFields, OutcomeFields
  <2> QED
    BY <2>1, <2>2 DEF RestoreOnBoot
<1>3. ASSUME NEW e \in Services PROVE Rest(e)'
  <2>1. Rest(e)
    BY <1>1, IdleFacts DEF ReleaseInv, AtRest
  <2> QED
    BY <1>0, <1>2, <2>1 DEF Rest, StillFiles, Present, SwapsUndone, NamesAgree
<1>4. AtRest'
  BY <1>3 DEF AtRest
<1>5. AtWork'
  BY <1>0, <1>1, IdleFacts DEF AtWork
<1>6. BootAlone' /\ Whole'
  BY <1>0, <1>1, WholeStands DEF ReleaseInv, BootAlone, StillFiles
<1> QED
  BY <1>4, <1>5, <1>6 DEF ReleaseInv

\* A crash takes the commands and what runs; the files stay as they are.
LEMMA CrashWell ==
  ASSUME ReleaseInv, GateInv', Crash
  PROVE  ReleaseInv'
<1>0. /\ StillFiles /\ UNCHANGED <<staging, errors>>
      /\ \A e \in Services : running'[e] = None
      /\ \A t \in Tasks : task'[t].pc = "idle"
  BY DEF Crash, StillFiles, disk, NoTask
<1>1. crashes' # 0
  <2>1. crashes \in Nat
    BY DEF ReleaseInv, GateInv, FilesOK
  <2> QED
    BY <2>1 DEF Crash
<1>2. \A t \in Tasks : /\ task'[t].pc \notin LatePC /\ task'[t].pc \in NoDeployPC
                       /\ task'[t].pc \notin StagedPC
  BY <1>0 DEF LatePC, CheckedPC, WritePC, RollbackPC, NoDeployPC, StagedPC
<1>3. \A e \in Services : Rest(e)'
  BY <1>0, <1>1 DEF Rest, SwapsUndone
<1>4. AtRest' /\ AtWork' /\ BootAlone'
  BY <1>0, <1>2, <1>3 DEF AtRest, AtWork, BootAlone
<1>5. Whole'
  <2>1. \A t \in Tasks : Sound(t)'
    BY <1>2, LateLabels DEF Sound
  <2>2. NamesAgree => \A e \in Services : Intact(e, active_release[e])'
    BY <1>0 DEF ReleaseInv, Whole, Intact, StillFiles
  <2> QED
    BY <1>2, <2>1, <2>2 DEF Whole, NamesAgree
<1> QED
  BY <1>4, <1>5 DEF ReleaseInv

-----------------------------------------------------------------------------
(* The invariant holds of every reachable state.                           *)

\* Initially nothing is deployed.
LEMMA ReleaseInit == Init => ReleaseInv
<1> SUFFICES ASSUME Init PROVE ReleaseInv
  OBVIOUS
<1>1. \A t \in Tasks : task[t].pc = "idle"
  BY DEF Init, NoTask
<1>2. \A s \in Services : Rest(s)
  BY DEF Init, Rest, Present
<1>3. AtRest /\ AtWork /\ BootAlone
  BY <1>1, <1>2, IdleFacts DEF AtRest, AtWork, BootAlone
<1>4. Whole
  <2>1. \A t \in Tasks : Sound(t)
    BY <1>1, IdleFacts, LateLabels DEF Sound
  <2>2. \A s \in Services : Intact(s, active_release[s])
    BY DEF Init, Intact
  <2> QED
    BY <1>1, <2>1, <2>2, IdleFacts DEF Whole
<1> QED
  BY <1>3, <1>4, GateInit DEF ReleaseInv

\* Every step keeps it.
LEMMA ReleaseStep == ReleaseInv /\ [Next]_vars => ReleaseInv'
<1> SUFFICES ASSUME ReleaseInv, [Next]_vars PROVE ReleaseInv'
  OBVIOUS
<1>1. GateInv'
  BY GateStep DEF ReleaseInv
<1>2. ASSUME NEW t \in Tasks, CommandStep(t)
      PROVE  ReleaseInv'
  BY <1>1, <1>2, StagingWell, ReadWell, PromoteWell, SwapWell, UndoWell, PlacedWell,
     ReplaceWell, ActiveWell, PolicyWell, FailureWell, StopRunWell, ReturnsWell
     DEF CommandStep
<1>3. CASE UNCHANGED vars
  <2>1. /\ StillFiles
        /\ UNCHANGED <<staging, running, task, to_restore, errors, crashes>>
    BY <1>3 DEF vars, disk, StillFiles
  <2>2. AtRest'
    BY <2>1 DEF ReleaseInv, AtRest, Busy, Rest, Present, StillFiles, SwapsUndone, NamesAgree
  <2>3. AtWork'
    BY ZenonT(30), <2>1 DEF ReleaseInv, AtWork, Works, Files, Runs, Dirs, Undoes, NewRelease,
                Present, StillFiles, SwapsUndone, NamesAgree
  <2>4. BootAlone' /\ Whole'
    BY <2>1, WholeStands DEF ReleaseInv, BootAlone, StillFiles
  <2> QED
    BY <1>1, <2>2, <2>3, <2>4 DEF ReleaseInv
<1> QED
  BY <1>1, <1>2, <1>3, CommandsBeginWell, ExitWell, RestoreWell, CrashWell DEF Next

\* Hence always.
LEMMA ReleaseAlways == Spec => []ReleaseInv
<1> QED
  BY ReleaseInit, ReleaseStep, PTL DEF Spec

\* A service without a command is at rest.
LEMMA QuietRests ==
  ASSUME ReleaseInv, NEW s \in Services, Quiet(s)
  PROVE  Rest(s)
  BY DEF ReleaseInv, AtRest, Busy, Quiet

-----------------------------------------------------------------------------
(* Theorems.                                                               *)

\* Between commands, what runs is what active_release names, whichever way the
\* deploys before went and whatever the boot restore started.
THEOREM RunsWhatIsActive == Spec => []RunningIsActive
<1>1. ReleaseInv => RunningIsActive
  BY QuietRests DEF RunningIsActive, Rest
<1> QED
  BY <1>1, ReleaseAlways, PTL

\* Between commands, active_release and restart_policy are those of the last
\* deploy that succeeded: a failed deploy leaves no trace in them.
THEOREM FailedDeploysLeaveNoTrace == Spec => []FilesFollowDeploys
<1>1. ReleaseInv => FilesFollowDeploys
  BY QuietRests DEF FilesFollowDeploys, Rest
<1> QED
  BY <1>1, ReleaseAlways, PTL

\* Between commands, the active release is on disk: cleanup_old_releases does not
\* remove it, and promote_staging_release puts it back when its swap fails.
THEOREM ActiveStaysOnDisk == Spec => []ActiveIsOnDisk
<1>1. ReleaseInv => ActiveIsOnDisk
  BY QuietRests DEF ActiveIsOnDisk, Rest, Present
<1> QED
  BY <1>1, ReleaseAlways, PTL

\* A rollback finds the release it goes back to.
THEOREM RollbackFindsRelease == Spec => []RollbackHasRelease
<1>1. ReleaseInv => RollbackHasRelease
  <2> SUFFICES ASSUME ReleaseInv, SwapsUndone, NEW t \in Tasks,
                      task[t].pc \in RollbackPC, task[t].previous \in Releases
               PROVE  release_dirs[task[t].gate][task[t].previous] # "absent"
    BY DEF RollbackHasRelease
  <2>1. Works(t) /\ task[t].pc \notin SwapPC
    BY DEF ReleaseInv, AtWork, LatePC, RollbackPC, SwapPC
  <2> QED
    BY <2>1 DEF Works, Dirs, Present
<1> QED
  BY <1>1, ReleaseAlways, PTL

\* What is loaded is whole, where uploads and manifests agree on the service name:
\* the gate then keeps two deploys of one upload apart, and a removal that stops
\* midway touches neither the active release, nor the one just promoted, nor the
\* one a rollback loads.
THEOREM LoadedReleasesAreWhole == Spec => [](NamesAgree => LoadedIsWhole)
<1>1. ReleaseInv => (NamesAgree => LoadedIsWhole)
  <2> SUFFICES ASSUME ReleaseInv, NamesAgree PROVE LoadedIsWhole
    OBVIOUS
  <2>1. ASSUME NEW t \in Tasks
        PROVE  /\ task[t].pc \in Promoted =>
                    release_dirs[task[t].gate][NewRelease(t)] = "whole"
               /\ task[t].pc \in RollbackPC /\ task[t].previous \in Releases =>
                    release_dirs[task[t].gate][task[t].previous] # "partial"
    BY DEF ReleaseInv, Whole, Sound, Intact, Promoted, PlacedPC, LatePC
  <2>2. \A s \in Services : active_release[s] \in Releases =>
          release_dirs[s][active_release[s]] # "partial"
    BY DEF ReleaseInv, Whole, Intact
  <2> QED
    BY <2>1, <2>2 DEF LoadedIsWhole
<1> QED
  BY <1>1, ReleaseAlways, PTL

-----------------------------------------------------------------------------
(* The plugin cache that launches share: PluginCache as MCDeploy has it,   *)
(* for any sets of launching services and components and any number of     *)
(* failed copies and crashes.                                              *)
(*                                                                         *)
(* The property looks at a launch when it starts its runner.  What carries *)
(* it there: each component the launch is done with was whole then, and    *)
(* whoever has emptied it since has left a mark; launches that write the   *)
(* same file are all marked, so that one which finds the file torn at its  *)
(* end, by the others or by one of them that failed, has its mark.         *)

Types ==
  /\ cache \in [Components -> {"absent", "torn", "whole"}]
  /\ named \in [Launchers -> SUBSET Components]
  /\ upset \in [Launchers -> SUBSET Components]
  /\ launch \in [Launchers -> Plugins!Launch]

\* While the daemon is down nothing is launched.
Down == ~booted => \A s \in Launchers : launch[s] = Plugins!NoLaunch

\* The component at hand is one still to be prepared; a start has none left.
AtHand ==
  \A s \in Launchers :
    /\ launch[s].pc \in {"decided", "copying"} =>
         launch[s].at \in Components \cap launch[s].todo
    /\ launch[s].pc = "start" => launch[s].todo = {}
    /\ launch[s].pc = "idle" => launch[s].names = {}

\* What a launch is done with is whole, or disturbed.
Fine(s, d) == cache[d] = "whole" \/ d \in upset[s]
Settled == \A s \in Launchers : \A d \in launch[s].names \ launch[s].todo : Fine(s, d)

\* Launches that write the same file know of each other by their marks, and a
\* hole is only left in a file several write.
Writes(s, d) == launch[s].pc = "copying" /\ launch[s].at = d
Shared ==
  \A s, o \in Launchers : \A d \in Components :
    s # o /\ Writes(s, d) /\ Writes(o, d) => d \in upset[s] /\ d \in upset[o]
Holes ==
  \A s \in Launchers :
    launch[s].holed => launch[s].pc = "copying" /\ launch[s].at \in upset[s]

CacheInv == Types /\ Down /\ AtHand /\ Settled /\ Shared /\ Holes

-----------------------------------------------------------------------------
(* Records.                                                                *)

\* The fields of a launch that is not under way, and of ...
LEMMA NoLaunchType ==
  /\ Plugins!NoLaunch \in Plugins!Launch /\ Plugins!NoLaunch.pc = "idle" /\ Plugins!NoLaunch.names = {}
  /\ Plugins!NoLaunch.holed = FALSE
  BY DEF Plugins!NoLaunch, Plugins!Launch, Plugins!PC

\* ... one that begins.
LEMMA LaunchOfType ==
  ASSUME NEW names \in SUBSET Components, NEW again \in BOOLEAN
  PROVE  /\ Plugins!LaunchOf(names, again) \in Plugins!Launch /\ Plugins!LaunchOf(names, again).pc = "inspect"
         /\ Plugins!LaunchOf(names, again).names = names /\ Plugins!LaunchOf(names, again).todo = names
         /\ Plugins!LaunchOf(names, again).holed = FALSE
  BY DEF Plugins!LaunchOf, Plugins!NoLaunch, Plugins!Launch, Plugins!PC

\* What the invariant says of one launch l, the files being c and its marks u.
Good(l, c, u) ==
  /\ l \in Plugins!Launch
  /\ l.pc \in {"decided", "copying"} => l.at \in Components \cap l.todo
  /\ l.pc = "start" => l.todo = {}
  /\ l.pc = "idle" => l.names = {}
  /\ \A d \in l.names \ l.todo : c[d] = "whole" \/ d \in u
  /\ l.holed => l.pc = "copying" /\ l.at \in u

\* The invariant, launch by launch.
LEMMA GoodLaunches ==
  CacheInv <=> /\ Types /\ Down /\ Shared
               /\ \A s \in Launchers : Good(launch[s], cache, upset[s])
  BY DEF CacheInv, Types, AtHand, Settled, Holes, Good, Fine

-----------------------------------------------------------------------------
\* A step of one launch that empties nothing: the others are as they were, and
\* so is every component, but for one that became whole.
LEMMA OneLaunch ==
  ASSUME CacheInv, booted' = booted, booted, NEW s \in Launchers, NEW l,
         launch' = [launch EXCEPT ![s] = l],
         cache' \in [Components -> {"absent", "torn", "whole"}],
         \A d \in Components : cache'[d] # cache[d] => cache'[d] = "whole",
         named' \in [Launchers -> SUBSET Components],
         upset' \in [Launchers -> SUBSET Components],
         \A o \in Launchers \ {s} : upset'[o] = upset[o],
         upset'[s] # upset[s] => l.pc # "copying",
         l.pc = "copying" => launch[s].pc = "copying" /\ l.at = launch[s].at,
         Good(l, cache', upset'[s])
  PROVE  CacheInv'
<1>0. /\ Types /\ Shared /\ \A o \in Launchers : Good(launch[o], cache, upset[o])
  BY GoodLaunches
<1>1. launch'[s] = l /\ \A o \in Launchers \ {s} : launch'[o] = launch[o]
  BY <1>0 DEF Types
<1>2. Types'
  BY <1>0 DEF Types, Good
<1>3. Down'
  BY DEF Down
<1>4. Shared'
  <2> SUFFICES ASSUME NEW a \in Launchers, NEW b \in Launchers, NEW d \in Components,
                      a # b, Writes(a, d)', Writes(b, d)'
               PROVE  d \in upset'[a] /\ d \in upset'[b]
    BY DEF Shared
  <2>1. Writes(a, d) /\ Writes(b, d)
    BY <1>1 DEF Writes
  <2>2. upset'[a] = upset[a] /\ upset'[b] = upset[b]
    BY <1>1 DEF Writes
  <2> QED
    BY <1>0, <2>1, <2>2 DEF Shared
<1>5. ASSUME NEW o \in Launchers PROVE Good(launch'[o], cache', upset'[o])
  <2>1. CASE o = s
    BY <1>1, <2>1
  <2>2. CASE o # s
    <3>1. \A d \in launch[o].names : d \in Components
      BY <1>0 DEF Types, Plugins!Launch
    <3>2. launch'[o] = launch[o] /\ upset'[o] = upset[o]
      BY <1>1, <2>2
    <3> QED
      BY <1>0, <3>1, <3>2 DEF Good
  <2> QED
    BY <2>1, <2>2
<1> QED
  BY <1>2, <1>3, <1>4, <1>5 DEF CacheInv, AtHand, Settled, Holes, Good, Fine

\* prepare_plugin_dependencies begins.
LEMMA PrepareKeeps ==
  ASSUME CacheInv, NEW s \in Launchers, NEW names \in SUBSET Components,
         Plugins!Prepare(s, names)
  PROVE  CacheInv'
<1>1. Types
  BY DEF CacheInv
<1>2. upset' \in [Launchers -> SUBSET Components] /\ \A o \in Launchers \ {s} : upset'[o] = upset[o]
  BY <1>1 DEF Types, Plugins!Prepare
<1>3. Good(Plugins!LaunchOf(names, FALSE), cache', upset'[s]) /\ Plugins!LaunchOf(names, FALSE).pc = "inspect"
  BY LaunchOfType DEF Good
<1> QED
  BY <1>1, <1>2, <1>3, OneLaunch DEF Plugins!Prepare, Types

\* Inspection of a file in the cache.
LEMMA InspectKeeps ==
  ASSUME CacheInv, NEW s \in Launchers, NEW d \in Components, Plugins!Inspect(s, d)
  PROVE  CacheInv'
<1> DEFINE l == IF Plugins!cache_digest_matches(d)
                THEN [launch[s] EXCEPT !.todo = launch[s].todo \ {d}]
                ELSE [launch[s] EXCEPT !.pc = "decided", !.at = d]
<1>1. /\ Types /\ booted /\ Good(launch[s], cache, upset[s])
      /\ launch[s] \in Plugins!Launch /\ launch[s].pc = "inspect" /\ d \in launch[s].todo
  <2>1. Types /\ Down /\ Good(launch[s], cache, upset[s])
    BY GoodLaunches DEF CacheInv
  <2>2. launch[s].pc = "inspect" /\ d \in launch[s].todo
    BY DEF Plugins!Inspect
  <2>3. booted
    BY <2>1, <2>2, NoLaunchType DEF Down
  <2> QED
    BY <2>1, <2>2, <2>3 DEF Types
<1>2. launch' = [launch EXCEPT ![s] = l] /\ UNCHANGED <<cache, named, booted, upset>>
  BY <1>1 DEF Plugins!Inspect, Types
<1>3. Good(l, cache, upset[s]) /\ l.pc # "copying"
  <2>1. CASE Plugins!cache_digest_matches(d)
    <3>1. l = [launch[s] EXCEPT !.todo = launch[s].todo \ {d}]
      BY <2>1
    <3> QED
      BY <1>1, <2>1, <3>1 DEF Good, Plugins!Launch, Plugins!cache_digest_matches
  <2>2. CASE ~Plugins!cache_digest_matches(d)
    <3>1. l = [launch[s] EXCEPT !.pc = "decided", !.at = d]
      BY <2>2
    <3> QED
      BY <1>1, <2>2, <3>1 DEF Good, Plugins!Launch, Plugins!PC
  <2> QED
    BY <2>1, <2>2
<1> HIDE DEF l
<1>4. Good(l, cache', upset'[s])
  BY <1>2, <1>3
<1> QED
  BY <1>1, <1>2, <1>3, <1>4, OneLaunch DEF Types

\* A copy that ends: whole when no one else writes the file, and else marked.
LEMMA EndCopyKeeps ==
  ASSUME CacheInv, NEW s \in Launchers, Plugins!EndCopy(s)
  PROVE  CacheInv'
<1> DEFINE d == launch[s].at
           l == [launch[s] EXCEPT !.pc = "inspect", !.at = Plugins!NoComponent, !.holed = FALSE,
                                  !.todo = launch[s].todo \ {d}]
<1>1. /\ Types /\ Shared /\ booted /\ Good(launch[s], cache, upset[s])
      /\ launch[s] \in Plugins!Launch /\ launch[s].pc = "copying"
      /\ d \in Components /\ d \in launch[s].todo
  <2>1. Types /\ Down /\ Shared /\ Good(launch[s], cache, upset[s])
    BY GoodLaunches DEF CacheInv
  <2>2. launch[s].pc = "copying"
    BY DEF Plugins!EndCopy
  <2>3. booted
    BY <2>1, <2>2, NoLaunchType DEF Down
  <2> QED
    BY <2>1, <2>2, <2>3 DEF Types, Good
<1>2. /\ launch' = [launch EXCEPT ![s] = l] /\ UNCHANGED <<named, booted, upset>>
      /\ \/ cache' = [cache EXCEPT ![d] = "whole"]
         \/ (Plugins!Copying(d) # {s} \/ launch[s].holed) /\ cache' = cache
  BY <1>1 DEF Plugins!EndCopy, Types
<1>3. /\ cache' \in [Components -> {"absent", "torn", "whole"}]
      /\ \A e \in Components : cache'[e] # cache[e] => cache'[e] = "whole"
  BY <1>1, <1>2 DEF Types
<1>4. cache'[d] = "whole" \/ d \in upset[s]
  <2>1. CASE cache' = [cache EXCEPT ![d] = "whole"]
    BY <1>1, <2>1 DEF Types
  <2>2. CASE Plugins!Copying(d) # {s}
    <3>1. PICK o \in Launchers \ {s} : Writes(o, d)
      BY <1>1, <2>2 DEF Plugins!Copying, Writes
    <3> QED
      BY <1>1, <3>1 DEF Shared, Writes
  <2>3. CASE launch[s].holed
    BY <1>1, <2>3 DEF Good
  <2> QED
    BY <1>2, <2>1, <2>2, <2>3
<1>5. /\ l \in Plugins!Launch /\ l.pc = "inspect" /\ l.holed = FALSE
      /\ l.names = launch[s].names /\ l.todo = launch[s].todo \ {d}
  BY <1>1 DEF Plugins!Launch, Plugins!PC, Plugins!NoComponent
<1>6. \A e \in l.names \ l.todo : cache'[e] = "whole" \/ e \in upset[s]
  <2> SUFFICES ASSUME NEW e \in l.names \ l.todo
               PROVE  cache'[e] = "whole" \/ e \in upset[s]
    OBVIOUS
  <2>1. CASE e = d
    BY <1>4, <2>1
  <2>2. CASE e # d
    <3>1. e \in launch[s].names \ launch[s].todo /\ e \in Components
      BY <1>1, <1>5, <2>2 DEF Plugins!Launch
    <3>2. cache[e] = "whole" \/ e \in upset[s]
      BY <1>1, <3>1 DEF Good
    <3> QED
      BY <1>3, <3>1, <3>2
  <2> QED
    BY <2>1, <2>2
<1> HIDE DEF l
<1>7. Good(l, cache', upset'[s])
  BY <1>2, <1>5, <1>6 DEF Good
<1> QED
  BY <1>1, <1>2, <1>3, <1>5, <1>7, OneLaunch DEF Types

\* All components are prepared.
LEMMA PreparedKeeps ==
  ASSUME CacheInv, NEW s \in Launchers, Plugins!Prepared(s)
  PROVE  CacheInv'
<1> DEFINE l == [launch[s] EXCEPT !.pc = "start"]
<1>1. /\ Types /\ booted /\ Good(launch[s], cache, upset[s])
      /\ launch[s] \in Plugins!Launch /\ launch[s].pc = "inspect" /\ launch[s].todo = {}
  <2>1. Types /\ Down /\ Good(launch[s], cache, upset[s])
    BY GoodLaunches DEF CacheInv
  <2>2. launch[s].pc = "inspect" /\ launch[s].todo = {}
    BY DEF Plugins!Prepared
  <2>3. booted
    BY <2>1, <2>2, NoLaunchType DEF Down
  <2> QED
    BY <2>1, <2>2, <2>3 DEF Types
<1>2. launch' = [launch EXCEPT ![s] = l] /\ UNCHANGED <<cache, named, booted, upset>>
  BY <1>1 DEF Plugins!Prepared, Types
<1>3. Good(l, cache, upset[s]) /\ l.pc # "copying"
  BY <1>1 DEF Good, Plugins!Launch, Plugins!PC
<1> HIDE DEF l
<1>4. Good(l, cache', upset'[s])
  BY <1>2, <1>3
<1> QED
  BY <1>1, <1>2, <1>3, <1>4, OneLaunch DEF Types

\* The runner is started, or that fails and the active release is launched.
LEMMA StartKeeps ==
  ASSUME CacheInv, NEW s \in Launchers, Plugins!Start(s)
  PROVE  CacheInv'
<1>1. Types /\ booted
  <2>1. Types /\ Down
    BY DEF CacheInv
  <2> QED
    BY <2>1, NoLaunchType DEF Down, Plugins!Start
<1>2. PICK l : /\ l \in {Plugins!NoLaunch, Plugins!LaunchOf(named[s], TRUE)}
               /\ launch' = [launch EXCEPT ![s] = l]
  BY DEF Plugins!Start
<1>3. /\ UNCHANGED <<cache, booted>>
      /\ named' \in [Launchers -> SUBSET Components]
      /\ upset' \in [Launchers -> SUBSET Components]
      /\ \A o \in Launchers \ {s} : upset'[o] = upset[o]
  <2>1. launch[s].names \in SUBSET Components
    BY <1>1 DEF Types, Plugins!Launch
  <2> QED
    BY <1>1, <2>1 DEF Plugins!Start, Types
<1>4. Good(l, cache', upset'[s]) /\ l.pc # "copying"
  <2>1. named[s] \in SUBSET Components
    BY <1>1 DEF Types
  <2>2. CASE l = Plugins!NoLaunch
    BY <2>2, NoLaunchType DEF Good
  <2>3. CASE l = Plugins!LaunchOf(named[s], TRUE)
    BY <2>1, <2>3, LaunchOfType DEF Good
  <2> QED
    BY <1>2, <2>2, <2>3
<1> QED
  BY <1>1, <1>2, <1>3, <1>4, OneLaunch DEF Types

-----------------------------------------------------------------------------
(* Steps that concern several launches.                                    *)

\* fs::copy empties the file: whoever relied on it or writes it is marked.
LEMMA BeginCopyKeeps ==
  ASSUME CacheInv, NEW s \in Launchers, Plugins!BeginCopy(s)
  PROVE  CacheInv'
<1> DEFINE d == launch[s].at
           users == {o \in Launchers \ {s} : d \in launch[o].names \ launch[o].todo
                                              \/ o \in Plugins!Copying(d)}
           marked == {o \in Launchers : o \in users \/ (o = s /\ Plugins!Copying(d) # {})}
           l == [launch[s] EXCEPT !.pc = "copying"]
<1>1. /\ Types /\ Shared /\ booted /\ \A o \in Launchers : Good(launch[o], cache, upset[o])
      /\ launch[s] \in Plugins!Launch /\ launch[s].pc = "decided"
      /\ d \in Components /\ d \in launch[s].todo
  <2>1. Types /\ Down /\ Shared /\ \A o \in Launchers : Good(launch[o], cache, upset[o])
    BY GoodLaunches DEF CacheInv
  <2>2. launch[s].pc = "decided"
    BY DEF Plugins!BeginCopy
  <2>3. booted
    BY <2>1, <2>2, NoLaunchType DEF Down
  <2> QED
    BY <2>1, <2>2, <2>3 DEF Types, Good
<1>2. /\ launch' = [launch EXCEPT ![s] = l] /\ UNCHANGED <<named, booted>>
      /\ cache' = [cache EXCEPT ![d] = "torn"]
      /\ upset' = [o \in Launchers |-> IF o \in marked THEN upset[o] \cup {d} ELSE upset[o]]
  BY <1>1 DEF Plugins!BeginCopy, Types
<1>3. /\ l \in Plugins!Launch /\ l.pc = "copying" /\ l.at = d /\ l.names = launch[s].names
      /\ l.todo = launch[s].todo /\ l.holed = FALSE
  BY <1>1 DEF Good, Plugins!Launch, Plugins!PC
<1>4. /\ launch'[s] = l /\ \A o \in Launchers \ {s} : launch'[o] = launch[o]
      /\ \A o \in Launchers : upset[o] \subseteq upset'[o]
      /\ \A o \in marked : d \in upset'[o]
  BY <1>1, <1>2 DEF Types
<1>5. Types'
  BY <1>1, <1>2, <1>3 DEF Types
<1>6. Down'
  BY <1>1, <1>2 DEF Down
<1>7. \A o \in Launchers \ {s} : Writes(o, d) => o \in marked /\ s \in marked
  BY DEF Writes, Plugins!Copying
<1>8. \A o \in Launchers \ {s} : d \in launch[o].names \ launch[o].todo => o \in marked
  OBVIOUS
<1> HIDE DEF l, marked
<1>9. Shared'
  <2> SUFFICES ASSUME NEW a \in Launchers, NEW b \in Launchers, NEW e \in Components,
                      a # b, Writes(a, e)', Writes(b, e)'
               PROVE  e \in upset'[a] /\ e \in upset'[b]
    BY DEF Shared
  <2>1. CASE a # s /\ b # s
    BY <1>1, <1>4, <2>1 DEF Shared, Writes
  <2>2. CASE a = s
    <3>1. e = d /\ Writes(b, d)
      BY <1>3, <1>4, <2>2 DEF Writes
    <3> QED
      BY <1>4, <1>7, <2>2, <3>1
  <2>3. CASE b = s
    <3>1. e = d /\ Writes(a, d)
      BY <1>3, <1>4, <2>3 DEF Writes
    <3> QED
      BY <1>4, <1>7, <2>3, <3>1
  <2> QED
    BY <2>1, <2>2, <2>3
<1>10. ASSUME NEW o \in Launchers PROVE Good(launch'[o], cache', upset'[o])
  <2>1. \A e \in Components \ {d} : cache'[e] = cache[e]
    BY <1>1, <1>2 DEF Types
  <2>2. launch[o].names \subseteq Components /\ launch[o] \in Plugins!Launch
    BY <1>1 DEF Types, Plugins!Launch
  <2>3. CASE o = s
    <3>1. \A e \in l.names \ l.todo : e # d /\ (cache[e] = "whole" \/ e \in upset[s])
      BY <1>1, <1>3 DEF Good
    <3>2. \A e \in l.names \ l.todo : cache'[e] = "whole" \/ e \in upset'[s]
      BY <1>3, <1>4, <2>1, <2>2, <2>3, <3>1
    <3> QED
      BY <1>1, <1>3, <1>4, <2>3, <3>2 DEF Good
  <2>4. CASE o # s
    <3>1. \A e \in launch[o].names \ launch[o].todo : cache'[e] = "whole" \/ e \in upset'[o]
      <4> SUFFICES ASSUME NEW e \in launch[o].names \ launch[o].todo
                   PROVE  cache'[e] = "whole" \/ e \in upset'[o]
        OBVIOUS
      <4>1. CASE e = d
        BY <1>4, <1>8, <2>4, <4>1
      <4>2. CASE e # d
        <5>1. cache[e] = "whole" \/ e \in upset[o]
          BY <1>1 DEF Good
        <5> QED
          BY <1>4, <2>1, <2>2, <4>2, <5>1
      <4> QED
        BY <4>1, <4>2
    <3>2. launch'[o] = launch[o] /\ upset[o] \subseteq upset'[o]
      BY <1>4, <2>4
    <3> QED
      BY <1>1, <3>1, <3>2 DEF Good
  <2> QED
    BY <2>3, <2>4
<1> QED
  BY <1>5, <1>6, <1>9, <1>10 DEF CacheInv, AtHand, Settled, Holes, Good, Fine

\* A copy that fails may leave a hole in what others, all marked, are writing.
LEMMA CopyFailsKeeps ==
  ASSUME CacheInv, NEW s \in Launchers, Plugins!CopyFails(s)
  PROVE  CacheInv'
<1> DEFINE d == launch[s].at
<1>1. /\ Types /\ Shared /\ booted /\ \A o \in Launchers : Good(launch[o], cache, upset[o])
      /\ Writes(s, d) /\ d \in Components
  <2>1. Types /\ Down /\ Shared /\ \A o \in Launchers : Good(launch[o], cache, upset[o])
    BY GoodLaunches DEF CacheInv
  <2>2. launch[s].pc = "copying"
    BY DEF Plugins!CopyFails
  <2>3. booted
    BY <2>1, <2>2, NoLaunchType DEF Down
  <2> QED
    BY <2>1, <2>2, <2>3 DEF Writes, Good
<1>2. UNCHANGED <<cache, named, booted, upset>>
  BY DEF Plugins!CopyFails
<1>3. ASSUME NEW o \in Launchers
      PROVE  /\ Good(launch'[o], cache, upset[o])
             /\ launch'[o].pc = "copying" =>
                  launch[o].pc = "copying" /\ launch'[o].at = launch[o].at
  <2>0. launch[o] \in Plugins!Launch
    BY <1>1 DEF Types
  <2>1. CASE o = s
    <3>1. launch'[o] = Plugins!NoLaunch
      BY <2>1 DEF Plugins!CopyFails
    <3> QED
      BY <3>1, NoLaunchType DEF Good
  <2>2. CASE o # s /\ o \in Plugins!Copying(d)
    <3> DEFINE l == [launch[o] EXCEPT !.holed = TRUE]
    <3>1. launch'[o] = l
      BY <2>2 DEF Plugins!CopyFails
    <3>2. Writes(o, d)
      BY <2>2 DEF Plugins!Copying, Writes
    <3>3. launch[o].at \in upset[o] /\ launch[o].pc = "copying"
      BY <1>1, <2>2, <3>2 DEF Shared, Writes
    <3>4. /\ l \in Plugins!Launch /\ l.pc = launch[o].pc /\ l.at = launch[o].at
          /\ l.names = launch[o].names /\ l.todo = launch[o].todo
      BY <2>0 DEF Plugins!Launch
    <3> HIDE DEF l
    <3> QED
      BY <1>1, <3>1, <3>3, <3>4 DEF Good
  <2>3. CASE o # s /\ o \notin Plugins!Copying(d)
    <3>1. launch'[o] = launch[o]
      BY <2>3 DEF Plugins!CopyFails
    <3> QED
      BY <1>1, <3>1
  <2> QED
    BY <2>1, <2>2, <2>3
<1>4. Types'
  <2>1. launch' \in [Launchers -> Plugins!Launch]
    <3>1. launch' = [o \in Launchers |-> launch'[o]]
      BY DEF Plugins!CopyFails
    <3> QED
      BY <1>3, <3>1 DEF Good
  <2> QED
    BY <1>1, <1>2, <2>1 DEF Types
<1>5. Down'
  BY <1>1, <1>2 DEF Down
<1>6. Shared'
  BY <1>1, <1>2, <1>3 DEF Shared, Writes
<1> QED
  BY <1>2, <1>3, <1>4, <1>5, <1>6 DEF CacheInv, AtHand, Settled, Holes, Good, Fine

\* A crash ends every launch, and at boot there is none.
LEMMA BootKeeps ==
  ASSUME CacheInv,
         \/ Plugins!Crash
         \/ \E unread \in SUBSET Launchers, kept \in SUBSET Components : Plugins!Boot(unread, kept)
  PROVE  CacheInv'
<1>1. Types
  BY DEF CacheInv
<1>2. \A s \in Launchers : launch'[s] = Plugins!NoLaunch
  BY DEF Plugins!Crash, Plugins!Boot, CacheInv, Down
<1>3. Types'
  <2>1. CASE Plugins!Crash
    BY <1>1, <2>1, NoLaunchType DEF Plugins!Crash, Types
  <2>2. ASSUME NEW unread \in SUBSET Launchers, NEW kept \in SUBSET Components,
               Plugins!Boot(unread, kept)
        PROVE  Types'
    BY <1>1, <2>2 DEF Plugins!Boot, Types
  <2> QED
    BY <2>1, <2>2
<1>4. Down' /\ Shared'
  BY <1>2, NoLaunchType DEF Down, Shared, Writes
<1>5. AtHand' /\ Settled' /\ Holes'
  BY <1>2, NoLaunchType DEF AtHand, Settled, Holes
<1> QED
  BY <1>3, <1>4, <1>5 DEF CacheInv

-----------------------------------------------------------------------------
(* The theorem.                                                            *)

\* The invariant holds initially ...
LEMMA CacheInit == MCInit => CacheInv
<1> SUFFICES ASSUME Plugins!Init PROVE CacheInv
  BY DEF MCInit
<1>1. Types /\ \A s \in Launchers : launch[s] = Plugins!NoLaunch
  BY NoLaunchType DEF Plugins!Init, Types
<1> QED
  BY <1>1, NoLaunchType DEF CacheInv, Down, AtHand, Settled, Shared, Holes, Writes

\* ... and every step keeps it ...
LEMMA CacheStep ==
  CacheInv /\ [ReleasesNext \/ PluginsNext]_<<subject, vars, cacheVars>> => CacheInv'
<1> SUFFICES ASSUME CacheInv, Plugins!Next \/ UNCHANGED cacheVars PROVE CacheInv'
  BY DEF ReleasesNext, PluginsNext
<1>1. CASE UNCHANGED cacheVars
  BY <1>1 DEF cacheVars, CacheInv, Types, Down, AtHand, Settled, Fine, Shared, Writes, Holes
<1>2. CASE \E s \in Launchers : \E names \in SUBSET Components : Plugins!Prepare(s, names)
  BY <1>2, PrepareKeeps
<1>3. CASE \E s \in Launchers : \E d \in Components : Plugins!Inspect(s, d)
  BY <1>3, InspectKeeps
<1>4. CASE \E s \in Launchers : \/ Plugins!BeginCopy(s) \/ Plugins!EndCopy(s)
                                \/ Plugins!CopyFails(s)
                                \/ Plugins!Prepared(s) \/ Plugins!Start(s)
  BY <1>4, BeginCopyKeeps, EndCopyKeeps, CopyFailsKeeps, PreparedKeeps, StartKeeps
<1>5. CASE \/ Plugins!Crash
           \/ \E unread \in SUBSET Launchers, kept \in SUBSET Components :
                Plugins!Boot(unread, kept)
  BY <1>5, BootKeeps
<1> QED
  BY <1>1, <1>2, <1>3, <1>4, <1>5 DEF Plugins!Next

\* A runner is never told to load a component that is torn or missing, unless
\* the launch of another service began to copy it (fs::copy onto the file in
\* plugins/components) after this one was satisfied with it or while this one
\* was writing it.  Failed copies, crashes and the collection at boot, which may
\* leave or remove any file, are no exception.
THEOREM RunnersLoadWhole == MCSpec => []LaunchedIsWhole
<1>1. CacheInv => LaunchedIsWhole
  BY DEF CacheInv, AtHand, Settled, Fine, LaunchedIsWhole, Plugins!LaunchedIsWhole
<1> QED
  BY <1>1, CacheInit, CacheStep, PTL DEF MCSpec
=============================================================================
