----------------------- MODULE ServiceSupervisorProofs -----------------------
(***************************************************************************)
(* Proofs about ServiceSupervisor, for any sets of services, runners,      *)
(* callers and connections and any number of failed kills.                 *)
(***************************************************************************)
EXTENDS ServiceSupervisor, FiniteSetTheorems, TLAPS

USE HeartbeatsAssumption, BoundsAssumption, OpsAssumption, NamesAssumption

\* Labels at which a call holds a process that inner does not track, at which
\* it names a runner, at which it names none, and the labels of a start.
HeldPC == {"taken", "graceful", "grace", "kill", "killing", "restore",
           "displaced", "insert", "condemned", "cleaning"}
RunnerPC == HeldPC \cup {"reindex", "index", "bootstrap", "wait", "unpend"}
BarePC == {"take", "reserve", "check", "spawn"}
StartPC == {"reap", "reserve"} \cup ReservedPC
StartOp == {"start", "replace"}

-----------------------------------------------------------------------------
(* What holds whether or not callers are aborted.                          *)

\* Types, without the conjunct that says whose runner inner tracks.
Types ==
  /\ inner \in [Services -> Runners \cup {NoRunner}]
  /\ service_of \in [Runners -> Services \cup {NoService}]
  /\ is_ready \subseteq Runners /\ runner_index \subseteq Runners
  /\ pending_ready \subseteq Runners /\ ready_rx \subseteq Runners
  /\ starting_services \subseteq Services
  /\ process \in [Runners -> {"unborn", "live", "killed", "exited"}]
  /\ bootstrapped \subseteq Runners /\ announced \subseteq Runners
  /\ task \in [Tasks -> Task]
  /\ request \in [Requests -> Request]
  /\ reaping \subseteq Runners
  /\ phase \in Phases
  /\ to_stop \subseteq Services
  /\ failures \in 0..MaxKillFailures
  /\ aborts \in 0..MaxAborts

\* A runner belongs to one service from its launch on, in inner and in the
\* hands of a call.
RunnerKnown ==
  /\ \A s \in Services : inner[s] # NoRunner => service_of[inner[s]] = s
  /\ \A r \in Runners : service_of[r] \in Services <=> process[r] # "unborn"
  /\ \A t \in Tasks :
       task[t].runner # NoRunner => service_of[task[t].runner] = task[t].service

\* What a call carries at each label.
LabelOK(c) ==
  /\ c.pc = "idle" => c.service = NoService /\ c.runner = NoRunner /\ c.op = "none"
  /\ c.pc # "idle" => c.service \in Services /\ c.op \in Op
  /\ c.pc \in RunnerPC => c.runner # NoRunner
  /\ c.pc \in BarePC => c.runner = NoRunner
  /\ c.pc \in StopPC => c.op # "start"
  /\ c.pc \in StartPC => c.op \in StartOp
LabelsOK == \A t \in Tasks : LabelOK(task[t])

\* A control request comes from a runner that was launched; a RunnerReady from
\* one that announced itself, and its signal follows the mark in inner.
RequestsOK ==
  \A q \in Requests :
    /\ request[q].pc # "idle" => /\ request[q].runner \in Runners
                                 /\ service_of[request[q].runner] \in Services
    /\ request[q].ready => request[q].runner \in announced
    /\ request[q].pc = "signal" => request[q].runner \in is_ready

\* "ok" travels from RunnerReady to is_ready to the channel to the answer.
ReadyOK ==
  /\ is_ready \subseteq announced /\ ready_rx \subseteq is_ready
  /\ \A t \in Tasks : task[t].result = "ok" =>
       \/ task[t].pc = "done" /\ task[t].op \notin StartOp
       \/ task[t].pc \in {"unpend", "release", "done"} /\ task[t].runner \in is_ready

Base == Types /\ RunnerKnown /\ LabelsOK /\ RequestsOK /\ ReadyOK

-----------------------------------------------------------------------------
(* Labels and records.                                                     *)

\* The labels a step goes to.
LEMMA Labels ==
  {"idle", "done", "reap", "reserve", "take", "taken", "graceful", "grace",
   "kill", "killing", "restore", "reindex", "displaced", "reap again", "check",
   "spawn", "insert", "index", "bootstrap", "wait", "unpend", "cleanup",
   "condemned", "cleaning", "release"} \subseteq PC
  BY DEF PC, StopPC, ReservedPC

\* The call of t goes on under the same operation and service.
Becomes(t, pc, runner, result) ==
  /\ task' \in [Tasks -> Task]
  /\ \A u \in Tasks \ {t} : task'[u] = task[u]
  /\ task'[t].pc = pc
  /\ task'[t].runner = runner
  /\ task'[t].result = result
  /\ task'[t].op = task[t].op
  /\ task'[t].service = task[t].service

\* A call moves to another label.
LEMMA GotoFields ==
  ASSUME task \in [Tasks -> Task], NEW t \in Tasks, NEW pc \in PC, Goto(t, pc)
  PROVE  Becomes(t, pc, task[t].runner, task[t].result)
  BY DEF Goto, Task, Becomes

\* A call moves to another label and takes hold of a runner.
LEMMA HoldFields ==
  ASSUME task \in [Tasks -> Task], NEW t \in Tasks, NEW pc \in PC,
         NEW r \in Runners \cup {NoRunner}, Hold(t, pc, r)
  PROVE  Becomes(t, pc, r, task[t].result)
  <1> DEFINE held == [task[t] EXCEPT !.pc = pc, !.runner = r]
  <1>1. task' = [task EXCEPT ![t] = held]
    BY DEF Hold
  <1>2. /\ held \in Task /\ held.pc = pc /\ held.runner = r
        /\ held.result = task[t].result /\ held.op = task[t].op
        /\ held.service = task[t].service
    BY DEF Task
  <1> HIDE DEF held
  <1> QED
    BY <1>1, <1>2 DEF Becomes

\* A call moves to another label with a result.
LEMMA ResultFields ==
  ASSUME task \in [Tasks -> Task], NEW t \in Tasks, NEW pc \in PC,
         NEW result \in Result,
         task' = [task EXCEPT ![t].pc = pc, ![t].result = result]
  PROVE  Becomes(t, pc, task[t].runner, result)
  <1> DEFINE moved == [task[t] EXCEPT !.pc = pc, !.result = result]
  <1>1. task' = [task EXCEPT ![t] = moved]
    OBVIOUS
  <1>2. /\ moved \in Task /\ moved.pc = pc /\ moved.runner = task[t].runner
        /\ moved.result = result /\ moved.op = task[t].op
        /\ moved.service = task[t].service
    BY DEF Task
  <1> HIDE DEF moved
  <1> QED
    BY <1>1, <1>2 DEF Becomes

\* A call that answers.
LEMMA EndFields ==
  ASSUME task \in [Tasks -> Task], NEW t \in Tasks, NEW result \in Result,
         End(t, result)
  PROVE  Becomes(t, "done", task[t].runner, result)
  BY Labels, ResultFields DEF End

\* The end of a stop: the answer, or the start half of a replace.
LEMMA StopEndsFields ==
  ASSUME task \in [Tasks -> Task], NEW t \in Tasks,
         NEW result \in {"ok", "not found"}, StopEnds(t, result)
  PROVE  \/ /\ task[t].op = "replace"
            /\ Becomes(t, "reap", NoRunner, task[t].result)
         \/ /\ task[t].op # "replace"
            /\ Becomes(t, "done", task[t].runner, result)
  BY Labels, EndFields, HoldFields DEF StopEnds, Result

\* A caller that lets go, or is dropped.
LEMMA FreeFields ==
  ASSUME task \in [Tasks -> Task], NEW t \in Tasks,
         task' = [task EXCEPT ![t] = NoTask]
  PROVE  /\ task' \in [Tasks -> Task]
         /\ \A u \in Tasks \ {t} : task'[u] = task[u]
         /\ task'[t] = NoTask
  BY Labels DEF NoTask, Task, Result

\* A call that begins.
LEMMA BeginFields ==
  ASSUME task \in [Tasks -> Task], NEW t \in Tasks, NEW op \in Op,
         NEW s \in Services, BeginCall(t, op, s)
  PROVE  /\ task[t].pc = "idle"
         /\ task' \in [Tasks -> Task]
         /\ \A u \in Tasks \ {t} : task'[u] = task[u]
         /\ task'[t].pc = FirstPC(op) /\ task'[t].op = op
         /\ task'[t].service = s /\ task'[t].runner = NoRunner
         /\ task'[t].result = "none"
  <1> DEFINE begun == [NoTask EXCEPT !.pc = FirstPC(op), !.op = op, !.service = s]
  <1>1. task[t].pc = "idle" /\ task' = [task EXCEPT ![t] = begun]
    BY DEF BeginCall
  <1>2. /\ begun \in Task /\ begun.pc = FirstPC(op) /\ begun.op = op
        /\ begun.service = s /\ begun.runner = NoRunner /\ begun.result = "none"
    BY Labels DEF Task, NoTask, Result, FirstPC
  <1> HIDE DEF begun
  <1> QED
    BY <1>1, <1>2

-----------------------------------------------------------------------------
(* Base is kept by every step.                                             *)

\* Initially nothing runs.
LEMMA BaseInit == Init => Base
<1> SUFFICES ASSUME Init PROVE Base
  OBVIOUS
<1> USE DEF Init
<1>1. NoTask \in Task /\ NoRequest \in Request
  BY Labels DEF NoTask, Task, Result, NoRequest, Request, RequestPC
<1>2. Types
  BY <1>1 DEF Types, Phases
<1>3. RunnerKnown /\ LabelsOK
  BY DEF RunnerKnown, LabelsOK, LabelOK, NoTask, RunnerPC, HeldPC, BarePC, StopPC, StartPC,
         ReservedPC
<1>4. RequestsOK /\ ReadyOK
  BY DEF RequestsOK, ReadyOK, NoRequest, NoTask
<1> QED
  BY <1>2, <1>3, <1>4 DEF Base

\* What a step of the call of t has to show.
LEMMA CallKeepsBase ==
  ASSUME Base, NEW t \in Tasks, NEW pc \in PC \ {"idle"}, NEW r, NEW x,
         Becomes(t, pc, r, x), Types', task[t].pc # "idle",
         pc \in RunnerPC => r # NoRunner,
         pc \in BarePC => r = NoRunner,
         pc \in StopPC => task[t].op # "start",
         pc \in StartPC => task[t].op \in StartOp,
         r # NoRunner => service_of[r] = task[t].service,
         x = "ok" => \/ pc = "done" /\ task[t].op \notin StartOp
                     \/ pc \in {"unpend", "release", "done"} /\ r \in is_ready,
         \A s \in Services :
           \/ inner'[s] \in {inner[s], NoRunner}
           \/ s = task[t].service /\ inner'[s] = task[t].runner,
         \A v \in Runners : process'[v] = "unborn" <=> process[v] = "unborn",
         ready_rx' \subseteq ready_rx,
         UNCHANGED <<service_of, is_ready, announced, request>>
  PROVE  Base'
<1> USE DEF Base
<1>1. RunnerKnown'
  BY DEF Becomes, RunnerKnown, Types
<1>2. LabelsOK'
  <2> SUFFICES ASSUME NEW u \in Tasks PROVE LabelOK(task'[u])
    BY DEF LabelsOK
  <2>1. CASE u = t
    BY <2>1 DEF Becomes, LabelsOK, LabelOK
  <2>2. CASE u # t
    BY <2>2 DEF Becomes, LabelsOK
  <2> QED
    BY <2>1, <2>2
<1>3. RequestsOK' /\ ReadyOK'
  BY DEF Becomes, RequestsOK, ReadyOK
<1> QED
  BY <1>1, <1>2, <1>3

\* reap_finished_service, before and after the reservation.
LEMMA ReapKeepsBase ==
  ASSUME Base, NEW t \in Tasks, NEW pc \in {"reap", "reap again"},
         NEW next \in {"reserve", "check"}, ReapFinished(t, pc, next)
  PROVE  Base'
<1> USE Labels DEF RunnerPC, HeldPC, BarePC, StopPC, StartPC, ReservedPC, ReadyVars,
                   ProcessVars, DaemonVars
<1> DEFINE r == inner[task[t].service]
<1>0. /\ Types /\ task \in [Tasks -> Task] /\ task[t].service \in Services
      /\ task[t].op \in StartOp /\ task[t].pc = pc /\ task[t].result # "ok"
      /\ r # NoRunner => r \in Runners /\ service_of[r] = task[t].service
  BY ZenonT(30) DEF ReapFinished, Base, Types, RunnerKnown, LabelsOK, LabelOK, ReadyOK
<1>1. CASE task[t].runner # NoRunner
  <2>1. Becomes(t, next, NoRunner, task[t].result)
    BY <1>0, <1>1, HoldFields DEF ReapFinished
  <2>2. Types'
    BY <1>0, <1>1, <2>1 DEF ReapFinished, Becomes, Types
  <2> QED
    BY <1>0, <1>1, <2>1, <2>2, CallKeepsBase DEF ReapFinished
<1>2. CASE task[t].runner = NoRunner /\ Exited(r)
  <2>1. Becomes(t, pc, r, task[t].result)
    BY <1>0, <1>2, HoldFields DEF ReapFinished, Exited
  <2>2. Types'
    BY <1>0, <1>2, <2>1 DEF ReapFinished, Becomes, Types
  <2>3. \A s \in Services : inner'[s] \in {inner[s], NoRunner}
    BY <1>0, <1>2 DEF ReapFinished, Types
  <2> QED
    BY <1>0, <1>2, <2>1, <2>2, <2>3, CallKeepsBase DEF ReapFinished
<1>3. CASE task[t].runner = NoRunner /\ ~Exited(r)
  <2>1. Becomes(t, next, NoRunner, task[t].result)
    BY <1>0, <1>3, GotoFields DEF ReapFinished
  <2>2. Types'
    BY <1>0, <1>3, <2>1 DEF ReapFinished, Becomes, Types
  <2> QED
    BY <1>0, <1>3, <2>1, <2>2, CallKeepsBase DEF ReapFinished
<1> QED
  BY <1>1, <1>2, <1>3

\* A launch: the runner id is fresh, so nobody knows it yet.
LEMMA SpawnKeepsBase ==
  ASSUME Base, NEW t \in Tasks, SpawnRunner(t)
  PROVE  Base'
<1> USE Labels DEF RunnerPC, HeldPC, BarePC, StopPC, StartPC, ReservedPC, ReadyVars,
                   ProcessVars, DaemonVars
<1>0. /\ Types /\ task \in [Tasks -> Task] /\ task[t].service \in Services
      /\ task[t].op \in StartOp /\ task[t].pc = "spawn" /\ task[t].result # "ok"
      /\ task[t].runner = NoRunner
  BY DEF SpawnRunner, Base, Types, LabelsOK, LabelOK, ReadyOK
<1>1. CASE /\ task' = [task EXCEPT ![t].pc = "release", ![t].result = "failed"]
           /\ UNCHANGED <<service_of, pending_ready, process>>
  <2>1. Becomes(t, "release", NoRunner, "failed")
    BY <1>0, <1>1, ResultFields DEF Result
  <2>2. Types'
    BY <1>0, <1>1, <2>1 DEF SpawnRunner, Becomes, Types
  <2> QED
    BY <1>0, <1>1, <2>1, <2>2, CallKeepsBase DEF SpawnRunner, Types
<1>2. ASSUME NEW r \in Runners, process[r] = "unborn",
             process' = [process EXCEPT ![r] = "live"],
             service_of' = [service_of EXCEPT ![r] = task[t].service],
             pending_ready' = pending_ready \cup {r},
             Hold(t, "insert", r)
      PROVE  Base'
  <2>1. Becomes(t, "insert", r, task[t].result)
    BY <1>0, <1>2, HoldFields
  <2>2. Types'
    BY <1>0, <1>2, <2>1 DEF SpawnRunner, Becomes, Types
  <2>3. service_of[r] \notin Services
    BY <1>2 DEF Base, RunnerKnown
  <2>4. RunnerKnown'
    <3>0. inner' = inner
      BY DEF SpawnRunner
    <3>1. \A s \in Services : inner[s] # r
      BY <2>3 DEF Base, RunnerKnown
    <3>2. \A u \in Tasks : task[u].runner # r
      <4> SUFFICES ASSUME NEW u \in Tasks, task[u].runner = r PROVE FALSE
        OBVIOUS
      <4>1. service_of[r] = task[u].service
        BY DEF Base, RunnerKnown
      <4> QED
        BY <2>3, <4>1 DEF Base, LabelsOK, LabelOK
    <3>3. \A v \in Runners \ {r} : service_of'[v] = service_of[v]
                                  /\ process'[v] = process[v]
      BY <1>0, <1>2 DEF Types
    <3>4. service_of'[r] = task[t].service /\ process'[r] = "live"
      BY <1>0, <1>2 DEF Types
    <3>5. \A u \in Tasks : task'[u].runner # NoRunner
                  => service_of'[task'[u].runner] = task'[u].service
      <4> SUFFICES ASSUME NEW u \in Tasks, task'[u].runner # NoRunner
                   PROVE  service_of'[task'[u].runner] = task'[u].service
        OBVIOUS
      <4>1. CASE u = t
        BY <2>1, <3>4, <4>1 DEF Becomes
      <4>2. CASE u # t
        <5>1. task[u].runner \in Runners \ {r} /\ task'[u] = task[u]
          BY <1>0, <2>1, <3>2, <4>2 DEF Becomes, Task
        <5> QED
          BY ZenonT(30), <3>3, <5>1 DEF Base, RunnerKnown
      <4> QED
        BY <4>1, <4>2
    <3>6. \A s \in Services : inner'[s] # NoRunner => service_of'[inner'[s]] = s
      BY ZenonT(30), <1>0, <3>0, <3>1, <3>3 DEF Base, RunnerKnown, Types
    <3>7. \A v \in Runners : service_of'[v] \in Services <=> process'[v] # "unborn"
      BY <1>0, <3>3, <3>4 DEF Base, RunnerKnown
    <3> QED
      BY <3>5, <3>6, <3>7 DEF RunnerKnown
  <2>5. LabelsOK'
    <3> SUFFICES ASSUME NEW u \in Tasks PROVE LabelOK(task'[u])
      BY DEF LabelsOK
    <3>1. CASE u = t
      BY <1>0, <2>1, <3>1 DEF Becomes, LabelsOK, LabelOK, StartOp, Op
    <3>2. CASE u # t
      BY <2>1, <3>2 DEF Becomes, LabelsOK, Base
    <3> QED
      BY <3>1, <3>2
  <2>6. RequestsOK'
    <3>1. UNCHANGED <<request, announced, is_ready>>
      BY DEF SpawnRunner
    <3>2. \A v \in Runners : service_of[v] \in Services => service_of'[v] = service_of[v]
      BY <1>0, <1>2, <2>3 DEF Types
    <3> QED
      BY <3>1, <3>2 DEF RequestsOK, Base
  <2>7. ReadyOK'
    BY ZenonT(30), <1>0, <2>1 DEF SpawnRunner, Becomes, ReadyOK, Base
  <2> QED
    BY <2>2, <2>4, <2>5, <2>6, <2>7 DEF Base
<1> QED
  BY <1>1, <1>2 DEF SpawnRunner

\* Steps of start.
LEMMA StartKeepsBase ==
  ASSUME Base, NEW t \in Tasks, StartStep(t)
  PROVE  Base'
<1> USE Labels DEF RunnerPC, HeldPC, BarePC, StopPC, StartPC, ReservedPC, ReadyVars,
                   ProcessVars, DaemonVars
<1> DEFINE r == inner[task[t].service]
<1>0. /\ Types /\ task \in [Tasks -> Task] /\ task[t].service \in Services
      /\ task[t].op \in StartOp /\ task[t].pc \in StartPC
      /\ r # NoRunner => r \in Runners /\ service_of[r] = task[t].service
      /\ task[t].runner # NoRunner => service_of[task[t].runner] = task[t].service
      /\ task[t].runner \in Runners \cup {NoRunner}
      /\ task[t].pc \in RunnerPC => task[t].runner # NoRunner
  BY ZenonT(30) DEF StartStep, ReapFirst, ReserveStart, ReapAgain, CheckRunning, SpawnRunner,
         InsertService, UpsertIndex, WriteBootstrap, WaitReady, RemovePending,
         CleanupFailure, CleanupKill, CleanupWait, ReleaseStart, ReapFinished,
         Base, Types, RunnerKnown, LabelsOK, LabelOK, Task
<1>1. CASE ReapFirst(t) \/ ReapAgain(t)
  BY <1>1, ReapKeepsBase DEF ReapFirst, ReapAgain
<1>2. CASE SpawnRunner(t)
  BY <1>2, SpawnKeepsBase
<1>3. CASE ReserveStart(t)
  <2>1. \/ Becomes(t, "reap again", task[t].runner, task[t].result)
        \/ Becomes(t, "done", task[t].runner, "busy")
    BY <1>0, <1>3, GotoFields, EndFields DEF ReserveStart, Result
  <2>2. Types'
    BY ZenonT(30), <1>0, <1>3, <2>1 DEF ReserveStart, Becomes, Types
  <2> QED
    BY <1>0, <1>3, <2>1, <2>2, CallKeepsBase DEF ReserveStart, Base, LabelsOK, LabelOK, RunnerKnown, ReadyOK, Types
<1>4. CASE CheckRunning(t)
  <2>1. \/ Becomes(t, "release", task[t].runner, "busy")
        \/ Becomes(t, "spawn", task[t].runner, task[t].result)
    BY <1>0, <1>4, GotoFields, ResultFields DEF CheckRunning, Result, after_busy
  <2>2. Types'
    BY <1>0, <1>4, <2>1 DEF CheckRunning, Becomes, Types
  <2> QED
    BY <1>0, <1>4, <2>1, <2>2, CallKeepsBase DEF CheckRunning, Base, LabelsOK, LabelOK, RunnerKnown, ReadyOK, Types
<1>5. CASE InsertService(t)
  <2>1. Becomes(t, "index", task[t].runner, task[t].result)
    BY <1>0, <1>5, GotoFields DEF InsertService
  <2>2. Types'
    BY <1>0, <1>5, <2>1 DEF InsertService, Becomes, Types
  <2> QED
    BY <1>0, <1>5, <2>1, <2>2, CallKeepsBase DEF InsertService, Base, LabelsOK, LabelOK, RunnerKnown, ReadyOK, Types
<1>6. CASE UpsertIndex(t)
  <2>1. Becomes(t, "bootstrap", task[t].runner, task[t].result)
    BY <1>0, <1>6, GotoFields DEF UpsertIndex
  <2>2. Types'
    BY <1>0, <1>6, <2>1 DEF UpsertIndex, Becomes, Types
  <2> QED
    BY <1>0, <1>6, <2>1, <2>2, CallKeepsBase DEF UpsertIndex, Base, LabelsOK, LabelOK, RunnerKnown, ReadyOK, Types
<1>7. CASE WriteBootstrap(t)
  <2>1. \/ Becomes(t, "wait", task[t].runner, task[t].result)
        \/ Becomes(t, "unpend", task[t].runner, "failed")
    BY <1>0, <1>7, GotoFields, ResultFields DEF WriteBootstrap, Result
  <2>2. Types'
    BY <1>0, <1>7, <2>1 DEF WriteBootstrap, Becomes, Types
  <2> QED
    BY <1>0, <1>7, <2>1, <2>2, CallKeepsBase DEF WriteBootstrap, Base, LabelsOK, LabelOK, RunnerKnown, ReadyOK, Types
<1>8. CASE WaitReady(t)
  <2>1. PICK x \in Result :
          /\ \/ task[t].runner \in ready_rx /\ x = "ok"
             \/ exit_seen(task[t].service) /\ x = "exited before ready"
             \/ x = timeout_result(task[t].runner)
          /\ task' = [task EXCEPT ![t].pc = "unpend", ![t].result = x]
    BY <1>8 DEF WaitReady
  <2>2. Becomes(t, "unpend", task[t].runner, x)
    BY <1>0, <2>1, ResultFields
  <2>3. x = "ok" => task[t].runner \in is_ready
    BY <2>1 DEF timeout_result, Base, ReadyOK
  <2>4. Types'
    BY <1>0, <1>8, <2>2 DEF WaitReady, Becomes, Types
  <2> QED
    BY <1>0, <1>8, <2>2, <2>3, <2>4, CallKeepsBase DEF WaitReady, Base, LabelsOK, LabelOK, RunnerKnown, ReadyOK, Types
<1>9. CASE RemovePending(t)
  <2>1. Becomes(t, IF task[t].result = "ok" THEN "release" ELSE "cleanup",
                task[t].runner, task[t].result)
    BY <1>0, <1>9, GotoFields DEF RemovePending
  <2>2. Types'
    BY <1>0, <1>9, <2>1 DEF RemovePending, Becomes, Types, without_sender
  <2> QED
    BY <1>0, <1>9, <2>1, <2>2, CallKeepsBase DEF RemovePending, Base, LabelsOK, LabelOK, RunnerKnown, ReadyOK, Types
<1>10. CASE CleanupFailure(t)
  <2>1. \/ Becomes(t, "release", task[t].runner, task[t].result) /\ UNCHANGED inner
        \/ Becomes(t, "condemned", r, task[t].result) /\ r # NoRunner
    BY <1>0, <1>10, GotoFields, HoldFields DEF CleanupFailure
  <2>2. Types'
    BY <1>0, <1>10, <2>1 DEF CleanupFailure, Becomes, Types
  <2> QED
    BY ZenonT(30), <1>0, <1>10, <2>1, <2>2, CallKeepsBase DEF CleanupFailure, Base, LabelsOK, LabelOK, RunnerKnown, ReadyOK, Types
<1>11. CASE CleanupKill(t)
  <2>1. Becomes(t, "cleaning", task[t].runner, task[t].result)
    BY <1>0, <1>11, GotoFields DEF CleanupKill, after_cleanup_kill
  <2>2. Types'
    BY <1>0, <1>11, <2>1 DEF CleanupKill, Becomes, Types, start_kill
  <2> QED
    BY <1>0, <1>11, <2>1, <2>2, CallKeepsBase DEF CleanupKill, start_kill, Base, LabelsOK, LabelOK, RunnerKnown, ReadyOK, Types
<1>12. CASE CleanupWait(t)
  <2>1. Becomes(t, "release", task[t].runner, task[t].result)
    BY <1>0, <1>12, GotoFields DEF CleanupWait
  <2>2. Types'
    BY <1>0, <1>12, <2>1 DEF CleanupWait, Becomes, Types
  <2> QED
    BY <1>0, <1>12, <2>1, <2>2, CallKeepsBase DEF CleanupWait, Base, LabelsOK, LabelOK, RunnerKnown, ReadyOK, Types
<1>13. CASE ReleaseStart(t)
  <2>1. Becomes(t, "done", task[t].runner, task[t].result)
    BY <1>0, <1>13, GotoFields DEF ReleaseStart
  <2>2. Types'
    BY <1>0, <1>13, <2>1 DEF ReleaseStart, Becomes, Types
  <2> QED
    BY <1>0, <1>13, <2>1, <2>2, CallKeepsBase DEF ReleaseStart, Base, LabelsOK, LabelOK, RunnerKnown, ReadyOK, Types
<1> QED
  BY <1>1, <1>2, <1>3, <1>4, <1>5, <1>6, <1>7, <1>8, <1>9, <1>10, <1>11, <1>12,
     <1>13 DEF StartStep

\* Steps of stop.
LEMMA StopKeepsBase ==
  ASSUME Base, NEW t \in Tasks, StopStep(t) \/ KillFails(t)
  PROVE  Base'
<1> DEFINE r == inner[task[t].service]
<1>a. /\ Types /\ task \in [Tasks -> Task]
      /\ task[t].runner \in Runners \cup {NoRunner} /\ task[t].result \in Result
  BY DEF Base, Types, Task
<1>b. task[t].pc \in StopPC
  BY DEF StopStep, KillFails, TakeRunning, UnindexTaken, GracefulShutdown, AwaitExit,
         Kill, KillWait, RestoreService, ReindexRestored, StopPC
<1>c. /\ task[t].service \in Services /\ task[t].op \in Op /\ task[t].op # "start"
      /\ task[t].pc \in RunnerPC => task[t].runner # NoRunner
  BY <1>b DEF Base, LabelsOK, LabelOK, StopPC
<1>d. /\ r # NoRunner => r \in Runners /\ service_of[r] = task[t].service
      /\ task[t].runner # NoRunner => service_of[task[t].runner] = task[t].service
  BY <1>a, <1>c DEF Base, RunnerKnown, Types
<1>e. task[t].result # "ok"
  BY <1>b DEF Base, ReadyOK, StopPC
<1>f. \A s \in Services : \/ inner'[s] \in {inner[s], NoRunner}
                          \/ s = task[t].service /\ inner'[s] = task[t].runner
  <2>1. \/ UNCHANGED inner
        \/ inner' = [inner EXCEPT ![task[t].service] = NoRunner]
        \/ inner' = [inner EXCEPT ![task[t].service] = task[t].runner]
    BY DEF StopStep, KillFails, TakeRunning, UnindexTaken, GracefulShutdown, AwaitExit,
           Kill, KillWait, RestoreService, ReindexRestored
  <2> QED
    BY <1>a, <1>c, <2>1 DEF Types
<1>g. failures' = failures + 1 /\ failures < MaxKillFailures
        => failures' \in 0..MaxKillFailures
  BY <1>a DEF Types
<1>0. Types /\ task \in [Tasks -> Task]
  BY <1>a
<1> USE Labels DEF RunnerPC, HeldPC, BarePC, StopPC, StartPC, ReservedPC, ReadyVars,
                   ProcessVars, DaemonVars
<1>1. CASE TakeRunning(t)
  <2>1. \/ task[t].op = "replace" /\ Becomes(t, "reap", NoRunner, task[t].result)
        \/ task[t].op # "replace" /\ Becomes(t, "done", task[t].runner, "not found")
        \/ r # NoRunner /\ Becomes(t, "taken", r, task[t].result)
    BY <1>a, <1>b, <1>c, <1>d, <1>1, StopEndsFields, HoldFields DEF TakeRunning, Result
  <2>2. Types'
    BY <1>a, <1>c, <1>d, <1>1, <2>1 DEF TakeRunning, Becomes, Types
  <2> QED
    BY <1>a, <1>b, <1>c, <1>d, <1>e, <1>f, <1>1, <2>1, <2>2, CallKeepsBase
       DEF TakeRunning, Op, StartOp
<1>2. CASE UnindexTaken(t)
  <2>1. \/ task[t].op = "replace" /\ Becomes(t, "reap", NoRunner, task[t].result)
        \/ task[t].op # "replace" /\ Becomes(t, "done", task[t].runner, "not found")
        \/ Becomes(t, "kill", task[t].runner, task[t].result)
        \/ Becomes(t, "graceful", task[t].runner, task[t].result)
    BY <1>a, <1>b, <1>c, <1>d, <1>2, StopEndsFields, GotoFields DEF UnindexTaken, Result
  <2>2. Types'
    BY <1>a, <1>c, <1>d, <1>2, <2>1 DEF UnindexTaken, Becomes, Types
  <2> QED
    BY <1>a, <1>b, <1>c, <1>d, <1>e, <1>f, <1>2, <2>1, <2>2, CallKeepsBase
       DEF UnindexTaken, Op, StartOp
<1>3. CASE GracefulShutdown(t)
  <2>1. \/ Becomes(t, "grace", task[t].runner, task[t].result)
        \/ Becomes(t, "kill", task[t].runner, task[t].result)
    BY <1>a, <1>b, <1>c, <1>d, <1>3, GotoFields DEF GracefulShutdown, Result
  <2>2. Types'
    BY <1>a, <1>c, <1>d, <1>3, <2>1 DEF GracefulShutdown, Becomes, Types
  <2> QED
    BY <1>a, <1>b, <1>c, <1>d, <1>e, <1>f, <1>3, <2>1, <2>2, CallKeepsBase
       DEF GracefulShutdown, Op, StartOp
<1>4. CASE AwaitExit(t)
  <2>1. \/ task[t].op = "replace" /\ Becomes(t, "reap", NoRunner, task[t].result)
        \/ task[t].op # "replace" /\ Becomes(t, "done", task[t].runner, "ok")
        \/ Becomes(t, "kill", task[t].runner, task[t].result)
    BY <1>a, <1>b, <1>c, <1>d, <1>4, StopEndsFields, GotoFields DEF AwaitExit, Result
  <2>2. Types'
    BY <1>a, <1>c, <1>d, <1>4, <2>1 DEF AwaitExit, Becomes, Types
  <2> QED
    BY <1>a, <1>b, <1>c, <1>d, <1>e, <1>f, <1>4, <2>1, <2>2, CallKeepsBase
       DEF AwaitExit, Op, StartOp
<1>5. CASE Kill(t)
  <2>1. \/ Becomes(t, "killing", task[t].runner, task[t].result)
    BY <1>a, <1>b, <1>c, <1>d, <1>5, GotoFields DEF Kill, Result
  <2>2. Types'
    BY <1>a, <1>c, <1>d, <1>5, <2>1 DEF Kill, Becomes, Types, start_kill
  <2> QED
    BY <1>a, <1>b, <1>c, <1>d, <1>e, <1>f, <1>5, <2>1, <2>2, CallKeepsBase
       DEF Kill, Op, StartOp, start_kill, Types
<1>6. CASE KillWait(t)
  <2>1. \/ task[t].op = "replace" /\ Becomes(t, "reap", NoRunner, task[t].result)
        \/ task[t].op # "replace" /\ Becomes(t, "done", task[t].runner, "ok")
        \/ Becomes(t, "done", task[t].runner, "failed")
    BY <1>a, <1>b, <1>c, <1>d, <1>6, StopEndsFields, EndFields DEF KillWait, Result
  <2>2. Types'
    BY <1>a, <1>c, <1>d, <1>6, <2>1 DEF KillWait, Becomes, Types
  <2> QED
    BY <1>a, <1>b, <1>c, <1>d, <1>e, <1>f, <1>6, <2>1, <2>2, CallKeepsBase
       DEF KillWait, Op, StartOp
<1>7. CASE KillFails(t)
  <2>1. \/ Becomes(t, "restore", task[t].runner, "failed")
        \/ Becomes(t, "done", task[t].runner, "failed")
    BY <1>a, <1>b, <1>c, <1>d, <1>7, ResultFields, EndFields DEF KillFails, Result
  <2>2. Types'
    <3>1. task' \in [Tasks -> Task]
      BY <2>1 DEF Becomes
    <3>2. failures' \in 0..MaxKillFailures
      BY <1>g, <1>7 DEF KillFails
    <3> QED
      BY <1>a, <1>7, <3>1, <3>2 DEF KillFails, Types
  <2> QED
    BY <1>a, <1>b, <1>c, <1>d, <1>e, <1>f, <1>7, <2>1, <2>2, CallKeepsBase
       DEF KillFails, Op, StartOp
<1>8. CASE RestoreService(t)
  <2>1. \/ Becomes(t, "done", task[t].runner, "failed")
        \/ Becomes(t, "reindex", task[t].runner, task[t].result)
        \/ Becomes(t, "displaced", task[t].runner, task[t].result)
    BY <1>a, <1>b, <1>c, <1>d, <1>8, GotoFields, EndFields DEF RestoreService, Result
  <2>2. Types'
    BY <1>a, <1>c, <1>d, <1>8, <2>1 DEF RestoreService, Becomes, Types
  <2> QED
    BY <1>a, <1>b, <1>c, <1>d, <1>e, <1>f, <1>8, <2>1, <2>2, CallKeepsBase
       DEF RestoreService, Op, StartOp
<1>9. CASE ReindexRestored(t)
  <2>1. \/ Becomes(t, "done", task[t].runner, "failed")
    BY <1>a, <1>b, <1>c, <1>d, <1>9, EndFields DEF ReindexRestored, Result
  <2>2. Types'
    BY <1>a, <1>c, <1>d, <1>9, <2>1 DEF ReindexRestored, Becomes, Types
  <2> QED
    BY <1>a, <1>b, <1>c, <1>d, <1>e, <1>f, <1>9, <2>1, <2>2, CallKeepsBase
       DEF ReindexRestored, Op, StartOp
<1> QED
  BY <1>1, <1>2, <1>3, <1>4, <1>5, <1>6, <1>7, <1>8, <1>9 DEF StopStep

\* Callers come and go.
LEMMA CallersKeepBase ==
  ASSUME Base, NEW t \in Tasks,
         \/ \E s \in Services : StopOne(t, s) \/ \E op \in Ops : Call(t, op, s)
         \/ Return(t) \/ Abort(t)
  PROVE  Base'
<1>0. /\ Types /\ task \in [Tasks -> Task]
      /\ UNCHANGED <<inner, service_of, runner_index, starting_services, failures,
                     request, reaping, is_ready, pending_ready, ready_rx, process,
                     bootstrapped, announced>>
  BY DEF Base, Types, StopOne, Call, Return, Abort, ReadyVars, ProcessVars, DaemonVars,
         ShutdownVars
<1>1. phase' = phase /\ to_stop' \subseteq Services /\ aborts' \in 0..MaxAborts
  <2>1. phase' = phase /\ to_stop' \subseteq to_stop
    BY DEF StopOne, Call, Return, Abort, DaemonVars
  <2>2. aborts' = aborts \/ (aborts < MaxAborts /\ aborts' = aborts + 1)
    BY DEF StopOne, Call, Return, Abort, DaemonVars, ShutdownVars
  <2>3. aborts \in 0..MaxAborts /\ to_stop \subseteq Services
    BY <1>0 DEF Types
  <2> QED
    BY <2>1, <2>2, <2>3
<1>2. CASE Return(t) \/ Abort(t)
  <2>1. /\ task' \in [Tasks -> Task]
        /\ \A u \in Tasks \ {t} : task'[u] = task[u]
        /\ task'[t] = NoTask
    BY <1>0, <1>2, FreeFields DEF Return, Abort
  <2>2. Types'
    BY <1>0, <1>1, <2>1 DEF Types
  <2>3. RunnerKnown' /\ RequestsOK' /\ ReadyOK'
    BY <1>0, <2>1 DEF Base, RunnerKnown, RequestsOK, ReadyOK, NoTask
  <2>4. LabelsOK'
    <3>1. LabelOK(task'[t])
      BY <2>1 DEF LabelOK, NoTask, RunnerPC, HeldPC, BarePC, StopPC, StartPC, ReservedPC
    <3> QED
      BY <2>1, <3>1 DEF Base, LabelsOK
  <2> QED
    BY <2>2, <2>3, <2>4 DEF Base
<1>3. ASSUME NEW s \in Services, NEW op \in Op, BeginCall(t, op, s)
      PROVE  Base'
  <2>1. /\ task' \in [Tasks -> Task]
        /\ \A u \in Tasks \ {t} : task'[u] = task[u]
        /\ task'[t].pc = FirstPC(op) /\ task'[t].op = op
        /\ task'[t].service = s /\ task'[t].runner = NoRunner
        /\ task'[t].result = "none"
    BY <1>0, <1>3, BeginFields
  <2>2. Types'
    BY <1>0, <1>1, <2>1 DEF Types
  <2>3. RunnerKnown' /\ RequestsOK' /\ ReadyOK'
    BY <1>0, <2>1 DEF Base, RunnerKnown, RequestsOK, ReadyOK
  <2>4. LabelsOK'
    <3>1. LabelOK(task'[t])
      BY <2>1 DEF LabelOK, FirstPC, Op, StartOp, RunnerPC, HeldPC, BarePC, StopPC,
                  StartPC, ReservedPC
    <3> QED
      BY <2>1, <3>1 DEF Base, LabelsOK
  <2> QED
    BY <2>2, <2>3, <2>4 DEF Base
<1>4. "stop" \in Op /\ "force stop" \in Op
  BY DEF Op
<1> QED
  BY <1>2, <1>3, <1>4 DEF StopOne, Call

\* Control requests.
LEMMA RequestsKeepBase ==
  ASSUME Base, NEW q \in Requests,
         \/ RequestStep(q)
         \/ \E r \in Runners, ready \in BOOLEAN : SendRequest(q, r, ready)
  PROVE  Base'
<1> USE DEF RequestVars, ReadyVars
<1>0. Types /\ request \in [Requests -> Request]
  BY DEF Base, Types
<1>1. ASSUME NEW pc \in RequestPC, RequestGoto(q, pc)
      PROVE  /\ request' \in [Requests -> Request]
             /\ \A p \in Requests \ {q} : request'[p] = request[p]
             /\ pc = "idle" => request'[q] = NoRequest
             /\ pc # "idle" => /\ request'[q].pc = pc
                               /\ request'[q].runner = request[q].runner
                               /\ request'[q].ready = request[q].ready
  BY <1>0, <1>1 DEF RequestGoto, Request, NoRequest, RequestPC
<1>2. ASSUME request' \in [Requests -> Request], Types',
             \A p \in Requests \ {q} : request'[p] = request[p],
             \/ request'[q] = NoRequest
             \/ /\ request'[q].runner \in Runners
                /\ service_of[request'[q].runner] \in Services
                /\ request'[q].ready => request'[q].runner \in announced'
                /\ request'[q].pc = "signal" => request'[q].runner \in is_ready',
             is_ready \subseteq is_ready', announced \subseteq announced',
             is_ready' \subseteq announced', ready_rx' \subseteq is_ready',
             UNCHANGED <<inner, service_of, process, task>>
      PROVE  Base'
  <2>1. RunnerKnown' /\ LabelsOK'
    BY <1>2 DEF Base, RunnerKnown, LabelsOK, LabelOK
  <2>2. RequestsOK'
    BY <1>2 DEF Base, RequestsOK, NoRequest
  <2>3. ReadyOK'
    BY <1>2 DEF Base, ReadyOK
  <2> QED
    BY <1>2, <2>1, <2>2, <2>3 DEF Base
<1>3. CASE RequestStep(q)
  <2>0. /\ request[q].pc # "idle" /\ request[q].runner \in Runners
        /\ service_of[request[q].runner] \in Services
        /\ request[q].ready => request[q].runner \in announced
        /\ request[q].pc = "signal" => request[q].runner \in is_ready
    BY <1>3 DEF RequestStep, ResolveIndexed, ForgetIndexed, RememberIndexed,
                ApplyRequest, SignalReady, Base, RequestsOK
  <2> DEFINE r == request[q].runner
  <2>1. CASE ResolveIndexed(q)
    <3>1. PICK pc \in RequestPC : RequestGoto(q, pc) /\ pc # "signal"
      BY <2>1 DEF ResolveIndexed, RequestPC
    <3>2. Types'
      BY <1>0, <1>1, <2>1, <3>1 DEF ResolveIndexed, Types
    <3> QED
      BY <1>0, <1>1, <1>2, <2>0, <2>1, <3>1, <3>2 DEF ResolveIndexed, Base, ReadyOK
  <2>2. CASE ForgetIndexed(q) \/ RememberIndexed(q)
    <3>1. PICK pc \in RequestPC : RequestGoto(q, pc) /\ pc # "signal"
      BY <2>2 DEF ForgetIndexed, RememberIndexed, RequestPC
    <3>2. Types'
      BY <1>0, <1>1, <2>0, <2>2, <3>1 DEF ForgetIndexed, RememberIndexed, Types
    <3> QED
      BY <1>0, <1>1, <1>2, <2>0, <2>2, <3>1, <3>2
         DEF ForgetIndexed, RememberIndexed, Base, ReadyOK
  <2>3. CASE ApplyRequest(q)
    <3>1. PICK pc \in RequestPC :
            /\ RequestGoto(q, pc)
            /\ \/ pc # "signal" /\ is_ready' = is_ready
               \/ /\ request[q].ready /\ inner[service_of[r]] = r
                  /\ is_ready' = is_ready \cup {r}
      BY <2>3 DEF ApplyRequest, is_current, RequestPC
    <3>2. Types'
      BY <1>0, <1>1, <2>0, <2>3, <3>1 DEF ApplyRequest, Types
    <3> QED
      BY <1>0, <1>1, <1>2, <2>0, <2>3, <3>1, <3>2 DEF ApplyRequest, Base, ReadyOK
  <2>4. CASE SignalReady(q)
    <3>1. RequestGoto(q, "idle") /\ "idle" \in RequestPC
      BY <2>4 DEF SignalReady, RequestPC
    <3>2. ready_rx' \subseteq ready_rx \cup {r}
      BY <2>4 DEF SignalReady
    <3>3. request[q].pc = "signal"
      BY <2>4 DEF SignalReady
    <3>4. Types'
      BY <1>0, <1>1, <2>0, <2>4, <3>1, <3>2 DEF SignalReady, Types
    <3> QED
      BY <1>0, <1>1, <1>2, <2>0, <2>4, <3>1, <3>2, <3>3, <3>4
         DEF SignalReady, Base, ReadyOK
  <2> QED
    BY <1>3, <2>1, <2>2, <2>3, <2>4 DEF RequestStep
<1>4. ASSUME NEW r \in Runners, NEW ready \in BOOLEAN, SendRequest(q, r, ready)
      PROVE  Base'
  <2>1. /\ request' \in [Requests -> Request]
        /\ \A p \in Requests \ {q} : request'[p] = request[p]
        /\ request'[q].pc = "index" /\ request'[q].runner = r
        /\ request'[q].ready = ready
    BY <1>0, <1>4 DEF SendRequest, Request, RequestPC
  <2>2. service_of[r] \in Services
    BY <1>4 DEF SendRequest, Alive, Base, RunnerKnown
  <2>3. announced' = announced \cup (IF ready THEN {r} ELSE {})
    BY <1>4 DEF SendRequest
  <2>4. Types'
    BY <1>0, <1>4, <2>1, <2>3 DEF SendRequest, Types
  <2> QED
    BY <1>0, <1>2, <1>4, <2>1, <2>2, <2>3, <2>4 DEF SendRequest, Base, ReadyOK
<1> QED
  BY <1>3, <1>4

\* Exits, the maintenance task and the shutdown.
LEMMA DaemonKeepsBase ==
  ASSUME Base,
         \/ \E r \in Runners : RunnerExit(r) \/ UnindexReaped(r)
         \/ Maintain \/ BeginShutdown \/ StopAll \/ Terminated
  PROVE  Base'
<1> USE DEF ReadyVars, ProcessVars, DaemonVars, ShutdownVars
<1>0. /\ UNCHANGED <<service_of, task, request, is_ready, announced, ready_rx,
                     pending_ready, bootstrapped, starting_services, failures, aborts>>
      /\ Types
  BY DEF RunnerExit, UnindexReaped, Maintain, BeginShutdown, StopAll, Terminated, vars,
         Base
<1>1. \A v \in Runners : process'[v] = "unborn" <=> process[v] = "unborn"
  BY <1>0 DEF RunnerExit, UnindexReaped, Maintain, BeginShutdown, StopAll, Terminated,
              vars, Types, Alive
<1>2. \A s \in Services : inner'[s] \in {inner[s], NoRunner}
  BY <1>0 DEF RunnerExit, UnindexReaped, Maintain, BeginShutdown, StopAll, Terminated,
              vars, Types
<1>3. Types'
  <2>1. CASE \E r \in Runners : RunnerExit(r) \/ UnindexReaped(r)
    BY <1>0, <2>1 DEF RunnerExit, UnindexReaped, Types
  <2>2. CASE Maintain
    BY <1>0, <2>2 DEF Maintain, Types, Exited
  <2>3. CASE BeginShutdown \/ StopAll
    BY <1>0, <2>3 DEF BeginShutdown, StopAll, Types, Phases, live_names
  <2>4. CASE Terminated
    BY <1>0, <2>4 DEF Terminated, vars, Types
  <2> QED
    BY <2>1, <2>2, <2>3, <2>4
<1>4. RunnerKnown'
  BY <1>0, <1>1, <1>2 DEF Base, RunnerKnown, Types
<1>5. LabelsOK' /\ RequestsOK' /\ ReadyOK'
  BY <1>0 DEF Base, LabelsOK, LabelOK, RequestsOK, ReadyOK
<1> QED
  BY <1>3, <1>4, <1>5 DEF Base

\* Base is inductive.
LEMMA BaseStep == Base /\ [Next]_vars => Base'
<1> SUFFICES ASSUME Base, [Next]_vars PROVE Base'
  OBVIOUS
<1>1. CASE UNCHANGED vars
  BY <1>1 DEF vars, Base, Types, RunnerKnown, LabelsOK, LabelOK, RequestsOK, ReadyOK
<1>2. CASE Next
  BY <1>2, StartKeepsBase, StopKeepsBase, CallersKeepBase, RequestsKeepBase,
     DaemonKeepsBase DEF Next
<1> QED
  BY <1>1, <1>2

\* Base holds in every reachable state.
LEMMA BaseAlways == Spec => []Base
<1> QED
  BY BaseInit, BaseStep, PTL DEF Spec

\* The state is what the tables of the supervisor can hold, and inner tracks
\* every runner under the service it was launched for.
THEOREM TypeCorrect == Spec => []TypeOK
<1>1. Base => TypeOK
  BY DEF Base, Types, RunnerKnown, TypeOK
<1> QED
  BY <1>1, BaseAlways, PTL

\* Readiness is never claimed for a process that did not announce it, however
\* requests, replacements, timeouts and aborted callers interleave.
THEOREM ReadyClaimsAreTrue == Spec => []ReadyIsTrue
<1>1. Base => ReadyIsTrue
  BY DEF Base, ReadyOK, ReadyIsTrue, ReadyIsOwn, StartedIsReady, StartOp
<1> QED
  BY <1>1, BaseAlways, PTL

-----------------------------------------------------------------------------
(* What holds as long as no caller has been aborted.                       *)

\* The command gate, and stop_all after the drain: one call per service.
OneCall ==
  /\ \A t, u \in Tasks :
       task[t].service = task[u].service /\ task[t].service \in Services => t = u
  /\ \A t \in Tasks : task[t].service \notin to_stop
  /\ to_stop # {} => phase \in {"stopping", "forcing"}

\* starting_services and pending_ready belong to the starts under way.
Reserved ==
  /\ \A s \in Services :
       s \in starting_services
         <=> \E t \in Tasks : task[t].pc \in ReservedPC /\ task[t].service = s
  /\ \A r \in pending_ready : awaited(r)

\* A live process is in inner or in the hands of one call, which then finds the
\* place of its service in inner empty; so a failed stop can always put it back.
Kept ==
  /\ \A r \in Runners : Alive(r) =>
       \/ inner[service_of[r]] = r
       \/ \E t \in Tasks : task[t].pc \in HeldPC /\ task[t].runner = r
  /\ \A t \in Tasks :
       task[t].pc \in HeldPC \cup {"spawn"} => inner[task[t].service] = NoRunner
  /\ \A t \in Tasks : task[t].pc # "displaced"
  /\ \A t \in Tasks :
       task[t].pc \in StopPC \ {"restore", "reindex"} => task[t].result # "failed"

\* Once stop_all has begun there are only stops; a second pass means that the
\* first one met a failure.
Ending == {"stopping", "forcing", "down"}
StopsOnly ==
  /\ phase \in Ending => \A t \in Tasks : /\ task[t].pc \in StopPC \cup {"idle", "done"}
                                          /\ task[t].op # "replace"
  /\ phase = "forcing" => failures >= 1
  /\ phase = "down" => \A t \in Tasks : task[t].pc = "idle"

\* Until a pass has met a failure of its own, a service that it has dealt with
\* is not in inner.
Spare == IF phase = "stopping" THEN 1 ELSE 2
Emptied ==
  phase \in Ending /\ failures < Spare =>
    /\ \A t \in Tasks : task[t].pc # "restore"
    /\ \A s \in Services : inner[s] # NoRunner =>
         s \in to_stop \/ \E t \in Tasks : task[t].service = s /\ task[t].pc = "take"

Calm == OneCall /\ Reserved /\ Kept /\ StopsOnly /\ Emptied

\* Initially nothing is reserved and nothing lives.
LEMMA CalmInit == Init => Calm
<1> SUFFICES ASSUME Init PROVE Calm
  OBVIOUS
<1> USE DEF Init, NoTask
<1>1. OneCall /\ Reserved
  BY DEF OneCall, Reserved, ReservedPC
<1>2. Kept
  BY DEF Kept, Alive, HeldPC, StopPC
<1>3. StopsOnly /\ Emptied
  BY DEF StopsOnly, Emptied, Ending
<1> QED
  BY <1>1, <1>2, <1>3 DEF Calm

\* A live process of the service of a call is in inner or held by that call.
LEMMA CallOwns ==
  ASSUME Base, Calm, NEW t \in Tasks, task[t].pc # "idle", NEW v \in Runners,
         Alive(v), service_of[v] = task[t].service
  PROVE  \/ inner[task[t].service] = v
         \/ task[t].pc \in HeldPC /\ task[t].runner = v
<1>1. CASE inner[service_of[v]] = v
  BY <1>1
<1>2. CASE \E u \in Tasks : task[u].pc \in HeldPC /\ task[u].runner = v
  <2>1. PICK u \in Tasks : task[u].pc \in HeldPC /\ task[u].runner = v
    BY <1>2
  <2>2. task[u].service = task[t].service
    BY <2>1 DEF Base, RunnerKnown
  <2>3. task[t].service \in Services
    BY DEF Base, LabelsOK, LabelOK
  <2>4. u = t
    BY <2>2, <2>3 DEF Calm, OneCall
  <2> QED
    BY <2>1, <2>4
<1> QED
  BY <1>1, <1>2 DEF Calm, Kept

\* What a step of the call of t to label pc has to show about the reservation ...
KeepsReservation(t, pc, r) ==
  /\ \A s \in Services \ {task[t].service} :
       s \in starting_services' <=> s \in starting_services
  /\ task[t].service \in starting_services' <=> pc \in ReservedPC
  /\ \A p \in pending_ready' :
       \/ p = r /\ pc \in AwaitPC
       \/ /\ p \in pending_ready
          /\ ~(task[t].pc \in AwaitPC /\ task[t].runner = p)

\* ... about the processes ...
KeepsProcesses(t, pc, r) ==
  /\ \A s \in Services \ {task[t].service} : inner'[s] = inner[s]
  /\ \A v \in Runners : Alive(v)' /\ service_of'[v] # task[t].service
                          => Alive(v) /\ service_of'[v] = service_of[v]
  /\ \A v \in Runners : Alive(v)' /\ service_of'[v] = task[t].service
       => inner'[task[t].service] = v \/ (v = r /\ pc \in HeldPC)
  /\ pc \in HeldPC \cup {"spawn"} => inner'[task[t].service] = NoRunner

\* ... and about the shutdown.
KeepsShutdown(t, pc, x) ==
  /\ UNCHANGED <<phase, to_stop>> /\ failures' >= failures
  /\ pc \in StopPC \ {"restore", "reindex"} => x # "failed"
  /\ phase \in Ending => pc \in StopPC \cup {"done"}
  /\ phase \in Ending /\ failures' < Spare =>
       pc # "restore" /\ (inner'[task[t].service] # NoRunner => pc = "take")

\* A step of a call that shows these three keeps Calm.
LEMMA CallKeepsCalm ==
  ASSUME Base, Base', Calm, NEW t \in Tasks, NEW pc \in PC \ {"idle", "displaced"},
         NEW r, NEW x, Becomes(t, pc, r, x), task[t].pc # "idle",
         KeepsReservation(t, pc, r), KeepsProcesses(t, pc, r),
         KeepsShutdown(t, pc, x)
  PROVE  Calm'
<1> DEFINE s == task[t].service
<1>s. s \in Services
  BY DEF Base, LabelsOK, LabelOK
<1> USE <1>s DEF KeepsReservation, KeepsProcesses, KeepsShutdown
<1> USE DEF Calm
<1>0. /\ \A u \in Tasks \ {t} : task'[u] = task[u]
      /\ task'[t].pc = pc /\ task'[t].runner = r /\ task'[t].result = x
      /\ task'[t].op = task[t].op /\ task'[t].service = s
  BY DEF Becomes
<1>1. OneCall'
  BY <1>0 DEF OneCall
<1>x. \A u \in Tasks \ {t} : task[u].service # s
  BY DEF OneCall
<1>2. Reserved'
  <2>1. ASSUME NEW a \in Services
        PROVE  a \in starting_services'
                 <=> \E u \in Tasks : task'[u].pc \in ReservedPC /\ task'[u].service = a
    <3>1. CASE a = s
      BY <1>0, <1>x, <3>1
    <3>2. CASE a # s
      <4>1. a \in starting_services
              <=> \E u \in Tasks : task[u].pc \in ReservedPC /\ task[u].service = a
        BY DEF Reserved
      <4> QED
        BY <1>0, <3>2, <4>1
    <3> QED
      BY <3>1, <3>2
  <2>2. ASSUME NEW p \in pending_ready'
        PROVE  \E u \in Tasks : task'[u].pc \in AwaitPC /\ task'[u].runner = p
    <3>1. CASE p = r /\ pc \in AwaitPC
      BY <1>0, <3>1
    <3>2. CASE /\ p \in pending_ready
               /\ ~(task[t].pc \in AwaitPC /\ task[t].runner = p)
      BY <1>0, <3>2 DEF Reserved, awaited
    <3> QED
      BY <3>1, <3>2
  <2> QED
    BY <2>1, <2>2 DEF Reserved, awaited
<1>3. Kept'
  <2>1. ASSUME NEW v \in Runners, Alive(v)'
        PROVE  \/ inner'[service_of'[v]] = v
               \/ \E u \in Tasks : task'[u].pc \in HeldPC /\ task'[u].runner = v
    <3>1. CASE service_of'[v] = s
      BY <1>0, <2>1, <3>1
    <3>2. CASE service_of'[v] # s
      <4>1. Alive(v) /\ service_of'[v] = service_of[v]
        BY <2>1, <3>2
      <4>2. service_of[v] \in Services
        BY <4>1 DEF Base, RunnerKnown, Alive
      <4>3. inner'[service_of[v]] = inner[service_of[v]]
        BY <3>2, <4>1, <4>2
      <4>4. CASE inner[service_of[v]] = v
        BY <4>1, <4>3, <4>4
      <4>5. ASSUME NEW u \in Tasks, task[u].pc \in HeldPC, task[u].runner = v
            PROVE  task'[u].pc \in HeldPC /\ task'[u].runner = v
        <5>1. task[u].service = service_of[v]
          BY <4>5 DEF Base, RunnerKnown
        <5> QED
          BY <1>0, <3>2, <4>1, <4>5, <5>1
      <4> QED
        BY <4>1, <4>4, <4>5 DEF Kept
    <3> QED
      BY <3>1, <3>2
  <2>2. ASSUME NEW u \in Tasks, task'[u].pc \in HeldPC \cup {"spawn"}
        PROVE  inner'[task'[u].service] = NoRunner
    <3>1. CASE u = t
      BY <1>0, <2>2, <3>1
    <3>2. CASE u # t
      <4>1. task[u].service \in Services /\ task'[u] = task[u]
        BY <1>0, <2>2, <3>2 DEF Base, LabelsOK, LabelOK, HeldPC
      <4>2. inner'[task[u].service] = inner[task[u].service]
        BY <1>x, <3>2, <4>1
      <4> QED
        BY <2>2, <4>1, <4>2 DEF Kept
    <3> QED
      BY <3>1, <3>2
  <2>3. \A u \in Tasks :
          /\ task'[u].pc # "displaced"
          /\ task'[u].pc \in StopPC \ {"restore", "reindex"} => task'[u].result # "failed"
    BY <1>0 DEF Kept
  <2> QED
    BY <2>1, <2>2, <2>3 DEF Kept, Alive
<1>4. StopsOnly'
  <2>1. phase # "down"
    BY DEF StopsOnly
  <2>2. failures \in Nat /\ failures' \in Nat
    BY DEF Base, Types
  <2> QED
    BY <1>0, <2>1, <2>2 DEF StopsOnly
<1>5. Emptied'
  <2>1. failures \in Nat /\ failures' \in Nat
    BY DEF Base, Types
  <2> SUFFICES ASSUME phase \in Ending, failures' < Spare
               PROVE  /\ \A u \in Tasks : task'[u].pc # "restore"
                      /\ \A a \in Services : inner'[a] # NoRunner =>
                           \/ a \in to_stop
                           \/ \E u \in Tasks : task'[u].service = a /\ task'[u].pc = "take"
    BY DEF Emptied, Spare
  <2>2. failures < Spare
    BY <2>1 DEF Spare
  <2>3. \A u \in Tasks : task'[u].pc # "restore"
    BY <1>0, <2>2 DEF Emptied
  <2>4. ASSUME NEW a \in Services, inner'[a] # NoRunner
        PROVE  \/ a \in to_stop
               \/ \E u \in Tasks : task'[u].service = a /\ task'[u].pc = "take"
    <3>1. CASE a = s
      BY <1>0, <2>4, <3>1
    <3>2. CASE a # s
      <4>1. inner[a] # NoRunner
        BY <2>4, <3>2
      <4>2. a \in to_stop \/ \E u \in Tasks : task[u].service = a /\ task[u].pc = "take"
        BY <2>2, <4>1 DEF Emptied
      <4> QED
        BY <1>0, <3>2, <4>2
    <3> QED
      BY <3>1, <3>2
  <2> QED
    BY <2>3, <2>4
<1> QED
  BY <1>1, <1>2, <1>3, <1>4, <1>5

\* Steps of start.
LEMMA StartKeepsCalm ==
  ASSUME Base, Base', Calm, NEW t \in Tasks, StartStep(t)
  PROVE  Calm'
<1> DEFINE s == task[t].service
<1> DEFINE r == inner[s]
<1>p. task[t].pc \in StartPC /\ UNCHANGED <<phase, to_stop, failures>>
  BY DEF StartStep, ReapFirst, ReserveStart, ReapAgain, CheckRunning, SpawnRunner,
         InsertService, UpsertIndex, WriteBootstrap, WaitReady, RemovePending,
         CleanupFailure, CleanupKill, CleanupWait, ReleaseStart, ReapFinished,
         DaemonVars, StartPC, ReservedPC
<1>a. /\ Types /\ task \in [Tasks -> Task] /\ s \in Services /\ task[t].pc # "idle"
      /\ r \in Runners \cup {NoRunner} /\ task[t].runner \in Runners \cup {NoRunner}
      /\ task[t].result \in Result
  BY <1>p DEF Base, Types, LabelsOK, LabelOK, Task, StartPC, ReservedPC
<1>b. /\ task[t].pc \in BarePC => task[t].runner = NoRunner
      /\ task[t].pc \in RunnerPC => task[t].runner # NoRunner
      /\ task[t].runner # NoRunner => service_of[task[t].runner] = s
      /\ r # NoRunner => service_of[r] = s
  BY <1>a DEF Base, RunnerKnown, LabelsOK, LabelOK
<1>c. ASSUME NEW pc \in PC \ StopPC, NEW x PROVE KeepsShutdown(t, pc, x)
  <2>1. phase \notin Ending
    BY <1>p DEF Calm, StopsOnly, StartPC, ReservedPC, StopPC
  <2>2. failures' >= failures
    BY <1>a, <1>p DEF Types
  <2> QED
    BY <1>p, <2>1, <2>2 DEF KeepsShutdown
<1>d. /\ \A v \in Runners : Alive(v) /\ service_of[v] = s
           => r = v \/ (task[t].pc \in HeldPC /\ task[t].runner = v)
      /\ task[t].pc \in HeldPC \cup {"spawn"} => r = NoRunner
  BY <1>a, CallOwns DEF Calm, Kept
<1>e. s \in starting_services <=> task[t].pc \in ReservedPC
  <2>1. \A u \in Tasks : task[u].service = s => u = t
    BY <1>a DEF Calm, OneCall
  <2> QED
    BY <1>a, <2>1 DEF Calm, Reserved
<1>q. ASSUME NEW pc \in PC, NEW v, UNCHANGED <<inner, process, service_of>>,
             task[t].pc \notin HeldPC,
             pc \notin HeldPC, pc = "spawn" => r = NoRunner
      PROVE  KeepsProcesses(t, pc, v)
  BY <1>a, <1>d, <1>q DEF KeepsProcesses, Alive
<1>r. ASSUME NEW pc \in PC, NEW v, UNCHANGED starting_services,
             pending_ready' \subseteq pending_ready,
             task[t].pc \in ReservedPC <=> pc \in ReservedPC,
             \/ task[t].pc \notin AwaitPC
             \/ pc \in AwaitPC /\ v = task[t].runner
      PROVE  KeepsReservation(t, pc, v)
  BY <1>e, <1>r DEF KeepsReservation
<1> USE Labels DEF RunnerPC, HeldPC, BarePC, StopPC, ReservedPC, AwaitPC, ReadyVars,
                   ProcessVars, DaemonVars
<1>1. CASE ReapFirst(t) \/ ReapAgain(t)
  <2>0. PICK pc \in {"reap", "reap again"}, next \in {"reserve", "check"} :
          /\ ReapFinished(t, pc, next)
          /\ pc \in ReservedPC <=> next \in ReservedPC
    BY <1>1 DEF ReapFirst, ReapAgain
  <2>1. \/ Becomes(t, next, NoRunner, task[t].result) /\ inner' = inner
        \/ /\ Becomes(t, pc, r, task[t].result) /\ Exited(r)
           /\ inner' = [inner EXCEPT ![s] = NoRunner]
    <3>1. CASE task[t].runner # NoRunner
      BY <1>a, <2>0, <3>1, HoldFields DEF ReapFinished
    <3>2. CASE task[t].runner = NoRunner /\ Exited(r)
      BY <1>a, <2>0, <3>2, HoldFields DEF ReapFinished, Exited
    <3>3. CASE task[t].runner = NoRunner /\ ~Exited(r)
      BY <1>a, <2>0, <3>3, GotoFields DEF ReapFinished
    <3> QED
      BY <3>1, <3>2, <3>3
  <2>2. /\ task[t].pc = pc
        /\ UNCHANGED <<service_of, process, starting_services>>
        /\ pending_ready' \subseteq pending_ready
    BY <2>0 DEF ReapFinished
  <2>3. CASE Becomes(t, next, NoRunner, task[t].result) /\ inner' = inner
    <3>1. KeepsProcesses(t, next, NoRunner)
      BY <1>q, <2>2, <2>3
    <3>2. KeepsReservation(t, next, NoRunner)
      BY <1>r, <2>0, <2>2
    <3> QED
      BY <1>a, <1>c, <2>3, <3>1, <3>2, CallKeepsCalm
  <2>4. CASE /\ Becomes(t, pc, r, task[t].result) /\ Exited(r)
             /\ inner' = [inner EXCEPT ![s] = NoRunner]
    <3>1. \A v \in Runners : Alive(v) => service_of[v] # s
      BY <1>d, <2>2, <2>4 DEF Exited, Alive
    <3>2. KeepsProcesses(t, pc, r)
      BY <1>a, <2>2, <2>4, <3>1 DEF KeepsProcesses, Types, Alive
    <3> QED
      BY <1>a, <1>c, <1>r, <2>0, <2>2, <2>4, <3>2, CallKeepsCalm
  <2> QED
    BY <2>1, <2>3, <2>4
<1>2. CASE SpawnRunner(t)
  <2>0. /\ task[t].pc = "spawn" /\ task[t].runner = NoRunner
        /\ UNCHANGED <<inner, starting_services>>
    BY <1>b, <1>2 DEF SpawnRunner
  <2>1. CASE /\ task' = [task EXCEPT ![t].pc = "release", ![t].result = "failed"]
             /\ UNCHANGED <<service_of, pending_ready, process>>
    <3>1. Becomes(t, "release", NoRunner, "failed")
      BY <1>a, <2>0, <2>1, ResultFields DEF Result
    <3> QED
      <4>1. KeepsProcesses(t, "release", NoRunner)
        BY <1>d, <2>0, <2>1 DEF KeepsProcesses, Alive
      <4>2. KeepsReservation(t, "release", NoRunner)
        BY <1>e, <2>0, <2>1 DEF KeepsReservation
      <4> QED
        BY <1>a, <1>c, <3>1, <4>1, <4>2, CallKeepsCalm
  <2>2. ASSUME NEW v \in Runners, process[v] = "unborn",
               process' = [process EXCEPT ![v] = "live"],
               service_of' = [service_of EXCEPT ![v] = s],
               pending_ready' = pending_ready \cup {v},
               Hold(t, "insert", v)
        PROVE  Calm'
    <3>1. Becomes(t, "insert", v, task[t].result)
      BY <1>a, <2>2, HoldFields
    <3>2. /\ service_of'[v] = s
          /\ \A w \in Runners \ {v} : /\ service_of'[w] = service_of[w]
                                      /\ process'[w] = process[w]
      BY <1>a, <2>2 DEF Types
    <3>3. r = NoRunner
      BY <1>d, <2>0
    <3>4. \A w \in Runners \ {v} : Alive(w) => service_of[w] # s
      BY <1>d, <2>0, <3>3
    <3>5. KeepsProcesses(t, "insert", v)
      BY <2>0, <3>2, <3>3, <3>4 DEF KeepsProcesses, Alive
    <3>6. KeepsReservation(t, "insert", v)
      BY <1>e, <2>0, <2>2 DEF KeepsReservation
    <3> QED
      BY <1>a, <1>c, <3>1, <3>5, <3>6, CallKeepsCalm
  <2> QED
    BY <1>2, <2>1, <2>2 DEF SpawnRunner
<1>3. CASE ReserveStart(t)
  <2>1. \/ /\ Becomes(t, "reap again", task[t].runner, task[t].result)
           /\ starting_services' = starting_services \cup {s}
        \/ /\ Becomes(t, "done", task[t].runner, "busy")
           /\ starting_services' = starting_services
    BY <1>a, <1>3, GotoFields, EndFields DEF ReserveStart, Result
  <2>2. /\ UNCHANGED <<inner, process, service_of, pending_ready>>
        /\ task[t].pc = "reserve"
    BY <1>3 DEF ReserveStart
  <2>3. CASE /\ Becomes(t, "reap again", task[t].runner, task[t].result)
             /\ starting_services' = starting_services \cup {s}
    <3>1. KeepsReservation(t, "reap again", task[t].runner)
      BY <2>2, <2>3 DEF KeepsReservation
    <3>2. KeepsProcesses(t, "reap again", task[t].runner)
      BY <1>d, <2>2 DEF KeepsProcesses, Alive
    <3> QED
      BY <1>a, <1>c, <2>3, <3>1, <3>2, CallKeepsCalm
  <2>4. CASE /\ Becomes(t, "done", task[t].runner, "busy")
             /\ starting_services' = starting_services
    <3>1. KeepsReservation(t, "done", task[t].runner)
      BY <1>e, <2>2, <2>4 DEF KeepsReservation
    <3>2. KeepsProcesses(t, "done", task[t].runner)
      BY <1>d, <2>2 DEF KeepsProcesses, Alive
    <3> QED
      BY <1>a, <1>c, <2>4, <3>1, <3>2, CallKeepsCalm
  <2> QED
    BY <2>1, <2>3, <2>4
<1>4. CASE CheckRunning(t)
  <2>1. \/ Becomes(t, "release", task[t].runner, "busy")
        \/ Becomes(t, "spawn", task[t].runner, task[t].result) /\ r = NoRunner
    BY <1>a, <1>b, <1>4, GotoFields, ResultFields DEF CheckRunning, Result, after_busy, already_running
  <2>2. CASE Becomes(t, "release", task[t].runner, "busy")
    <3>1. KeepsProcesses(t, "release", task[t].runner)
      BY <1>a, <1>b, <1>d, <1>4, <2>2 DEF CheckRunning, KeepsProcesses, Alive
    <3>2. KeepsReservation(t, "release", task[t].runner)
      BY <1>a, <1>b, <1>e, <1>4, <2>2 DEF CheckRunning, KeepsReservation
    <3> QED
      BY <1>a, <1>c, <2>2, <3>1, <3>2, CallKeepsCalm
  <2>3. CASE Becomes(t, "spawn", task[t].runner, task[t].result) /\ r = NoRunner
    <3>1. KeepsProcesses(t, "spawn", task[t].runner)
      BY <1>a, <1>b, <1>d, <1>4, <2>3 DEF CheckRunning, KeepsProcesses, Alive
    <3>2. KeepsReservation(t, "spawn", task[t].runner)
      BY <1>a, <1>b, <1>e, <1>4, <2>3 DEF CheckRunning, KeepsReservation
    <3> QED
      BY <1>a, <1>c, <2>3, <3>1, <3>2, CallKeepsCalm
  <2> QED
    BY <2>1, <2>2, <2>3
<1>5. CASE InsertService(t)
  <2>1. Becomes(t, "index", task[t].runner, task[t].result)
    BY <1>a, <1>b, <1>5, GotoFields DEF InsertService
  <2>2. CASE Becomes(t, "index", task[t].runner, task[t].result)
    <3>1. KeepsProcesses(t, "index", task[t].runner)
      BY <1>a, <1>b, <1>d, <1>5, <2>2 DEF InsertService, KeepsProcesses, Alive, Types
    <3>2. KeepsReservation(t, "index", task[t].runner)
      BY <1>a, <1>b, <1>e, <1>5, <2>2 DEF InsertService, KeepsReservation
    <3> QED
      BY <1>a, <1>c, <2>2, <3>1, <3>2, CallKeepsCalm
  <2> QED
    BY <2>1, <2>2
<1>6. CASE UpsertIndex(t)
  <2>1. Becomes(t, "bootstrap", task[t].runner, task[t].result)
    BY <1>a, <1>b, <1>6, GotoFields DEF UpsertIndex
  <2>2. CASE Becomes(t, "bootstrap", task[t].runner, task[t].result)
    <3>1. KeepsProcesses(t, "bootstrap", task[t].runner)
      BY <1>a, <1>b, <1>d, <1>6, <2>2 DEF UpsertIndex, KeepsProcesses, Alive
    <3>2. KeepsReservation(t, "bootstrap", task[t].runner)
      BY <1>a, <1>b, <1>e, <1>6, <2>2 DEF UpsertIndex, KeepsReservation
    <3> QED
      BY <1>a, <1>c, <2>2, <3>1, <3>2, CallKeepsCalm
  <2> QED
    BY <2>1, <2>2
<1>7. CASE WriteBootstrap(t)
  <2>1. \/ Becomes(t, "wait", task[t].runner, task[t].result)
        \/ Becomes(t, "unpend", task[t].runner, "failed")
    BY <1>a, <1>b, <1>7, GotoFields, ResultFields DEF WriteBootstrap, Result
  <2>2. CASE Becomes(t, "wait", task[t].runner, task[t].result)
    <3>1. KeepsProcesses(t, "wait", task[t].runner)
      BY <1>a, <1>b, <1>d, <1>7, <2>2 DEF WriteBootstrap, KeepsProcesses, Alive
    <3>2. KeepsReservation(t, "wait", task[t].runner)
      BY <1>a, <1>b, <1>e, <1>7, <2>2 DEF WriteBootstrap, KeepsReservation
    <3> QED
      BY <1>a, <1>c, <2>2, <3>1, <3>2, CallKeepsCalm
  <2>3. CASE Becomes(t, "unpend", task[t].runner, "failed")
    <3>1. KeepsProcesses(t, "unpend", task[t].runner)
      BY <1>a, <1>b, <1>d, <1>7, <2>3 DEF WriteBootstrap, KeepsProcesses, Alive
    <3>2. KeepsReservation(t, "unpend", task[t].runner)
      BY <1>a, <1>b, <1>e, <1>7, <2>3 DEF WriteBootstrap, KeepsReservation
    <3> QED
      BY <1>a, <1>c, <2>3, <3>1, <3>2, CallKeepsCalm
  <2> QED
    BY <2>1, <2>2, <2>3
<1>8. CASE WaitReady(t)
  <2>1. PICK x \in Result : Becomes(t, "unpend", task[t].runner, x)
    BY <1>a, <1>8, ResultFields DEF WaitReady
  <2>2. UNCHANGED <<inner, process, service_of, starting_services, pending_ready>>
    BY <1>8 DEF WaitReady
  <2> QED
    <3>1. KeepsProcesses(t, "unpend", task[t].runner)
      BY <1>d, <1>8, <2>2 DEF WaitReady, KeepsProcesses, Alive
    <3>2. KeepsReservation(t, "unpend", task[t].runner)
      BY <1>e, <1>8, <2>2 DEF WaitReady, KeepsReservation
    <3> QED
      BY <1>a, <1>c, <2>1, <3>1, <3>2, CallKeepsCalm
<1>9. CASE RemovePending(t)
  <2>1. PICK pc \in {"release", "cleanup"} :
          Becomes(t, pc, task[t].runner, task[t].result)
    BY <1>a, <1>9, GotoFields DEF RemovePending
  <2>2. KeepsReservation(t, pc, task[t].runner)
    BY <1>e, <1>9 DEF RemovePending, without_sender, KeepsReservation
  <2>3. UNCHANGED <<inner, process, service_of>> /\ task[t].pc = "unpend"
    BY <1>9 DEF RemovePending
  <2>4. KeepsProcesses(t, pc, task[t].runner)
    BY <1>d, <2>1, <2>3 DEF KeepsProcesses, Alive
  <2> QED
    BY <1>a, <1>c, <2>1, <2>2, <2>4, CallKeepsCalm
<1>10. CASE CleanupFailure(t)
  <2>1. \/ Becomes(t, "release", task[t].runner, task[t].result) /\ r = NoRunner
        \/ Becomes(t, "condemned", r, task[t].result) /\ r # NoRunner
    BY <1>a, <1>b, <1>10, GotoFields, HoldFields DEF CleanupFailure
  <2>2. CASE Becomes(t, "release", task[t].runner, task[t].result) /\ r = NoRunner
    <3>1. KeepsProcesses(t, "release", task[t].runner)
      BY <1>a, <1>b, <1>d, <1>10, <2>2 DEF CleanupFailure, KeepsProcesses, Alive, Types
    <3>2. KeepsReservation(t, "release", task[t].runner)
      BY <1>a, <1>b, <1>e, <1>10, <2>2 DEF CleanupFailure, KeepsReservation
    <3> QED
      BY <1>a, <1>c, <2>2, <3>1, <3>2, CallKeepsCalm
  <2>3. CASE Becomes(t, "condemned", r, task[t].result) /\ r # NoRunner
    <3>1. KeepsProcesses(t, "condemned", r)
      BY <1>a, <1>b, <1>d, <1>10, <2>3 DEF CleanupFailure, KeepsProcesses, Alive, Types
    <3>2. KeepsReservation(t, "condemned", r)
      BY <1>a, <1>b, <1>e, <1>10, <2>3 DEF CleanupFailure, KeepsReservation
    <3> QED
      BY <1>a, <1>c, <2>3, <3>1, <3>2, CallKeepsCalm
  <2> QED
    BY <2>1, <2>2, <2>3
<1>11. CASE CleanupKill(t)
  <2>1. Becomes(t, "cleaning", task[t].runner, task[t].result)
    BY <1>a, <1>b, <1>11, GotoFields DEF CleanupKill, after_cleanup_kill
  <2>2. CASE Becomes(t, "cleaning", task[t].runner, task[t].result)
    <3>1. KeepsProcesses(t, "cleaning", task[t].runner)
      BY <1>a, <1>b, <1>d, <1>11, <2>2 DEF CleanupKill, KeepsProcesses, Alive, start_kill, Types
    <3>2. KeepsReservation(t, "cleaning", task[t].runner)
      BY <1>a, <1>b, <1>e, <1>11, <2>2 DEF CleanupKill, KeepsReservation
    <3> QED
      BY <1>a, <1>c, <2>2, <3>1, <3>2, CallKeepsCalm
  <2> QED
    BY <2>1, <2>2
<1>12. CASE CleanupWait(t)
  <2>1. Becomes(t, "release", task[t].runner, task[t].result)
    BY <1>a, <1>b, <1>12, GotoFields DEF CleanupWait
  <2>2. CASE Becomes(t, "release", task[t].runner, task[t].result)
    <3>1. KeepsProcesses(t, "release", task[t].runner)
      BY <1>a, <1>b, <1>d, <1>12, <2>2 DEF CleanupWait, KeepsProcesses, Alive, Exited
    <3>2. KeepsReservation(t, "release", task[t].runner)
      BY <1>a, <1>b, <1>e, <1>12, <2>2 DEF CleanupWait, KeepsReservation
    <3> QED
      BY <1>a, <1>c, <2>2, <3>1, <3>2, CallKeepsCalm
  <2> QED
    BY <2>1, <2>2
<1>13. CASE ReleaseStart(t)
  <2>1. Becomes(t, "done", task[t].runner, task[t].result)
    BY <1>a, <1>b, <1>13, GotoFields DEF ReleaseStart
  <2>2. CASE Becomes(t, "done", task[t].runner, task[t].result)
    <3>1. KeepsProcesses(t, "done", task[t].runner)
      BY <1>a, <1>b, <1>d, <1>13, <2>2 DEF ReleaseStart, KeepsProcesses, Alive
    <3>2. KeepsReservation(t, "done", task[t].runner)
      BY <1>a, <1>b, <1>e, <1>13, <2>2 DEF ReleaseStart, KeepsReservation
    <3> QED
      BY <1>a, <1>c, <2>2, <3>1, <3>2, CallKeepsCalm
  <2> QED
    BY <2>1, <2>2
<1> QED
  BY <1>1, <1>2, <1>3, <1>4, <1>5, <1>6, <1>7, <1>8, <1>9, <1>10, <1>11, <1>12,
     <1>13 DEF StartStep

\* Steps of stop.
LEMMA StopKeepsCalm ==
  ASSUME Base, Base', Calm, NEW t \in Tasks, StopStep(t) \/ KillFails(t)
  PROVE  Calm'
<1> DEFINE s == task[t].service
<1> DEFINE r == inner[s]
<1>p. task[t].pc \in StopPC /\ UNCHANGED <<phase, to_stop>>
  BY DEF StopStep, KillFails, TakeRunning, UnindexTaken, GracefulShutdown, AwaitExit,
         Kill, KillWait, RestoreService, ReindexRestored, StopPC, DaemonVars
<1>a. /\ Types /\ task \in [Tasks -> Task] /\ s \in Services /\ task[t].pc # "idle"
      /\ r \in Runners \cup {NoRunner} /\ task[t].runner \in Runners \cup {NoRunner}
      /\ task[t].result \in Result /\ UNCHANGED <<phase, to_stop>>
  BY <1>p DEF Base, Types, LabelsOK, LabelOK, Task, StopPC
<1>b. /\ task[t].pc \in BarePC => task[t].runner = NoRunner
      /\ task[t].pc \in RunnerPC => task[t].runner # NoRunner
      /\ task[t].runner # NoRunner => service_of[task[t].runner] = s
      /\ r # NoRunner => service_of[r] = s
  BY <1>a DEF Base, RunnerKnown, LabelsOK, LabelOK
<1>d. /\ \A v \in Runners : Alive(v) /\ service_of[v] = s
           => r = v \/ (task[t].pc \in HeldPC /\ task[t].runner = v)
      /\ task[t].pc \in HeldPC \cup {"spawn"} => r = NoRunner
  BY <1>a, CallOwns DEF Calm, Kept
<1>u. \A u \in Tasks : task[u].service = s => u = t
  BY <1>a DEF Calm, OneCall
<1>e. s \notin starting_services
  BY <1>a, <1>p, <1>u DEF Calm, Reserved, StopPC, ReservedPC
<1>f. /\ phase \in Ending => task[t].op # "replace"
      /\ phase \in Ending /\ failures < Spare =>
           task[t].pc # "restore" /\ (r # NoRunner => task[t].pc = "take")
      /\ phase \in Ending /\ failures' = failures + 1 => ~(failures' < Spare)
      /\ failures >= failures /\ failures + 1 >= failures
  <2>1. failures \in Nat
    BY <1>a DEF Types
  <2>2. phase # "down" /\ (phase = "forcing" => failures >= 1)
    BY <1>a DEF Calm, StopsOnly
  <2>3. phase \in Ending /\ failures' = failures + 1 => ~(failures' < Spare)
    BY <2>1, <2>2 DEF Spare, Ending
  <2>4. s \notin to_stop
    BY DEF Calm, OneCall
  <2>5. phase \in Ending /\ failures < Spare =>
           task[t].pc # "restore" /\ (r # NoRunner => task[t].pc = "take")
    BY <1>a, <1>u, <2>4 DEF Calm, Emptied
  <2> QED
    BY <1>a, <2>1, <2>3, <2>5 DEF Calm, StopsOnly
<1>g. /\ task[t].pc # "displaced"
      /\ task[t].pc \notin {"restore", "reindex"} => task[t].result # "failed"
  BY <1>p DEF Calm, Kept
<1> USE Labels DEF RunnerPC, HeldPC, BarePC, StopPC, ReservedPC, AwaitPC, ReadyVars,
                   ProcessVars, DaemonVars
<1>1. CASE TakeRunning(t)
  <2>1. \/ Becomes(t, "reap", NoRunner, task[t].result) /\ task[t].op = "replace" /\ r = NoRunner
        \/ Becomes(t, "done", task[t].runner, "not found") /\ r = NoRunner
        \/ Becomes(t, "taken", r, task[t].result) /\ r # NoRunner
    BY <1>a, <1>b, <1>d, <1>g, <1>1, StopEndsFields, HoldFields DEF TakeRunning
  <2>2. CASE Becomes(t, "reap", NoRunner, task[t].result) /\ task[t].op = "replace" /\ r = NoRunner
    <3>1. KeepsProcesses(t, "reap", NoRunner)
      BY <1>a, <1>b, <1>d, <1>1, <2>2 DEF TakeRunning, KeepsProcesses, Alive, Types
    <3>2. KeepsReservation(t, "reap", NoRunner)
      BY <1>a, <1>e, <1>1, <2>2 DEF TakeRunning, KeepsReservation
    <3>3. KeepsShutdown(t, "reap", task[t].result)
      BY <1>a, <1>b, <1>d, <1>f, <1>g, <1>1, <2>2 DEF TakeRunning, KeepsShutdown, Types
    <3> QED
      BY <1>a, <2>2, <3>1, <3>2, <3>3, CallKeepsCalm
  <2>3. CASE Becomes(t, "done", task[t].runner, "not found") /\ r = NoRunner
    <3>1. KeepsProcesses(t, "done", task[t].runner)
      BY <1>a, <1>b, <1>d, <1>1, <2>3 DEF TakeRunning, KeepsProcesses, Alive, Types
    <3>2. KeepsReservation(t, "done", task[t].runner)
      BY <1>a, <1>e, <1>1, <2>3 DEF TakeRunning, KeepsReservation
    <3>3. KeepsShutdown(t, "done", "not found")
      BY <1>a, <1>b, <1>d, <1>f, <1>g, <1>1, <2>3 DEF TakeRunning, KeepsShutdown, Types
    <3> QED
      BY <1>a, <2>3, <3>1, <3>2, <3>3, CallKeepsCalm
  <2>4. CASE Becomes(t, "taken", r, task[t].result) /\ r # NoRunner
    <3>1. KeepsProcesses(t, "taken", r)
      BY <1>a, <1>b, <1>d, <1>1, <2>4 DEF TakeRunning, KeepsProcesses, Alive, Types
    <3>2. KeepsReservation(t, "taken", r)
      BY <1>a, <1>e, <1>1, <2>4 DEF TakeRunning, KeepsReservation
    <3>3. KeepsShutdown(t, "taken", task[t].result)
      BY <1>a, <1>b, <1>d, <1>f, <1>g, <1>1, <2>4 DEF TakeRunning, KeepsShutdown, Types
    <3> QED
      BY <1>a, <2>4, <3>1, <3>2, <3>3, CallKeepsCalm
  <2> QED
    BY <2>1, <2>2, <2>3, <2>4
<1>2. CASE UnindexTaken(t)
  <2>1. \/ Becomes(t, "reap", NoRunner, task[t].result) /\ task[t].op = "replace" /\ Exited(task[t].runner)
        \/ Becomes(t, "done", task[t].runner, "not found") /\ Exited(task[t].runner)
        \/ Becomes(t, "kill", task[t].runner, task[t].result)
        \/ Becomes(t, "graceful", task[t].runner, task[t].result)
    BY <1>a, <1>b, <1>d, <1>g, <1>2, StopEndsFields, GotoFields DEF UnindexTaken
  <2>2. CASE Becomes(t, "reap", NoRunner, task[t].result) /\ task[t].op = "replace" /\ Exited(task[t].runner)
    <3>1. KeepsProcesses(t, "reap", NoRunner)
      BY <1>a, <1>b, <1>d, <1>2, <2>2 DEF UnindexTaken, KeepsProcesses, Alive, Exited
    <3>2. KeepsReservation(t, "reap", NoRunner)
      BY <1>a, <1>e, <1>2, <2>2 DEF UnindexTaken, KeepsReservation
    <3>3. KeepsShutdown(t, "reap", task[t].result)
      BY <1>a, <1>b, <1>d, <1>f, <1>g, <1>2, <2>2 DEF UnindexTaken, KeepsShutdown
    <3> QED
      BY <1>a, <2>2, <3>1, <3>2, <3>3, CallKeepsCalm
  <2>3. CASE Becomes(t, "done", task[t].runner, "not found") /\ Exited(task[t].runner)
    <3>1. KeepsProcesses(t, "done", task[t].runner)
      BY <1>a, <1>b, <1>d, <1>2, <2>3 DEF UnindexTaken, KeepsProcesses, Alive, Exited
    <3>2. KeepsReservation(t, "done", task[t].runner)
      BY <1>a, <1>e, <1>2, <2>3 DEF UnindexTaken, KeepsReservation
    <3>3. KeepsShutdown(t, "done", "not found")
      BY <1>a, <1>b, <1>d, <1>f, <1>g, <1>2, <2>3 DEF UnindexTaken, KeepsShutdown
    <3> QED
      BY <1>a, <2>3, <3>1, <3>2, <3>3, CallKeepsCalm
  <2>4. CASE Becomes(t, "kill", task[t].runner, task[t].result)
    <3>1. KeepsProcesses(t, "kill", task[t].runner)
      BY <1>a, <1>b, <1>d, <1>2, <2>4 DEF UnindexTaken, KeepsProcesses, Alive, Exited
    <3>2. KeepsReservation(t, "kill", task[t].runner)
      BY <1>a, <1>e, <1>2, <2>4 DEF UnindexTaken, KeepsReservation
    <3>3. KeepsShutdown(t, "kill", task[t].result)
      BY <1>a, <1>b, <1>d, <1>f, <1>g, <1>2, <2>4 DEF UnindexTaken, KeepsShutdown
    <3> QED
      BY <1>a, <2>4, <3>1, <3>2, <3>3, CallKeepsCalm
  <2>5. CASE Becomes(t, "graceful", task[t].runner, task[t].result)
    <3>1. KeepsProcesses(t, "graceful", task[t].runner)
      BY <1>a, <1>b, <1>d, <1>2, <2>5 DEF UnindexTaken, KeepsProcesses, Alive, Exited
    <3>2. KeepsReservation(t, "graceful", task[t].runner)
      BY <1>a, <1>e, <1>2, <2>5 DEF UnindexTaken, KeepsReservation
    <3>3. KeepsShutdown(t, "graceful", task[t].result)
      BY <1>a, <1>b, <1>d, <1>f, <1>g, <1>2, <2>5 DEF UnindexTaken, KeepsShutdown
    <3> QED
      BY <1>a, <2>5, <3>1, <3>2, <3>3, CallKeepsCalm
  <2> QED
    BY <2>1, <2>2, <2>3, <2>4, <2>5
<1>3. CASE GracefulShutdown(t)
  <2>1. \/ Becomes(t, "grace", task[t].runner, task[t].result)
        \/ Becomes(t, "kill", task[t].runner, task[t].result)
    BY <1>a, <1>b, <1>d, <1>g, <1>3, GotoFields DEF GracefulShutdown
  <2>2. CASE Becomes(t, "grace", task[t].runner, task[t].result)
    <3>1. KeepsProcesses(t, "grace", task[t].runner)
      BY <1>a, <1>b, <1>d, <1>3, <2>2 DEF GracefulShutdown, KeepsProcesses, Alive
    <3>2. KeepsReservation(t, "grace", task[t].runner)
      BY <1>a, <1>e, <1>3, <2>2 DEF GracefulShutdown, KeepsReservation
    <3>3. KeepsShutdown(t, "grace", task[t].result)
      BY <1>a, <1>b, <1>d, <1>f, <1>g, <1>3, <2>2 DEF GracefulShutdown, KeepsShutdown
    <3> QED
      BY <1>a, <2>2, <3>1, <3>2, <3>3, CallKeepsCalm
  <2>3. CASE Becomes(t, "kill", task[t].runner, task[t].result)
    <3>1. KeepsProcesses(t, "kill", task[t].runner)
      BY <1>a, <1>b, <1>d, <1>3, <2>3 DEF GracefulShutdown, KeepsProcesses, Alive
    <3>2. KeepsReservation(t, "kill", task[t].runner)
      BY <1>a, <1>e, <1>3, <2>3 DEF GracefulShutdown, KeepsReservation
    <3>3. KeepsShutdown(t, "kill", task[t].result)
      BY <1>a, <1>b, <1>d, <1>f, <1>g, <1>3, <2>3 DEF GracefulShutdown, KeepsShutdown
    <3> QED
      BY <1>a, <2>3, <3>1, <3>2, <3>3, CallKeepsCalm
  <2> QED
    BY <2>1, <2>2, <2>3
<1>4. CASE AwaitExit(t)
  <2>1. \/ Becomes(t, "reap", NoRunner, task[t].result) /\ task[t].op = "replace" /\ Exited(task[t].runner)
        \/ Becomes(t, "done", task[t].runner, "ok") /\ Exited(task[t].runner)
        \/ Becomes(t, "kill", task[t].runner, task[t].result)
    BY <1>a, <1>b, <1>d, <1>g, <1>4, StopEndsFields, GotoFields DEF AwaitExit
  <2>2. CASE Becomes(t, "reap", NoRunner, task[t].result) /\ task[t].op = "replace" /\ Exited(task[t].runner)
    <3>1. KeepsProcesses(t, "reap", NoRunner)
      BY <1>a, <1>b, <1>d, <1>4, <2>2 DEF AwaitExit, KeepsProcesses, Alive, Exited
    <3>2. KeepsReservation(t, "reap", NoRunner)
      BY <1>a, <1>e, <1>4, <2>2 DEF AwaitExit, KeepsReservation
    <3>3. KeepsShutdown(t, "reap", task[t].result)
      BY <1>a, <1>b, <1>d, <1>f, <1>g, <1>4, <2>2 DEF AwaitExit, KeepsShutdown
    <3> QED
      BY <1>a, <2>2, <3>1, <3>2, <3>3, CallKeepsCalm
  <2>3. CASE Becomes(t, "done", task[t].runner, "ok") /\ Exited(task[t].runner)
    <3>1. KeepsProcesses(t, "done", task[t].runner)
      BY <1>a, <1>b, <1>d, <1>4, <2>3 DEF AwaitExit, KeepsProcesses, Alive, Exited
    <3>2. KeepsReservation(t, "done", task[t].runner)
      BY <1>a, <1>e, <1>4, <2>3 DEF AwaitExit, KeepsReservation
    <3>3. KeepsShutdown(t, "done", "ok")
      BY <1>a, <1>b, <1>d, <1>f, <1>g, <1>4, <2>3 DEF AwaitExit, KeepsShutdown
    <3> QED
      BY <1>a, <2>3, <3>1, <3>2, <3>3, CallKeepsCalm
  <2>4. CASE Becomes(t, "kill", task[t].runner, task[t].result)
    <3>1. KeepsProcesses(t, "kill", task[t].runner)
      BY <1>a, <1>b, <1>d, <1>4, <2>4 DEF AwaitExit, KeepsProcesses, Alive, Exited
    <3>2. KeepsReservation(t, "kill", task[t].runner)
      BY <1>a, <1>e, <1>4, <2>4 DEF AwaitExit, KeepsReservation
    <3>3. KeepsShutdown(t, "kill", task[t].result)
      BY <1>a, <1>b, <1>d, <1>f, <1>g, <1>4, <2>4 DEF AwaitExit, KeepsShutdown
    <3> QED
      BY <1>a, <2>4, <3>1, <3>2, <3>3, CallKeepsCalm
  <2> QED
    BY <2>1, <2>2, <2>3, <2>4
<1>5. CASE Kill(t)
  <2>1. Becomes(t, "killing", task[t].runner, task[t].result)
    BY <1>a, <1>b, <1>d, <1>g, <1>5, GotoFields DEF Kill
  <2>2. CASE Becomes(t, "killing", task[t].runner, task[t].result)
    <3>1. KeepsProcesses(t, "killing", task[t].runner)
      BY <1>a, <1>b, <1>d, <1>5, <2>2 DEF Kill, KeepsProcesses, Alive, start_kill, Types
    <3>2. KeepsReservation(t, "killing", task[t].runner)
      BY <1>a, <1>e, <1>5, <2>2 DEF Kill, KeepsReservation
    <3>3. KeepsShutdown(t, "killing", task[t].result)
      BY <1>a, <1>b, <1>d, <1>f, <1>g, <1>5, <2>2 DEF Kill, KeepsShutdown
    <3> QED
      BY <1>a, <2>2, <3>1, <3>2, <3>3, CallKeepsCalm
  <2> QED
    BY <2>1, <2>2
<1>6. CASE KillWait(t)
  <2>1. \/ Becomes(t, "reap", NoRunner, task[t].result) /\ task[t].op = "replace" /\ Exited(task[t].runner)
        \/ Becomes(t, "done", task[t].runner, "ok") /\ Exited(task[t].runner)
    BY <1>a, <1>b, <1>d, <1>g, <1>6, StopEndsFields DEF KillWait, wait_over
  <2>2. CASE Becomes(t, "reap", NoRunner, task[t].result) /\ task[t].op = "replace" /\ Exited(task[t].runner)
    <3>1. KeepsProcesses(t, "reap", NoRunner)
      BY <1>a, <1>b, <1>d, <1>6, <2>2 DEF KillWait, KeepsProcesses, Alive, Exited
    <3>2. KeepsReservation(t, "reap", NoRunner)
      BY <1>a, <1>e, <1>6, <2>2 DEF KillWait, KeepsReservation
    <3>3. KeepsShutdown(t, "reap", task[t].result)
      BY <1>a, <1>b, <1>d, <1>f, <1>g, <1>6, <2>2 DEF KillWait, KeepsShutdown
    <3> QED
      BY <1>a, <2>2, <3>1, <3>2, <3>3, CallKeepsCalm
  <2>3. CASE Becomes(t, "done", task[t].runner, "ok") /\ Exited(task[t].runner)
    <3>1. KeepsProcesses(t, "done", task[t].runner)
      BY <1>a, <1>b, <1>d, <1>6, <2>3 DEF KillWait, KeepsProcesses, Alive, Exited
    <3>2. KeepsReservation(t, "done", task[t].runner)
      BY <1>a, <1>e, <1>6, <2>3 DEF KillWait, KeepsReservation
    <3>3. KeepsShutdown(t, "done", "ok")
      BY <1>a, <1>b, <1>d, <1>f, <1>g, <1>6, <2>3 DEF KillWait, KeepsShutdown
    <3> QED
      BY <1>a, <2>3, <3>1, <3>2, <3>3, CallKeepsCalm
  <2> QED
    BY <2>1, <2>2, <2>3
<1>7. CASE KillFails(t)
  <2>1. Becomes(t, "restore", task[t].runner, "failed")
    BY <1>a, <1>b, <1>d, <1>g, <1>7, ResultFields DEF KillFails, Result
  <2>2. CASE Becomes(t, "restore", task[t].runner, "failed")
    <3>1. KeepsProcesses(t, "restore", task[t].runner)
      BY <1>a, <1>b, <1>d, <1>7, <2>2 DEF KillFails, KeepsProcesses, Alive
    <3>2. KeepsReservation(t, "restore", task[t].runner)
      BY <1>a, <1>e, <1>7, <2>2 DEF KillFails, KeepsReservation
    <3>3. KeepsShutdown(t, "restore", "failed")
      BY <1>a, <1>b, <1>d, <1>f, <1>g, <1>7, <2>2 DEF KillFails, KeepsShutdown
    <3> QED
      BY <1>a, <2>2, <3>1, <3>2, <3>3, CallKeepsCalm
  <2> QED
    BY <2>1, <2>2
<1>8. CASE RestoreService(t)
  <2>1. \/ Becomes(t, "done", task[t].runner, "failed") /\ Exited(task[t].runner)
        \/ Becomes(t, "reindex", task[t].runner, task[t].result) /\ inner' = [inner EXCEPT ![s] = task[t].runner]
    BY <1>a, <1>b, <1>d, <1>g, <1>8, GotoFields, EndFields DEF RestoreService, Result, can_restore
  <2>2. CASE Becomes(t, "done", task[t].runner, "failed") /\ Exited(task[t].runner)
    <3>1. KeepsProcesses(t, "done", task[t].runner)
      BY <1>a, <1>b, <1>d, <1>8, <2>2 DEF RestoreService, KeepsProcesses, Alive, Exited, Types
    <3>2. KeepsReservation(t, "done", task[t].runner)
      BY <1>a, <1>e, <1>8, <2>2 DEF RestoreService, KeepsReservation
    <3>3. KeepsShutdown(t, "done", "failed")
      BY <1>a, <1>b, <1>d, <1>f, <1>g, <1>8, <2>2 DEF RestoreService, KeepsShutdown, Types, Exited
    <3> QED
      BY <1>a, <2>2, <3>1, <3>2, <3>3, CallKeepsCalm
  <2>3. CASE Becomes(t, "reindex", task[t].runner, task[t].result) /\ inner' = [inner EXCEPT ![s] = task[t].runner]
    <3>1. KeepsProcesses(t, "reindex", task[t].runner)
      BY <1>a, <1>b, <1>d, <1>8, <2>3 DEF RestoreService, KeepsProcesses, Alive, Exited, Types
    <3>2. KeepsReservation(t, "reindex", task[t].runner)
      BY <1>a, <1>e, <1>8, <2>3 DEF RestoreService, KeepsReservation
    <3>3. KeepsShutdown(t, "reindex", task[t].result)
      BY <1>a, <1>b, <1>d, <1>f, <1>g, <1>8, <2>3 DEF RestoreService, KeepsShutdown, Types, Exited
    <3> QED
      BY <1>a, <2>3, <3>1, <3>2, <3>3, CallKeepsCalm
  <2> QED
    BY <2>1, <2>2, <2>3
<1>9. CASE ReindexRestored(t)
  <2>1. Becomes(t, "done", task[t].runner, "failed")
    BY <1>a, <1>b, <1>d, <1>g, <1>9, EndFields DEF ReindexRestored, Result
  <2>2. CASE Becomes(t, "done", task[t].runner, "failed")
    <3>1. KeepsProcesses(t, "done", task[t].runner)
      BY <1>a, <1>b, <1>d, <1>9, <2>2 DEF ReindexRestored, KeepsProcesses, Alive
    <3>2. KeepsReservation(t, "done", task[t].runner)
      BY <1>a, <1>e, <1>9, <2>2 DEF ReindexRestored, KeepsReservation
    <3>3. KeepsShutdown(t, "done", "failed")
      BY <1>a, <1>b, <1>d, <1>f, <1>g, <1>9, <2>2 DEF ReindexRestored, KeepsShutdown
    <3> QED
      BY <1>a, <2>2, <3>1, <3>2, <3>3, CallKeepsCalm
  <2> QED
    BY <2>1, <2>2
<1> QED
  BY <1>1, <1>2, <1>3, <1>4, <1>5, <1>6, <1>7, <1>8, <1>9 DEF StopStep

\* A call begins: under the gate, or as one of the stops of stop_all.
LEMMA BeginKeepsCalm ==
  ASSUME Base, Calm, NEW t \in Tasks, NEW s \in Services,
         StopOne(t, s) \/ \E op \in Ops : Call(t, op, s)
  PROVE  Calm'
<1>0. /\ UNCHANGED <<inner, service_of, starting_services, pending_ready, process,
                     failures, phase>>
      /\ to_stop' = to_stop \ {s}
  <2>1. CASE StopOne(t, s)
    BY <2>1 DEF StopOne, ShutdownVars, ReadyVars, ProcessVars
  <2>2. ASSUME NEW op \in Ops, Call(t, op, s)
        PROVE  /\ to_stop' = to_stop /\ to_stop = {}
               /\ UNCHANGED <<inner, service_of, starting_services, pending_ready,
                              process, failures, phase>>
    BY <2>2 DEF Call, ReadyVars, ProcessVars, DaemonVars, Calm, OneCall
  <2> QED
    BY <2>1, <2>2
<1>1. PICK op \in Op :
        /\ BeginCall(t, op, s)
        /\ phase \in Ending => op \in {"stop", "force stop"}
        /\ \A u \in Tasks : task[u].service # s
        /\ phase # "down"
  <2>1. CASE StopOne(t, s)
    BY <2>1 DEF StopOne, Op, Calm, OneCall
  <2>2. ASSUME NEW op \in Ops, Call(t, op, s)
        PROVE  /\ BeginCall(t, op, s) /\ op \in Op /\ phase = "serving"
               /\ \A u \in Tasks : task[u].service # s
    BY <2>2 DEF Call, gate_free, Base, LabelsOK, LabelOK
  <2> QED
    BY <2>1, <2>2 DEF Ending
<1>2. /\ task[t].pc = "idle"
      /\ \A u \in Tasks \ {t} : task'[u] = task[u]
      /\ task'[t].pc = FirstPC(op) /\ task'[t].op = op
      /\ task'[t].service = s /\ task'[t].result = "none"
  <2>1. task \in [Tasks -> Task]
    BY DEF Base, Types
  <2>2. BeginCall(t, op, s)
    BY <1>1
  <2> QED
    BY <2>1, <2>2, BeginFields
<1>3. /\ FirstPC(op) \in {"reap", "take"}
      /\ op \in {"stop", "force stop"} => FirstPC(op) = "take" /\ op # "replace"
  BY DEF FirstPC
<1>4. OneCall'
  BY ZenonT(30), <1>0, <1>1, <1>2 DEF Calm, OneCall
<1>5. Reserved'
  <2>1. \A u \in Tasks : /\ task'[u].pc \in ReservedPC <=> task[u].pc \in ReservedPC
                         /\ task'[u].pc \in ReservedPC => task'[u].service = task[u].service
                         /\ task[u].pc \in AwaitPC => task'[u] = task[u]
    BY <1>2, <1>3 DEF ReservedPC, AwaitPC
  <2> QED
    BY <1>0, <2>1 DEF Calm, Reserved, awaited
<1>6. Kept'
  <2>1. \A u \in Tasks : task[u].pc \in HeldPC \cup {"spawn"} => u # t
    BY <1>2 DEF HeldPC
  <2>2. \A u \in Tasks : task'[u].pc \in HeldPC \cup {"spawn", "displaced"} => u # t
    BY <1>2, <1>3 DEF HeldPC
  <2> QED
    BY <1>0, <1>2, <2>1, <2>2 DEF Calm, Kept, Alive
<1>7. StopsOnly'
  BY <1>0, <1>1, <1>2, <1>3 DEF Calm, StopsOnly, StopPC
<1>8. Emptied'
  <2>1. phase \in Ending => task'[t].pc = "take"
    BY <1>1, <1>2, <1>3
  <2>2. Spare' = Spare
    BY <1>0 DEF Spare
  <2> QED
    BY <1>0, <1>2, <2>1, <2>2 DEF Calm, Emptied
<1> QED
  BY <1>4, <1>5, <1>6, <1>7, <1>8 DEF Calm

\* The caller lets go of the gate.
LEMMA ReturnKeepsCalm ==
  ASSUME Base, Calm, NEW t \in Tasks, Return(t)
  PROVE  Calm'
<1>0. /\ UNCHANGED <<inner, service_of, starting_services, pending_ready, process,
                     failures, phase, to_stop>>
      /\ task[t].pc = "done"
  BY DEF Return, ReadyVars, ProcessVars, DaemonVars
<1>1. /\ \A u \in Tasks \ {t} : task'[u] = task[u]
      /\ task'[t].pc = "idle" /\ task'[t].service = NoService
      /\ task'[t].result = "none" /\ task'[t].op = "none"
  BY FreeFields DEF Return, Base, Types, NoTask
<1>2. to_stop \subseteq Services
  BY DEF Base, Types
<1>3. OneCall'
  BY <1>0, <1>1, <1>2 DEF Calm, OneCall
<1>4. Reserved'
  <2>1. \A u \in Tasks : /\ task[u].pc \in ReservedPC \cup AwaitPC => task'[u] = task[u]
                         /\ task'[u].pc \in ReservedPC => task'[u] = task[u]
    BY <1>0, <1>1 DEF ReservedPC, AwaitPC
  <2> QED
    BY <1>0, <2>1 DEF Calm, Reserved, awaited
<1>5. Kept'
  BY <1>0, <1>1 DEF Calm, Kept, Alive, HeldPC, StopPC
<1>6. StopsOnly'
  BY <1>0, <1>1 DEF Calm, StopsOnly, StopPC
<1>7. Emptied'
  <2>1. Spare' = Spare
    BY <1>0 DEF Spare
  <2> QED
    BY <1>0, <1>1, <2>1 DEF Calm, Emptied
<1> QED
  BY <1>3, <1>4, <1>5, <1>6, <1>7 DEF Calm

\* Requests take senders out of pending_ready and leave the rest alone.
LEMMA RequestsKeepCalm ==
  ASSUME Base, Calm, NEW q \in Requests,
         \/ RequestStep(q)
         \/ \E r \in Runners, ready \in BOOLEAN : SendRequest(q, r, ready)
  PROVE  Calm'
<1>0. /\ UNCHANGED <<inner, service_of, starting_services, process, failures, phase,
                     to_stop, task>>
      /\ pending_ready' \subseteq pending_ready
  BY DEF RequestStep, ResolveIndexed, ForgetIndexed, RememberIndexed, ApplyRequest,
         SignalReady, SendRequest, RequestVars, ReadyVars
<1> QED
  BY <1>0 DEF Calm, OneCall, Reserved, awaited, Kept, Alive, StopsOnly, Emptied, Spare

\* Processes exit, and the maintenance task drops the ones that have.
LEMMA ExitsKeepCalm ==
  ASSUME Base, Calm, Maintain \/ \E r \in Runners : RunnerExit(r) \/ UnindexReaped(r)
  PROVE  Calm'
<1>0. UNCHANGED <<service_of, starting_services, pending_ready, failures, phase,
                  to_stop, task>>
  BY DEF Maintain, RunnerExit, UnindexReaped, ReadyVars, ProcessVars, DaemonVars
<1>1. \A v \in Runners : Alive(v)' => Alive(v)
  BY DEF Maintain, RunnerExit, UnindexReaped, ReadyVars, ProcessVars, Alive, Base, Types
<1>2. \A s \in Services : inner'[s] = inner[s] \/ (inner'[s] = NoRunner /\ Exited(inner[s]))
  BY DEF Maintain, RunnerExit, UnindexReaped, Base, Types
<1>3. OneCall' /\ Reserved' /\ StopsOnly'
  BY <1>0 DEF Calm, OneCall, Reserved, awaited, StopsOnly
<1>4. Kept'
  <2>1. ASSUME NEW v \in Runners, Alive(v)'
        PROVE  \/ inner'[service_of[v]] = v
               \/ \E t \in Tasks : task[t].pc \in HeldPC /\ task[t].runner = v
    <3>1. Alive(v) /\ service_of[v] \in Services
      BY <1>1, <2>1 DEF Base, RunnerKnown, Alive
    <3> QED
      BY <1>2, <3>1 DEF Calm, Kept, Exited, Alive
  <2>2. \A t \in Tasks : task[t].pc \in HeldPC \cup {"spawn"}
                           => inner'[task[t].service] = NoRunner
    <3>1. \A t \in Tasks : task[t].pc \in HeldPC \cup {"spawn"}
                             => task[t].service \in Services
      BY DEF Base, LabelsOK, LabelOK, HeldPC
    <3> QED
      BY <1>2, <3>1 DEF Calm, Kept
  <2> QED
    BY <1>0, <2>1, <2>2 DEF Calm, Kept, Alive
<1>5. Emptied'
  <2>1. Spare' = Spare
    BY <1>0 DEF Spare
  <2> QED
    BY <1>0, <1>2, <2>1 DEF Calm, Emptied
<1> QED
  BY <1>3, <1>4, <1>5 DEF Calm

\* The phases of the shutdown.
LEMMA ShutdownKeepsCalm ==
  ASSUME Base, Calm, BeginShutdown \/ StopAll \/ Terminated
  PROVE  Calm'
<1>0. /\ UNCHANGED <<inner, service_of, starting_services, pending_ready, process,
                     failures, task>>
      /\ failures \in Nat
  BY DEF BeginShutdown, StopAll, Terminated, vars, ShutdownVars, ReadyVars,
         ProcessVars, Base, Types
<1>1. Reserved' /\ Kept'
  BY <1>0 DEF Calm, Reserved, awaited, Kept, Alive
<1>2. CASE BeginShutdown \/ Terminated
  <2>1. \/ phase' = "draining" /\ phase = "serving" /\ to_stop' = to_stop
        \/ UNCHANGED <<phase, to_stop>>
    BY <1>2 DEF BeginShutdown, Terminated, vars
  <2>2. OneCall'
    BY <1>0, <2>1 DEF Calm, OneCall
  <2>3. StopsOnly'
    BY <1>0, <2>1 DEF Calm, StopsOnly, Ending
  <2>4. Emptied'
    BY <1>0, <2>1 DEF Calm, Emptied, Ending, Spare
  <2> QED
    BY <1>1, <2>2, <2>3, <2>4 DEF Calm
<1>3. CASE StopAll
  <2>1. /\ \A t \in Tasks : /\ task[t].pc = "idle" /\ task[t].service = NoService
                            /\ task[t].op = "none"
        /\ to_stop = {}
    BY <1>3 DEF StopAll, AllIdle, Base, LabelsOK, LabelOK
  <2>2. stopping_count = 0
    <3>1. {t \in Tasks : task[t].pc \in StopPC} = {}
      BY <2>1 DEF StopPC
    <3> QED
      BY <3>1, FS_EmptySet DEF stopping_count
  <2>3. \/ phase' = "stopping" /\ to_stop' = live_names
        \/ /\ phase = "stopping" /\ live_names # {}
           /\ phase' = "forcing" /\ to_stop' = live_names
        \/ /\ phase = "forcing" \/ (phase = "stopping" /\ live_names = {})
           /\ phase' = "down" /\ to_stop' = {}
    BY <1>3, <2>1, <2>2 DEF StopAll, has_live_services
  <2>4. OneCall'
    BY <1>0, <2>1, <2>3 DEF OneCall, live_names
  <2>5. phase = "stopping" /\ live_names # {} => failures >= 1
    BY <1>0, <2>1 DEF Calm, Emptied, Ending, Spare, live_names
  <2>6. StopsOnly'
    BY <1>0, <2>1, <2>3, <2>5 DEF StopsOnly
  <2>7. Emptied'
    <3>1. \A t \in Tasks : task'[t].pc # "restore"
      BY <1>0, <2>1
    <3>2. CASE to_stop' = live_names
      BY <1>0, <3>1, <3>2 DEF Emptied, live_names
    <3>3. CASE phase = "forcing" /\ phase' = "down"
      BY <1>0, <2>1, <3>1, <3>3 DEF Calm, Emptied, Ending, Spare
    <3>4. CASE live_names = {}
      BY <1>0, <3>1, <3>4 DEF Emptied, live_names
    <3> QED
      BY <2>3, <3>2, <3>3, <3>4
  <2> QED
    BY <1>1, <2>4, <2>6, <2>7 DEF Calm
<1> QED
  BY <1>2, <1>3

\* As long as no caller has been aborted, Calm holds.
CalmInv == Base /\ (aborts = 0 => Calm)

\* Every step keeps Calm, as long as there has been no abort.
LEMMA CalmStep == CalmInv /\ [Next]_vars => CalmInv'
<1> SUFFICES ASSUME CalmInv, [Next]_vars, aborts' = 0 PROVE Calm'
  BY BaseStep DEF CalmInv
<1>1. Base /\ Base'
  BY BaseStep DEF CalmInv
<1>2. aborts \in Nat
  BY <1>1 DEF Base, Types
<1>3. CASE UNCHANGED vars
  BY <1>3 DEF CalmInv, vars, Calm, OneCall, Reserved, awaited, Kept, Alive, StopsOnly,
              Emptied, Spare
<1>4. CASE Next
  <2>1. ASSUME NEW t \in Tasks, Abort(t) PROVE FALSE
    BY <1>2, <2>1 DEF Abort
  <2>2. aborts = 0
    <3>1. aborts' = aborts \/ \E t \in Tasks : Abort(t)
      <4>1. ASSUME NEW t \in Tasks,
                   \/ StartStep(t) \/ StopStep(t) \/ KillFails(t) \/ Return(t)
                   \/ \E s \in Services : StopOne(t, s) \/ \E op \in Ops : Call(t, op, s)
            PROVE  aborts' = aborts
        BY <4>1 DEF StartStep, ReapFirst, ReserveStart, ReapAgain, CheckRunning,
           SpawnRunner, InsertService, UpsertIndex, WriteBootstrap, WaitReady,
           RemovePending, CleanupFailure, CleanupKill, CleanupWait, ReleaseStart,
           ReapFinished, StopStep, KillFails, TakeRunning, UnindexTaken,
           GracefulShutdown, AwaitExit, Kill, KillWait, RestoreService,
           ReindexRestored, Return, StopOne, Call, DaemonVars, ShutdownVars
      <4>2. ASSUME NEW q \in Requests,
                   \/ RequestStep(q)
                   \/ \E r \in Runners, ready \in BOOLEAN : SendRequest(q, r, ready)
            PROVE  aborts' = aborts
        BY <4>2 DEF RequestStep, ResolveIndexed, ForgetIndexed, RememberIndexed,
           ApplyRequest, SignalReady, SendRequest, RequestVars
      <4>3. ASSUME \/ \E r \in Runners : RunnerExit(r) \/ UnindexReaped(r)
                   \/ Maintain \/ BeginShutdown \/ StopAll \/ Terminated
            PROVE  aborts' = aborts
        BY <4>3 DEF RunnerExit, UnindexReaped, Maintain, BeginShutdown, StopAll,
           Terminated, vars, DaemonVars, ShutdownVars
      <4> QED
        BY <1>4, <4>1, <4>2, <4>3 DEF Next
    <3> QED
      BY <2>1, <3>1
  <2>3. Calm
    BY <2>2 DEF CalmInv
  <2> QED
    BY <1>1, <1>4, <2>1, <2>3, StartKeepsCalm, StopKeepsCalm, BeginKeepsCalm,
       ReturnKeepsCalm, RequestsKeepCalm, ExitsKeepCalm, ShutdownKeepsCalm DEF Next
<1> QED
  BY <1>3, <1>4

\* Calm holds in every reachable state before the first abort.
LEMMA CalmAlways == Spec => []CalmInv
<1>1. Init => CalmInv
  BY BaseInit, CalmInit DEF CalmInv
<1> QED
  BY <1>1, CalmStep, PTL DEF Spec

\* Every early return and error path of start gives its reservation and its
\* sender back.
THEOREM ReservationHolds == Spec => [](aborts = 0 => ReservationIsExact)
<1>1. Base /\ Calm => ReservationIsExact
  <2> SUFFICES ASSUME Base, Calm PROVE ReservationIsExact
    OBVIOUS
  <2>1. \A s \in starting_services : s \in Services
    BY DEF Base, Types
  <2>2. \A t \in Tasks : task[t].pc \in ReservedPC => task[t].service \in Services
    BY DEF Base, LabelsOK, LabelOK, ReservedPC
  <2> QED
    BY <2>1, <2>2 DEF Calm, Reserved, ReservationIsExact
<1>2. CalmInv => (aborts = 0 => ReservationIsExact)
  BY <1>1 DEF CalmInv
<1> QED
  BY <1>2, CalmAlways, PTL

\* No live process is ever lost: inner tracks it, or a call holds it.
THEOREM NothingIsOrphaned == Spec => [](aborts = 0 => NoOrphan)
<1>1. Base /\ Calm => NoOrphan
  <2> SUFFICES ASSUME Base, Calm, NEW r \in Runners, Alive(r)
               PROVE  Tracked(r) \/ \E t \in Tasks : Active(t) /\ task[t].runner = r
    BY DEF NoOrphan
  <2>1. service_of[r] \in Services
    BY DEF Base, RunnerKnown, Alive
  <2> QED
    BY <2>1 DEF Calm, Kept, Tracked, Active, HeldPC
<1>2. CalmInv => (aborts = 0 => NoOrphan)
  BY <1>1 DEF CalmInv
<1> QED
  BY <1>2, CalmAlways, PTL

\* Two live processes of one service are the same process.
LEMMA CalmOneRunner == Base /\ Calm => OneRunner
<1> SUFFICES ASSUME Base, Calm, NEW r1 \in Runners, NEW r2 \in Runners,
                    Alive(r1), Alive(r2), service_of[r1] = service_of[r2]
             PROVE  r1 = r2
  BY DEF OneRunner
<1>1. \A r \in {r1, r2} : service_of[r] \in Services
  BY DEF Base, RunnerKnown, Alive
<1>2. ASSUME NEW r \in {r1, r2}, inner[service_of[r]] # r
      PROVE  \E t \in Tasks : /\ task[t].pc \in HeldPC /\ task[t].runner = r
                              /\ task[t].service = service_of[r]
                              /\ inner[service_of[r]] = NoRunner
  BY <1>2 DEF Calm, Kept, Base, RunnerKnown
<1>3. CASE inner[service_of[r1]] = r1
  BY <1>2, <1>3
<1>4. CASE inner[service_of[r1]] # r1
  <2>1. PICK t \in Tasks : /\ task[t].pc \in HeldPC /\ task[t].runner = r1
                           /\ task[t].service = service_of[r1]
                           /\ inner[service_of[r1]] = NoRunner
    BY <1>2, <1>4
  <2>2. PICK u \in Tasks : /\ task[u].pc \in HeldPC /\ task[u].runner = r2
                           /\ task[u].service = service_of[r2]
    BY <1>2, <2>1
  <2>3. t = u
    BY <1>1, <2>1, <2>2 DEF Calm, OneCall
  <2> QED
    BY <2>1, <2>2, <2>3
<1> QED
  BY <1>3, <1>4

\* One runner process per service, as long as no caller is aborted (the run
\* supervisor_abort shows that an abort breaks it).
THEOREM OneRunnerPerService == Spec => [](aborts = 0 => OneRunner)
<1>1. CalmInv => (aborts = 0 => OneRunner)
  BY CalmOneRunner DEF CalmInv
<1> QED
  BY <1>1, CalmAlways, PTL

\* After the two passes of stop_all nothing is left alive, unless kills failed
\* twice.
THEOREM ShutdownLeavesNothing == Spec => [](aborts = 0 => ShutdownIsClean)
<1>1. Base /\ Calm => ShutdownIsClean
  <2> SUFFICES ASSUME Base, Calm, phase = "down", failures <= 1, NEW r \in Runners,
                      Alive(r)
               PROVE  FALSE
    BY DEF ShutdownIsClean
  <2>1. failures \in Nat /\ service_of[r] \in Services
    BY DEF Base, Types, RunnerKnown, Alive
  <2>2. \A t \in Tasks : task[t].pc = "idle"
    BY DEF Calm, StopsOnly
  <2>3. inner[service_of[r]] = r
    BY <2>2 DEF Calm, Kept, HeldPC
  <2>4. to_stop = {}
    BY DEF Calm, OneCall
  <2>5. failures < 2
    BY <2>1
  <2> QED
    BY <2>1, <2>2, <2>3, <2>4, <2>5 DEF Calm, Emptied, Ending, Spare
<1>2. CalmInv => (aborts = 0 => ShutdownIsClean)
  BY <1>1 DEF CalmInv
<1> QED
  BY <1>2, CalmAlways, PTL

-----------------------------------------------------------------------------
(* The supervisor implements ServiceContract.                              *)

\* Initially no process and no call.
LEMMA ContractInit == Init => Contract!Init
<1> SUFFICES ASSUME Init PROVE Contract!Init
  OBVIOUS
<1>1. \A s \in Services : running_of(s) = NoRunner
  BY DEF Init, running_of, Alive
<1>2. \A t \in Tasks : call_of(t) = Contract!NoCall
  BY DEF Init, call_of, NoTask, Contract!NoCall
<1>3. {r \in Runners : process[r] # "unborn"} = {}
  BY DEF Init
<1> QED
  BY <1>1, <1>2, <1>3 DEF Contract!Init

\* The process of a service in the abstract.
LEMMA RunningOf ==
  ASSUME OneRunner, NEW s \in Services
  PROVE  /\ \A r \in Runners : Alive(r) /\ service_of[r] = s => running_of(s) = r
         /\ (\A r \in Runners : Alive(r) => service_of[r] # s)
              => running_of(s) = NoRunner
<1>1. ASSUME NEW r \in Runners, Alive(r), service_of[r] = s
      PROVE  running_of(s) = r
  <2>1. {v \in Runners : Alive(v) /\ service_of[v] = s} = {r}
    BY <1>1 DEF OneRunner
  <2> QED
    BY <2>1 DEF running_of
<1>2. ASSUME \A r \in Runners : Alive(r) => service_of[r] # s
      PROVE  running_of(s) = NoRunner
  <2>1. {v \in Runners : Alive(v) /\ service_of[v] = s} = {}
    BY <1>2
  <2> QED
    BY <2>1 DEF running_of
<1> QED
  BY <1>1, <1>2

\* It changes only when a process of the service begins or ends.
LEMMA RunningStays ==
  ASSUME NEW s \in Services,
         \A r \in Runners : (Alive(r) /\ service_of[r] = s)' <=> Alive(r) /\ service_of[r] = s
  PROVE  running_of(s)' = running_of(s)
<1> DEFINE alive == {r \in Runners : Alive(r) /\ service_of[r] = s}
<1>1. alive' = alive
  OBVIOUS
<1>2. running_of(s) = IF alive = {} THEN NoRunner ELSE CHOOSE r \in alive : TRUE
  BY DEF running_of
<1>3. running_of(s)' = IF alive' = {} THEN NoRunner ELSE CHOOSE r \in alive' : TRUE
  BY DEF running_of
<1> HIDE DEF alive
<1> QED
  BY <1>1, <1>2, <1>3

\* A call in the abstract, as a function of the fields of its task.
LEMMA CallOf ==
  ASSUME NEW t \in Tasks
  PROVE  /\ task[t].pc = "idle" => call_of(t) = Contract!NoCall
         /\ task[t].pc = "done" =>
              call_of(t) = [stage |-> "answered", op |-> task[t].op,
                            service |-> task[t].service, result |-> task[t].result]
         /\ task[t].pc \notin {"idle", "done"} =>
              call_of(t) = [stage |-> "open", op |-> task[t].op,
                            service |-> task[t].service, result |-> "none"]
  BY DEF call_of, Contract!NoCall

\* A step that moves no call and no process is hidden.
LEMMA HiddenStep ==
  ASSUME UNCHANGED task,
         \A r \in Runners : (process'[r] = "unborn" <=> process[r] = "unborn")
                            /\ (Alive(r)' <=> Alive(r)),
         UNCHANGED service_of
  PROVE  Contract!Next
<1>1. \A s \in Services : running_of(s)' = running_of(s)
  BY RunningStays
<1>2. \A t \in Tasks : call_of(t)' = call_of(t)
  BY DEF call_of
<1> QED
  BY <1>1, <1>2 DEF Contract!Next, Contract!Hidden, Contract!vars

\* The call of t goes on, or is answered.
Continues(t) ==
  /\ \A u \in Tasks \ {t} : task'[u] = task[u]
  /\ task[t].pc \notin {"idle", "done"} /\ task'[t].pc # "idle"
  /\ task'[t].op = task[t].op /\ task'[t].service = task[t].service

\* No process begins or ends.
ProcessesStay ==
  /\ UNCHANGED service_of
  /\ \A v \in Runners : (process'[v] = "unborn" <=> process[v] = "unborn")
                        /\ (Alive(v)' <=> Alive(v))

\* A stop that is answered "ok" or "not found" leaves no process.
AnswersTruly(t) ==
  task'[t].pc = "done" /\ task[t].op \in {"stop", "force stop"}
    /\ task'[t].result \in {"ok", "not found"}
    => \A v \in Runners : Alive(v) => service_of[v] # task[t].service

\* A step of a call that begins and ends no process is hidden, or its answer.
LEMMA CallStep ==
  ASSUME Base, Base', OneRunner, NEW t \in Tasks,
         Continues(t), ProcessesStay, AnswersTruly(t)
  PROVE  Contract!Next
<1>0. task[t].service \in Services /\ task'[t].result \in Result
  BY DEF Base, Types, LabelsOK, LabelOK, Continues, Task
<1>1. \A s \in Services : running_of(s)' = running_of(s)
  BY RunningStays DEF ProcessesStay
<1>2. {v \in Runners : process[v] # "unborn"}' = {v \in Runners : process[v] # "unborn"}
  BY DEF ProcessesStay
<1>3. \A u \in Tasks \ {t} : call_of(u)' = call_of(u)
  BY DEF call_of, Continues
<1>4. call_of(t) = [stage |-> "open", op |-> task[t].op,
                    service |-> task[t].service, result |-> "none"]
  BY CallOf DEF Continues
<1>5. CASE task'[t].pc # "done"
  <2>1. call_of(t)' = call_of(t)
    BY <1>4, <1>5 DEF call_of, Continues
  <2> QED
    BY <1>1, <1>2, <1>3, <2>1 DEF Contract!Next, Contract!Hidden, Contract!vars
<1>6. CASE task'[t].pc = "done"
  <2> DEFINE calls == [u \in Tasks |-> call_of(u)]
  <2> DEFINE processes == [s \in Services |-> running_of(s)]
  <2> DEFINE x == task'[t].result
  <2>1. call_of(t)' = [stage |-> "answered", op |-> task[t].op,
                       service |-> task[t].service, result |-> x]
    BY <1>6 DEF call_of, Continues
  <2>2. /\ calls[t].stage = "open" /\ calls[t].op = task[t].op
        /\ calls[t].service = task[t].service
    BY <1>4
  <2>3. calls' = [calls EXCEPT ![t] = call_of(t)']
    BY <1>3
  <2>4. processes' = processes
    BY <1>1
  <2>5. task[t].op \in Contract!Stopping /\ x \in {"ok", "not found"}
          => processes[task[t].service] = NoRunner
    BY <1>0, <1>6, RunningOf DEF Contract!Stopping, AnswersTruly
  <2> HIDE DEF calls, processes
  <2>6. calls' = [calls EXCEPT ![t] =
                    [stage |-> "answered", op |-> calls[t].op,
                     service |-> calls[t].service, result |-> x]]
    BY <2>1, <2>2, <2>3
  <2> HIDE DEF x
  <2>7. Contract!Answer(t, x)
    BY <1>2, <2>2, <2>4, <2>5, <2>6 DEF Contract!Answer, calls, processes
  <2> QED
    BY <1>0, <2>7 DEF Contract!Next, x
<1> QED
  BY <1>5, <1>6

\* What a kill may change: a live process becomes a killed one.
LEMMA KillKeepsAlive ==
  ASSUME Types, NEW r \in Runners, process' = start_kill(r), UNCHANGED service_of
  PROVE  ProcessesStay
  BY DEF Types, start_kill, ProcessesStay, Alive

\* Becomes, without the runner and the result.
LEMMA BecomesContinues ==
  ASSUME NEW t \in Tasks, NEW pc, NEW r, NEW x, Becomes(t, pc, r, x),
         task[t].pc \notin {"idle", "done"}, pc # "idle"
  PROVE  Continues(t)
  BY DEF Becomes, Continues

\* The steps of start other than the launch begin and end no process.
LEMMA StartContinues ==
  ASSUME Base, NEW t \in Tasks, StartStep(t), ~SpawnRunner(t)
  PROVE  Continues(t) /\ ProcessesStay /\ AnswersTruly(t)
<1> DEFINE s == task[t].service
<1> DEFINE r == inner[s]
<1>p. task[t].pc \in StartPC
  BY DEF StartStep, ReapFirst, ReserveStart, ReapAgain, CheckRunning, SpawnRunner,
         InsertService, UpsertIndex, WriteBootstrap, WaitReady, RemovePending,
         CleanupFailure, CleanupKill, CleanupWait, ReleaseStart, ReapFinished,
         StartPC, ReservedPC
<1>a. /\ Types /\ task \in [Tasks -> Task] /\ s \in Services
      /\ task[t].pc \notin {"idle", "done"}
      /\ r \in Runners \cup {NoRunner} /\ task[t].runner \in Runners \cup {NoRunner}
      /\ task[t].result \in Result
  BY <1>p DEF Base, Types, LabelsOK, LabelOK, Task, StartPC, ReservedPC
<1>b. task[t].pc = "condemned" => task[t].runner \in Runners
  BY <1>a DEF Base, LabelsOK, LabelOK, RunnerPC, HeldPC
<1>1. AnswersTruly(t)
  BY <1>p DEF Base, LabelsOK, LabelOK, AnswersTruly, StartOp
<1>2. ProcessesStay
  <2>1. CASE CleanupKill(t)
    BY <1>a, <1>b, <2>1, KillKeepsAlive DEF CleanupKill
  <2>2. CASE ~CleanupKill(t)
    <3>1. UNCHANGED <<process, service_of>>
      BY <2>2 DEF StartStep, ReapFirst, ReserveStart, ReapAgain, CheckRunning,
         InsertService, UpsertIndex, WriteBootstrap, WaitReady, RemovePending,
         CleanupFailure, CleanupWait, ReleaseStart, ReapFinished, ProcessVars
    <3> QED
      BY <3>1 DEF ProcessesStay, Alive
  <2> QED
    BY <2>1, <2>2
<1>3. Continues(t)
  <2> USE <1>a, Labels
  <2>1. ASSUME NEW pc \in PC \ {"idle"}, Goto(t, pc) PROVE Continues(t)
    BY <2>1, GotoFields, BecomesContinues
  <2>2. ASSUME NEW pc \in PC \ {"idle"}, NEW v \in Runners \cup {NoRunner},
               Hold(t, pc, v)
        PROVE  Continues(t)
    BY <2>2, HoldFields, BecomesContinues
  <2>3. ASSUME NEW pc \in PC \ {"idle"}, NEW x \in Result,
               task' = [task EXCEPT ![t].pc = pc, ![t].result = x]
        PROVE  Continues(t)
    BY <2>3, ResultFields, BecomesContinues
  <2>4. CASE ReapFirst(t) \/ ReapAgain(t)
    <3>1. PICK pc \in {"reap", "reap again"}, next \in {"reserve", "check"} :
            ReapFinished(t, pc, next)
      BY <2>4 DEF ReapFirst, ReapAgain
    <3>2. \/ Hold(t, next, NoRunner) \/ Hold(t, pc, r) \/ Goto(t, next)
      BY <3>1 DEF ReapFinished
    <3> QED
      BY <2>1, <2>2, <3>2
  <2>5. CASE ReserveStart(t) \/ CheckRunning(t)
    BY <2>1, <2>3, <2>5 DEF ReserveStart, CheckRunning, End, after_busy, Result
  <2>6. CASE InsertService(t) \/ UpsertIndex(t) \/ RemovePending(t) \/ CleanupKill(t)
             \/ CleanupWait(t) \/ ReleaseStart(t)
    BY <2>1, <2>6 DEF InsertService, UpsertIndex, RemovePending, CleanupKill,
       CleanupWait, ReleaseStart, after_cleanup_kill
  <2>7. CASE WriteBootstrap(t) \/ WaitReady(t)
    BY <2>1, <2>3, <2>7 DEF WriteBootstrap, WaitReady, Result
  <2>8. CASE CleanupFailure(t)
    BY <2>1, <2>2, <2>8 DEF CleanupFailure
  <2> QED
    BY <2>4, <2>5, <2>6, <2>7, <2>8 DEF StartStep
<1> QED
  BY <1>1, <1>2, <1>3

\* The steps of stop begin and end no process, and its answers are true.
LEMMA StopContinues ==
  ASSUME Base, Calm, NEW t \in Tasks, StopStep(t) \/ KillFails(t)
  PROVE  Continues(t) /\ ProcessesStay /\ AnswersTruly(t)
<1> DEFINE s == task[t].service
<1> DEFINE r == inner[s]
<1>p. task[t].pc \in StopPC
  BY DEF StopStep, KillFails, TakeRunning, UnindexTaken, GracefulShutdown, AwaitExit,
         Kill, KillWait, RestoreService, ReindexRestored, StopPC
<1>a. /\ Types /\ task \in [Tasks -> Task] /\ s \in Services
      /\ task[t].pc \notin {"idle", "done"}
      /\ r \in Runners \cup {NoRunner} /\ task[t].runner \in Runners \cup {NoRunner}
      /\ task[t].result \in Result
  BY <1>p DEF Base, Types, LabelsOK, LabelOK, Task, StopPC
<1>b. task[t].pc \in HeldPC => task[t].runner \in Runners
  BY <1>a DEF Base, LabelsOK, LabelOK, RunnerPC
<1>d. /\ \A v \in Runners : Alive(v) /\ service_of[v] = s
           => r = v \/ (task[t].pc \in HeldPC /\ task[t].runner = v)
      /\ task[t].pc \in HeldPC => r = NoRunner
  BY <1>a, CallOwns DEF Calm, Kept
<1>1. ProcessesStay
  <2>1. CASE Kill(t)
    BY <1>a, <1>b, <2>1, KillKeepsAlive DEF Kill, HeldPC
  <2>2. CASE ~Kill(t)
    <3>1. UNCHANGED <<process, service_of>>
      BY <2>2 DEF StopStep, KillFails, TakeRunning, UnindexTaken, GracefulShutdown,
         AwaitExit, KillWait, RestoreService, ReindexRestored, ProcessVars
    <3> QED
      BY <3>1 DEF ProcessesStay, Alive
  <2> QED
    BY <2>1, <2>2
<1> DEFINE Going == {"taken", "graceful", "grace", "kill", "killing", "restore",
                     "reindex", "displaced"}
<1>l. Going \subseteq PC /\ "idle" \notin Going /\ "done" \notin Going
  BY Labels
<1> USE <1>a
<1>2. ASSUME NEW pc \in Going,
             Goto(t, pc) \/ (\E v \in Runners \cup {NoRunner} : Hold(t, pc, v))
               \/ task' = [task EXCEPT ![t].pc = pc, ![t].result = "failed"]
      PROVE  Continues(t) /\ AnswersTruly(t)
  <2>1. \E v, x : Becomes(t, pc, v, x)
    BY <1>l, <1>2, GotoFields, HoldFields, ResultFields DEF Result
  <2> HIDE DEF Going
  <2> QED
    BY <1>l, <2>1, BecomesContinues DEF Becomes, AnswersTruly
<1>3. ASSUME End(t, "failed") PROVE Continues(t) /\ AnswersTruly(t)
  <2>1. Becomes(t, "done", task[t].runner, "failed")
    BY <1>3, EndFields DEF Result
  <2> QED
    BY <2>1, BecomesContinues DEF Becomes, AnswersTruly
<1>4. ASSUME NEW x \in {"ok", "not found"}, StopEnds(t, x),
             r = NoRunner, task[t].pc \in HeldPC => Exited(task[t].runner)
      PROVE  Continues(t) /\ AnswersTruly(t)
  <2>1. \A v \in Runners : Alive(v) => service_of[v] # s
    BY <1>b, <1>d, <1>4 DEF Alive, Exited
  <2>2. \E pc \in {"done", "reap"} : \E v, y : Becomes(t, pc, v, y)
    BY <1>4, StopEndsFields
  <2> QED
    BY <2>1, <2>2, BecomesContinues DEF AnswersTruly
<1>g. ASSUME NEW pc \in Going, Goto(t, pc)
      PROVE  Continues(t) /\ AnswersTruly(t)
  BY <1>2, <1>g
<1>h. ASSUME NEW pc \in Going, NEW v \in Runners \cup {NoRunner},
             Hold(t, pc, v)
      PROVE  Continues(t) /\ AnswersTruly(t)
  BY <1>2, <1>h
<1>f. ASSUME task' = [task EXCEPT ![t].pc = "restore", ![t].result = "failed"]
      PROVE  Continues(t) /\ AnswersTruly(t)
  BY <1>2, <1>f
<1>5. CASE TakeRunning(t)
  <2>1. \/ StopEnds(t, "not found") /\ r = NoRunner /\ task[t].pc \notin HeldPC
        \/ Hold(t, "taken", r)
    BY <1>5 DEF TakeRunning, HeldPC
  <2> QED
    BY <1>1, <1>h, <1>4, <2>1
<1>6. CASE UnindexTaken(t)
  BY <1>1, <1>g, <1>4, <1>6, <1>d DEF UnindexTaken, HeldPC
<1>7. CASE GracefulShutdown(t) \/ Kill(t)
  BY <1>1, <1>g, <1>7 DEF GracefulShutdown, Kill
<1>8. CASE AwaitExit(t)
  BY <1>1, <1>g, <1>4, <1>8, <1>d DEF AwaitExit, HeldPC
<1>9. CASE KillWait(t)
  BY <1>1, <1>3, <1>4, <1>9, <1>d DEF KillWait, HeldPC, wait_over
<1>10. CASE KillFails(t)
  BY <1>1, <1>f, <1>3, <1>10 DEF KillFails
<1>11. CASE RestoreService(t) \/ ReindexRestored(t)
  BY <1>1, <1>g, <1>3, <1>11 DEF RestoreService, ReindexRestored
<1> QED
  BY <1>1, <1>5, <1>6, <1>7, <1>8, <1>9, <1>10, <1>11 DEF StopStep

\* The launch finds no process of its service.
LEMMA LaunchStep ==
  ASSUME Base, Calm, Base', Calm', NEW t \in Tasks, SpawnRunner(t)
  PROVE  Contract!Next
<1> DEFINE s == task[t].service
<1> DEFINE calls == [u \in Tasks |-> call_of(u)]
<1> DEFINE processes == [w \in Services |-> running_of(w)]
<1>a. /\ Types /\ task \in [Tasks -> Task] /\ s \in Services /\ task[t].pc = "spawn"
      /\ task[t].op \in StartOp
  BY DEF SpawnRunner, Base, Types, LabelsOK, LabelOK, StartPC, ReservedPC
<1>b. \A v \in Runners : Alive(v) => service_of[v] # s
  <2>1. inner[s] = NoRunner
    BY <1>a DEF Calm, Kept
  <2> QED
    BY <1>a, <2>1, CallOwns DEF HeldPC
<1>o. OneRunner /\ OneRunner'
  <2>1. OneRunner
    BY CalmOneRunner
  <2>2. (Base /\ Calm => OneRunner)'
    BY CalmOneRunner, PTL
  <2> QED
    BY <2>1, <2>2
<1>1. CASE /\ task' = [task EXCEPT ![t].pc = "release", ![t].result = "failed"]
           /\ UNCHANGED <<service_of, process>>
  <2>1. Becomes(t, "release", task[t].runner, "failed")
    BY <1>a, <1>1, Labels, ResultFields DEF Result
  <2>2. Continues(t) /\ AnswersTruly(t)
    BY <1>a, <2>1, BecomesContinues DEF Becomes, AnswersTruly
  <2>3. ProcessesStay
    BY <1>1 DEF ProcessesStay, Alive
  <2> QED
    BY <1>o, <2>2, <2>3, CallStep
<1>2. ASSUME NEW r \in Runners, process[r] = "unborn",
             process' = [process EXCEPT ![r] = "live"],
             service_of' = [service_of EXCEPT ![r] = s], Hold(t, "insert", r)
      PROVE  Contract!Next
  <2>1. Becomes(t, "insert", r, task[t].result)
    BY <1>a, <1>2, Labels, HoldFields
  <2>2. \A u \in Tasks : call_of(u)' = call_of(u)
    BY <1>a, <2>1 DEF Becomes, call_of
  <2>3. calls' = calls
    BY <2>2
  <2>4. call_of(t) = [stage |-> "open", op |-> task[t].op, service |-> s,
                      result |-> "none"]
    BY <1>a, CallOf
  <2>5. calls[t].stage = "open" /\ calls[t].op \in StartOp /\ calls[t].service = s
    BY <1>a, <2>4
  <2>6. running_of(s) = NoRunner
    BY <1>a, <1>b, <1>o, RunningOf
  <2>7. ASSUME NEW w \in Services, w = s PROVE running_of(w)' = r
    <3> DEFINE born == {v \in Runners : Alive(v) /\ service_of[v] = w}'
    <3>1. born = {r}
      BY <1>a, <1>b, <1>2, <2>7 DEF Types, Alive
    <3>2. running_of(w)' = IF born = {} THEN NoRunner ELSE CHOOSE v \in born : TRUE
      BY DEF running_of
    <3> HIDE DEF born
    <3> QED
      BY <3>1, <3>2
  <2>8. ASSUME NEW w \in Services, w # s PROVE running_of(w)' = running_of(w)
    <3>1. \A v \in Runners : (Alive(v) /\ service_of[v] = w)'
                               <=> Alive(v) /\ service_of[v] = w
      BY <1>a, <1>2, <2>8 DEF Types, Alive
    <3> QED
      BY <3>1, RunningStays
  <2>9. processes[s] = NoRunner /\ processes' = [processes EXCEPT ![s] = r]
    <3>1. s \in Services
      BY <1>a
    <3> HIDE DEF s
    <3>2. processes' = [w \in Services |-> running_of(w)']
      OBVIOUS
    <3>3. \A w \in Services : processes'[w] = IF w = s THEN r ELSE processes[w]
      BY <2>7, <2>8, <3>2
    <3> QED
      BY <2>6, <3>1, <3>2, <3>3
  <2>10. /\ r \notin {v \in Runners : process[v] # "unborn"}
         /\ {v \in Runners : process[v] # "unborn"}'
              = {v \in Runners : process[v] # "unborn"} \cup {r}
    BY <1>a, <1>2 DEF Types
  <2> HIDE DEF calls, processes
  <2>11. Contract!Launch(t, r)
    BY <2>3, <2>5, <2>9, <2>10
       DEF Contract!Launch, Contract!Starting, StartOp, calls, processes
  <2> QED
    BY <2>11 DEF Contract!Next
<1> QED
  BY <1>1, <1>2 DEF SpawnRunner

\* A call that begins is an Invoke.
LEMMA InvokeStep ==
  ASSUME Base, NEW t \in Tasks, NEW s \in Services,
         StopOne(t, s) \/ \E op \in Ops : Call(t, op, s)
  PROVE  Contract!Next
<1> DEFINE calls == [u \in Tasks |-> call_of(u)]
<1>1. PICK op \in Op : BeginCall(t, op, s)
  BY DEF StopOne, Call, Op
<1>2. UNCHANGED <<process, service_of>>
  BY DEF StopOne, Call, ShutdownVars, ProcessVars
<1>3. /\ task[t].pc = "idle"
      /\ \A u \in Tasks \ {t} : task'[u] = task[u]
      /\ task'[t].pc = FirstPC(op) /\ task'[t].op = op /\ task'[t].service = s
  BY <1>1, BeginFields DEF Base, Types
<1>4. call_of(t) = Contract!NoCall
  BY <1>3, CallOf
<1>5. call_of(t)' = [stage |-> "open", op |-> op, service |-> s, result |-> "none"]
  BY <1>3 DEF call_of, FirstPC
<1>6. \A u \in Tasks \ {t} : call_of(u)' = call_of(u)
  BY <1>3 DEF call_of
<1>7. /\ calls[t].stage = "none"
      /\ calls' = [calls EXCEPT ![t] = [stage |-> "open", op |-> op, service |-> s,
                                        result |-> "none"]]
  <2>1. calls[t].stage = "none"
    BY <1>4 DEF Contract!NoCall
  <2>2. calls' = [calls EXCEPT ![t] = call_of(t)']
    BY <1>6
  <2> HIDE DEF calls
  <2> QED
    BY <1>5, <2>1, <2>2
<1>8. \A w \in Services : running_of(w)' = running_of(w)
  BY <1>2, RunningStays DEF Alive
<1> HIDE DEF calls
<1>9. Contract!Invoke(t, op, s)
  BY <1>2, <1>7, <1>8 DEF Contract!Invoke, calls
<1> QED
  BY <1>9 DEF Contract!Next

\* A caller that lets go has had its answer.
LEMMA ForgetStep ==
  ASSUME Base, NEW t \in Tasks, Return(t)
  PROVE  Contract!Next
<1> DEFINE calls == [u \in Tasks |-> call_of(u)]
<1>1. /\ task[t].pc = "done" /\ task'[t] = NoTask
      /\ \A u \in Tasks \ {t} : task'[u] = task[u]
      /\ UNCHANGED <<process, service_of>>
  BY FreeFields DEF Return, Base, Types, ProcessVars
<1>2. call_of(t) = [stage |-> "answered", op |-> task[t].op,
                    service |-> task[t].service, result |-> task[t].result]
  BY <1>1, CallOf
<1>3. call_of(t)' = Contract!NoCall
  BY <1>1 DEF call_of, NoTask, Contract!NoCall
<1>4. \A u \in Tasks \ {t} : call_of(u)' = call_of(u)
  BY <1>1 DEF call_of
<1>5. calls[t].stage = "answered" /\ calls' = [calls EXCEPT ![t] = Contract!NoCall]
  <2>1. calls[t].stage = "answered"
    BY <1>2
  <2>2. calls' = [calls EXCEPT ![t] = call_of(t)']
    BY <1>4
  <2> HIDE DEF calls
  <2> QED
    BY <1>3, <2>1, <2>2
<1>6. \A w \in Services : running_of(w)' = running_of(w)
  BY <1>1, RunningStays DEF Alive
<1> HIDE DEF calls
<1>7. Contract!Forget(t)
  BY <1>1, <1>5, <1>6 DEF Contract!Forget, calls
<1> QED
  BY <1>7 DEF Contract!Next

\* An exit takes the process of its service.
LEMMA VanishStep ==
  ASSUME Base, Calm, Base', Calm', NEW r \in Runners, RunnerExit(r)
  PROVE  Contract!Next
<1> DEFINE s == service_of[r]
<1> DEFINE processes == [w \in Services |-> running_of(w)]
<1>a. /\ Types /\ s \in Services /\ Alive(r) /\ process' = [process EXCEPT ![r] = "exited"]
      /\ UNCHANGED <<service_of, task>>
  BY DEF RunnerExit, Base, RunnerKnown, Alive
<1>o. OneRunner
  BY CalmOneRunner
<1>1. \A u \in Tasks : call_of(u)' = call_of(u)
  BY <1>a DEF call_of
<1>2. running_of(s) = r
  BY <1>a, <1>o, RunningOf
<1>3. running_of(s)' = NoRunner
  <2> DEFINE left == {v \in Runners : Alive(v) /\ service_of[v] = s}'
  <2>1. left = {}
    BY <1>a, <1>o DEF Types, Alive, OneRunner
  <2>2. running_of(s)' = IF left = {} THEN NoRunner ELSE CHOOSE v \in left : TRUE
    BY <1>a DEF running_of
  <2> HIDE DEF left
  <2> QED
    BY <2>1, <2>2
<1>4. ASSUME NEW w \in Services, w # s PROVE running_of(w)' = running_of(w)
  <2>1. \A v \in Runners : (Alive(v) /\ service_of[v] = w)'
                             <=> Alive(v) /\ service_of[v] = w
    BY <1>a, <1>4 DEF Types, Alive
  <2> QED
    BY <2>1, RunningStays
<1>5. processes[s] # NoRunner /\ processes' = [processes EXCEPT ![s] = NoRunner]
  BY <1>a, <1>2, <1>3, <1>4
<1>6. {v \in Runners : process[v] # "unborn"}' = {v \in Runners : process[v] # "unborn"}
  BY <1>a DEF Types, Alive
<1> HIDE DEF processes
<1>7. Contract!Vanish(s)
  BY <1>1, <1>5, <1>6 DEF Contract!Vanish, processes
<1> QED
  BY <1>a, <1>7 DEF Contract!Next

\* Every step is a step of the contract, or leaves it as it is.
LEMMA ContractStep ==
  ASSUME CalmInv, CalmInv', aborts = 0, aborts' = 0, [Next]_vars
  PROVE  [Contract!Next]_(Contract!vars)
<1>1. Base /\ Calm /\ Base' /\ Calm' /\ OneRunner
  BY CalmOneRunner DEF CalmInv
<1>2. CASE UNCHANGED vars
  <2>1. UNCHANGED task /\ UNCHANGED service_of /\ UNCHANGED process
    BY <1>2 DEF vars
  <2> QED
    BY <2>1, HiddenStep DEF Alive
<1>3. ASSUME NEW t \in Tasks, StartStep(t) \/ StopStep(t) \/ KillFails(t)
      PROVE  Contract!Next
  BY <1>1, <1>3, StartContinues, StopContinues, CallStep, LaunchStep
<1>4. ASSUME NEW t \in Tasks, Abort(t) PROVE FALSE
  BY <1>4 DEF Abort
<1>5. ASSUME NEW q \in Requests,
             \/ RequestStep(q)
             \/ \E r \in Runners, ready \in BOOLEAN : SendRequest(q, r, ready)
      PROVE  Contract!Next
  <2>1. UNCHANGED task /\ UNCHANGED service_of /\ UNCHANGED process
    BY <1>5 DEF RequestStep, ResolveIndexed, ForgetIndexed, RememberIndexed,
       ApplyRequest, SignalReady, SendRequest, RequestVars
  <2> QED
    BY <2>1, HiddenStep DEF Alive
<1>6. ASSUME \/ \E r \in Runners : UnindexReaped(r)
             \/ Maintain \/ BeginShutdown \/ StopAll \/ Terminated
      PROVE  Contract!Next
  <2>1. UNCHANGED task /\ UNCHANGED service_of /\ UNCHANGED process
    BY <1>6 DEF UnindexReaped, Maintain, BeginShutdown, StopAll, Terminated, vars,
       ProcessVars, ShutdownVars
  <2> QED
    BY <2>1, HiddenStep DEF Alive
<1>7. CASE Next
  <2>1. ASSUME NEW t \in Tasks, NEW s \in Services,
               StopOne(t, s) \/ \E op \in Ops : Call(t, op, s)
        PROVE  Contract!Next
    BY <1>1, <2>1, InvokeStep
  <2>2. ASSUME NEW t \in Tasks, Return(t) PROVE Contract!Next
    BY <1>1, <2>2, ForgetStep
  <2>3. ASSUME NEW r \in Runners, RunnerExit(r) PROVE Contract!Next
    BY <1>1, <2>3, VanishStep
  <2> QED
    BY <1>3, <1>4, <1>5, <1>6, <1>7, <2>1, <2>2, <2>3 DEF Next
<1> QED
  BY <1>2, <1>7

\* Behaviours in which no caller is aborted.
Undisturbed == aborts = 0

\* The supervisor implements ServiceContract in every behaviour without an
\* abort: a launch never meets a live process of its service, and a stop that
\* answers "ok" or "not found" leaves none.
THEOREM SupervisorKeepsContract == Spec /\ []Undisturbed => ImplementsContract
<1>1. CalmInv /\ CalmInv' /\ Undisturbed /\ Undisturbed' /\ [Next]_vars
        => [Contract!Next]_(Contract!vars)
  BY ContractStep DEF Undisturbed
<1> QED
  BY <1>1, ContractInit, CalmAlways, PTL DEF Spec, ImplementsContract, Contract!Spec

=============================================================================
