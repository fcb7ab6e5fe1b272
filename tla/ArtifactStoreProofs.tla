------------------------ MODULE ArtifactStoreProofs ------------------------
(***************************************************************************)
(* Proofs about ArtifactStore, for any sets of deploy ids, keys, prints,   *)
(* chunks and tasks, any limits, and any number of dropped tasks; and      *)
(* about the byte ranges of a session (ByteRanges), for any size of the    *)
(* artifact and of a chunk.                                                *)
(***************************************************************************)
EXTENDS MCArtifactStore, Sequences, FiniteSetTheorems, TLAPS

USE DeploysAssumption, LimitsAssumption, TasksAssumption

\* Labels of a task that makes a session, that digests a file, that follows a
\* deploy, and at which that deploy has found its session committed.
NewPC == {"creating", "inserting"}
DigestPC == {"digesting", "digest good", "digest bad"}
LookupPC == {"naming", "locating", "staging", "purging"}
FoundPC == {"locating", "staging"}

-----------------------------------------------------------------------------
(* The inductive invariant.                                                *)

\* What a task carries at each label.
TaskOK(c) ==
  /\ c.pc \in NewPC \cup WritePC \cup DigestPC \cup LookupPC => c.deploy \in Deploys
  /\ c.pc \in NewPC => c.key \in Keys /\ c.print \in Prints
  /\ c.pc \in WritePC => c.chunk \in Chunks
  /\ c.pc = "cleaning" => c.next \in FoundPC \cup {"idle"}
  /\ c.pc = "cleaning" /\ c.next \in FoundPC => c.deploy \in Deploys
LabelsOK == \A t \in Tasks : TaskOK(task[t])

\* Ids are issued once and opened once: a task that makes a session has an id of
\* its own, and a purged session does not come back.
Ids ==
  /\ IsFiniteSet(DOMAIN sessions)
  /\ DOMAIN sessions \subseteq opened /\ opened \subseteq issued
  /\ purged \subseteq opened \ DOMAIN sessions
  /\ \A t \in Tasks : task[t].deploy \in issued \cup {NoDeploy}
  /\ \A t \in Tasks : task[t].pc \in NewPC => task[t].deploy \notin opened
  /\ \A t, u \in Tasks :
       task[t].pc \in NewPC /\ task[u].pc \in NewPC
         /\ task[t].deploy = task[u].deploy => t = u

\* No plan names the file of a session, or of one that is being made.
Plans ==
  \A t \in Tasks :
    /\ task[t].plan \subseteq issued \ DOMAIN sessions
    /\ \A u \in Tasks : task[u].pc \in NewPC => task[u].deploy \notin task[t].plan

\* A write or a digest has its session, unless it was purged; a digest is the
\* only one of its session, and shows in the session.
Work ==
  /\ \A t \in Tasks : task[t].pc \in WritePC \cup DigestPC =>
       task[t].deploy \in DOMAIN sessions \cup purged
  /\ \A t \in Tasks :
       task[t].pc \in DigestPC /\ task[t].deploy \in DOMAIN sessions =>
         sessions[task[t].deploy].commit_in_progress
  /\ \A t, u \in Tasks :
       task[t].pc \in DigestPC /\ task[u].pc \in DigestPC
         /\ task[t].deploy = task[u].deploy /\ task[t].deploy \in DOMAIN sessions
         => t = u

\* The session counts its writers, dropped ones included, and has none once its
\* commit has begun.
Writers(d) == {t \in Tasks : task[t].deploy = d /\ task[t].pc \in WritePC}
CountOK(d) ==
  /\ sessions[d].inflight_writes <= MaxInflight
  /\ sessions[d].inflight_writes = dropped[d] + Cardinality(Writers(d))
  /\ sessions[d].committed \/ sessions[d].commit_in_progress =>
       sessions[d].inflight_writes = 0
Counts ==
  /\ \A d \in DOMAIN sessions : CountOK(d)
  /\ \A d \in Deploys \ opened : dropped[d] = 0
  /\ \A w \in detached : dropped[w.deploy] > 0

\* What a digest has found good stays good until it is committed, and then.
Content ==
  /\ CommittedIsVerified
  /\ \A t \in Tasks :
       task[t].pc = "digest good" /\ task[t].deploy \in DOMAIN sessions =>
         Verified(task[t].deploy)

\* A deploy that has found its session committed keeps it so.
Bound(t) ==
  task[t].pc \in FoundPC \/ (task[t].pc = "cleaning" /\ task[t].next \in FoundPC)
Pins == \A t \in Tasks : Bound(t) => task[t].deploy \in purged \cup Committed(sessions)

Inv == TypeOK /\ LabelsOK /\ Ids /\ Plans /\ KeyHasOneSession /\ Work /\ Counts
       /\ Content /\ Pins

-----------------------------------------------------------------------------
(* The operators of the model.                                             *)

\* A cleanup removes sessions that no request is using, and no committed one
\* that is pinned or kept.
LEMMA RemovedFacts ==
  ASSUME NEW S, NEW now, NEW keep, NEW e \in Removed(S, now, keep)
  PROVE  /\ e \in DOMAIN S /\ Idle(S[e])
         /\ S[e].committed => e \notin Pinned /\ e \notin keep
  BY DEF Removed, collect_expired_sessions, collect_orphan_committed_sessions,
         Oldest, Committed

\* The maps without the sessions in R.
LEMMA WithoutFields ==
  ASSUME NEW S, NEW R
  PROVE  /\ DOMAIN Without(S, R) = DOMAIN S \ R
         /\ \A d \in DOMAIN S \ R : Without(S, R)[d] = S[d]
         /\ DOMAIN KeysWithout(S, R)
              = {k \in DOMAIN idempotency : idempotency[k] \in DOMAIN S \ R}
         /\ \A k \in DOMAIN KeysWithout(S, R) : KeysWithout(S, R)[k] = idempotency[k]
  BY DEF Without, KeysWithout

\* A task moves, and only that one.
Moves(t) == task' \in [Tasks -> Task] /\ \A u \in Tasks \ {t} : task'[u] = task[u]

\* A task is done with its operation, but for its plan.
Rests(t, plan, next) ==
  /\ Moves(t) /\ task'[t].plan = plan /\ task'[t].now = 0
  /\ task'[t].deploy = IF next = "idle" THEN NoDeploy ELSE task[t].deploy
  /\ task'[t].pc \in {next, "cleaning"}
  /\ task'[t].pc = "cleaning" => task'[t].next = next

\* A task goes on with what it carries.
GoesOn(t, pc) ==
  /\ Moves(t) /\ task'[t].pc = pc
  /\ task'[t].deploy = task[t].deploy /\ task'[t].plan = task[t].plan
  /\ task'[t].key = task[t].key /\ task'[t].print = task[t].print
  /\ task'[t].chunk = task[t].chunk /\ task'[t].data = task[t].data
  /\ task'[t].now = task[t].now

\* A task begins an operation, or another part of one.
Begins(t, pc, d, plan) ==
  Moves(t) /\ task'[t].pc = pc /\ task'[t].deploy = d /\ task'[t].plan = plan

\* The labels.
LEMMA LabelFacts ==
  /\ {"idle", "cleaning"} \subseteq PC /\ NewPC \subseteq PC /\ WritePC \subseteq PC
  /\ DigestPC \subseteq PC /\ LookupPC \subseteq PC
  BY DEF PC, NewPC, WritePC, DigestPC, LookupPC

\* The idle task has the type of a task.
LEMMA NoTaskType == NoTask \in Task
  BY DEF NoTask, Task, PC, Data, NoDeploy, None

\* CleanThen.
LEMMA CleanThenFields ==
  ASSUME TypeOK, NEW t \in Tasks, NEW plan \in SUBSET Deploys,
         NEW next \in FoundPC \cup {"idle"}, CleanThen(t, plan, next)
  PROVE  Rests(t, plan, next)
<1> DEFINE c == IF plan = {} THEN At(t, next)
                ELSE [NoTask EXCEPT !.pc = "cleaning", !.next = next,
                                    !.plan = plan, !.deploy = At(t, next).deploy]
<1>1. task \in [Tasks -> Task] /\ task' = [task EXCEPT ![t] = c]
  BY DEF TypeOK, CleanThen
<1>2. task[t].deploy \in Deploys \cup {NoDeploy}
  BY <1>1 DEF Task
<1>3. /\ c \in Task /\ c.plan = plan /\ c.now = 0
      /\ c.deploy = IF next = "idle" THEN NoDeploy ELSE task[t].deploy
      /\ c.pc \in {next, "cleaning"} /\ (c.pc = "cleaning" => c.next = next)
  <2>1. CASE plan = {} /\ next = "idle"
    BY <2>1, NoTaskType DEF At, NoTask
  <2>2. CASE plan = {} /\ next # "idle"
    BY <1>2, <2>2 DEF At, NoTask, Task, PC, FoundPC, Data, None
  <2>3. CASE plan # {}
    <3>1. At(t, next).deploy = IF next = "idle" THEN NoDeploy ELSE task[t].deploy
      BY DEF At, NoTask
    <3> QED
      BY <1>2, <2>3, <3>1 DEF NoTask, Task, PC, FoundPC, Data, None, NoDeploy
  <2> QED
    BY <2>1, <2>2, <2>3
<1> HIDE DEF c
<1> QED
  BY <1>1, <1>3 DEF Rests, Moves

\* Return is the same with nothing left to do.
LEMMA ReturnFields ==
  ASSUME TypeOK, NEW t \in Tasks, Return(t)
  PROVE  Rests(t, {}, "idle") /\ task'[t] = NoTask
<1>1. task' = [task EXCEPT ![t] = NoTask] /\ task \in [Tasks -> Task]
  BY DEF Return, TypeOK
<1>2. task' \in [Tasks -> Task] /\ task'[t] = NoTask
  BY <1>1, NoTaskType
<1> QED
  BY <1>1, <1>2 DEF Rests, Moves, NoTask

\* Another label, the rest as it is.
LEMMA GoesOnFields ==
  ASSUME TypeOK, NEW t \in Tasks, NEW pc \in PC,
         task' = [task EXCEPT ![t].pc = pc]
  PROVE  GoesOn(t, pc)
<1> DEFINE c == [task[t] EXCEPT !.pc = pc]
<1>1. task \in [Tasks -> Task] /\ task' = [task EXCEPT ![t] = c]
  BY DEF TypeOK
<1>2. task[t] \in Task
  BY <1>1
<1>3. /\ c \in Task /\ c.pc = pc
      /\ c.deploy = task[t].deploy /\ c.plan = task[t].plan
      /\ c.key = task[t].key /\ c.print = task[t].print /\ c.chunk = task[t].chunk
      /\ c.data = task[t].data /\ c.now = task[t].now
  BY <1>2 DEF Task
<1> HIDE DEF c
<1> QED
  BY <1>1, <1>3 DEF GoesOn, Moves

-----------------------------------------------------------------------------
(* Steps.  Nearly every step moves at most one task (the one in T), takes  *)
(* sessions that are idle and unpinned, or purged, out of the maps (those  *)
(* in R), and changes at most one of the rest (the one in D).              *)
Sweep(T, R, D) ==
  /\ task' \in [Tasks -> Task] /\ \A u \in Tasks \ T : task'[u] = task[u]
  /\ T \subseteq Tasks /\ \A t, u \in T : t = u
  /\ R \subseteq DOMAIN sessions /\ DOMAIN sessions' = DOMAIN sessions \ R
  /\ \A e \in DOMAIN sessions' : sessions'[e].key = sessions[e].key
  /\ \A e \in DOMAIN sessions' \ D :
       /\ sessions'[e].committed = sessions[e].committed
       /\ sessions'[e].commit_in_progress = sessions[e].commit_in_progress
       /\ sessions'[e].inflight_writes = sessions[e].inflight_writes
  /\ purged \subseteq purged' /\ purged' \subseteq purged \cup R
  /\ \A e \in R \ purged' : /\ Idle(sessions[e])
                            /\ sessions[e].committed => e \notin Pinned
  /\ DOMAIN idempotency' = {k \in DOMAIN idempotency : idempotency[k] \notin R}
  /\ \A k \in DOMAIN idempotency' : idempotency'[k] = idempotency[k]
  /\ UNCHANGED opened

\* Keys follow their sessions.
LEMMA KeysKept ==
  ASSUME NEW T, NEW R, NEW D, KeyHasOneSession, Sweep(T, R, D)
  PROVE  KeyHasOneSession'
  BY DEF KeyHasOneSession, Sweep

\* The ids whose files a task may delete next: those in its plan, those of the
\* sessions it has just removed, and the one it made in vain.
Deletable(t, R) ==
  task[t].plan \cup R \cup (IF task[t].pc \in NewPC THEN {task[t].deploy} ELSE {})

\* What the task that moves has to show about ids and plans ...
KeepsIds(T, R) ==
  /\ UNCHANGED issued
  /\ \A t \in T : /\ task'[t].pc \in NewPC =>
                       task[t].pc \in NewPC /\ task'[t].deploy = task[t].deploy
                  /\ task'[t].deploy \in issued \cup {NoDeploy}
                  /\ task'[t].plan \subseteq Deletable(t, R)
                  /\ task'[t].pc \in NewPC => task'[t].plan \subseteq task[t].plan \cup R

\* A step that removes the sessions R and shows this keeps the order of the ids.
LEMMA IdsKept ==
  ASSUME NEW T, NEW R, NEW D, Ids, Sweep(T, R, D), KeepsIds(T, R)
  PROVE  Ids'
<1>1. IsFiniteSet(DOMAIN sessions)'
  BY FS_Subset DEF Ids, Sweep
<1>2. (DOMAIN sessions \subseteq opened /\ opened \subseteq issued)'
  BY DEF Ids, Sweep, KeepsIds
<1>3. (purged \subseteq opened \ DOMAIN sessions)'
  BY DEF Ids, Sweep
<1>4. \A t \in Tasks : task'[t].pc \in NewPC =>
        task[t].pc \in NewPC /\ task'[t].deploy = task[t].deploy
  BY DEF Sweep, KeepsIds
<1>5. \A t \in Tasks : task'[t].deploy \in issued \cup {NoDeploy}
  BY DEF Sweep, KeepsIds, Ids
<1> QED
  BY <1>1, <1>2, <1>3, <1>4, <1>5 DEF Ids, Sweep, KeepsIds

\* So it keeps the deletion plans: no plan names a file that a session owns or an
\* id that is yet to be opened.
LEMMA PlansKept ==
  ASSUME NEW T, NEW R, NEW D, LabelsOK, Ids, Plans, Sweep(T, R, D), KeepsIds(T, R)
  PROVE  Plans'
<1>n. \A t \in Tasks : task[t].pc \in NewPC => task[t].deploy \in issued
  BY DEF LabelsOK, TaskOK, Ids, NoDeploy
<1>1. \A t \in Tasks : task'[t].pc \in NewPC =>
        task[t].pc \in NewPC /\ task'[t].deploy = task[t].deploy
  BY DEF Sweep, KeepsIds
<1>2. \A t \in Tasks : \A e \in task'[t].plan :
        \/ e \in task[t].plan \cup R
        \/ e = task[t].deploy /\ task[t].pc \in NewPC /\ task'[t].pc \notin NewPC
  BY DEF Sweep, KeepsIds, Deletable
<1>3. R \subseteq opened /\ opened \subseteq issued /\ issued' = issued
  BY DEF Ids, Sweep, KeepsIds
<1>4. DOMAIN sessions' = DOMAIN sessions \ R
  BY DEF Sweep
<1>5. ASSUME NEW t \in Tasks, NEW e \in task'[t].plan
      PROVE  e \in issued' \ DOMAIN sessions'
  <2>1. CASE e \in task[t].plan \cup R
    BY <1>3, <1>4, <2>1 DEF Plans
  <2>2. CASE e = task[t].deploy /\ task[t].pc \in NewPC
    BY <1>3, <1>4, <2>2, <1>n DEF Ids
  <2> QED
    BY <1>2, <2>1, <2>2
<1>6. ASSUME NEW t \in Tasks, NEW u \in Tasks, task'[u].pc \in NewPC,
             task'[u].deploy \in task'[t].plan
      PROVE  FALSE
  <2>1. task[u].pc \in NewPC /\ task'[u].deploy = task[u].deploy
    BY <1>1, <1>6
  <2>2. CASE task[u].deploy \in task[t].plan \cup R
    BY <1>3, <2>1, <2>2 DEF Plans, Ids
  <2>3. CASE task[u].deploy = task[t].deploy /\ task[t].pc \in NewPC
             /\ task'[t].pc \notin NewPC
    BY <1>6, <2>1, <2>3 DEF Ids
  <2> QED
    BY <1>2, <1>6, <2>1, <2>2, <2>3
<1> QED
  BY <1>5, <1>6 DEF Plans

\* ... about the requests at work ...
KeepsWork(T, D) ==
  /\ \A t \in T : task'[t].pc \in WritePC \cup DigestPC =>
       task'[t].deploy \in DOMAIN sessions' \cup purged'
  /\ \A t \in T : task'[t].pc \in DigestPC /\ task'[t].deploy \in DOMAIN sessions' =>
       /\ sessions'[task'[t].deploy].commit_in_progress
       /\ \A u \in Tasks \ T : task[u].pc \in DigestPC => task[u].deploy # task'[t].deploy
  /\ \A d \in D \cap DOMAIN sessions' :
       \/ sessions'[d].commit_in_progress
       \/ \A u \in Tasks \ T : task[u].pc \in DigestPC => task[u].deploy # d

\* A session with a write or a digest is not idle.
LEMMA BusyStays ==
  ASSUME Inv, NEW u \in Tasks, task[u].pc \in WritePC \cup DigestPC,
         task[u].deploy \in DOMAIN sessions
  PROVE  /\ ~Idle(sessions[task[u].deploy])
         /\ task[u].pc \in WritePC => sessions[task[u].deploy].inflight_writes # 0
<1> DEFINE d == task[u].deploy
<1>1. CASE task[u].pc \in DigestPC
  BY <1>1 DEF Inv, Work, Idle, DigestPC, WritePC
<1>2. CASE task[u].pc \in WritePC
  <2>1. u \in Writers(d) /\ IsFiniteSet(Writers(d))
    BY <1>2, FS_Subset DEF Writers
  <2>2. Cardinality(Writers(d)) \in Nat /\ Cardinality(Writers(d)) # 0
    BY <2>1, FS_CardinalityType, FS_EmptySet
  <2>3. dropped[d] \in Nat
    BY DEF Inv, TypeOK
  <2>4. sessions[d].inflight_writes = dropped[d] + Cardinality(Writers(d))
    BY DEF Inv, Counts, CountOK
  <2> QED
    BY <2>2, <2>3, <2>4 DEF Idle
<1> QED
  BY <1>1, <1>2

\* It keeps the sessions of the writes and digests at work: a cleanup takes idle
\* sessions only.
LEMMA WorkKept ==
  ASSUME NEW T, NEW R, NEW D, Inv, Sweep(T, R, D), KeepsWork(T, D)
  PROVE  Work'
<1>1. ASSUME NEW u \in Tasks \ T, task[u].pc \in WritePC \cup DigestPC
      PROVE  task[u].deploy \in DOMAIN sessions' \cup purged'
  <2>1. task[u].deploy \in DOMAIN sessions \cup purged
    BY <1>1 DEF Inv, Work
  <2>2. ASSUME task[u].deploy \in R \ purged' PROVE FALSE
    BY <1>1, <2>2, BusyStays DEF Sweep
  <2> QED
    BY <2>1, <2>2 DEF Sweep
<1>2. ASSUME NEW u \in Tasks \ T, task[u].pc \in DigestPC,
             task[u].deploy \in DOMAIN sessions'
      PROVE  sessions'[task[u].deploy].commit_in_progress
  <2>1. task[u].deploy \in DOMAIN sessions
    BY <1>2 DEF Sweep
  <2>2. sessions[task[u].deploy].commit_in_progress
    BY <1>2, <2>1 DEF Inv, Work
  <2> QED
    BY <1>2, <2>2 DEF Sweep, KeepsWork
<1>3. ASSUME NEW u \in Tasks \ T, NEW v \in Tasks \ T, task[u].pc \in DigestPC,
             task[v].pc \in DigestPC, task[u].deploy = task[v].deploy,
             task[u].deploy \in DOMAIN sessions'
      PROVE  u = v
  BY <1>3 DEF Inv, Work, Sweep
<1>4. \A u \in Tasks \ T : task'[u] = task[u]
  BY DEF Sweep
<1>5. \A t, u \in T : t = u
  BY DEF Sweep
<1>6. ASSUME NEW t \in T, NEW u \in Tasks \ T, task'[t].pc \in DigestPC,
             task'[u].pc \in DigestPC, task'[t].deploy = task'[u].deploy,
             task'[t].deploy \in DOMAIN sessions'
      PROVE  FALSE
  BY <1>4, <1>6 DEF KeepsWork
<1>7. \A t \in Tasks : task'[t].pc \in WritePC \cup DigestPC =>
        task'[t].deploy \in DOMAIN sessions' \cup purged'
  BY <1>1, <1>4 DEF KeepsWork
<1>8. \A t \in Tasks : task'[t].pc \in DigestPC /\ task'[t].deploy \in DOMAIN sessions' =>
        sessions'[task'[t].deploy].commit_in_progress
  BY <1>2, <1>4 DEF KeepsWork
<1>9. \A t, u \in Tasks : task'[t].pc \in DigestPC /\ task'[u].pc \in DigestPC
        /\ task'[t].deploy = task'[u].deploy /\ task'[t].deploy \in DOMAIN sessions'
        => t = u
  BY <1>3, <1>4, <1>5, <1>6
<1> QED
  BY <1>7, <1>8, <1>9 DEF Work

\* ... about the counts ...
KeepsCounts(T, D) ==
  /\ dropped' \in [Deploys -> Nat]
  /\ \A w \in detached' : dropped'[w.deploy] > 0
  /\ \A d \in Deploys \ opened : dropped'[d] = 0
  /\ \A d \in DOMAIN sessions' \ D :
       /\ dropped'[d] = dropped[d]
       /\ \A t \in T : t \in Writers(d)' <=> t \in Writers(d)
  /\ \A d \in D \cap DOMAIN sessions' : CountOK(d)'

\* It keeps the counts of the writers.
LEMMA CountsKept ==
  ASSUME NEW T, NEW R, NEW D, Inv, Sweep(T, R, D), KeepsCounts(T, D)
  PROVE  Counts'
<1>1. ASSUME NEW d \in DOMAIN sessions' \ D PROVE CountOK(d)'
  <2>1. \A u \in Tasks \ T : u \in Writers(d)' <=> u \in Writers(d)
    BY DEF Sweep, Writers
  <2>2. Writers(d)' = Writers(d)
    BY <1>1, <2>1 DEF KeepsCounts, Writers
  <2>3. CountOK(d)
    BY <1>1 DEF Sweep, Inv, Counts
  <2> QED
    BY <1>1, <2>2, <2>3 DEF CountOK, Sweep, KeepsCounts
<1>2. \A d \in DOMAIN sessions' : CountOK(d)'
  BY <1>1 DEF KeepsCounts
<1>3. opened' = opened
  BY DEF Sweep
<1> QED
  BY <1>2, <1>3 DEF Counts, KeepsCounts

\* ... about the files ...
KeepsContent(T, D) ==
  /\ \A e \in DOMAIN sessions' :
       sessions[e].inflight_writes = 0 /\ Verified(e) => Verified(e)'
  /\ \A d \in D \cap DOMAIN sessions' :
       sessions'[d].committed => sessions[d].committed \/ Verified(d)'
  /\ \A t \in T : task'[t].pc = "digest good" /\ task'[t].deploy \in DOMAIN sessions'
       => Verified(task[t].deploy)'

\* It keeps the content of what is committed.
LEMMA ContentKept ==
  ASSUME NEW T, NEW R, NEW D, Inv, Sweep(T, R, D), KeepsContent(T, D)
  PROVE  Content'
<1>1. ASSUME NEW e \in DOMAIN sessions', sessions[e].committed PROVE Verified(e)'
  <2>1. e \in DOMAIN sessions
    BY DEF Sweep
  <2>2. Verified(e) /\ sessions[e].inflight_writes = 0
    BY <1>1, <2>1 DEF Inv, Content, CommittedIsVerified, Committed, Counts, CountOK
  <2> QED
    BY <2>2 DEF KeepsContent
<1>2. ASSUME NEW e \in DOMAIN sessions', sessions'[e].committed PROVE Verified(e)'
  BY <1>1, <1>2 DEF Sweep, KeepsContent
<1>3. CommittedIsVerified'
  BY <1>2 DEF CommittedIsVerified, Committed
<1>4. ASSUME NEW u \in Tasks \ T, task[u].pc = "digest good",
             task[u].deploy \in DOMAIN sessions'
      PROVE  Verified(task[u].deploy)'
  <2> DEFINE e == task[u].deploy
  <2>1. e \in DOMAIN sessions
    BY <1>4 DEF Sweep
  <2>2. Verified(e) /\ sessions[e].commit_in_progress
    BY <1>4, <2>1 DEF Inv, Content, Work, DigestPC
  <2>3. sessions[e].inflight_writes = 0
    BY <2>1, <2>2 DEF Inv, Counts, CountOK
  <2>4. \A f \in DOMAIN sessions' : f = e => Verified(f)'
    BY <1>4, <2>2, <2>3 DEF KeepsContent
  <2>5. task'[u] = task[u]
    BY DEF Sweep
  <2> QED
    BY <1>4, <2>4, <2>5 DEF Verified
<1>5. \A t \in Tasks : task'[t].pc = "digest good" /\ task'[t].deploy \in DOMAIN sessions'
        => Verified(task[t].deploy)'
  BY <1>4 DEF Sweep, KeepsContent
<1> QED
  BY <1>3, <1>5 DEF Content

\* ... and about the pins.
KeepsPins(T, D) ==
  /\ \A d \in D \cap DOMAIN sessions' : sessions[d].committed => sessions'[d].committed
  /\ \A t \in T : Bound(t)' => task'[t].deploy \in purged' \cup Committed(sessions')

\* It keeps what the pins hold.
LEMMA PinsKept ==
  ASSUME NEW T, NEW R, NEW D, Inv, Sweep(T, R, D), KeepsPins(T, D)
  PROVE  Pins'
<1>1. ASSUME NEW u \in Tasks \ T, Bound(u)
      PROVE  task[u].deploy \in purged' \cup Committed(sessions')
  <2> DEFINE d == task[u].deploy
  <2>1. d \in purged \cup Committed(sessions)
    BY <1>1 DEF Inv, Pins
  <2>2. d \in Pinned
    BY <1>1 DEF Bound, Pinned, HoldsPin, FoundPC
  <2>3. ASSUME d \in Committed(sessions), d \notin purged' PROVE d \in Committed(sessions')
    <3>1. d \in DOMAIN sessions /\ sessions[d].committed
      BY <2>3 DEF Committed
    <3>2. d \notin R
      BY <2>2, <2>3, <3>1 DEF Sweep
    <3>3. d \in DOMAIN sessions'
      BY <3>1, <3>2 DEF Sweep
    <3>4. sessions'[d].committed
      BY <3>1, <3>3 DEF Sweep, KeepsPins
    <3> QED
      BY <3>3, <3>4 DEF Committed
  <2> QED
    BY <2>1, <2>3 DEF Sweep
<1>2. \A u \in Tasks \ T : task'[u] = task[u]
  BY DEF Sweep
<1>3. ASSUME NEW t \in Tasks, Bound(t)'
      PROVE  task'[t].deploy \in purged' \cup Committed(sessions')
  <2>1. CASE t \in T
    BY <1>3, <2>1 DEF KeepsPins
  <2>2. CASE t \notin T
    BY <1>1, <1>2, <1>3, <2>2 DEF Bound
  <2> QED
    BY <2>1, <2>2
<1> QED
  BY <1>3 DEF Pins

\* A step that shows all of these keeps the invariant.
LEMMA SweepKeeps ==
  ASSUME NEW T, NEW R, NEW D, Inv, Sweep(T, R, D), TypeOK', LabelsOK',
         KeepsIds(T, R), KeepsWork(T, D), KeepsCounts(T, D), KeepsContent(T, D),
         KeepsPins(T, D)
  PROVE  Inv'
<1>1. Ids' /\ Plans' /\ KeyHasOneSession'
  BY IdsKept, PlansKept, KeysKept DEF Inv
<1>2. Work' /\ Counts' /\ Content' /\ Pins'
  BY WorkKept, CountsKept, ContentKept, PinsKept
<1> QED
  BY <1>1, <1>2 DEF Inv

-----------------------------------------------------------------------------
(* The maps.                                                               *)

\* A cleanup of the maps removes the idle and unpinned sessions in R, and their
\* keys.
Cleaned(R) ==
  /\ R \subseteq DOMAIN sessions
  /\ \A e \in R : Idle(sessions[e]) /\ (sessions[e].committed => e \notin Pinned)
  /\ DOMAIN idempotency' = {k \in DOMAIN idempotency : idempotency[k] \notin R}
  /\ \A k \in DOMAIN idempotency' : idempotency'[k] = idempotency[k]
  /\ idempotency' \in [DOMAIN idempotency' -> Deploys]

\* The sessions that are left.
Left(S, R) ==
  /\ DOMAIN S = DOMAIN sessions \ R
  /\ \A e \in DOMAIN S : S[e] = sessions[e]
  /\ S \in [DOMAIN S -> UploadSession]

\* cleanup_sessions, with its keys, takes only idle sessions, and none that is
\* pinned or to be kept.
LEMMA CleanedFacts ==
  ASSUME Inv, NEW now, NEW keep, idempotency' = KeysWithout(sessions, Removed(sessions, now, keep))
  PROVE  /\ Cleaned(Removed(sessions, now, keep))
         /\ Left(Without(sessions, Removed(sessions, now, keep)), Removed(sessions, now, keep))
         /\ \A e \in Removed(sessions, now, keep) : sessions[e].committed => e \notin keep
         /\ Removed(sessions, now, keep) \in SUBSET Deploys
<1> DEFINE R == Removed(sessions, now, keep)
<1>1. /\ R \subseteq DOMAIN sessions
      /\ \A e \in R : Idle(sessions[e]) /\ (sessions[e].committed => e \notin Pinned /\ e \notin keep)
  BY RemovedFacts
<1>2. /\ \A k \in DOMAIN idempotency : idempotency[k] \in DOMAIN sessions
      /\ DOMAIN sessions \subseteq Deploys
      /\ sessions \in [DOMAIN sessions -> UploadSession]
      /\ \A k \in DOMAIN idempotency : idempotency[k] \in Deploys
  BY DEF Inv, KeyHasOneSession, TypeOK
<1> HIDE DEF R
<1>3. Cleaned(R)
  <2>1. idempotency' = KeysWithout(sessions, R)
    BY DEF R
  <2>2. DOMAIN idempotency'
          = {k \in DOMAIN idempotency : idempotency[k] \in DOMAIN sessions \ R}
    BY <2>1 DEF KeysWithout
  <2>3. \A k \in DOMAIN idempotency' : idempotency'[k] = idempotency[k]
    BY <2>1 DEF KeysWithout
  <2>4. idempotency' \in [DOMAIN idempotency' -> Deploys]
    BY <1>2, <2>1 DEF KeysWithout
  <2> QED
    BY <1>1, <1>2, <2>2, <2>3, <2>4 DEF Cleaned
<1>4. Left(Without(sessions, R), R)
  <2>1. DOMAIN Without(sessions, R) = DOMAIN sessions \ R
    BY WithoutFields
  <2>2. \A e \in DOMAIN sessions \ R : Without(sessions, R)[e] = sessions[e]
    BY WithoutFields
  <2>3. Without(sessions, R) \in [DOMAIN sessions \ R -> UploadSession]
    BY <1>2 DEF Without
  <2> QED
    BY <2>1, <2>2, <2>3 DEF Left
<1> QED
  BY <1>1, <1>2, <1>3, <1>4 DEF R

\* One session of S is written.
LEMMA PutFields ==
  ASSUME NEW S, S \in [DOMAIN S -> UploadSession], NEW d \in DOMAIN S,
         NEW rec \in UploadSession, sessions' = [S EXCEPT ![d] = rec]
  PROVE  /\ DOMAIN sessions' = DOMAIN S
         /\ sessions' \in [DOMAIN sessions' -> UploadSession]
         /\ sessions'[d] = rec
         /\ \A e \in DOMAIN S \ {d} : sessions'[e] = S[e]
  OBVIOUS

\* What an operation does to the maps when it touches at most the time of a
\* session after its cleanup.
Touched(R) ==
  /\ DOMAIN sessions' = DOMAIN sessions \ R
  /\ sessions' \in [DOMAIN sessions' -> UploadSession]
  /\ \A e \in DOMAIN sessions' :
       /\ sessions'[e].key = sessions[e].key
       /\ sessions'[e].received = sessions[e].received
       /\ sessions'[e].committed = sessions[e].committed
       /\ sessions'[e].commit_in_progress = sessions[e].commit_in_progress
       /\ sessions'[e].inflight_writes = sessions[e].inflight_writes

\* The sessions that a cleanup leaves are untouched ...
LEMMA LeftTouched ==
  ASSUME NEW R, NEW S, Left(S, R), sessions' = S PROVE Touched(R)
  BY DEF Left, Touched

\* ... also when one of them gets a new time.
LEMMA TimeTouched ==
  ASSUME NEW R, NEW S, Left(S, R), NEW d \in DOMAIN S, NEW now \in Nat,
         sessions' = [S EXCEPT ![d].updated_at = now]
  PROVE  Touched(R)
<1> DEFINE rec == [S[d] EXCEPT !.updated_at = now]
<1>1. S[d] \in UploadSession /\ S[d] = sessions[d]
  BY DEF Left
<1>2. /\ rec \in UploadSession /\ rec.key = S[d].key /\ rec.committed = S[d].committed
      /\ rec.commit_in_progress = S[d].commit_in_progress
      /\ rec.inflight_writes = S[d].inflight_writes /\ rec.received = S[d].received
  BY <1>1 DEF UploadSession
<1>3. sessions' = [S EXCEPT ![d] = rec]
  OBVIOUS
<1> HIDE DEF rec
<1>4. /\ DOMAIN sessions' = DOMAIN S /\ sessions'[d] = rec
      /\ sessions' \in [DOMAIN sessions' -> UploadSession]
      /\ \A e \in DOMAIN S \ {d} : sessions'[e] = S[e]
  BY <1>2, <1>3, PutFields DEF Left
<1> QED
  BY <1>1, <1>2, <1>4 DEF Left, Touched

\* The types of the maps.
MapsOK ==
  /\ DOMAIN sessions \subseteq Deploys
  /\ sessions \in [DOMAIN sessions -> UploadSession]
  /\ DOMAIN idempotency \subseteq Keys
  /\ idempotency \in [DOMAIN idempotency -> Deploys]

\* A task that moves between operations, when its step shows the maps' part.
LEMMA TouchSweep ==
  ASSUME Inv, NEW t \in Tasks, NEW R, Cleaned(R), Touched(R), Moves(t),
         UNCHANGED <<opened, purged>>
  PROVE  Sweep({t}, R, {}) /\ MapsOK'
<1>1. Sweep({t}, R, {})
  BY DEF Sweep, Cleaned, Touched, Moves
<1>2. MapsOK'
  BY DEF MapsOK, Inv, TypeOK, Cleaned, Touched
<1> QED
  BY <1>1, <1>2

-----------------------------------------------------------------------------
(* Steps that end an operation.                                            *)

\* What most steps leave alone.
FilesKept ==
  /\ files' \subseteq Deploys /\ content' \in [Deploys -> [Chunks -> Data]]
  /\ \A e \in DOMAIN sessions' :
       sessions[e].inflight_writes = 0 /\ Verified(e) => Verified(e)'
Quiet == UNCHANGED <<clock, issued, detached, dropped, aborts>> /\ FilesKept

\* A step on the sessions alone is quiet.
LEMMA StillQuiet ==
  ASSUME Inv, UNCHANGED <<files, content, clock, issued, detached, dropped, aborts>>
  PROVE  Quiet
  BY DEF Quiet, FilesKept, Verified, Inv, TypeOK

\* A task at rest carries what its label needs.
LEMMA RestsLabels ==
  ASSUME LabelsOK, NEW t \in Tasks, NEW plan, NEW next \in FoundPC \cup {"idle"},
         Rests(t, plan, next), next \in FoundPC => task[t].deploy \in Deploys
  PROVE  LabelsOK'
<1>1. TaskOK(task'[t])
  BY DEF Rests, TaskOK, NewPC, WritePC, DigestPC, LookupPC, FoundPC
<1> QED
  BY <1>1 DEF Rests, Moves, LabelsOK

\* A task that comes to an operation's end, or to a label of a deploy.
Settles(t, R) ==
  /\ Moves(t) /\ task[t].pc \notin WritePC
  /\ task'[t].pc \notin NewPC \cup WritePC \cup DigestPC
  /\ TaskOK(task'[t])
  /\ task'[t].deploy \in issued \cup {NoDeploy}
  /\ task'[t].plan \subseteq Deletable(t, R)
  /\ Bound(t)' => task'[t].deploy \in purged' \cup Committed(sessions')

\* Such a step keeps the invariant if it leaves the files and counts alone.
LEMMA SettleKeeps ==
  ASSUME Inv, NEW t \in Tasks, NEW R, Sweep({t}, R, {}), MapsOK', Quiet, Settles(t, R)
  PROVE  Inv'
<1>0. task'[t].pc \notin NewPC \cup WritePC \cup DigestPC
  BY DEF Settles
<1>1. purged' \subseteq Deploys
  BY DEF Sweep, Inv, TypeOK
<1>2. TypeOK'
  BY <1>1 DEF Inv, TypeOK, MapsOK, Quiet, FilesKept, Sweep
<1>4. LabelsOK'
  BY DEF Inv, LabelsOK, Settles, Moves
<1>5. KeepsIds({t}, R)
  BY <1>0 DEF KeepsIds, Quiet, Settles
<1>6. KeepsWork({t}, {})
  BY <1>0 DEF KeepsWork
<1>7. KeepsCounts({t}, {})
  <2>1. \A d : t \in Writers(d)' <=> t \in Writers(d)
    BY <1>0 DEF Writers, Settles
  <2> QED
    BY <2>1 DEF KeepsCounts, Quiet, Inv, TypeOK, Counts
<1>8. KeepsContent({t}, {})
  BY <1>0 DEF KeepsContent, Quiet, FilesKept, DigestPC
<1>9. KeepsPins({t}, {})
  BY DEF KeepsPins, Settles
<1> QED
  BY <1>2, <1>4, <1>5, <1>6, <1>7, <1>8, <1>9, SweepKeeps

\* A task at rest settles.
LEMMA RestKeeps ==
  ASSUME Inv, NEW t \in Tasks, NEW R, NEW plan, NEW next \in FoundPC \cup {"idle"},
         Sweep({t}, R, {}), MapsOK', Quiet, Rests(t, plan, next),
         task[t].pc \notin WritePC, plan \subseteq Deletable(t, R),
         next \in FoundPC => task[t].deploy \in purged' \cup Committed(sessions')
  PROVE  Inv'
<1>0. task'[t].pc \notin NewPC \cup WritePC \cup DigestPC
  BY DEF Rests, NewPC, WritePC, DigestPC, FoundPC
<1>1. purged' \subseteq Deploys
  BY DEF Sweep, Inv, TypeOK
<1>2. next \in FoundPC => task[t].deploy \in Deploys
  BY <1>1 DEF MapsOK, Committed
<1>3. LabelsOK'
  BY <1>2, RestsLabels DEF Inv
<1>4. Bound(t)' => task'[t].deploy \in purged' \cup Committed(sessions')
  BY DEF Rests, Bound, FoundPC
<1>5. task'[t].deploy \in issued \cup {NoDeploy}
  BY DEF Rests, Inv, Ids
<1>6. Settles(t, R)
  BY <1>0, <1>3, <1>4, <1>5 DEF Settles, Rests, LabelsOK
<1> QED
  BY <1>6, SettleKeeps

\* So does a task that goes to the first or to the last label of a deploy.
LEMMA FollowKeeps ==
  ASSUME Inv, NEW t \in Tasks, NEW R, NEW pc \in {"naming", "purging"}, NEW d \in issued,
         Sweep({t}, R, {}), MapsOK', Quiet, Begins(t, pc, d, {}),
         task[t].pc \notin WritePC
  PROVE  Inv'
<1>1. d \in Deploys
  BY DEF Inv, TypeOK
<1>2. Settles(t, R)
  BY <1>1 DEF Settles, Begins, Bound, Deletable, TaskOK, NewPC, WritePC, DigestPC, LookupPC, FoundPC
<1> QED
  BY <1>2, SettleKeeps

\* A refused push or commit.
LEMMA RefuseKeeps == Inv /\ Refuse => Inv'
<1> SUFFICES ASSUME Inv, Refuse PROVE Inv'
  OBVIOUS
<1> DEFINE R == Removed(sessions, clock, {})
<1>1. /\ Cleaned(R) /\ Left(Without(sessions, R), R)
      /\ sessions' = Without(sessions, R)
  BY CleanedFacts DEF Refuse
<1> HIDE DEF R
<1>2. Touched(R)
  BY <1>1, LeftTouched
<1>3. UNCHANGED <<files, content, task, clock, issued, opened, detached,
                  dropped, purged, aborts>>
  BY DEF Refuse
<1>4. Sweep({}, R, {})
  BY <1>1, <1>2, <1>3 DEF Sweep, Cleaned, Touched, Inv, TypeOK
<1>5. TypeOK'
  BY <1>1, <1>2, <1>3 DEF Inv, TypeOK, Cleaned, Touched
<1>6. LabelsOK'
  BY <1>3 DEF Inv, LabelsOK
<1>7. KeepsIds({}, R) /\ KeepsWork({}, {}) /\ KeepsPins({}, {})
  BY <1>3 DEF KeepsIds, KeepsWork, KeepsPins
<1>8. KeepsCounts({}, {}) /\ KeepsContent({}, {})
  BY <1>3 DEF KeepsCounts, KeepsContent, Verified, Inv, TypeOK, Counts
<1> QED
  BY <1>4, <1>5, <1>6, <1>7, <1>8, SweepKeeps

\* The clock.
LEMMA TickKeeps == Inv /\ Tick => Inv'
<1> SUFFICES ASSUME Inv, Tick PROVE Inv'
  OBVIOUS
<1>1. UNCHANGED <<sessions, idempotency, files, content, task, issued, opened,
                  detached, dropped, purged, aborts>>
      /\ clock' = clock + 1 /\ clock < MaxTime
  BY DEF Tick
<1>2. TypeOK'
  BY <1>1 DEF Inv, TypeOK
<1>3. LabelsOK' /\ Ids' /\ Plans' /\ KeyHasOneSession' /\ Work' /\ Pins'
  BY <1>1 DEF Inv, LabelsOK, Ids, Plans, KeyHasOneSession, Work, Pins, Bound
<1>4. Counts' /\ Content'
  BY <1>1 DEF Inv, Counts, CountOK, Writers, Content, CommittedIsVerified, Verified
<1> QED
  BY <1>2, <1>3, <1>4 DEF Inv

\* A task that goes to a label of a deploy.
LEMMA AtFields ==
  ASSUME TypeOK, NEW t \in Tasks, NEW pc \in {"naming", "purging"}, NEW d \in Deploys,
         task' = [task EXCEPT ![t] = [NoTask EXCEPT !.pc = pc, !.deploy = d]]
  PROVE  Begins(t, pc, d, {})
<1> DEFINE c == [NoTask EXCEPT !.pc = pc, !.deploy = d]
<1>1. c \in Task /\ c.pc = pc /\ c.deploy = d /\ c.plan = {}
  BY DEF NoTask, Task, PC, Data, None
<1>2. task \in [Tasks -> Task] /\ task' = [task EXCEPT ![t] = c]
  BY DEF TypeOK
<1> HIDE DEF c
<1> QED
  BY <1>1, <1>2 DEF Begins, Moves

\* Looking a committed session up, twice in a deploy.
LEMMA LookupKeeps ==
  ASSUME Inv, NEW t \in Tasks, NEW next \in FoundPC, LookupCommitted(t, next),
         task[t].pc \in {"naming", "locating"}
  PROVE  Inv'
<1> DEFINE d == task[t].deploy
<1> DEFINE R == Removed(sessions, clock, {d})
<1> DEFINE S == Without(sessions, R)
<1>0. /\ idempotency' = KeysWithout(sessions, R)
      /\ UNCHANGED <<opened, purged>> /\ Quiet
  BY StillQuiet DEF LookupCommitted
<1>1. Cleaned(R) /\ Left(S, R) /\ R \in SUBSET Deploys
  BY <1>0, CleanedFacts
<1>2. d \in Deploys /\ d \in issued /\ clock \in Nat /\ TypeOK
  BY DEF Inv, LabelsOK, TaskOK, LookupPC, TypeOK, Ids, NoDeploy
<1>3. CASE d \in Committed(S)
  <2>1. sessions' = [S EXCEPT ![d].updated_at = clock] /\ CleanThen(t, R, next)
    BY <1>3 DEF LookupCommitted
  <2> HIDE DEF R, S
  <2>2. d \in DOMAIN S /\ S[d].committed
    BY <1>3 DEF Committed
  <2>3. Touched(R)
    BY <1>1, <1>2, <2>1, <2>2, TimeTouched
  <2>4. Rests(t, R, next)
    BY <1>1, <1>2, <2>1, CleanThenFields
  <2>5. Sweep({t}, R, {}) /\ MapsOK'
    BY <1>0, <1>1, <2>3, <2>4, TouchSweep DEF Rests
  <2>6. d \in Committed(sessions')
    BY <1>1, <2>2, <2>3 DEF Touched, Left, Committed
  <2> QED
    BY <1>0, <1>1, <2>4, <2>5, <2>6, RestKeeps DEF WritePC, Deletable
<1>4. CASE d \notin Committed(S)
  <2>1. sessions' = S /\ task' = [task EXCEPT ![t] = At(t, "purging")]
    BY <1>4 DEF LookupCommitted
  <2> HIDE DEF R, S
  <2>2. Touched(R)
    BY <1>1, <2>1, LeftTouched
  <2>3. Begins(t, "purging", d, {})
    BY <1>2, <2>1, AtFields DEF At
  <2>4. Sweep({t}, R, {}) /\ MapsOK'
    BY <1>0, <1>1, <2>2, <2>3, TouchSweep DEF Begins
  <2> QED
    BY <1>0, <1>2, <2>3, <2>4, FollowKeeps DEF WritePC
<1> QED
  BY <1>3, <1>4

\* The maps do not move.
LEMMA StillSweep ==
  ASSUME Inv, UNCHANGED <<sessions, idempotency, opened, purged>>,
         NEW t \in Tasks, Moves(t)
  PROVE  Sweep({t}, {}, {}) /\ MapsOK'
  BY DEF Sweep, MapsOK, Moves, Inv, TypeOK

\* A deploy begins and ends.
LEMMA DeployKeeps ==
  ASSUME Inv, NEW t \in Tasks, EndDeploy(t) \/ \E d \in issued : Deploy(t, d)
  PROVE  Inv'
<1>0. UNCHANGED <<sessions, idempotency, opened, purged>> /\ Quiet /\ TypeOK
  BY StillQuiet DEF EndDeploy, Deploy, Inv
<1>1. CASE Return(t) /\ task[t].pc \in {"locating", "staging"}
  <2>1. Rests(t, {}, "idle")
    BY <1>0, <1>1, ReturnFields
  <2>2. Sweep({t}, {}, {}) /\ MapsOK'
    BY <1>0, <2>1, StillSweep DEF Rests
  <2> QED
    BY <1>0, <1>1, <2>1, <2>2, RestKeeps DEF WritePC, Deletable, FoundPC
<1>2. CASE task' = [task EXCEPT ![t] = At(t, "purging")] /\ task[t].pc = "staging"
  <2>0. task[t].deploy \in Deploys /\ task[t].deploy \in issued
    BY <1>2 DEF Inv, LabelsOK, TaskOK, LookupPC, Ids, NoDeploy
  <2>1. Begins(t, "purging", task[t].deploy, {})
    BY <1>0, <1>2, <2>0, AtFields DEF At
  <2>2. Sweep({t}, {}, {}) /\ MapsOK'
    BY <1>0, <2>1, StillSweep DEF Begins
  <2> QED
    BY <1>0, <1>2, <2>0, <2>1, <2>2, FollowKeeps DEF WritePC
<1>3. ASSUME NEW d \in issued, Deploy(t, d) PROVE Inv'
  <2>0. d \in Deploys
    BY <1>0 DEF TypeOK
  <2>1. Begins(t, "naming", d, {})
    BY <1>0, <1>3, <2>0, AtFields DEF Deploy
  <2>2. Sweep({t}, {}, {}) /\ MapsOK'
    BY <1>0, <2>1, StillSweep DEF Begins
  <2>3. task[t].pc \notin WritePC
    BY <1>3 DEF Deploy, WritePC
  <2> QED
    BY <1>0, <2>1, <2>2, <2>3, FollowKeeps
<1> QED
  BY <1>1, <1>2, <1>3 DEF EndDeploy

\* purge_deploy_session.
LEMMA PurgeKeeps ==
  ASSUME Inv, NEW t \in Tasks, Purge(t)
  PROVE  Inv'
<1> DEFINE d == task[t].deploy
<1> DEFINE Q == Removed(sessions, clock, {d})
<1> DEFINE R == Q \cup ({d} \cap DOMAIN sessions)
<1>0. /\ sessions' = Without(sessions, R) /\ idempotency' = KeysWithout(sessions, R)
      /\ purged' = purged \cup ({d} \cap DOMAIN sessions)
      /\ CleanThen(t, R, "idle") /\ UNCHANGED opened /\ Quiet /\ task[t].pc = "purging"
  BY StillQuiet DEF Purge
<1>1. /\ Q \subseteq DOMAIN sessions
      /\ \A e \in Q : Idle(sessions[e]) /\ (sessions[e].committed => e \notin Pinned)
  BY RemovedFacts
<1>2. R \subseteq DOMAIN sessions /\ purged' \subseteq purged \cup R
      /\ \A e \in R \ purged' : Idle(sessions[e]) /\ (sessions[e].committed => e \notin Pinned)
  BY <1>0, <1>1
<1> HIDE DEF Q, R
<1>3. /\ TypeOK /\ R \in SUBSET Deploys
      /\ \A k \in DOMAIN idempotency : idempotency[k] \in DOMAIN sessions
  BY <1>2 DEF Inv, TypeOK, KeyHasOneSession
<1>4. Rests(t, R, "idle")
  BY <1>0, <1>3, CleanThenFields
<1>5. /\ DOMAIN sessions' = DOMAIN sessions \ R
      /\ \A e \in DOMAIN sessions \ R : sessions'[e] = sessions[e]
      /\ sessions' \in [DOMAIN sessions \ R -> UploadSession]
  BY <1>0, <1>3 DEF Without, TypeOK
<1>6. /\ DOMAIN idempotency'
           = {k \in DOMAIN idempotency : idempotency[k] \in DOMAIN sessions \ R}
      /\ \A k \in DOMAIN idempotency' : idempotency'[k] = idempotency[k]
      /\ idempotency' \in [DOMAIN idempotency' -> Deploys]
  BY <1>0, <1>3 DEF KeysWithout, TypeOK
<1>7. Sweep({t}, R, {})
  BY <1>0, <1>2, <1>3, <1>4, <1>5, <1>6 DEF Sweep, Rests, Moves
<1>8. MapsOK'
  BY <1>3, <1>5, <1>6 DEF MapsOK, TypeOK
<1> QED
  BY <1>0, <1>4, <1>7, <1>8, RestKeeps DEF WritePC, Deletable, FoundPC

\* apply_cleanup_plan: no session has a file in the plan.
LEMMA ApplyKeeps ==
  ASSUME Inv, NEW t \in Tasks, ApplyCleanupPlan(t)
  PROVE  Inv'
<1> DEFINE next == task[t].next
<1>0. /\ task[t].pc = "cleaning" /\ task' = [task EXCEPT ![t] = At(t, next)]
      /\ UNCHANGED <<sessions, idempotency, opened, purged>>
      /\ UNCHANGED <<clock, issued, detached, dropped, aborts>>
      /\ files' = files \ task[t].plan
      /\ content' = [d \in Deploys |-> IF d \in task[t].plan THEN Blank ELSE content[d]]
  BY DEF ApplyCleanupPlan
<1>1. next \in FoundPC \cup {"idle"} /\ TypeOK
  BY <1>0 DEF Inv, LabelsOK, TaskOK
<1>2. Rests(t, {}, next)
  <2>1. CleanThen(t, {}, next)
    BY <1>0 DEF CleanThen
  <2> QED
    BY <1>1, <2>1, CleanThenFields
<1>3. Sweep({t}, {}, {}) /\ MapsOK'
  BY <1>0, <1>2, StillSweep DEF Rests
<1>4. next \in FoundPC => task[t].deploy \in purged' \cup Committed(sessions')
  BY <1>0 DEF Inv, Pins, Bound
<1>5. FilesKept
  <2>1. files' \subseteq Deploys /\ content' \in [Deploys -> [Chunks -> Data]]
    BY <1>0, <1>1 DEF TypeOK, Blank, Data
  <2>2. ASSUME NEW e \in DOMAIN sessions PROVE e \in Deploys /\ e \notin task[t].plan
    BY <1>1 DEF TypeOK, Inv, Plans
  <2>3. \A e \in DOMAIN sessions : Verified(e) => Verified(e)'
    BY <1>0, <2>2 DEF Verified
  <2> QED
    BY <1>0, <2>1, <2>3 DEF FilesKept
<1> QED
  BY <1>0, <1>1, <1>2, <1>3, <1>4, <1>5, RestKeeps DEF WritePC, Deletable, Quiet

\* The file of a new session.
LEMMA CreateKeeps ==
  ASSUME Inv, NEW t \in Tasks, CreateFile(t)
  PROVE  Inv'
<1>0. /\ task[t].pc = "creating" /\ TypeOK
      /\ UNCHANGED <<sessions, idempotency, opened, purged>>
      /\ UNCHANGED <<content, clock, issued, detached, dropped, aborts>>
      /\ files' = files \cup {task[t].deploy} \/ files' = files
      /\ task' = [task EXCEPT ![t].pc = "inserting"] \/ CleanThen(t, task[t].plan, "idle")
  BY DEF CreateFile, Inv
<1>1. /\ task[t].deploy \in Deploys /\ task[t].key \in Keys /\ task[t].print \in Prints
      /\ task[t].plan \in SUBSET Deploys
  BY <1>0 DEF Inv, LabelsOK, TaskOK, NewPC, TypeOK, Task
<1>2. FilesKept /\ Quiet
  BY <1>0, <1>1 DEF FilesKept, Quiet, TypeOK, Verified
<1>3. CASE CleanThen(t, task[t].plan, "idle")
  <2>1. Rests(t, task[t].plan, "idle")
    BY <1>0, <1>1, <1>3, CleanThenFields
  <2>2. Sweep({t}, {}, {}) /\ MapsOK'
    BY <1>0, <2>1, StillSweep DEF Rests
  <2> QED
    BY <1>0, <1>2, <2>1, <2>2, RestKeeps DEF WritePC, FoundPC, Deletable
<1>4. CASE task' = [task EXCEPT ![t].pc = "inserting"]
  <2>1. GoesOn(t, "inserting")
    BY <1>0, <1>4, GoesOnFields DEF PC
  <2>2. Sweep({t}, {}, {}) /\ MapsOK'
    BY <1>0, <2>1, StillSweep DEF GoesOn
  <2>3. TypeOK'
    BY <1>0, <1>2, <2>1, <2>2 DEF TypeOK, MapsOK, Quiet, FilesKept, GoesOn, Moves
  <2>4. LabelsOK'
    <3>1. TaskOK(task'[t])
      BY <1>1, <2>1 DEF GoesOn, TaskOK, WritePC
    <3> QED
      BY <2>1, <3>1 DEF Inv, LabelsOK, GoesOn, Moves
  <2>5. KeepsIds({t}, {})
    BY <1>0, <2>1 DEF KeepsIds, GoesOn, Deletable, NewPC, Inv, Ids
  <2>6. KeepsWork({t}, {}) /\ KeepsPins({t}, {})
    BY <2>1 DEF KeepsWork, KeepsPins, GoesOn, WritePC, DigestPC, Bound, FoundPC
  <2>7. KeepsCounts({t}, {})
    BY <1>0, <2>1 DEF KeepsCounts, GoesOn, Writers, WritePC, Inv, TypeOK, Counts
  <2>8. KeepsContent({t}, {})
    BY <1>2, <2>1 DEF KeepsContent, FilesKept, GoesOn
  <2> QED
    BY <2>2, <2>3, <2>4, <2>5, <2>6, <2>7, <2>8, SweepKeeps
<1> QED
  BY <1>0, <1>3, <1>4

\* An answer to a prepare whose key has a session.
LEMMA ResumeTouched ==
  ASSUME Inv, NEW R, NEW S, Left(S, R), NEW d \in DOMAIN S, NEW print,
         sessions' = Resume(S, d, print)
  PROVE  Touched(R)
<1>1. clock \in Nat
  BY DEF Inv, TypeOK
<1> QED
  BY <1>1, LeftTouched, TimeTouched DEF Resume

\* deploy.prepare.
LEMMA PrepareKeeps ==
  ASSUME Inv, NEW t \in Tasks, NEW k \in Keys, NEW print \in Prints,
         Prepare(t, k, print)
  PROVE  Inv'
<1> DEFINE R == Removed(sessions, clock, {})
<1> DEFINE S == Without(sessions, R)
<1> DEFINE I == KeysWithout(sessions, R)
<1>0. /\ task[t].pc = "idle" /\ idempotency' = I /\ TypeOK
      /\ UNCHANGED <<opened, purged>>
      /\ UNCHANGED <<files, content, clock, detached, dropped, aborts>>
  BY DEF Prepare, Inv
<1>1. Cleaned(R) /\ Left(S, R) /\ R \in SUBSET Deploys
  BY <1>0, CleanedFacts
<1>2. CASE /\ k \in DOMAIN I /\ sessions' = Resume(S, I[k], print)
           /\ CleanThen(t, R, "idle") /\ UNCHANGED issued
  <2>1. I[k] \in DOMAIN S
    <3>1. I[k] = idempotency[k] /\ idempotency[k] \in DOMAIN sessions \ R
      BY <1>2 DEF KeysWithout
    <3>2. DOMAIN S = DOMAIN sessions \ R
      BY <1>1 DEF Left
    <3> QED
      BY <3>1, <3>2
  <2> HIDE DEF R, S, I
  <2>2. Touched(R)
    BY <1>1, <1>2, <2>1, ResumeTouched
  <2>3. Rests(t, R, "idle")
    BY <1>0, <1>1, <1>2, CleanThenFields
  <2>4. Sweep({t}, R, {}) /\ MapsOK'
    BY <1>0, <1>1, <2>2, <2>3, TouchSweep DEF Rests
  <2>5. Quiet
    BY <1>0, <1>2, StillQuiet
  <2> QED
    BY <1>0, <2>3, <2>4, <2>5, RestKeeps DEF WritePC, FoundPC, Deletable
<1>3. ASSUME sessions' = S, NEW d \in Deploys \ issued, issued' = issued \cup {d},
             task' = [task EXCEPT ![t] =
                        [NoTask EXCEPT !.pc = "creating", !.deploy = d, !.key = k,
                                       !.print = print, !.plan = R]]
      PROVE  Inv'
  <2> HIDE DEF R, S, I
  <2> DEFINE c == [NoTask EXCEPT !.pc = "creating", !.deploy = d, !.key = k,
                                 !.print = print, !.plan = R]
  <2>1. /\ c \in Task /\ c.pc = "creating" /\ c.deploy = d /\ c.key = k
        /\ c.print = print /\ c.plan = R
    BY <1>1 DEF NoTask, Task, PC, Data, None
  <2>2. task' = [task EXCEPT ![t] = c] /\ task \in [Tasks -> Task]
    BY <1>0, <1>3 DEF TypeOK
  <2> HIDE DEF c
  <2>3. Begins(t, "creating", d, R) /\ task'[t] = c
    BY <2>1, <2>2 DEF Begins, Moves
  <2>4. Touched(R)
    BY <1>1, <1>3, LeftTouched
  <2>5. Sweep({t}, R, {}) /\ MapsOK'
    BY <1>0, <1>1, <2>3, <2>4, TouchSweep DEF Begins
  <2>6. TypeOK'
    BY <1>0, <1>3, <2>3, <2>5 DEF TypeOK, MapsOK, Begins, Moves
  <2>7. LabelsOK'
    <3>1. TaskOK(c)
      BY <2>1 DEF TaskOK, NewPC, WritePC
    <3> QED
      BY <2>3, <3>1 DEF Inv, LabelsOK, Begins, Moves
  <2>f. /\ R \subseteq opened /\ opened \subseteq issued /\ d \notin issued
        /\ DOMAIN sessions' = DOMAIN sessions \ R /\ d # NoDeploy
    BY <1>1, <1>3, <2>4 DEF Inv, Ids, Cleaned, Touched, NoDeploy
  <2>m. \A u \in Tasks \ {t} : task'[u] = task[u]
    BY <2>3 DEF Begins, Moves
  <2>8. Ids'
    <3>1. IsFiniteSet(DOMAIN sessions)'
      BY <2>f, FS_Subset DEF Inv, Ids
    <3>2. (DOMAIN sessions \subseteq opened /\ opened \subseteq issued
           /\ purged \subseteq opened \ DOMAIN sessions)'
      BY <1>0, <1>3, <2>f DEF Inv, Ids
    <3>3. \A u \in Tasks \ {t} : task[u].deploy # d
      BY <2>f DEF Inv, Ids
    <3>4. (\A u \in Tasks : task[u].deploy \in issued \cup {NoDeploy})'
      BY <1>3, <2>3, <2>m DEF Begins, Inv, Ids
    <3>5. (\A u \in Tasks : task[u].pc \in NewPC => task[u].deploy \notin opened)'
      BY <1>0, <2>f, <2>3, <2>m DEF Begins, Inv, Ids
    <3>6. (\A u, v \in Tasks : task[u].pc \in NewPC /\ task[v].pc \in NewPC
             /\ task[u].deploy = task[v].deploy => u = v)'
      BY <2>3, <2>m, <3>3 DEF Begins, Inv, Ids
    <3> QED
      BY <3>1, <3>2, <3>4, <3>5, <3>6 DEF Ids
  <2>9. Plans'
    <3>1. ASSUME NEW u \in Tasks PROVE task'[u].plan \subseteq issued' \ DOMAIN sessions'
      BY <1>3, <2>f, <2>3, <2>m DEF Begins, Inv, Plans
    <3>2. ASSUME NEW u \in Tasks, NEW v \in Tasks, task'[v].pc \in NewPC
          PROVE  task'[v].deploy \notin task'[u].plan
      <4>1. task'[u].plan \subseteq issued
        BY <2>f, <2>3, <2>m DEF Begins, Inv, Plans
      <4>2. CASE v = t
        BY <2>f, <2>3, <4>1, <4>2 DEF Begins
      <4>3. CASE v # t
        BY <2>f, <2>3, <2>m, <3>2, <4>3 DEF Begins, Inv, Plans, Ids
      <4> QED
        BY <4>2, <4>3
    <3> QED
      BY <3>1, <3>2 DEF Plans
  <2>10. KeepsWork({t}, {}) /\ KeepsPins({t}, {})
    BY <2>3 DEF KeepsWork, KeepsPins, Begins, WritePC, DigestPC, Bound, FoundPC
  <2>11. KeepsCounts({t}, {})
    BY <1>0, <2>3 DEF KeepsCounts, Begins, Writers, WritePC, Inv, TypeOK, Counts
  <2>12. KeepsContent({t}, {})
    BY <1>0, <2>3 DEF KeepsContent, Verified, Begins
  <2>13. KeyHasOneSession' /\ Work' /\ Counts' /\ Content' /\ Pins'
    BY <2>5, <2>10, <2>11, <2>12, KeysKept, WorkKept, CountsKept, ContentKept, PinsKept
       DEF Inv
  <2> QED
    BY <2>6, <2>7, <2>8, <2>9, <2>13 DEF Inv
<1> QED
  BY <1>2, <1>3 DEF Prepare

\* The second half of deploy.prepare, with the key still free.
LEMMA OpenKeeps ==
  ASSUME Inv, NEW t \in Tasks, task[t].pc = "inserting", NEW R, NEW S, NEW I,
         Left(S, R), R \subseteq DOMAIN sessions,
         \A e \in R : Idle(sessions[e]) /\ (sessions[e].committed => e \notin Pinned),
         I \in [DOMAIN I -> Deploys],
         DOMAIN I = {k \in DOMAIN idempotency : idempotency[k] \notin R},
         \A k \in DOMAIN I : I[k] = idempotency[k],
         task[t].key \notin DOMAIN I,
         idempotency' = [j \in DOMAIN I \cup {task[t].key} |->
                           IF j = task[t].key THEN task[t].deploy ELSE I[j]],
         sessions' = [e \in DOMAIN S \cup {task[t].deploy} |->
                        IF e = task[t].deploy THEN NewSession(t) ELSE S[e]],
         opened' = opened \cup {task[t].deploy},
         Rests(t, task[t].plan \cup R, "idle"),
         UNCHANGED <<files, content, clock, issued, detached, dropped, purged, aborts>>
  PROVE  Inv'
<1> DEFINE d == task[t].deploy
<1> DEFINE k == task[t].key
<1>1. /\ d \in Deploys /\ k \in Keys /\ task[t].print \in Prints /\ TypeOK
      /\ d \in issued /\ d \notin opened /\ DOMAIN sessions \subseteq opened
      /\ opened \subseteq issued /\ purged \subseteq opened \ DOMAIN sessions
  BY DEF Inv, LabelsOK, TaskOK, NewPC, Ids, NoDeploy
<1>2. /\ DOMAIN S = DOMAIN sessions \ R /\ \A e \in DOMAIN S : S[e] = sessions[e]
      /\ S \in [DOMAIN S -> UploadSession]
  BY DEF Left
<1> DEFINE n == NewSession(t)
<1>3. /\ n \in UploadSession /\ n.key = k /\ n.committed = FALSE
      /\ n.inflight_writes = 0 /\ n.commit_in_progress = FALSE
  <2>1. clock \in Nat
    BY <1>1 DEF TypeOK
  <2> QED
    BY <1>1, <2>1 DEF NewSession, UploadSession
<1> HIDE DEF n
<1>4. /\ DOMAIN sessions' = (DOMAIN sessions \ R) \cup {d}
      /\ sessions'[d] = n
      /\ \A e \in DOMAIN sessions \ R : sessions'[e] = sessions[e]
      /\ sessions' \in [DOMAIN sessions' -> UploadSession]
  BY <1>1, <1>2, <1>3 DEF n
<1>5. /\ DOMAIN idempotency' = DOMAIN I \cup {k} /\ idempotency'[k] = d
      /\ \A j \in DOMAIN I : idempotency'[j] = idempotency[j]
      /\ idempotency' \in [DOMAIN idempotency' -> Deploys]
      /\ DOMAIN I \subseteq DOMAIN idempotency
  BY <1>1
<1>6. /\ \A u \in Tasks \ {t} : task'[u] = task[u]
      /\ task' \in [Tasks -> Task] /\ task'[t].plan = task[t].plan \cup R
      /\ task'[t].deploy = NoDeploy /\ task'[t].pc \in {"idle", "cleaning"}
      /\ task'[t].pc = "cleaning" => task'[t].next = "idle"
  BY DEF Rests, Moves
<1>7. task'[t].pc \notin NewPC \cup WritePC \cup DigestPC /\ ~Bound(t)'
  BY <1>6 DEF NewPC, WritePC, DigestPC, Bound, FoundPC
<1>8. TypeOK'
  <2>1. DOMAIN idempotency' \subseteq Keys /\ DOMAIN sessions' \subseteq Deploys
    BY <1>1, <1>4, <1>5 DEF TypeOK
  <2> QED
    BY <1>1, <1>4, <1>5, <1>6, <2>1 DEF TypeOK
<1>9. LabelsOK'
  BY RestsLabels DEF Inv, FoundPC
<1>n. t \in Tasks /\ task[t].pc \in NewPC
  BY DEF NewPC
<1>10. Ids'
  <2>1. IsFiniteSet(DOMAIN sessions)'
    <3>1. IsFiniteSet(DOMAIN sessions \ R)
      BY FS_Subset DEF Inv, Ids
    <3> QED
      BY <1>4, <3>1, FS_AddElement
  <2>2. (DOMAIN sessions \subseteq opened /\ opened \subseteq issued
         /\ purged \subseteq opened \ DOMAIN sessions)'
    BY <1>1, <1>4
  <2>3. (\A u \in Tasks : task[u].deploy \in issued \cup {NoDeploy})'
    BY <1>6 DEF Inv, Ids
  <2>4. (\A u \in Tasks : task[u].pc \in NewPC => task[u].deploy \notin opened)'
    BY <1>6, <1>7, <1>n DEF Inv, Ids
  <2>5. (\A u, v \in Tasks : task[u].pc \in NewPC /\ task[v].pc \in NewPC
           /\ task[u].deploy = task[v].deploy => u = v)'
    BY <1>6, <1>7 DEF Inv, Ids
  <2> QED
    BY <2>1, <2>2, <2>3, <2>4, <2>5 DEF Ids
<1>11. Plans'
  <2>1. ASSUME NEW u \in Tasks PROVE task'[u].plan \subseteq issued' \ DOMAIN sessions'
    <3>1. d \notin task[u].plan
      BY <1>n DEF Inv, Plans
    <3> QED
      BY <1>1, <1>4, <1>6, <3>1 DEF Inv, Plans
  <2>2. ASSUME NEW u \in Tasks, NEW v \in Tasks, task'[v].pc \in NewPC
        PROVE  task'[v].deploy \notin task'[u].plan
    BY <1>1, <1>6, <1>7, <2>2 DEF Inv, Plans, Ids
  <2> QED
    BY <2>1, <2>2 DEF Plans
<1>12. KeyHasOneSession'
  <2>1. ASSUME NEW j \in DOMAIN idempotency'
        PROVE  idempotency'[j] \in DOMAIN sessions' /\ sessions'[idempotency'[j]].key = j
    <3>1. CASE j = k
      BY <1>3, <1>4, <1>5, <3>1
    <3>2. CASE j # k
      <4>1. /\ j \in DOMAIN idempotency /\ idempotency[j] \notin R
            /\ idempotency'[j] = idempotency[j]
        BY <1>5, <2>1, <3>2
      <4>2. idempotency[j] \in DOMAIN sessions \ R /\ sessions[idempotency[j]].key = j
        BY <4>1 DEF Inv, KeyHasOneSession
      <4> QED
        BY ZenonT(30), <1>4, <4>1, <4>2
    <3> QED
      BY <3>1, <3>2
  <2>2. ASSUME NEW e \in DOMAIN sessions'
        PROVE  /\ sessions'[e].key \in DOMAIN idempotency'
               /\ idempotency'[sessions'[e].key] = e
    <3>1. CASE e = d
      BY <1>3, <1>4, <1>5, <3>1
    <3>2. CASE e # d
      <4>1. e \in DOMAIN sessions \ R /\ sessions'[e] = sessions[e]
        BY <1>4, <2>2, <3>2
      <4>2. sessions[e].key \in DOMAIN idempotency /\ idempotency[sessions[e].key] = e
        BY <4>1 DEF Inv, KeyHasOneSession
      <4> QED
        BY <1>5, <4>1, <4>2
    <3> QED
      BY <3>1, <3>2
  <2> QED
    BY <2>1, <2>2 DEF KeyHasOneSession
<1>13. Work'
  <2>1. ASSUME NEW u \in Tasks, task'[u].pc \in WritePC \cup DigestPC
        PROVE  /\ task'[u] = task[u] /\ task[u].deploy \in DOMAIN sessions' \cup purged'
               /\ task[u].deploy \in DOMAIN sessions' =>
                    /\ task[u].deploy \in DOMAIN sessions
                    /\ sessions'[task[u].deploy] = sessions[task[u].deploy]
    <3>1. u # t /\ task'[u] = task[u]
      BY <1>6, <1>7, <2>1
    <3>2. task[u].deploy \in DOMAIN sessions \cup purged
      BY <2>1, <3>1 DEF Inv, Work
    <3>3. task[u].deploy \notin R
      BY <2>1, <3>1, BusyStays
    <3> QED
      BY <1>1, <1>4, <3>1, <3>2, <3>3
  <2>2. \A u \in Tasks : task'[u].pc \in DigestPC /\ task'[u].deploy \in DOMAIN sessions'
          => /\ task'[u] = task[u] /\ task[u].deploy \in DOMAIN sessions
             /\ sessions'[task'[u].deploy] = sessions[task[u].deploy]
    BY <2>1
  <2>3. \A u \in Tasks : task'[u].pc \in DigestPC /\ task'[u].deploy \in DOMAIN sessions'
          => sessions'[task'[u].deploy].commit_in_progress
    BY <2>2 DEF Inv, Work
  <2>4. \A u, v \in Tasks : task'[u].pc \in DigestPC /\ task'[v].pc \in DigestPC
          /\ task'[u].deploy = task'[v].deploy /\ task'[u].deploy \in DOMAIN sessions'
          => u = v
    BY <2>2 DEF Inv, Work
  <2> QED
    BY <2>1, <2>3, <2>4 DEF Work
<1>14. Counts'
  <2>1. ASSUME NEW e PROVE Writers(e)' = Writers(e)
    <3>1. task[t].pc \notin WritePC
      BY DEF WritePC
    <3> QED
      BY <1>6, <1>7, <3>1 DEF Writers
  <2>2. ASSUME NEW e, e = d PROVE CountOK(e)'
    <3>1. Writers(e) = {}
      BY <1>1, <2>2 DEF Writers, Inv, Work
    <3>2. dropped[e] = 0 /\ Cardinality({}) = 0
      BY <1>1, <2>2, FS_EmptySet DEF Inv, Counts
    <3>3. sessions'[e] = n
      BY <1>4, <2>2
    <3>4. Writers(e)' = {} /\ dropped'[e] = 0
      BY <2>1, <3>1, <3>2
    <3>5. 0 <= MaxInflight /\ 0 = 0 + 0
      OBVIOUS
    <3> QED
      BY <1>3, <3>2, <3>3, <3>4, <3>5 DEF CountOK
  <2>3. ASSUME NEW e \in DOMAIN sessions', e # d PROVE CountOK(e)'
    BY <1>4, <2>1, <2>3 DEF CountOK, Inv, Counts
  <2>4. \A e \in DOMAIN sessions' : CountOK(e)'
    BY <2>2, <2>3
  <2> QED
    BY <2>4 DEF Inv, Counts
<1>15. Content'
  <2>1. CommittedIsVerified'
    BY ZenonT(60), <1>3, <1>4 DEF Inv, Content, CommittedIsVerified, Committed, Verified
  <2>2. ASSUME NEW u \in Tasks, task'[u].pc = "digest good",
               task'[u].deploy \in DOMAIN sessions'
        PROVE  Verified(task[u].deploy)'
    <3>1. u # t /\ task'[u] = task[u]
      BY <1>6, <2>2
    <3>2. task[u].deploy \in DOMAIN sessions
      BY <1>1, <1>4, <2>2, <3>1, ZenonT(30) DEF Inv, Work, DigestPC
    <3> QED
      <4>1. Verified(task[u].deploy)
        BY <2>2, <3>1, <3>2 DEF Inv, Content
      <4> QED
        BY <3>1, <4>1 DEF Verified
  <2> QED
    BY <2>1, <2>2 DEF Content
<1>16. Pins'
  <2>1. ASSUME NEW u \in Tasks, Bound(u)' PROVE task'[u].deploy \in purged' \cup Committed(sessions')
    <3>1. u # t /\ task'[u] = task[u] /\ Bound(u)
      BY <1>6, <1>7, <2>1 DEF Bound
    <3>2. task[u].deploy \in purged \cup Committed(sessions)
      BY <3>1 DEF Inv, Pins
    <3>3. task[u].deploy \in Pinned
      BY <3>1 DEF Bound, Pinned, HoldsPin, FoundPC
    <3> QED
      BY ZenonT(60), <1>4, <3>1, <3>2, <3>3 DEF Committed
  <2> QED
    BY <2>1 DEF Pins
<1> QED
  BY <1>8, <1>9, <1>10, <1>11, <1>12, <1>13, <1>14, <1>15, <1>16 DEF Inv

\* prepare's second critical section: a session and its key appear together, for
\* an id nobody else has.
LEMMA InsertKeeps ==
  ASSUME Inv, NEW t \in Tasks, InsertSession(t)
  PROVE  Inv'
<1> DEFINE R == Removed(sessions, clock, {})
<1> DEFINE S == Without(sessions, R)
<1> DEFINE I == KeysWithout(sessions, R)
<1> DEFINE d == task[t].deploy
<1> DEFINE k == task[t].key
<1>0. /\ task[t].pc = "inserting" /\ TypeOK
      /\ UNCHANGED <<files, content, clock, issued, detached, dropped, purged, aborts>>
  BY DEF InsertSession, Inv
<1>1. d \in Deploys /\ task[t].plan \in SUBSET Deploys
  BY <1>0 DEF Inv, LabelsOK, TaskOK, NewPC, TypeOK, Task
<1>2. /\ R \subseteq DOMAIN sessions
      /\ \A e \in R : Idle(sessions[e]) /\ (sessions[e].committed => e \notin Pinned)
  BY RemovedFacts
<1>3. /\ Left(S, R) /\ R \in SUBSET Deploys
  <2>1. /\ sessions \in [DOMAIN sessions -> UploadSession] /\ DOMAIN sessions \subseteq Deploys
    BY <1>0 DEF TypeOK
  <2> QED
    BY <1>2, <2>1 DEF Left, Without
<1>4. /\ I \in [DOMAIN I -> Deploys]
      /\ DOMAIN I = {j \in DOMAIN idempotency : idempotency[j] \notin R}
      /\ \A j \in DOMAIN I : I[j] = idempotency[j] /\ I[j] \in DOMAIN S
  <2>1. /\ \A j \in DOMAIN idempotency : idempotency[j] \in DOMAIN sessions
        /\ idempotency \in [DOMAIN idempotency -> Deploys]
    BY <1>0 DEF Inv, KeyHasOneSession, TypeOK
  <2>2. DOMAIN S = DOMAIN sessions \ R
    BY <1>3 DEF Left
  <2> HIDE DEF S, R
  <2>3. I = [j \in {i \in DOMAIN idempotency : idempotency[i] \in DOMAIN sessions \ R}
               |-> idempotency[j]]
    BY DEF KeysWithout
  <2> HIDE DEF I
  <2> QED
    BY <2>1, <2>2, <2>3
<1>5. CASE key_taken(I, k)
  <2>1. /\ idempotency' = I /\ sessions' = Resume(S, I[k], task[t].print)
        /\ CleanThen(t, task[t].plan \cup R \cup {d}, "idle") /\ UNCHANGED opened
        /\ k \in DOMAIN I
    BY <1>5 DEF InsertSession, key_taken
  <2> HIDE DEF R, S, I
  <2>2. Touched(R)
    BY <1>3, <1>4, <2>1, ResumeTouched
  <2>3. Rests(t, task[t].plan \cup R \cup {d}, "idle")
    BY <1>0, <1>1, <1>3, <2>1, CleanThenFields
  <2>4. Cleaned(R)
    BY <1>2, <1>4, <2>1 DEF Cleaned
  <2>5. Sweep({t}, R, {}) /\ MapsOK'
    BY <1>0, <2>1, <2>2, <2>3, <2>4, TouchSweep DEF Rests
  <2>6. Quiet
    BY <1>0, StillQuiet
  <2>7. task[t].plan \cup R \cup {d} \subseteq Deletable(t, R)
    BY <1>0 DEF Deletable, NewPC
  <2> QED
    BY <1>0, <2>3, <2>5, <2>6, <2>7, RestKeeps DEF WritePC, FoundPC
<1>6. CASE ~key_taken(I, k)
  <2>1. /\ k \notin DOMAIN I /\ opened' = opened \cup {d}
        /\ idempotency' = [j \in DOMAIN I \cup {k} |-> IF j = k THEN d ELSE I[j]]
        /\ sessions' = [e \in DOMAIN S \cup {d} |-> IF e = d THEN NewSession(t) ELSE S[e]]
        /\ CleanThen(t, task[t].plan \cup R, "idle")
    BY <1>6 DEF InsertSession, key_taken
  <2> HIDE DEF R, S, I
  <2>2. Rests(t, task[t].plan \cup R, "idle")
    BY <1>0, <1>1, <1>3, <2>1, CleanThenFields
  <2> QED
    BY <1>0, <1>2, <1>3, <1>4, <2>1, <2>2, OpenKeeps
<1> QED
  BY <1>5, <1>6

-----------------------------------------------------------------------------
(* artifact.push.                                                          *)

\* One session is written after a cleanup.
LEMMA PutSweep ==
  ASSUME Inv, NEW t \in Tasks, NEW R, NEW S, Left(S, R), Cleaned(R),
         NEW d \in DOMAIN S, NEW rec \in UploadSession, rec.key = S[d].key,
         sessions' = [S EXCEPT ![d] = rec], Moves(t), UNCHANGED <<opened, purged>>
  PROVE  /\ Sweep({t}, R, {d}) /\ MapsOK'
         /\ d \in DOMAIN sessions /\ d \in DOMAIN sessions' /\ sessions'[d] = rec
<1>1. /\ DOMAIN S = DOMAIN sessions \ R /\ S \in [DOMAIN S -> UploadSession]
      /\ \A e \in DOMAIN S : S[e] = sessions[e]
  BY DEF Left
<1>2. /\ DOMAIN sessions' = DOMAIN S
      /\ sessions' \in [DOMAIN sessions' -> UploadSession]
      /\ sessions'[d] = rec
      /\ \A e \in DOMAIN S \ {d} : sessions'[e] = S[e]
  BY <1>1, PutFields
<1>3. Sweep({t}, R, {d})
  BY <1>1, <1>2 DEF Sweep, Cleaned, Moves
<1>4. MapsOK'
  BY <1>1, <1>2 DEF MapsOK, Inv, TypeOK, Cleaned
<1> QED
  BY <1>1, <1>2, <1>3, <1>4

\* The writers of a session before and after a step of task t.
LEMMA WriterComes ==
  ASSUME NEW t \in Tasks, NEW d, Moves(t), t \notin Writers(d),
         task'[t].deploy = d, task'[t].pc \in WritePC
  PROVE  /\ Cardinality(Writers(d)) \in Nat
         /\ Cardinality(Writers(d)') = Cardinality(Writers(d)) + 1
<1>1. IsFiniteSet(Writers(d)) /\ Cardinality(Writers(d)) \in Nat
  BY FS_Subset, FS_CardinalityType DEF Writers
<1>2. Writers(d)' = Writers(d) \cup {t}
  BY DEF Writers, Moves
<1> QED
  BY <1>1, <1>2, FS_AddElement

\* A writer goes.
LEMMA WriterGoes ==
  ASSUME NEW t \in Tasks, NEW d, Moves(t), t \in Writers(d), task'[t].pc \notin WritePC
  PROVE  /\ Cardinality(Writers(d)) \in Nat /\ Cardinality(Writers(d)) > 0
         /\ Cardinality(Writers(d)') = Cardinality(Writers(d)) - 1
<1>1. IsFiniteSet(Writers(d)) /\ Cardinality(Writers(d)) \in Nat
  BY FS_Subset, FS_CardinalityType DEF Writers
<1>2. Writers(d)' = Writers(d) \ {t}
  BY DEF Writers, Moves
<1>3. Cardinality(Writers(d)) # 0
  BY <1>1, FS_EmptySet
<1>4. Cardinality(Writers(d) \ {t}) = Cardinality(Writers(d)) - 1
  BY <1>1, FS_RemoveElement
<1> QED
  BY <1>1, <1>2, <1>3, <1>4

\* The first half counts the write.
LEMMA PushStartKeeps ==
  ASSUME Inv, NEW t \in Tasks, NEW d \in issued, NEW c \in Chunks,
         NEW x \in {"good", "bad"}, PushStart(t, d, c, x)
  PROVE  Inv'
<1> DEFINE R == Removed(sessions, clock, {})
<1> DEFINE S == Without(sessions, R)
<1>0. /\ task[t].pc = "idle" /\ idempotency' = KeysWithout(sessions, R) /\ TypeOK
      /\ d \in DOMAIN S /\ push_allowed(S[d])
      /\ UNCHANGED <<opened, purged>>
      /\ UNCHANGED <<files, content, clock, issued, detached, dropped, aborts>>
      /\ clock \in Nat /\ d \in Deploys
  BY DEF PushStart, Inv, TypeOK
<1>1. Cleaned(R) /\ Left(S, R) /\ R \in SUBSET Deploys
  BY <1>0, CleanedFacts
<1> DEFINE rec == [S[d] EXCEPT !.inflight_writes = @ + 1, !.updated_at = clock]
<1> DEFINE k == [NoTask EXCEPT !.pc = "writing", !.deploy = d, !.chunk = c,
                               !.data = x, !.now = clock, !.plan = R]
<1>2. sessions' = [S EXCEPT ![d] = rec] /\ task' = [task EXCEPT ![t] = k]
  BY DEF PushStart
<1> HIDE DEF R, S
<1>3. S[d] \in UploadSession /\ S[d] = sessions[d]
  BY <1>0, <1>1 DEF Left
<1>4. /\ rec \in UploadSession /\ rec.key = S[d].key /\ rec.committed = S[d].committed
      /\ rec.commit_in_progress = S[d].commit_in_progress
      /\ rec.inflight_writes = S[d].inflight_writes + 1
  <2> DEFINE s == S[d]
  <2>1. /\ s.key \in Keys /\ s.print \in Prints /\ s.received \in SUBSET Chunks
        /\ s.committed \in BOOLEAN /\ s.commit_in_progress \in BOOLEAN
        /\ s.inflight_writes + 1 \in Nat /\ s \in UploadSession
    BY <1>3 DEF UploadSession
  <2>2. rec = [s EXCEPT !.inflight_writes = s.inflight_writes + 1, !.updated_at = clock]
    BY DEF rec
  <2> HIDE DEF s, rec
  <2>3. rec \in UploadSession
    BY <1>0, <2>1, <2>2 DEF UploadSession
  <2> QED
    BY <1>0, <2>1, <2>2, <2>3 DEF UploadSession, s
<1>5. k \in Task /\ k.pc = "writing" /\ k.deploy = d /\ k.plan = R /\ k.chunk = c
  BY <1>0, <1>1 DEF NoTask, Task, PC, Data, None
<1> HIDE DEF rec, k
<1>6. Moves(t) /\ task'[t] = k
  BY <1>0, <1>2, <1>5 DEF TypeOK, Moves
<1>7. /\ Sweep({t}, R, {d}) /\ MapsOK'
      /\ d \in DOMAIN sessions /\ d \in DOMAIN sessions' /\ sessions'[d] = rec
  BY <1>0, <1>1, <1>2, <1>4, <1>6, PutSweep
<1>8. TypeOK'
  BY <1>0, <1>6, <1>7 DEF TypeOK, MapsOK, Moves
<1>9. LabelsOK'
  <2>1. TaskOK(k)
    BY <1>0, <1>5 DEF TaskOK, NewPC, WritePC
  <2> QED
    BY <1>6, <2>1 DEF Inv, LabelsOK, Moves
<1>10. KeepsIds({t}, R)
  BY <1>0, <1>5, <1>6 DEF KeepsIds, Deletable, NewPC
<1>11. KeepsWork({t}, {d})
  <2>1. \A u \in Tasks : task[u].pc \in DigestPC => task[u].deploy # d
    BY <1>0, <1>3, <1>7 DEF push_allowed, Inv, Work
  <2> QED
    BY <1>5, <1>6, <1>7, <2>1 DEF KeepsWork, DigestPC
<1>12. KeepsCounts({t}, {d})
  <2>1. \A e : e # d => (t \in Writers(e)' <=> t \in Writers(e))
    BY <1>0, <1>5, <1>6 DEF Writers, WritePC
  <2>2. /\ Cardinality(Writers(d)) \in Nat
        /\ Cardinality(Writers(d)') = Cardinality(Writers(d)) + 1
    <3>1. t \notin Writers(d) /\ task'[t].deploy = d /\ task'[t].pc \in WritePC
      BY <1>0, <1>5, <1>6 DEF Writers, WritePC
    <3> QED
      BY <1>6, <3>1, WriterComes
  <2>3. CountOK(d) /\ dropped[d] \in Nat
    BY <1>0, <1>7 DEF Inv, Counts, TypeOK
  <2>4. sessions[d].inflight_writes \in Nat /\ sessions[d].inflight_writes < MaxInflight
        /\ ~sessions[d].committed /\ ~sessions[d].commit_in_progress
    BY <1>0, <1>3 DEF push_allowed, UploadSession
  <2>5. CountOK(d)'
    BY <1>0, <1>3, <1>4, <1>7, <2>2, <2>3, <2>4 DEF CountOK
  <2> QED
    BY <1>0, <2>1, <2>5 DEF KeepsCounts, Inv, TypeOK, Counts
<1>13. KeepsContent({t}, {d}) /\ KeepsPins({t}, {d})
  BY <1>0, <1>3, <1>4, <1>5, <1>6, <1>7
     DEF KeepsContent, Verified, KeepsPins, Bound, FoundPC
<1> QED
  BY <1>7, <1>8, <1>9, <1>10, <1>11, <1>12, <1>13, SweepKeeps

\* A write to a file harms no session without writers.
LEMMA WriteKeepsFiles ==
  ASSUME TypeOK, NEW d \in Deploys, NEW c \in Chunks, NEW x \in Data,
         content' = content \/ content' = [content EXCEPT ![d][c] = x],
         UNCHANGED <<files, sessions>>,
         d \in DOMAIN sessions => sessions[d].inflight_writes # 0
  PROVE  FilesKept
<1>1. content' \in [Deploys -> [Chunks -> Data]]
  BY DEF TypeOK
<1>2. \A e \in Deploys \ {d} : content'[e] = content[e]
  BY DEF TypeOK
<1>3. DOMAIN sessions \subseteq Deploys /\ files \subseteq Deploys
  BY DEF TypeOK
<1> QED
  BY <1>1, <1>2, <1>3 DEF FilesKept, Verified

\* The write, outside the lock.
LEMMA WriteKeeps ==
  ASSUME Inv, NEW t \in Tasks, WriteChunk(t)
  PROVE  Inv'
<1> DEFINE d == task[t].deploy
<1>0. /\ task[t].pc = "writing" /\ TypeOK
      /\ UNCHANGED <<sessions, idempotency, opened, purged>>
      /\ UNCHANGED <<files, clock, issued, detached, dropped, aborts>>
  BY DEF WriteChunk, Inv
<1>1. d \in Deploys /\ task[t].chunk \in Chunks /\ task[t].data \in Data
  BY <1>0 DEF Inv, LabelsOK, TaskOK, WritePC, TypeOK, Task
<1>2. PICK x \in Data : content' = content \/ content' = [content EXCEPT ![d][task[t].chunk] = x]
  BY <1>1 DEF WriteChunk, Data
<1>3. PICK pc \in {"written", "write failed"} : task' = [task EXCEPT ![t].pc = pc]
  BY DEF WriteChunk
<1>4. GoesOn(t, pc)
  BY <1>0, <1>3, GoesOnFields DEF PC
<1>5. d \in DOMAIN sessions => sessions[d].inflight_writes # 0
  BY <1>0, BusyStays DEF WritePC
<1>6. FilesKept
  BY <1>0, <1>1, <1>2, <1>5, WriteKeepsFiles
<1>7. Sweep({t}, {}, {}) /\ MapsOK'
  BY <1>0, <1>4, StillSweep DEF GoesOn
<1>8. TypeOK'
  BY <1>0, <1>4, <1>6, <1>7 DEF TypeOK, MapsOK, FilesKept, GoesOn, Moves
<1>9. LabelsOK'
  <2>1. TaskOK(task'[t])
    BY <1>1, <1>4 DEF GoesOn, TaskOK, NewPC, DigestPC, LookupPC
  <2> QED
    BY <1>4, <2>1 DEF Inv, LabelsOK, GoesOn, Moves
<1>10. KeepsIds({t}, {})
  BY <1>0, <1>1, <1>4 DEF KeepsIds, GoesOn, Deletable, NewPC, Inv, Ids
<1>11. KeepsWork({t}, {}) /\ KeepsPins({t}, {})
  BY <1>0, <1>4 DEF KeepsWork, KeepsPins, GoesOn, WritePC, DigestPC, Bound, FoundPC, Inv, Work
<1>12. KeepsCounts({t}, {})
  BY <1>0, <1>4 DEF KeepsCounts, GoesOn, Writers, WritePC, Inv, TypeOK, Counts
<1>13. KeepsContent({t}, {})
  BY <1>4, <1>6 DEF KeepsContent, FilesKept, GoesOn
<1> QED
  BY <1>7, <1>8, <1>9, <1>10, <1>11, <1>12, <1>13, SweepKeeps

\* The maps as they are, for the steps without a cleanup.
LEMMA NothingRemoved ==
  ASSUME Inv
  PROVE  Left(sessions, {}) /\ (UNCHANGED idempotency => Cleaned({}))
  BY DEF Left, Cleaned, Inv, TypeOK

\* The second half counts it out, whether or not it went well.
LEMMA PushFinishKeeps ==
  ASSUME Inv, NEW t \in Tasks, PushFinish(t)
  PROVE  Inv'
<1>0. /\ task[t].pc \in {"written", "write failed"} /\ TypeOK
      /\ UNCHANGED <<idempotency, opened, purged>>
      /\ UNCHANGED <<files, content, clock, issued, detached, dropped, aborts>>
  BY DEF PushFinish, Inv
<1>1. /\ task[t].deploy \in Deploys /\ task[t].chunk \in Chunks /\ task[t].now \in Nat
      /\ task[t].plan \in SUBSET Deploys /\ task[t].pc \in WritePC
  BY <1>0 DEF Inv, LabelsOK, TaskOK, WritePC, TypeOK, Task
<1>2. PICK d \in Deploys : d = task[t].deploy
  BY <1>1
<1>3. PICK plan \in {{}, task[t].plan} : Rests(t, plan, "idle")
  <2>1. Return(t) \/ CleanThen(t, task[t].plan, "idle")
    BY DEF PushFinish
  <2> QED
    BY <1>0, <1>1, <2>1, ReturnFields, CleanThenFields
<1>4. /\ Moves(t) /\ task'[t].plan \subseteq task[t].plan /\ task'[t].deploy = NoDeploy
      /\ task'[t].pc \notin NewPC \cup WritePC \cup DigestPC /\ ~Bound(t)'
  BY <1>3 DEF Rests, NewPC, WritePC, DigestPC, Bound, FoundPC
<1>5. LabelsOK'
  BY <1>3, RestsLabels DEF Inv, FoundPC
<1>6. KeepsIds({t}, {})
  BY <1>0, <1>4 DEF KeepsIds, Deletable
<1>7. CASE d \notin DOMAIN sessions
  <2>1. UNCHANGED sessions
    BY <1>2, <1>7 DEF PushFinish
  <2>2. Sweep({t}, {}, {}) /\ MapsOK'
    BY <1>0, <1>4, <2>1, StillSweep
  <2>3. TypeOK'
    BY <1>0, <1>4, <2>2 DEF TypeOK, MapsOK, Moves
  <2>4. KeepsWork({t}, {}) /\ KeepsPins({t}, {})
    BY <1>4 DEF KeepsWork, KeepsPins
  <2>5. KeepsCounts({t}, {})
    <3>1. \A e \in DOMAIN sessions' : t \in Writers(e)' <=> t \in Writers(e)
      BY <1>2, <1>4, <1>7, <2>1 DEF Writers
    <3> QED
      BY <1>0, <3>1 DEF KeepsCounts, Inv, TypeOK, Counts
  <2>6. KeepsContent({t}, {})
    BY <1>0, <1>4 DEF KeepsContent, Verified, DigestPC
  <2> QED
    BY <1>5, <1>6, <2>2, <2>3, <2>4, <2>5, <2>6, SweepKeeps
<1>8. CASE d \in DOMAIN sessions
  <2> DEFINE s == sessions[d]
  <2> DEFINE left == writes_left(s, task[t].pc = "written")
  <2> DEFINE rec == IF task[t].pc = "written"
                    THEN [s EXCEPT !.inflight_writes = left,
                                   !.received = s.received \cup {task[t].chunk},
                                   !.updated_at = task[t].now]
                    ELSE [s EXCEPT !.inflight_writes = left]
  <2>1. sessions' = [sessions EXCEPT ![d] = rec]
    BY <1>2, <1>8 DEF PushFinish
  <2>2. /\ s \in UploadSession /\ s.inflight_writes \in Nat
        /\ s.received \cup {task[t].chunk} \in SUBSET Chunks
    BY <1>0, <1>1, <1>8 DEF TypeOK, UploadSession
  <2>3. s.inflight_writes # 0
    BY <1>1, <1>2, <1>8, BusyStays
  <2>4. left \in Nat /\ left = s.inflight_writes - 1
    BY <2>2, <2>3 DEF writes_left
  <2> HIDE DEF left, s
  <2>5. /\ rec \in UploadSession /\ rec.key = s.key /\ rec.committed = s.committed
        /\ rec.commit_in_progress = s.commit_in_progress /\ rec.inflight_writes = left
    BY <1>1, <2>2, <2>4 DEF UploadSession
  <2> HIDE DEF rec
  <2>6. /\ Sweep({t}, {}, {d}) /\ MapsOK'
        /\ d \in DOMAIN sessions' /\ sessions'[d] = rec
    BY <1>0, <1>4, <1>8, <2>1, <2>5, NothingRemoved, PutSweep DEF s
  <2>7. TypeOK'
    BY <1>0, <1>4, <2>6 DEF TypeOK, MapsOK, Moves
  <2>8. KeepsWork({t}, {d})
    <3>1. \A u \in Tasks : task[u].pc \in DigestPC /\ task[u].deploy = d
            => s.commit_in_progress
      BY <1>8 DEF Inv, Work, s
    <3> QED
      BY <1>4, <2>5, <2>6, <3>1 DEF KeepsWork
  <2>9. KeepsCounts({t}, {d})
    <3>1. \A e : e # d => (t \in Writers(e)' <=> t \in Writers(e))
      BY <1>2, <1>4 DEF Writers
    <3>2. /\ Cardinality(Writers(d)) \in Nat
          /\ Cardinality(Writers(d)') = Cardinality(Writers(d)) - 1
      <4>1. t \in Writers(d) /\ task'[t].pc \notin WritePC
        BY <1>1, <1>2, <1>4 DEF Writers
      <4> QED
        BY <1>4, <4>1, WriterGoes
    <3>3. CountOK(d) /\ dropped[d] \in Nat
      BY <1>0, <1>8 DEF Inv, Counts, TypeOK
    <3>4. CountOK(d)'
      <4>1. /\ s.inflight_writes <= MaxInflight
            /\ s.inflight_writes = dropped[d] + Cardinality(Writers(d))
            /\ ~s.committed /\ ~s.commit_in_progress
        BY <2>3, <3>3 DEF CountOK, s
      <4>2. /\ left <= MaxInflight
            /\ left = dropped[d] + (Cardinality(Writers(d)) - 1)
        BY <2>2, <2>4, <3>2, <3>3, <4>1
      <4>3. /\ sessions'[d].inflight_writes = left /\ dropped'[d] = dropped[d]
            /\ ~sessions'[d].committed /\ ~sessions'[d].commit_in_progress
        BY <1>0, <2>5, <2>6, <4>1
      <4> QED
        BY <3>2, <4>2, <4>3 DEF CountOK
    <3> QED
      BY ZenonT(30), <1>0, <3>1, <3>4 DEF KeepsCounts, Inv, TypeOK, Counts
  <2>10. KeepsContent({t}, {d}) /\ KeepsPins({t}, {d})
    BY <1>0, <1>4, <2>5, <2>6 DEF KeepsContent, Verified, KeepsPins, DigestPC, s
  <2> QED
    BY <1>5, <1>6, <2>6, <2>7, <2>8, <2>9, <2>10, SweepKeeps
<1> QED
  BY <1>7, <1>8

-----------------------------------------------------------------------------
(* artifact.commit.                                                        *)

\* The first half closes the session to writers.
LEMMA CommitStartKeeps ==
  ASSUME Inv, NEW t \in Tasks, NEW d \in issued, CommitStart(t, d)
  PROVE  Inv'
<1> DEFINE R == Removed(sessions, clock, {})
<1> DEFINE S == Without(sessions, R)
<1>0. /\ task[t].pc = "idle" /\ idempotency' = KeysWithout(sessions, R) /\ TypeOK
      /\ d \in DOMAIN S /\ commit_allowed(S[d])
      /\ UNCHANGED <<opened, purged>>
      /\ UNCHANGED <<files, content, clock, issued, detached, dropped, aborts>>
      /\ clock \in Nat /\ d \in Deploys
  BY DEF CommitStart, Inv, TypeOK
<1>1. Cleaned(R) /\ Left(S, R) /\ R \in SUBSET Deploys
  BY <1>0, CleanedFacts
<1> DEFINE rec == [S[d] EXCEPT !.commit_in_progress = TRUE, !.updated_at = clock]
<1> DEFINE k == [NoTask EXCEPT !.pc = "digesting", !.deploy = d, !.now = clock,
                               !.plan = R]
<1>2. sessions' = [S EXCEPT ![d] = rec] /\ task' = [task EXCEPT ![t] = k]
  BY DEF CommitStart
<1> HIDE DEF R, S
<1>3. S[d] \in UploadSession /\ S[d] = sessions[d]
  BY <1>0, <1>1 DEF Left
<1>4. /\ rec \in UploadSession /\ rec.key = S[d].key /\ rec.committed = S[d].committed
      /\ rec.commit_in_progress = TRUE
      /\ rec.inflight_writes = S[d].inflight_writes
  BY <1>0, <1>3 DEF UploadSession
<1>5. k \in Task /\ k.pc = "digesting" /\ k.deploy = d /\ k.plan = R
  BY <1>0, <1>1 DEF NoTask, Task, PC, Data, None
<1> HIDE DEF rec, k
<1>6. Moves(t) /\ task'[t] = k
  BY <1>0, <1>2, <1>5 DEF TypeOK, Moves
<1>7. /\ Sweep({t}, R, {d}) /\ MapsOK'
      /\ d \in DOMAIN sessions /\ d \in DOMAIN sessions' /\ sessions'[d] = rec
  BY <1>0, <1>1, <1>2, <1>4, <1>6, PutSweep
<1>8. TypeOK'
  BY <1>0, <1>6, <1>7 DEF TypeOK, MapsOK, Moves
<1>9. LabelsOK'
  <2>1. TaskOK(k)
    BY <1>0, <1>5 DEF TaskOK, NewPC, WritePC
  <2> QED
    BY <1>6, <2>1 DEF Inv, LabelsOK, Moves
<1>10. KeepsIds({t}, R)
  BY <1>0, <1>5, <1>6 DEF KeepsIds, Deletable, NewPC
<1>11. KeepsWork({t}, {d})
  <2>1. \A u \in Tasks : task[u].pc \in DigestPC => task[u].deploy # d
    BY <1>0, <1>3, <1>7 DEF commit_allowed, Inv, Work
  <2> QED
    BY <1>4, <1>5, <1>6, <1>7, <2>1 DEF KeepsWork
<1>12. KeepsCounts({t}, {d})
  <2>1. \A e : (t \in Writers(e)' <=> t \in Writers(e))
    BY <1>0, <1>5, <1>6 DEF Writers, WritePC
  <2>2. Writers(d)' = Writers(d)
    BY <1>6, <2>1 DEF Writers, Moves
  <2>3. CountOK(d) /\ sessions[d].inflight_writes = 0
    BY <1>0, <1>3, <1>7 DEF Inv, Counts, commit_allowed
  <2>4. CountOK(d)'
    BY <1>0, <1>3, <1>4, <1>7, <2>2, <2>3 DEF CountOK
  <2> QED
    BY <1>0, <2>1, <2>4 DEF KeepsCounts, Inv, TypeOK, Counts
<1>13. KeepsContent({t}, {d}) /\ KeepsPins({t}, {d})
  BY ZenonT(30), <1>0, <1>3, <1>4, <1>5, <1>6, <1>7
     DEF KeepsContent, Verified, KeepsPins, Bound, FoundPC
<1> QED
  BY <1>7, <1>8, <1>9, <1>10, <1>11, <1>12, <1>13, SweepKeeps

\* The digest.
LEMMA DigestKeeps ==
  ASSUME Inv, NEW t \in Tasks, DigestFile(t)
  PROVE  Inv'
<1>0. /\ task[t].pc = "digesting" /\ TypeOK
      /\ UNCHANGED <<sessions, idempotency, opened, purged>>
      /\ UNCHANGED <<files, content, clock, issued, detached, dropped, aborts>>
  BY DEF DigestFile, Inv
<1>1. PICK pc \in {"digest good", "digest bad"} :
        /\ task' = [task EXCEPT ![t].pc = pc]
        /\ pc = "digest good" => Verified(task[t].deploy)
  BY DEF DigestFile
<1>2. GoesOn(t, pc)
  BY <1>0, <1>1, GoesOnFields DEF PC
<1>3. task[t].deploy \in Deploys
  BY <1>0 DEF Inv, LabelsOK, TaskOK, DigestPC
<1>7. Sweep({t}, {}, {}) /\ MapsOK'
  BY <1>0, <1>2, StillSweep DEF GoesOn
<1>8. TypeOK'
  BY <1>0, <1>2, <1>7 DEF TypeOK, MapsOK, GoesOn, Moves
<1>9. LabelsOK'
  <2>1. TaskOK(task'[t])
    BY <1>2, <1>3 DEF GoesOn, TaskOK, NewPC, WritePC
  <2> QED
    BY <1>2, <2>1 DEF Inv, LabelsOK, GoesOn, Moves
<1>10. KeepsIds({t}, {})
  BY <1>0, <1>2 DEF KeepsIds, GoesOn, Deletable, NewPC, Inv, Ids
<1>11. KeepsWork({t}, {})
  <2>1. task[t].pc \in DigestPC /\ task'[t].deploy = task[t].deploy
    BY <1>0, <1>2 DEF DigestPC, GoesOn
  <2> QED
    BY <1>0, <2>1 DEF KeepsWork, Inv, Work
<1>12. KeepsCounts({t}, {})
  BY <1>0, <1>2 DEF KeepsCounts, GoesOn, Writers, WritePC, Inv, TypeOK, Counts
<1>13. KeepsContent({t}, {})
  <2>1. \A e : Verified(e)' <=> Verified(e)
    BY <1>0 DEF Verified
  <2>2. PICK d \in Deploys : d = task[t].deploy
    BY <1>3
  <2>3. task'[t].deploy = d /\ task'[t].pc = pc /\ (task[t].deploy)' = d
    BY <1>2, <2>2 DEF GoesOn
  <2>4. pc = "digest good" => Verified(d)'
    BY <1>1, <2>1, <2>2
  <2>5. pc = "digest good" => Verified(task[t].deploy)'
    BY <2>3, <2>4 DEF Verified
  <2> QED
    BY <2>1, <2>3, <2>5 DEF KeepsContent
<1>14. KeepsPins({t}, {})
  BY <1>2 DEF KeepsPins, GoesOn, Bound, FoundPC
<1> QED
  BY <1>7, <1>8, <1>9, <1>10, <1>11, <1>12, <1>13, <1>14, SweepKeeps

\* The second half opens the session again, committed if the digest was good,
\* and cleans up around it.
LEMMA CommitFinishKeeps ==
  ASSUME Inv, NEW t \in Tasks, CommitFinish(t)
  PROVE  Inv'
<1>0. /\ task[t].pc \in {"digest good", "digest bad"} /\ TypeOK
      /\ UNCHANGED <<opened, purged>>
      /\ UNCHANGED <<files, content, clock, issued, detached, dropped, aborts>>
  BY DEF CommitFinish, Inv
<1>1. /\ task[t].deploy \in Deploys /\ task[t].now \in Nat
      /\ task[t].plan \in SUBSET Deploys
      /\ task[t].pc \in DigestPC /\ task[t].pc \notin WritePC
  BY <1>0 DEF Inv, LabelsOK, TaskOK, DigestPC, WritePC, TypeOK, Task
<1>2. PICK d \in Deploys : d = task[t].deploy
  BY <1>1
<1>3. CASE d \notin DOMAIN sessions
  <2>1. UNCHANGED <<sessions, idempotency>> /\ Return(t)
    BY <1>2, <1>3 DEF CommitFinish
  <2>2. Rests(t, {}, "idle")
    BY <1>0, <2>1, ReturnFields
  <2>3. Sweep({t}, {}, {}) /\ MapsOK' /\ Quiet
    BY <1>0, <2>1, <2>2, StillSweep, StillQuiet DEF Rests
  <2> QED
    BY <1>1, <2>2, <2>3, RestKeeps DEF Deletable, FoundPC
<1>4. CASE d \in DOMAIN sessions
  <2> DEFINE s == sessions[d]
  <2> DEFINE good == task[t].pc = "digest good"
  <2> DEFINE rec == [s EXCEPT !.commit_in_progress = FALSE,
                              !.updated_at = task[t].now,
                              !.committed = s.committed \/ good]
  <2> DEFINE S == [sessions EXCEPT ![d] = rec]
  <2> DEFINE R == IF good THEN Removed(S, task[t].now, {d}) ELSE {}
  <2>1. /\ sessions' = Without(S, R)
        /\ good => idempotency' = KeysWithout(S, R) /\ CleanThen(t, task[t].plan \cup R, "idle")
        /\ ~good => UNCHANGED idempotency /\ Return(t)
    BY <1>2, <1>4 DEF CommitFinish
  <2>2. s \in UploadSession /\ s.commit_in_progress /\ s.inflight_writes = 0 /\ CountOK(d)
    <3>1. s \in UploadSession /\ s.commit_in_progress /\ CountOK(d)
      BY <1>0, <1>1, <1>2, <1>4 DEF TypeOK, Inv, Work, Counts
    <3> QED
      BY <3>1 DEF CountOK
  <2>3. good => Verified(d)
    BY <1>2, <1>4 DEF Inv, Content
  <2> HIDE DEF s, good
  <2>4. /\ rec \in UploadSession /\ rec.key = s.key /\ ~rec.commit_in_progress
        /\ rec.inflight_writes = 0 /\ rec.committed = (s.committed \/ good)
    <3>1. (s.committed \/ good) \in BOOLEAN
      OBVIOUS
    <3> QED
      BY <1>1, <2>2, <3>1 DEF UploadSession
  <2> HIDE DEF rec
  <2>5. /\ DOMAIN S = DOMAIN sessions /\ S[d] = rec
        /\ S \in [DOMAIN sessions -> UploadSession]
        /\ \A e \in DOMAIN sessions \ {d} : S[e] = sessions[e]
    BY <1>0, <1>4, <2>4 DEF TypeOK
  <2> HIDE DEF S
  <2>6. ASSUME NEW e \in R
        PROVE  /\ e \in DOMAIN sessions /\ e # d /\ Idle(sessions[e])
               /\ sessions[e].committed => e \notin Pinned
    <3>1. good /\ e \in Removed(S, task[t].now, {d})
      BY <2>6
    <3>2. /\ e \in DOMAIN S /\ Idle(S[e])
          /\ S[e].committed => e \notin Pinned /\ e \notin {d}
      BY <3>1, RemovedFacts
    <3>3. e # d
      BY <2>4, <2>5, <3>1, <3>2
    <3> QED
      BY <2>5, <3>2, <3>3
  <2>7. ~good => R = {}
    OBVIOUS
  <2> HIDE DEF R
  <2>8. R \subseteq DOMAIN sessions /\ d \notin R /\ R \in SUBSET Deploys
    BY <1>0, <2>6 DEF TypeOK
  <2>9. /\ DOMAIN sessions' = DOMAIN sessions \ R
        /\ \A e \in DOMAIN sessions \ R : sessions'[e] = S[e]
        /\ sessions' \in [DOMAIN sessions \ R -> UploadSession]
    BY <2>1, <2>5 DEF Without
  <2>10. sessions'[d] = rec /\ d \in DOMAIN sessions'
         /\ \A e \in DOMAIN sessions' \ {d} : sessions'[e] = sessions[e]
    BY <1>4, <2>5, <2>8, <2>9
  <2>11. Cleaned(R)
    <3>1. /\ \A k \in DOMAIN idempotency : idempotency[k] \in DOMAIN sessions
          /\ idempotency \in [DOMAIN idempotency -> Deploys]
      BY DEF Inv, KeyHasOneSession, TypeOK
    <3>2. CASE good
      <4>1. idempotency' = [k \in {j \in DOMAIN idempotency : idempotency[j] \in DOMAIN sessions \ R}
                              |-> idempotency[k]]
        BY <2>1, <2>5, <3>2 DEF KeysWithout
      <4>2. DOMAIN idempotency' = {k \in DOMAIN idempotency : idempotency[k] \notin R}
        BY <3>1, <4>1
      <4>3. /\ \A k \in DOMAIN idempotency' : idempotency'[k] = idempotency[k]
            /\ idempotency' \in [DOMAIN idempotency' -> Deploys]
        BY <3>1, <4>1
      <4> QED
        BY <2>6, <2>8, <4>2, <4>3 DEF Cleaned
    <3>3. CASE ~good
      BY <2>1, <2>7, <3>3, NothingRemoved
    <3> QED
      BY <3>2, <3>3
  <2>12. PICK plan \in SUBSET (task[t].plan \cup R) : Rests(t, plan, "idle")
    <3>1. CASE good
      BY <1>0, <1>1, <2>1, <2>8, <3>1, CleanThenFields
    <3>2. CASE ~good
      BY <1>0, <2>1, <3>2, ReturnFields
    <3> QED
      BY <3>1, <3>2
  <2>13. /\ Moves(t) /\ task'[t].plan \subseteq task[t].plan \cup R /\ task'[t].deploy = NoDeploy
         /\ task'[t].pc \notin NewPC \cup WritePC \cup DigestPC /\ ~Bound(t)'
    BY <2>12 DEF Rests, NewPC, WritePC, DigestPC, Bound, FoundPC
  <2>14. Sweep({t}, R, {d})
    BY <1>0, <2>4, <2>9, <2>10, <2>11, <2>13 DEF Sweep, Cleaned, Moves, s
  <2>15. TypeOK'
    BY <1>0, <2>9, <2>11, <2>13 DEF TypeOK, Cleaned, Moves
  <2>16. LabelsOK'
    BY <2>12, RestsLabels DEF Inv, FoundPC
  <2>17. KeepsIds({t}, R)
    BY <1>0, <2>13 DEF KeepsIds, Deletable
  <2>18. KeepsWork({t}, {d})
    <3>1. \A u \in Tasks \ {t} : task[u].pc \in DigestPC => task[u].deploy # d
      BY <1>1, <1>2, <1>4 DEF Inv, Work
    <3> QED
      BY <2>13, <3>1 DEF KeepsWork
  <2>19. KeepsCounts({t}, {d})
    <3>1. \A e : t \in Writers(e)' <=> t \in Writers(e)
      BY <1>1, <2>13 DEF Writers
    <3>2. Writers(d)' = Writers(d)
      BY <2>13, <3>1 DEF Writers, Moves
    <3>3. CountOK(d)'
      BY <1>0, <2>2, <2>4, <2>10, <3>2 DEF CountOK, s
    <3> QED
      BY ZenonT(30), <1>0, <3>1, <3>3 DEF KeepsCounts, Inv, TypeOK, Counts
  <2>20. KeepsContent({t}, {d})
    <3>1. \A e : Verified(e)' <=> Verified(e)
      BY <1>0 DEF Verified
    <3>2. sessions'[d].committed => sessions[d].committed \/ Verified(d)'
      BY <2>3, <2>4, <2>10, <3>1 DEF s
    <3> QED
      BY <2>13, <3>1, <3>2 DEF KeepsContent, DigestPC
  <2>21. KeepsPins({t}, {d})
    BY <2>4, <2>10, <2>13 DEF KeepsPins, s
  <2> QED
    BY <2>14, <2>15, <2>16, <2>17, <2>18, <2>19, <2>20, <2>21, SweepKeeps
<1> QED
  BY <1>3, <1>4

-----------------------------------------------------------------------------
(* Dropped tasks.                                                          *)

\* A dropped push stays counted in its session; a dropped create may leave a
\* file behind.
LEMMA AbortKeeps ==
  ASSUME Inv, NEW t \in Tasks, Abort(t)
  PROVE  Inv'
<1>0. /\ Return(t) /\ TypeOK
      /\ UNCHANGED <<sessions, idempotency, opened, purged>>
      /\ UNCHANGED <<content, clock, issued>>
      /\ aborts < MaxAborts /\ aborts' = aborts + 1
  BY DEF Abort, sessions_after_drop, Inv
<1>1. task[t].deploy \in Deploys \cup {NoDeploy} /\ task[t].data \in Data
  BY <1>0 DEF TypeOK, Task
<1>2. PICK d \in Deploys \cup {NoDeploy} : d = task[t].deploy
  BY <1>1
<1>3. task[t].pc \in WritePC \/ task[t].pc = "creating" => d \in Deploys
  BY <1>2 DEF Inv, LabelsOK, TaskOK, NewPC
<1>4. task[t].pc \in WritePC => task[t].chunk \in Chunks /\ d \in opened
  BY <1>2 DEF Inv, LabelsOK, TaskOK, Work, Ids
<1>5. files \subseteq files' /\ files' \subseteq Deploys
  BY <1>0, <1>2, <1>3 DEF Abort, TypeOK
<1>6. Rests(t, {}, "idle")
  BY <1>0, ReturnFields
<1>7. /\ Moves(t) /\ task'[t].plan = {} /\ task'[t].deploy = NoDeploy
      /\ task'[t].pc \notin NewPC \cup WritePC \cup DigestPC /\ ~Bound(t)'
  BY <1>6 DEF Rests, NewPC, WritePC, DigestPC, Bound, FoundPC
<1>8. /\ task[t].pc \in WritePC => dropped' = [dropped EXCEPT ![d] = dropped[d] + 1]
      /\ task[t].pc \notin WritePC => dropped' = dropped
  BY <1>2 DEF Abort, WritePC
<1>9. /\ dropped' \in [Deploys -> Nat]
      /\ \A e \in Deploys : dropped'[e] >= dropped[e]
      /\ \A e \in Deploys \ {d} : dropped'[e] = dropped[e]
      /\ task[t].pc \in WritePC => dropped'[d] = dropped[d] + 1
  BY <1>0, <1>3, <1>8 DEF TypeOK
<1>10. \A w \in detached' :
         \/ w \in detached
         \/ /\ task[t].pc \in WritePC
            /\ w = [deploy |-> d, chunk |-> task[t].chunk, data |-> task[t].data]
  BY <1>2 DEF Abort, WritePC
<1>11. Sweep({t}, {}, {d})
  BY <1>0, <1>7 DEF Sweep, Moves, Inv, TypeOK
<1>12. TypeOK'
  <2>1. detached' \subseteq [deploy : Deploys, chunk : Chunks, data : Data]
    BY <1>0, <1>1, <1>3, <1>4, <1>10 DEF TypeOK
  <2>2. aborts' \in 0..MaxAborts
    BY <1>0 DEF TypeOK
  <2> QED
    BY <1>0, <1>5, <1>7, <1>9, <2>1, <2>2 DEF TypeOK, Moves
<1>13. LabelsOK'
  BY <1>6, RestsLabels DEF Inv, FoundPC
<1>14. KeepsIds({t}, {})
  BY <1>0, <1>7 DEF KeepsIds
<1>15. KeepsWork({t}, {d})
  <2>1. \A u \in Tasks : task[u].pc \in DigestPC /\ task[u].deploy = d
          /\ d \in DOMAIN sessions => sessions[d].commit_in_progress
    BY DEF Inv, Work
  <2> QED
    BY <1>0, <1>7, <2>1 DEF KeepsWork
<1>16. KeepsCounts({t}, {d})
  <2>1. \A e : e # d => (t \in Writers(e)' <=> t \in Writers(e))
    BY <1>2, <1>7 DEF Writers
  <2>2. \A w \in detached' : dropped'[w.deploy] > 0
    <3>1. ASSUME NEW w \in detached' PROVE dropped'[w.deploy] > 0
      <4>1. CASE w \in detached
        <5>1. w.deploy \in Deploys /\ dropped[w.deploy] > 0
          BY <1>0, <4>1 DEF TypeOK, Inv, Counts
        <5> QED
          BY <1>0, <1>9, <5>1 DEF TypeOK
      <4>2. CASE w \notin detached
        <5>1. w.deploy = d /\ task[t].pc \in WritePC
          BY <1>10, <4>2
        <5> QED
          BY <1>0, <1>3, <1>9, <5>1 DEF TypeOK
      <4> QED
        BY <4>1, <4>2
    <3> QED
      BY <3>1
  <2>3. \A e \in Deploys \ opened : dropped'[e] = 0
    BY <1>4, <1>8, <1>9 DEF Inv, Counts
  <2>4. ASSUME d \in DOMAIN sessions PROVE CountOK(d)'
    <3>1. CountOK(d) /\ d \in Deploys /\ dropped[d] \in Nat
      BY <1>0, <2>4 DEF Inv, Counts, TypeOK
    <3>2. CASE task[t].pc \in WritePC
      <4>1. t \in Writers(d)
        BY <1>2, <3>2 DEF Writers
      <4>2. /\ Cardinality(Writers(d)) \in Nat
            /\ Cardinality(Writers(d)') = Cardinality(Writers(d)) - 1
        BY <1>7, <4>1, WriterGoes
      <4>3. dropped'[d] + Cardinality(Writers(d)') = dropped[d] + Cardinality(Writers(d))
        BY <1>9, <3>1, <3>2, <4>2
      <4> QED
        BY <1>0, <3>1, <4>3 DEF CountOK
    <3>3. CASE task[t].pc \notin WritePC
      <4>1. Writers(d)' = Writers(d)
        BY <1>7, <3>3 DEF Writers, Moves
      <4> QED
        BY <1>0, <1>8, <3>1, <3>3, <4>1 DEF CountOK
    <3> QED
      BY <3>2, <3>3
  <2>5. DOMAIN sessions' \subseteq Deploys
    BY <1>12 DEF TypeOK
  <2> QED
    BY ZenonT(30), <1>0, <1>9, <2>1, <2>2, <2>3, <2>4, <2>5 DEF KeepsCounts
<1>17. KeepsContent({t}, {d})
  BY <1>0, <1>5, <1>7 DEF KeepsContent, Verified, DigestPC
<1>18. KeepsPins({t}, {d})
  BY <1>0, <1>7 DEF KeepsPins
<1> QED
  BY <1>11, <1>12, <1>13, <1>14, <1>15, <1>16, <1>17, <1>18, SweepKeeps

\* A write that goes on without its task is one its session still counts.
LEMMA DetachedKeeps ==
  ASSUME Inv, NEW w \in detached, DetachedWrite(w)
  PROVE  Inv'
<1>0. /\ UNCHANGED <<sessions, idempotency, opened, purged, task>>
      /\ UNCHANGED <<files, clock, issued, dropped, aborts>>
      /\ detached' \subseteq detached /\ TypeOK
  BY DEF DetachedWrite, Inv
<1>1. w.deploy \in Deploys /\ w.chunk \in Chunks /\ w.data \in Data
  BY <1>0 DEF TypeOK
<1>2. content' = content \/ content' = [content EXCEPT ![w.deploy][w.chunk] = w.data]
  BY DEF DetachedWrite
<1>3. ASSUME w.deploy \in DOMAIN sessions PROVE sessions[w.deploy].inflight_writes # 0
  <2>1. dropped[w.deploy] \in Nat /\ dropped[w.deploy] > 0 /\ CountOK(w.deploy)
    BY <1>0, <1>1, <1>3 DEF TypeOK, Inv, Counts
  <2>2. Cardinality(Writers(w.deploy)) \in Nat
    BY FS_Subset, FS_CardinalityType DEF Writers
  <2> QED
    BY <2>1, <2>2 DEF CountOK
<1>4. FilesKept
  BY <1>0, <1>1, <1>2, <1>3, WriteKeepsFiles
<1>5. Sweep({}, {}, {})
  BY <1>0 DEF Sweep, TypeOK
<1>6. TypeOK'
  BY <1>0, <1>4 DEF TypeOK, FilesKept
<1>7. LabelsOK'
  BY <1>0 DEF Inv, LabelsOK
<1>8. KeepsIds({}, {}) /\ KeepsWork({}, {}) /\ KeepsPins({}, {})
  BY <1>0 DEF KeepsIds, KeepsWork, KeepsPins
<1>9. KeepsCounts({}, {})
  BY <1>0 DEF KeepsCounts, Inv, TypeOK, Counts
<1>10. KeepsContent({}, {})
  BY <1>4 DEF KeepsContent, FilesKept
<1> QED
  BY <1>5, <1>6, <1>7, <1>8, <1>9, <1>10, SweepKeeps

-----------------------------------------------------------------------------
(* Every step.                                                             *)

\* The store starts empty.
LEMMA InvInit == Init => Inv
<1> SUFFICES ASSUME Init PROVE Inv
  OBVIOUS
<1>1. /\ DOMAIN sessions = {} /\ DOMAIN idempotency = {}
      /\ sessions \in [DOMAIN sessions -> UploadSession]
      /\ idempotency \in [DOMAIN idempotency -> Deploys]
  BY DEF Init
<1>2. /\ task \in [Tasks -> Task] /\ \A t \in Tasks : task[t] = NoTask
  BY NoTaskType DEF Init
<1>3. /\ NoTask.pc = "idle" /\ NoTask.deploy = NoDeploy /\ NoTask.plan = {}
  BY DEF NoTask
<1>4. /\ content \in [Deploys -> [Chunks -> Data]] /\ dropped \in [Deploys -> Nat]
      /\ \A d \in Deploys : dropped[d] = 0
  BY DEF Init, Blank, Data
<1>5. /\ files = {} /\ clock = 0 /\ issued = {} /\ opened = {} /\ detached = {}
      /\ purged = {} /\ aborts = 0
  BY DEF Init
<1>6. TypeOK
  BY <1>1, <1>2, <1>4, <1>5 DEF TypeOK
<1>7. LabelsOK
  BY <1>2, <1>3 DEF LabelsOK, TaskOK, NewPC, WritePC, DigestPC, LookupPC
<1>8. Ids
  BY <1>1, <1>2, <1>3, <1>5, FS_EmptySet DEF Ids, NewPC
<1>9. Plans /\ KeyHasOneSession /\ Work
  BY <1>1, <1>2, <1>3, <1>5 DEF Plans, KeyHasOneSession, Work, WritePC, DigestPC
<1>10. Counts /\ Content /\ Pins
  BY <1>1, <1>2, <1>3, <1>4, <1>5
     DEF Counts, Content, CommittedIsVerified, Committed, Pins, Bound, FoundPC
<1> QED
  BY <1>6, <1>7, <1>8, <1>9, <1>10 DEF Inv

\* A step that changes nothing.
LEMMA StutterKeeps == Inv /\ UNCHANGED vars => Inv'
<1> SUFFICES ASSUME Inv, UNCHANGED vars PROVE Inv'
  OBVIOUS
<1> USE DEF vars
<1>1. TypeOK'
  BY DEF Inv, TypeOK
<1>2. LabelsOK' /\ Ids' /\ Plans' /\ KeyHasOneSession' /\ Work' /\ Pins'
  BY DEF Inv, LabelsOK, Ids, Plans, KeyHasOneSession, Work, Pins, Bound
<1>3. Counts' /\ Content'
  BY DEF Inv, Counts, CountOK, Writers, Content, CommittedIsVerified, Verified
<1> QED
  BY <1>1, <1>2, <1>3 DEF Inv

\* Every step of the store keeps the invariant.
LEMMA InvStep == Inv /\ [Next]_vars => Inv'
<1> SUFFICES ASSUME Inv, [Next]_vars PROVE Inv'
  OBVIOUS
<1>1. ASSUME NEW t \in Tasks, Request(t) PROVE Inv'
  <2>1. ASSUME NEW k \in Keys, NEW p \in Prints, Prepare(t, k, p) PROVE Inv'
    BY <2>1, PrepareKeeps
  <2>2. ASSUME NEW d \in issued, NEW c \in Chunks, NEW x \in {"good", "bad"},
               PushStart(t, d, c, x)
        PROVE  Inv'
    BY <2>2, PushStartKeeps
  <2>3. ASSUME NEW d \in issued, CommitStart(t, d) PROVE Inv'
    BY <2>3, CommitStartKeeps
  <2>4. ASSUME NEW d \in issued, Deploy(t, d) PROVE Inv'
    BY <2>4, DeployKeeps
  <2> QED
    BY <1>1, <2>1, <2>2, <2>3, <2>4 DEF Request
<1>2. ASSUME NEW t \in Tasks, Step(t) PROVE Inv'
  <2>1. CASE CreateFile(t)
    BY <2>1, CreateKeeps
  <2>2. CASE InsertSession(t)
    BY <2>2, InsertKeeps
  <2>3. CASE ApplyCleanupPlan(t)
    BY <2>3, ApplyKeeps
  <2>4. CASE WriteChunk(t)
    BY <2>4, WriteKeeps
  <2>5. CASE PushFinish(t)
    BY <2>5, PushFinishKeeps
  <2>6. CASE DigestFile(t)
    BY <2>6, DigestKeeps
  <2>7. CASE CommitFinish(t)
    BY <2>7, CommitFinishKeeps
  <2>8. CASE ServiceNameForDeploy(t) \/ CommittedArtifact(t)
    BY <2>8, LookupKeeps DEF ServiceNameForDeploy, CommittedArtifact, FoundPC
  <2>9. CASE EndDeploy(t)
    BY <2>9, DeployKeeps
  <2>10. CASE Purge(t)
    BY <2>10, PurgeKeeps
  <2> QED
    BY <1>2, <2>1, <2>2, <2>3, <2>4, <2>5, <2>6, <2>7, <2>8, <2>9, <2>10 DEF Step
<1>3. ASSUME NEW t \in Tasks, Abort(t) PROVE Inv'
  BY <1>3, AbortKeeps
<1>4. CASE Refuse
  BY <1>4, RefuseKeeps
<1>5. ASSUME NEW w \in detached, DetachedWrite(w) PROVE Inv'
  BY <1>5, DetachedKeeps
<1>6. CASE Tick
  BY <1>6, TickKeeps
<1>7. CASE UNCHANGED vars
  BY <1>7, StutterKeeps
<1> QED
  BY <1>1, <1>2, <1>3, <1>4, <1>5, <1>6, <1>7 DEF Next

\* The invariant holds in every reachable state.
LEMMA InvAlways == Spec => []Inv
  BY InvInit, InvStep, PTL DEF Spec

-----------------------------------------------------------------------------
(* What the invariant says.                                                *)

\* Every value of the store's variables, and of what its tasks carry, has the
\* type the code gives it.
THEOREM TypeCorrect == Spec => []TypeOK
<1>1. Inv => TypeOK
  BY DEF Inv
<1> QED
  BY <1>1, InvAlways, PTL

\* A committed session has the file its digest was computed of, whatever pushes,
\* dropped pushes, cleanups and purges run beside it (complete_commit, and every
\* write_chunk_to_file that outlives its request).
THEOREM CommittedStaysVerified == Spec => []CommittedIsVerified
<1>1. Inv => CommittedIsVerified
  BY DEF Inv, Content
<1> QED
  BY <1>1, InvAlways, PTL

\* However prepares of one key race over their two critical sections, a key has
\* one session and a session its key.
THEOREM KeysAndSessionsMatch == Spec => []KeyHasOneSession
<1>1. Inv => KeyHasOneSession
  BY DEF Inv
<1> QED
  BY <1>1, InvAlways, PTL

\* What a deploy stages is the verified artifact: its pin keeps every cleanup
\* off the session from pin_deploy_session on.
THEOREM StagingIsSafe == Spec => []StagedIsVerified
<1>1. ASSUME Inv PROVE StagedIsVerified
  <2>1. ASSUME NEW t \in Tasks, task[t].pc = "staging", task[t].deploy \notin purged
        PROVE  Verified(task[t].deploy)
    <3>1. Bound(t)
      BY <2>1 DEF Bound, FoundPC
    <3>2. task[t].deploy \in Committed(sessions)
      BY <1>1, <2>1, <3>1 DEF Inv, Pins
    <3> QED
      BY <1>1, <3>2 DEF Inv, Content, CommittedIsVerified
  <2> QED
    BY <2>1 DEF StagedIsVerified
<1> QED
  BY <1>1, InvAlways, PTL

\* A push or a commit at work keeps its session against every cleanup, and the
\* session counts its writers exactly, those dropped by a session abort included.
THEOREM WorkIsCounted == Spec => []WorkKeepsSession
<1>1. ASSUME Inv PROVE WorkKeepsSession
  <2>1. \A t \in Tasks :
          task[t].pc \in WritePC \cup {"digesting", "digest good", "digest bad"}
          => task[t].deploy \in DOMAIN sessions \cup purged
    BY <1>1 DEF Inv, Work, DigestPC
  <2>2. \A d \in DOMAIN sessions :
          /\ sessions[d].inflight_writes <= MaxInflight
          /\ sessions[d].inflight_writes = dropped[d] + Cardinality(
               {t \in Tasks : task[t].deploy = d /\ task[t].pc \in WritePC})
    BY <1>1 DEF Inv, Counts, CountOK, Writers
  <2> QED
    BY <2>1, <2>2 DEF WorkKeepsSession
<1> QED
  BY <1>1, InvAlways, PTL

-----------------------------------------------------------------------------
(* The limit on committed sessions.  How many sessions eviction leaves     *)
(* follows from an injection: the place of a session in the order of       *)
(* eviction, which is the number of the sessions before it.                *)

\* A strict order of the sessions of a map that has its types.
LEMMA OlderOrders ==
  ASSUME NEW D \in SUBSET Deploys, NEW S, \A e \in D : S[e].updated_at \in Nat,
         NEW a \in D, NEW b \in D, NEW c \in D
  PROVE  /\ ~Older(S, a, a)
         /\ a # b => Older(S, a, b) \/ Older(S, b, a)
         /\ Older(S, a, b) /\ Older(S, b, c) => Older(S, a, c)
<1>1. a \in Nat /\ b \in Nat /\ c \in Nat
  OBVIOUS
<1>2. PICK x \in Nat, y \in Nat, z \in Nat :
        x = S[a].updated_at /\ y = S[b].updated_at /\ z = S[c].updated_at
  OBVIOUS
<1> QED
  BY <1>1, <1>2 DEF Older

\* The place of a session in the order.
Before(S, D, d) == {e \in D : Older(S, e, d)}

\* It is one of 0 .. |D| - 1, and no two sessions have the same.
LEMMA Places ==
  ASSUME NEW D \in SUBSET Deploys, IsFiniteSet(D), NEW S, \A e \in D : S[e].updated_at \in Nat
  PROVE  /\ \A d \in D : Cardinality(Before(S, D, d)) \in 0..(Cardinality(D) - 1)
         /\ \A a, b \in D : a # b => Cardinality(Before(S, D, a)) # Cardinality(Before(S, D, b))
<1>0. Cardinality(D) \in Nat
  BY FS_CardinalityType
<1>1. ASSUME NEW d \in D
      PROVE  /\ Before(S, D, d) \in SUBSET D /\ d \notin Before(S, D, d)
             /\ IsFiniteSet(Before(S, D, d)) /\ Cardinality(Before(S, D, d)) \in Nat
  <2>1. Before(S, D, d) \in SUBSET D
    BY DEF Before
  <2>2. d \notin Before(S, D, d)
    BY OlderOrders DEF Before
  <2>3. IsFiniteSet(Before(S, D, d))
    BY <2>1, FS_Subset
  <2> QED
    BY <2>1, <2>2, <2>3, FS_CardinalityType
<1>2. ASSUME NEW d \in D PROVE Cardinality(Before(S, D, d)) \in 0..(Cardinality(D) - 1)
  <2>1. PICK B \in SUBSET D : B = Before(S, D, d)
    BY <1>1
  <2>2. d \notin B /\ Cardinality(B) \in Nat
    BY <1>1, <2>1
  <2>3. Cardinality(B) <= Cardinality(D) /\ (Cardinality(D) = Cardinality(B) => D = B)
    BY FS_Subset
  <2> QED
    BY <1>0, <2>1, <2>2, <2>3
<1>3. ASSUME NEW a \in D, NEW b \in D, Older(S, a, b)
      PROVE  Cardinality(Before(S, D, a)) < Cardinality(Before(S, D, b))
  <2>1. PICK A, B : A = Before(S, D, a) /\ B = Before(S, D, b)
    OBVIOUS
  <2>2. A \in SUBSET B
    BY <1>3, <2>1, OlderOrders DEF Before
  <2>3. a \in B /\ a \notin A
    BY <1>1, <1>3, <2>1 DEF Before
  <2>4. IsFiniteSet(B) /\ Cardinality(A) \in Nat /\ Cardinality(B) \in Nat
    BY <1>1, <2>1
  <2>5. Cardinality(A) <= Cardinality(B) /\ (Cardinality(B) = Cardinality(A) => B = A)
    BY <2>2, <2>4, FS_Subset
  <2> QED
    BY <2>1, <2>3, <2>4, <2>5
<1>4. ASSUME NEW a \in D, NEW b \in D, a # b
      PROVE  Cardinality(Before(S, D, a)) # Cardinality(Before(S, D, b))
  <2>1. Older(S, a, b) \/ Older(S, b, a)
    BY <1>4, OlderOrders
  <2>2. Cardinality(Before(S, D, a)) \in Nat /\ Cardinality(Before(S, D, b)) \in Nat
    BY <1>1
  <2>3. CASE Older(S, a, b)
    BY <1>3, <2>2, <2>3
  <2>4. CASE Older(S, b, a)
    BY <1>3, <2>2, <2>4
  <2> QED
    BY <2>1, <2>3, <2>4
<1> QED
  BY <1>2, <1>4

\* Evicting the oldest leaves no more than are allowed.
LEMMA EvictionLeaves ==
  ASSUME NEW D \in SUBSET Deploys, IsFiniteSet(D), NEW S, \A e \in D : S[e].updated_at \in Nat,
         NEW allowed \in Nat
  PROVE  LET rest == D \ Oldest(S, D, Cardinality(D) - allowed)
         IN IsFiniteSet(rest) /\ Cardinality(rest) <= allowed
<1>0. PICK n \in Nat : n = Cardinality(D)
  BY FS_CardinalityType
<1>1. PICK rest : rest = D \ Oldest(S, D, n - allowed)
  OBVIOUS
<1>2. rest \in SUBSET D /\ IsFiniteSet(rest) /\ Cardinality(rest) \in Nat /\ Cardinality(rest) <= n
  <2>1. rest \in SUBSET D
    BY <1>1
  <2> QED
    BY <1>0, <2>1, FS_Subset, FS_CardinalityType
<1>3. CASE n <= allowed
  BY <1>0, <1>1, <1>2, <1>3
<1>4. CASE n > allowed
  <2>1. PICK low \in Nat : low = n - allowed
    BY <1>4
  <2> DEFINE f == [d \in rest |-> Cardinality(Before(S, D, d))]
  <2>2. ASSUME NEW d \in rest PROVE Cardinality(Before(S, D, d)) \in low..(n - 1)
    <3>1. Cardinality(Before(S, D, d)) \in 0..(n - 1)
      BY <1>0, <1>2, Places
    <3>2. ~(Cardinality(Before(S, D, d)) < low)
      BY <1>1, <1>2, <2>1 DEF Oldest, Before
    <3> QED
      BY <2>1, <3>1, <3>2
  <2>3. \A a, b \in rest : f[a] = f[b] => a = b
    BY <1>2, Places
  <2>4. f \in Injection(rest, low..(n - 1))
    BY <2>2, <2>3 DEF Injection, IsInjective
  <2>5. IsFiniteSet(low..(n - 1)) /\ Cardinality(low..(n - 1)) = allowed
    <3>1. low \in Int /\ n - 1 \in Int
      BY <2>1
    <3>2. PICK m \in Int : m = n - 1
      BY <3>1
    <3>3. IsFiniteSet(low..m) /\ Cardinality(low..m) = IF low > m THEN 0 ELSE m - low + 1
      BY <3>1, <3>2, FS_Interval
    <3> QED
      BY <1>4, <2>1, <3>2, <3>3
  <2> HIDE DEF f
  <2>6. Cardinality(rest) <= Cardinality(low..(n - 1))
    BY <2>4, <2>5, FS_Injection
  <2> QED
    BY <1>0, <1>1, <1>2, <2>5, <2>6
<1> QED
  BY <1>0, <1>3, <1>4

\* A step that commits no session, and opens one at most.
CommitsNothing ==
  /\ \A e \in DOMAIN sessions' : sessions'[e].committed => e \in Committed(sessions)
  /\ \E x : DOMAIN sessions' \subseteq DOMAIN sessions \cup {x}

\* Touching the time of a session commits nothing ...
LEMMA TouchCommitsNothing ==
  ASSUME NEW R, Touched(R) PROVE CommitsNothing
<1>1. DOMAIN sessions' \subseteq DOMAIN sessions
  BY DEF Touched
<1> QED
  BY <1>1 DEF Touched, CommitsNothing, Committed

\* ... and neither does what leaves the flag of the session d that it writes.
LEMMA PutCommitsNothing ==
  ASSUME NEW R, NEW S, Left(S, R), NEW d \in DOMAIN S, NEW rec,
         sessions' = [S EXCEPT ![d] = rec], rec.committed = S[d].committed
  PROVE  CommitsNothing
<1>1. DOMAIN sessions' = DOMAIN S /\ DOMAIN S \subseteq DOMAIN sessions
  BY DEF Left
<1>2. \A e \in DOMAIN S : sessions'[e].committed = sessions[e].committed
  BY DEF Left
<1> QED
  BY <1>1, <1>2 DEF CommitsNothing, Committed

\* The steps that leave the sessions alone, or only clean up.
LEMMA StillCommitsNothing ==
  ASSUME Inv, UNCHANGED sessions PROVE CommitsNothing
  BY DEF CommitsNothing, Committed

\* A step that only removes sessions commits none.
LEMMA LessCommitsNothing ==
  ASSUME NEW R, sessions' = Without(sessions, R) PROVE CommitsNothing
<1>1. /\ DOMAIN sessions' = DOMAIN sessions \ R
      /\ \A e \in DOMAIN sessions \ R : sessions'[e] = sessions[e]
  BY DEF Without
<1>2. DOMAIN sessions' \subseteq DOMAIN sessions
  BY <1>1
<1> QED
  BY <1>1, <1>2 DEF CommitsNothing, Committed

\* deploy.prepare, both critical sections.
LEMMA PrepareCommitsNothing ==
  ASSUME Inv, NEW t \in Tasks,
         InsertSession(t) \/ \E k \in Keys, p \in Prints : Prepare(t, k, p)
  PROVE  CommitsNothing
<1> DEFINE R == Removed(sessions, clock, {})
<1> DEFINE S == Without(sessions, R)
<1> DEFINE I == KeysWithout(sessions, R)
<1>1. Left(S, R)
  <2>1. R \subseteq DOMAIN sessions /\ sessions \in [DOMAIN sessions -> UploadSession]
    BY RemovedFacts DEF Inv, TypeOK
  <2> HIDE DEF R
  <2> QED
    BY <2>1, WithoutFields DEF Left, Without
<1>2. ASSUME NEW k \in DOMAIN I, NEW p, sessions' = Resume(S, I[k], p) PROVE CommitsNothing
  <2>1. I[k] \in DOMAIN S
    BY <1>2 DEF KeysWithout, Without
  <2> HIDE DEF R, S, I
  <2>2. Touched(R)
    BY <1>1, <1>2, <2>1, ResumeTouched
  <2> QED
    BY <2>2, TouchCommitsNothing
<1>3. CASE sessions' = S
  BY <1>3, LessCommitsNothing
<1>4. ASSUME NEW d, sessions' = [e \in DOMAIN S \cup {d} |-> IF e = d THEN NewSession(t) ELSE S[e]]
      PROVE  CommitsNothing
  <2>1. ~NewSession(t).committed
    BY DEF NewSession
  <2> HIDE DEF R, S
  <2>2. DOMAIN S \subseteq DOMAIN sessions /\ \A e \in DOMAIN S : S[e] = sessions[e]
    BY <1>1 DEF Left
  <2>3. DOMAIN sessions' \subseteq DOMAIN sessions \cup {d}
    BY <1>4, <2>2
  <2>4. \A e \in DOMAIN sessions' : sessions'[e].committed => e \in Committed(sessions)
    BY <1>4, <2>1, <2>2 DEF Committed
  <2> QED
    BY <2>3, <2>4 DEF CommitsNothing
<1>5. CASE InsertSession(t)
  <2>1. \/ key_taken(I, task[t].key) /\ sessions' = Resume(S, I[task[t].key], task[t].print)
        \/ sessions' = [e \in DOMAIN S \cup {task[t].deploy} |->
                          IF e = task[t].deploy THEN NewSession(t) ELSE S[e]]
    BY <1>5 DEF InsertSession
  <2> QED
    BY <1>2, <1>4, <2>1 DEF key_taken
<1>6. ASSUME NEW k \in Keys, NEW p \in Prints, Prepare(t, k, p) PROVE CommitsNothing
  <2>1. (k \in DOMAIN I /\ sessions' = Resume(S, I[k], p)) \/ sessions' = S
    BY <1>6 DEF Prepare
  <2> QED
    BY <1>2, <1>3, <2>1
<1> QED
  BY <1>5, <1>6

\* The first halves of a push and of a commit.
LEMMA StartCommitsNothing ==
  ASSUME Inv, NEW t \in Tasks, NEW d,
         CommitStart(t, d) \/ \E c \in Chunks, x \in {"good", "bad"} : PushStart(t, d, c, x)
  PROVE  CommitsNothing
<1> DEFINE R == Removed(sessions, clock, {})
<1> DEFINE S == Without(sessions, R)
<1>1. Left(S, R) /\ d \in DOMAIN S
  <2>1. R \subseteq DOMAIN sessions /\ sessions \in [DOMAIN sessions -> UploadSession]
    BY RemovedFacts DEF Inv, TypeOK
  <2>2. d \in DOMAIN S
    BY DEF CommitStart, PushStart
  <2> HIDE DEF R
  <2> QED
    BY <2>1, <2>2, WithoutFields DEF Left, Without
<1>2. S[d] \in UploadSession
  BY <1>1 DEF Left
<1>3. \/ sessions' = [S EXCEPT ![d] = [S[d] EXCEPT !.commit_in_progress = TRUE,
                                                   !.updated_at = clock]]
      \/ sessions' = [S EXCEPT ![d] = [S[d] EXCEPT !.inflight_writes = S[d].inflight_writes + 1,
                                                   !.updated_at = clock]]
  BY DEF CommitStart, PushStart
<1> HIDE DEF R, S
<1>4. PICK rec : sessions' = [S EXCEPT ![d] = rec] /\ rec.committed = S[d].committed
  <2>1. PICK a, b, n : /\ n = S[d].inflight_writes + 1
                       /\ a = [S[d] EXCEPT !.commit_in_progress = TRUE, !.updated_at = clock]
                       /\ b = [S[d] EXCEPT !.inflight_writes = n, !.updated_at = clock]
    OBVIOUS
  <2>2. a.committed = S[d].committed /\ b.committed = S[d].committed
    BY <1>2, <2>1 DEF UploadSession
  <2> QED
    BY <1>3, <2>1, <2>2
<1> QED
  BY <1>1, <1>4, PutCommitsNothing

\* The second half of a push.
LEMMA PushCommitsNothing ==
  ASSUME Inv, NEW t \in Tasks, PushFinish(t)
  PROVE  CommitsNothing
<1> DEFINE d == task[t].deploy
<1>1. CASE d \notin DOMAIN sessions
  <2>1. UNCHANGED sessions
    BY <1>1 DEF PushFinish
  <2> QED
    BY <2>1, StillCommitsNothing
<1>2. CASE d \in DOMAIN sessions
  <2>1. PICK s \in UploadSession : s = sessions[d]
    BY <1>2 DEF Inv, TypeOK
  <2>2. PICK left, got, now : /\ left = writes_left(s, task[t].pc = "written") /\ now = task[t].now
                              /\ got = s.received \cup {task[t].chunk}
    OBVIOUS
  <2>3. \/ sessions' = [sessions EXCEPT ![d] = [s EXCEPT !.inflight_writes = left,
                                                         !.received = got, !.updated_at = now]]
        \/ sessions' = [sessions EXCEPT ![d] = [s EXCEPT !.inflight_writes = left]]
    BY <1>2, <2>1, <2>2 DEF PushFinish
  <2>4. PICK rec : sessions' = [sessions EXCEPT ![d] = rec] /\ rec.committed = s.committed
    <3>1. PICK a, b : /\ a = [s EXCEPT !.inflight_writes = left, !.received = got, !.updated_at = now]
                      /\ b = [s EXCEPT !.inflight_writes = left]
      OBVIOUS
    <3>2. a.committed = s.committed /\ b.committed = s.committed
      BY <3>1 DEF UploadSession
    <3> QED
      BY <2>3, <3>1, <3>2
  <2>5. Left(sessions, {})
    BY NothingRemoved
  <2> HIDE DEF d
  <2>6. PICK N : N = {} /\ Left(sessions, N)
    BY <2>5
  <2> QED
    BY <1>2, <2>1, <2>4, <2>6, PutCommitsNothing
<1> QED
  BY <1>1, <1>2

\* A commit whose digest was not right, or whose session is gone.
LEMMA BadCommitsNothing ==
  ASSUME Inv, NEW t \in Tasks, CommitFinish(t),
         task[t].pc = "digest bad" \/ task[t].deploy \notin DOMAIN sessions
  PROVE  CommitsNothing
<1> DEFINE d == task[t].deploy
<1>1. CASE d \notin DOMAIN sessions
  <2>1. UNCHANGED sessions
    BY <1>1 DEF CommitFinish
  <2> QED
    BY <2>1, StillCommitsNothing
<1>2. CASE d \in DOMAIN sessions
  <2>1. PICK s \in UploadSession : s = sessions[d]
    BY <1>2 DEF Inv, TypeOK
  <2>2. PICK rec : rec = [s EXCEPT !.commit_in_progress = FALSE, !.updated_at = task[t].now,
                                   !.committed = s.committed \/ task[t].pc = "digest good"]
    OBVIOUS
  <2>3. rec.committed = (s.committed \/ task[t].pc = "digest good") /\ task[t].pc = "digest bad"
    BY <1>2, <2>1, <2>2 DEF UploadSession
  <2>4. PICK S : S = [sessions EXCEPT ![d] = rec] /\ sessions' = Without(S, {})
    BY <1>2, <2>1, <2>2, <2>3 DEF CommitFinish
  <2> HIDE DEF d
  <2>5. /\ DOMAIN sessions' = DOMAIN sessions
        /\ \A e \in DOMAIN sessions : sessions'[e].committed = sessions[e].committed
    BY <1>2, <2>1, <2>3, <2>4 DEF Without, UploadSession
  <2> QED
    BY <2>5 DEF CommitsNothing, Committed
<1> QED
  BY <1>1, <1>2

\* Looking up a committed session.
LEMMA LookupCommitsNothing ==
  ASSUME Inv, NEW t \in Tasks, NEW next, LookupCommitted(t, next)
  PROVE  CommitsNothing
<1> DEFINE d == task[t].deploy
<1>1. PICK R : R = Removed(sessions, clock, {d})
  OBVIOUS
<1>2. PICK S : S = Without(sessions, R)
  OBVIOUS
<1>3. Left(S, R)
  <2>1. R \subseteq DOMAIN sessions /\ sessions \in [DOMAIN sessions -> UploadSession]
    BY <1>1, RemovedFacts DEF Inv, TypeOK
  <2> QED
    BY <1>2, <2>1, WithoutFields DEF Left, Without
<1>4. (d \in DOMAIN S /\ sessions' = [S EXCEPT ![d].updated_at = clock]) \/ sessions' = S
  BY <1>1, <1>2 DEF LookupCommitted, Committed
<1>5. clock \in Nat
  BY DEF Inv, TypeOK
<1> HIDE DEF d
<1> QED
  BY <1>2, <1>3, <1>4, <1>5, TimeTouched, TouchCommitsNothing, LessCommitsNothing

\* The good end of a commit is the only step that commits a session.
LEMMA OneStepCommits ==
  ASSUME Inv, [Next]_vars
  PROVE  \/ CommitsNothing
         \/ \E t \in Tasks : CommitFinish(t) /\ task[t].pc = "digest good"
                             /\ task[t].deploy \in DOMAIN sessions
<1> SUFFICES ASSUME ~\E t \in Tasks : CommitFinish(t) /\ task[t].pc = "digest good"
                                      /\ task[t].deploy \in DOMAIN sessions
             PROVE  CommitsNothing
  OBVIOUS
<1>1. ASSUME NEW t \in Tasks, Request(t) PROVE CommitsNothing
  <2>1. ASSUME NEW d, Deploy(t, d) PROVE UNCHANGED sessions
    BY <2>1 DEF Deploy
  <2> QED
    BY <1>1, <2>1, PrepareCommitsNothing, StartCommitsNothing, StillCommitsNothing DEF Request
<1>2. ASSUME NEW t \in Tasks, Step(t) PROVE CommitsNothing
  <2>1. CASE CreateFile(t) \/ ApplyCleanupPlan(t) \/ WriteChunk(t) \/ DigestFile(t) \/ EndDeploy(t)
    <3>1. UNCHANGED sessions
      BY <2>1 DEF CreateFile, ApplyCleanupPlan, WriteChunk, DigestFile, EndDeploy
    <3> QED
      BY <3>1, StillCommitsNothing
  <2>2. CASE InsertSession(t)
    BY <2>2, PrepareCommitsNothing
  <2>3. CASE PushFinish(t)
    BY <2>3, PushCommitsNothing
  <2>4. CASE CommitFinish(t)
    <3>1. task[t].pc = "digest bad" \/ task[t].deploy \notin DOMAIN sessions
      BY <2>4 DEF CommitFinish
    <3> QED
      BY <2>4, <3>1, BadCommitsNothing
  <2>5. CASE ServiceNameForDeploy(t) \/ CommittedArtifact(t)
    BY <2>5, LookupCommitsNothing DEF ServiceNameForDeploy, CommittedArtifact
  <2>6. CASE Purge(t)
    <3>1. PICK R : sessions' = Without(sessions, R)
      BY <2>6 DEF Purge
    <3> QED
      BY <3>1, LessCommitsNothing
  <2> QED
    BY <1>2, <2>1, <2>2, <2>3, <2>4, <2>5, <2>6 DEF Step
<1>3. ASSUME NEW t \in Tasks, Abort(t) PROVE CommitsNothing
  <2>1. UNCHANGED sessions
    BY <1>3 DEF Abort, sessions_after_drop
  <2> QED
    BY <2>1, StillCommitsNothing
<1>4. CASE Refuse
  <2>1. PICK R : sessions' = Without(sessions, R)
    BY <1>4 DEF Refuse
  <2> QED
    BY <2>1, LessCommitsNothing
<1>5. ASSUME (\E w \in detached : DetachedWrite(w)) \/ Tick \/ UNCHANGED vars PROVE CommitsNothing
  <2>1. UNCHANGED sessions
    BY <1>5 DEF DetachedWrite, Tick, vars
  <2> QED
    BY <2>1, StillCommitsNothing
<1> QED
  BY <1>1, <1>2, <1>3, <1>4, <1>5 DEF Next

\* What eviction leaves of the committed sessions of S, P being protected.
LEMMA OrphansLeave ==
  ASSUME NEW S, DOMAIN S \in SUBSET Deploys, IsFiniteSet(DOMAIN S),
         \A e \in DOMAIN S : S[e].updated_at \in Nat, NEW now, NEW P, NEW others,
         others \subseteq {e \in Committed(S) \ P : Idle(S[e])}
                            \ collect_orphan_committed_sessions(S, now, P)
  PROVE  others = {} \/ Cardinality(others \cup (Committed(S) \cap P)) <= MaxCommitted
<1>1. PICK guards : guards = Committed(S) \cap P
  OBVIOUS
<1>2. guards \in SUBSET DOMAIN S /\ IsFiniteSet(guards) /\ Cardinality(guards) \in Nat
  <2>1. guards \in SUBSET DOMAIN S
    BY <1>1 DEF Committed
  <2> QED
    BY <2>1, FS_Subset, FS_CardinalityType
<1>3. PICK allowed \in Nat : /\ Cardinality(guards) < MaxCommitted =>
                                  allowed = MaxCommitted - Cardinality(guards)
                             /\ Cardinality(guards) >= MaxCommitted => allowed = 0
                             /\ allowed = IF Cardinality(guards) < MaxCommitted
                                          THEN MaxCommitted - Cardinality(guards) ELSE 0
  BY <1>2
<1>4. PICK open : open = {e \in Committed(S) \ P : Idle(S[e])}
  OBVIOUS
<1>5. PICK aged : aged = {e \in open : Age(S[e], now) >= CommittedTtl}
  OBVIOUS
<1>6. PICK D : D = open \ aged
  OBVIOUS
<1>7. D \in SUBSET Deploys /\ IsFiniteSet(D) /\ \A e \in D : S[e].updated_at \in Nat
  <2>1. D \in SUBSET DOMAIN S
    BY <1>4, <1>6 DEF Committed
  <2> QED
    BY <2>1, FS_Subset
<1>8. PICK rest : rest = D \ Oldest(S, D, Cardinality(D) - allowed)
  OBVIOUS
<1>9. IsFiniteSet(rest) /\ Cardinality(rest) <= allowed /\ Cardinality(rest) \in Nat
  BY <1>7, <1>8, EvictionLeaves, FS_CardinalityType
<1>10. collect_orphan_committed_sessions(S, now, P)
         = aged \cup Oldest(S, D, Cardinality(D) - allowed)
  BY <1>1, <1>3, <1>4, <1>5, <1>6 DEF collect_orphan_committed_sessions
<1>11. others \in SUBSET rest
  BY <1>4, <1>6, <1>8, <1>10
<1>12. IsFiniteSet(others) /\ Cardinality(others) <= Cardinality(rest) /\ Cardinality(others) \in Nat
  BY <1>9, <1>11, FS_Subset, FS_CardinalityType
<1>13. CASE Cardinality(guards) >= MaxCommitted
  <2>1. Cardinality(others) = 0
    BY <1>3, <1>9, <1>12, <1>13
  <2> QED
    BY <1>12, <2>1, FS_EmptySet
<1>14. CASE Cardinality(guards) < MaxCommitted
  <2>1. Cardinality(others \cup guards)
          = Cardinality(others) + Cardinality(guards) - Cardinality(others \cap guards)
    BY <1>2, <1>12, FS_Union
  <2>2. Cardinality(others \cap guards) \in Nat
    BY <1>12, FS_Intersection, FS_CardinalityType
  <2>3. Cardinality(others \cup guards) <= MaxCommitted
    BY <1>2, <1>3, <1>9, <1>12, <1>14, <2>1, <2>2
  <2> QED
    BY <1>1, <2>3
<1> QED
  BY <1>2, <1>13, <1>14

\* The session a step commits fits the limit.
WithinLimit ==
  \A d \in Committed(sessions') \ Committed(sessions) :
    LET protected == (Committed(sessions') \cap Pinned) \cup {d}
        others == {e \in Committed(sessions') \ protected : Idle(sessions'[e])}
    IN others = {} \/ Cardinality(others \cup protected) <= MaxCommitted

\* The good end of a commit evicts what is over the limit, sparing the session
\* it has committed and those that are pinned.
LEMMA GoodCommitKeepsLimit ==
  ASSUME Inv, IsFiniteSet(DOMAIN sessions), NEW t \in Tasks, CommitFinish(t),
         task[t].pc = "digest good", task[t].deploy \in DOMAIN sessions
  PROVE  IsFiniteSet(DOMAIN sessions') /\ WithinLimit
<1>1. PICK d \in DOMAIN sessions : d = task[t].deploy
  OBVIOUS
<1>2. PICK s \in UploadSession : s = sessions[d]
  BY DEF Inv, TypeOK
<1>3. task[t].now \in Nat
  BY DEF Inv, TypeOK, Task
<1>4. PICK rec : rec = [s EXCEPT !.commit_in_progress = FALSE, !.updated_at = task[t].now,
                                 !.committed = s.committed \/ task[t].pc = "digest good"]
  OBVIOUS
<1>5. rec.committed = TRUE /\ rec.updated_at \in Nat
  BY <1>3, <1>4 DEF UploadSession
<1>6. PICK S : S = [sessions EXCEPT ![d] = rec]
  OBVIOUS
<1>7. /\ DOMAIN S = DOMAIN sessions /\ S[d] = rec
      /\ \A e \in DOMAIN sessions \ {d} : S[e] = sessions[e]
      /\ DOMAIN S \in SUBSET Deploys
  BY <1>6 DEF Inv, TypeOK
<1>8. \A e \in DOMAIN S : S[e].updated_at \in Nat
  BY <1>5, <1>7 DEF Inv, TypeOK, UploadSession
<1>9. PICK R : R = Removed(S, task[t].now, {d})
  OBVIOUS
<1>10. sessions' = Without(S, R)
  BY <1>1, <1>2, <1>4, <1>6, <1>9 DEF CommitFinish
<1>11. PICK P : P = Pinned \cup {d}
  OBVIOUS
<1>12. \A e \in R : e \in DOMAIN S /\ (S[e].committed => e \notin P)
  BY <1>9, <1>11, RemovedFacts
<1>13. collect_orphan_committed_sessions(S, task[t].now, P) \subseteq R
  BY <1>9, <1>11 DEF Removed
<1>14. /\ DOMAIN sessions' = DOMAIN S \ R
       /\ \A e \in DOMAIN S \ R : sessions'[e] = S[e]
  BY <1>10 DEF Without
<1>15. Committed(sessions') = Committed(S) \ R
  BY <1>14 DEF Committed
<1>16. IsFiniteSet(DOMAIN sessions')
  BY <1>7, <1>14, FS_Subset
<1>17. \A e \in Committed(sessions') \ Committed(sessions) : e = d
  BY <1>7, <1>15 DEF Committed
<1>18. (Committed(sessions') \cap Pinned) \cup {d} = Committed(S) \cap P
  <2>1. d \in Committed(S)
    BY <1>5, <1>7 DEF Committed
  <2>2. \A e \in Committed(S) \cap P : e \notin R
    BY <1>12 DEF Committed
  <2> QED
    BY <1>11, <1>15, <2>1, <2>2
<1>19. PICK guards : guards = Committed(S) \cap P
  OBVIOUS
<1>20. PICK others : others = {e \in Committed(sessions') \ guards : Idle(sessions'[e])}
  OBVIOUS
<1>21. others \subseteq {e \in Committed(S) \ P : Idle(S[e])}
                         \ collect_orphan_committed_sessions(S, task[t].now, P)
  BY <1>13, <1>14, <1>15, <1>19, <1>20 DEF Committed
<1>22. others = {} \/ Cardinality(others \cup guards) <= MaxCommitted
  BY <1>7, <1>8, <1>19, <1>21, OrphansLeave
<1> QED
  BY <1>16, <1>17, <1>18, <1>19, <1>20, <1>22 DEF WithinLimit

\* There are never more than finitely many sessions.
LEMMA FiniteInit == Init => IsFiniteSet(DOMAIN sessions)
  BY FS_EmptySet DEF Init

\* What a step does to them, and to the committed ones.
LEMMA LimitStep ==
  Inv /\ IsFiniteSet(DOMAIN sessions) /\ [Next]_vars
    => IsFiniteSet(DOMAIN sessions)' /\ WithinLimit
<1> SUFFICES ASSUME Inv, IsFiniteSet(DOMAIN sessions), [Next]_vars
             PROVE  IsFiniteSet(DOMAIN sessions') /\ WithinLimit
  OBVIOUS
<1>1. CASE CommitsNothing
  <2>1. PICK x : DOMAIN sessions' \subseteq DOMAIN sessions \cup {x}
    BY <1>1 DEF CommitsNothing
  <2>2. IsFiniteSet(DOMAIN sessions \cup {x})
    BY FS_AddElement
  <2>3. IsFiniteSet(DOMAIN sessions')
    BY <2>1, <2>2, FS_Subset
  <2>4. Committed(sessions') \ Committed(sessions) = {}
    BY <1>1 DEF CommitsNothing, Committed
  <2> QED
    BY <2>3, <2>4 DEF WithinLimit
<1> QED
  BY <1>1, OneStepCommits, GoodCommitKeepsLimit

\* The session that a step commits fits max_committed_sessions together with the
\* pinned ones: collect_orphan_committed_sessions has evicted the oldest idle
\* ones that nobody protects, and counted the protected ones.
THEOREM CommitsKeepLimit == Spec => CommitKeepsLimit
<1>1. Inv /\ IsFiniteSet(DOMAIN sessions) /\ [Next]_vars => [WithinLimit]_vars
  BY LimitStep
<1> QED
  BY <1>1, InvInit, InvStep, FiniteInit, LimitStep, PTL DEF Spec, CommitKeepsLimit, WithinLimit

-----------------------------------------------------------------------------
(***************************************************************************)
(* The byte ranges of a session.  What a fold computes is shown by         *)
(* induction on the length of what it has read, and that induction from    *)
(* the fact that a set of naturals has a least element: FoldLeft is a      *)
(* recursive function on sets of positions, which exists because it does   *)
(* for the first k positions, for every k.                                 *)
(***************************************************************************)

\* Induction up to n over a set of numbers.
LEMMA CountUp ==
  ASSUME NEW n \in Nat, NEW T, 0 \in T, \A k \in 0..n : k < n /\ k \in T => k + 1 \in T
  PROVE  \A k \in 0..n : k \in T
<1> SUFFICES ASSUME {k \in 0..n : k \notin T} # {} PROVE FALSE
  OBVIOUS
<1> DEFINE B == {k \in 0..n : k \notin T}
<1>1. B \subseteq Nat /\ B # {}
  OBVIOUS
<1>2. PICK m \in B : \A k \in B : <<k, m>> \notin OpToRel(<, Nat)
  BY <1>1, NatLessThanWellFounded, WFMin
<1>3. m \in Nat /\ m # 0 /\ m <= n /\ m \notin T
  BY <1>1
<1>4. m - 1 \in Nat /\ m - 1 < m /\ m - 1 \in 0..n
  BY <1>3
<1>5. m - 1 \notin B
  BY <1>2, <1>3, <1>4 DEF OpToRel
<1>6. m - 1 \in T
  BY <1>4, <1>5
<1>7. (m - 1) + 1 = m
  BY <1>3
<1> QED
  BY <1>3, <1>4, <1>6, <1>7

\* The greatest of some of the first k positions.
LEMMA MaxIsLast ==
  ASSUME NEW k \in Nat, NEW S \in SUBSET (1..(k + 1)), k + 1 \in S
  PROVE  Ranges!Max(S) = k + 1
<1>1. \A x \in S : x \in Nat /\ x <= k + 1
  OBVIOUS
<1>2. \A x \in S : (\A y \in S : x >= y) => x = k + 1
  BY <1>1
<1>3. \A y \in S : k + 1 >= y
  BY <1>1
<1> QED
  BY <1>2, <1>3 DEF Ranges!Max

\* A fold of a step F over n elements: the recursive function that FoldLeft
\* takes its value from.
IsFold(g, F, base, n) ==
  \A S \in SUBSET (1..n) :
    /\ S = {} => g[S] = base
    /\ S # {} => Ranges!Max(S) \in 1..n /\ g[S] = F[<<g[S \ {Ranges!Max(S)}], Ranges!Max(S)>>]

\* There is one.
LEMMA FoldExists ==
  ASSUME NEW n \in Nat, NEW V, NEW F \in [V \X (1..n) -> V], NEW base \in V
  PROVE  \E g \in [SUBSET (1..n) -> V] : IsFold(g, F, base, n)
<1> DEFINE T == {k \in 0..n : \E g \in [SUBSET (1..k) -> V] : IsFold(g, F, base, k)}
<1>1. 0 \in T
  <2> DEFINE g == [S \in SUBSET (1..0) |-> base]
  <2>1. \A S \in SUBSET (1..0) : S = {}
    OBVIOUS
  <2>2. g \in [SUBSET (1..0) -> V] /\ IsFold(g, F, base, 0)
    BY <2>1 DEF IsFold
  <2> HIDE DEF g
  <2>3. 0 \in 0..n
    OBVIOUS
  <2> QED
    BY <2>2, <2>3
<1>2. ASSUME NEW k \in 0..n, k < n, k \in T PROVE k + 1 \in T
  <2>1. PICK g \in [SUBSET (1..k) -> V] : IsFold(g, F, base, k)
    BY <1>2
  <2>2. k \in Nat /\ k + 1 \in 0..n /\ k + 1 \in 1..n
    BY <1>2
  <2> DEFINE h == [S \in SUBSET (1..(k + 1)) |->
                     IF k + 1 \in S THEN F[<<g[S \ {k + 1}], k + 1>>] ELSE g[S]]
  <2>3. ASSUME NEW S \in SUBSET (1..(k + 1))
        PROVE  /\ S \ {k + 1} \in SUBSET (1..k)
               /\ k + 1 \notin S => S \in SUBSET (1..k)
    <3>1. ASSUME NEW x \in S, x # k + 1 PROVE x \in 1..k
      BY <2>2, <3>1
    <3>2. S \ {k + 1} \in SUBSET (1..k)
      BY <3>1
    <3>3. k + 1 \notin S => S \in SUBSET (1..k)
      BY <3>1
    <3> QED
      BY <3>2, <3>3
  <2>4. h \in [SUBSET (1..(k + 1)) -> V]
    BY <2>2, <2>3
  <2>5. ASSUME NEW S \in SUBSET (1..(k + 1)), S # {}
        PROVE  /\ Ranges!Max(S) \in 1..(k + 1)
               /\ h[S] = F[<<h[S \ {Ranges!Max(S)}], Ranges!Max(S)>>]
    <3>1. CASE k + 1 \in S
      <4>1. Ranges!Max(S) = k + 1 /\ k + 1 \in 1..(k + 1)
        BY <2>2, <3>1, MaxIsLast
      <4>2. S \ {k + 1} \in SUBSET (1..(k + 1)) /\ k + 1 \notin S \ {k + 1}
        OBVIOUS
      <4>3. h[S \ {k + 1}] = g[S \ {k + 1}] /\ h[S] = F[<<g[S \ {k + 1}], k + 1>>]
        BY <3>1, <4>2
      <4> HIDE DEF h
      <4> QED
        BY <4>1, <4>3
    <3>2. CASE k + 1 \notin S
      <4>1. S \in SUBSET (1..k)
        BY <2>3, <3>2
      <4>2. /\ Ranges!Max(S) \in 1..k
            /\ g[S] = F[<<g[S \ {Ranges!Max(S)}], Ranges!Max(S)>>]
        BY <2>1, <2>5, <4>1 DEF IsFold
      <4>3. S \ {Ranges!Max(S)} \in SUBSET (1..(k + 1)) /\ k + 1 \notin S \ {Ranges!Max(S)}
        BY <3>2
      <4>4. h[S \ {Ranges!Max(S)}] = g[S \ {Ranges!Max(S)}] /\ h[S] = g[S]
        BY <3>2, <4>3
      <4>5. Ranges!Max(S) \in 1..(k + 1)
        BY <2>2, <4>2
      <4> HIDE DEF h
      <4> QED
        BY <4>2, <4>4, <4>5
    <3> QED
      BY <3>1, <3>2
  <2>6. h[{}] = base
    <3>1. {} \in SUBSET (1..k) /\ {} \in SUBSET (1..(k + 1)) /\ k + 1 \notin {}
      OBVIOUS
    <3>2. g[{}] = base
      BY <2>1, <3>1 DEF IsFold
    <3> QED
      BY <3>1, <3>2
  <2> HIDE DEF h
  <2>7. IsFold(h, F, base, k + 1)
    BY <2>5, <2>6 DEF IsFold
  <2> QED
    BY <2>2, <2>4, <2>7
<1>3. n \in T
  <2> HIDE DEF T
  <2> QED
    BY <1>1, <1>2, CountUp
<1> QED
  BY <1>3

\* The first k positions, and the last of them.
LEMMA Prefix ==
  ASSUME NEW n \in Nat, NEW k \in 1..n
  PROVE  /\ 1..k \in SUBSET (1..n) /\ 1..k # {} /\ k \in 0..n /\ k - 1 \in 0..n
         /\ Ranges!Max(1..k) = k /\ (1..k) \ {k} = 1..(k - 1)
<1>1. k - 1 \in Nat /\ (k - 1) + 1 = k /\ k \in 0..n /\ k - 1 \in 0..n
  OBVIOUS
<1>2. 1..k \in SUBSET (1..n) /\ 1..k # {} /\ k \in 1..k
  BY <1>1
<1>3. Ranges!Max(1..k) = k
  BY <1>1, <1>2, MaxIsLast
<1>4. (1..k) \ {k} = 1..(k - 1)
  BY <1>1
<1> QED
  BY <1>1, <1>2, <1>3, <1>4

-----------------------------------------------------------------------------
(* Ranges.                                                                 *)

\* Ranges that lie in the artifact and are not empty; lists of them in order,
\* with a gap between any two.
Piece ==
  {r \in [offset : Nat, length : Nat] : r.length > 0 /\ r.offset + r.length <= Total}
Apart(m) == \A i, j \in 1..Len(m) : i < j => Ranges!end(m[i]) < m[j].offset
Canonical(m) == m \in Seq(Piece) /\ Apart(m)
Span(r) == r.offset..(Ranges!end(r) - 1)

\* What is known of a range.
LEMMA PieceFields ==
  ASSUME NEW r \in Piece
  PROVE  /\ r.offset \in Nat /\ Ranges!end(r) \in Nat
         /\ r.offset < Ranges!end(r) /\ Ranges!end(r) <= Total
  BY RangesAssumption DEF Piece, Ranges!end

\* A range is made of where it starts and where it ends.
LEMMA PieceOf ==
  ASSUME NEW a \in Nat, NEW b \in Nat, a < b, b <= Total
  PROVE  /\ Ranges!range_from_start_end(a, b) \in Piece
         /\ Ranges!range_from_start_end(a, b).offset = a
         /\ Ranges!end(Ranges!range_from_start_end(a, b)) = b
  BY RangesAssumption DEF Piece, Ranges!end, Ranges!range_from_start_end

\* The bytes of a list that grows, or whose last range does.
LEMMA BytesAppend ==
  ASSUME NEW m \in Seq(Piece), NEW r \in Piece
  PROVE  Ranges!Bytes(Append(m, r)) = Ranges!Bytes(m) \cup Span(r)
<1>1. PICK n \in Nat : n = Len(m) /\ DOMAIN m = 1..n
  OBVIOUS
<1>2. PICK q : q = Append(m, r)
  OBVIOUS
<1>3. /\ DOMAIN q = 1..(n + 1) /\ q[n + 1] = r /\ \A i \in 1..n : q[i] = m[i]
  BY <1>1, <1>2
<1>4. \A i : i \in 1..(n + 1) <=> i \in 1..n \/ i = n + 1
  BY <1>1
<1> QED
  BY <1>1, <1>2, <1>3, <1>4 DEF Ranges!Bytes, Span

LEMMA BytesReplace ==
  ASSUME NEW m \in Seq(Piece), m # <<>>, NEW r \in Piece,
         Span(Ranges!Last(m)) \subseteq Span(r)
  PROVE  Ranges!Bytes(Ranges!ReplaceAt(m, Len(m), r)) = Ranges!Bytes(m) \cup Span(r)
<1>1. PICK n \in Nat : n = Len(m) /\ DOMAIN m = 1..n /\ n \in 1..n
  OBVIOUS
<1>2. PICK q : q = Ranges!ReplaceAt(m, Len(m), r)
  OBVIOUS
<1>3. /\ DOMAIN q = 1..n /\ q[n] = r /\ \A i \in 1..n : i # n => q[i] = m[i]
  BY <1>1, <1>2 DEF Ranges!ReplaceAt
<1>4. Span(m[n]) \subseteq Span(r)
  BY <1>1 DEF Ranges!Last
<1> QED
  BY <1>1, <1>2, <1>3, <1>4 DEF Ranges!Bytes, Span

-----------------------------------------------------------------------------
(* merge_range.                                                            *)

\* Absorb makes a list of ranges of one.
LEMMA AbsorbType ==
  ASSUME NEW m \in Seq(Piece), NEW r \in Piece
  PROVE  Ranges!Absorb(m, r) \in Seq(Piece)
<1>1. CASE m # <<>> /\ Ranges!joins(Ranges!Last(m), r)
  <2>1. PICK n \in Nat : n = Len(m) /\ n \in 1..n /\ m[n] \in Piece
    BY <1>1
  <2>2. PICK a \in Nat, b \in Nat, d \in Nat :
          a = m[n].offset /\ b = Ranges!end(m[n]) /\ d = Ranges!end(r) /\ a < b
          /\ b <= Total /\ d <= Total
    BY <2>1, PieceFields
  <2>3. PICK e \in Nat : e = Ranges!merged_end(m[n], r) /\ e >= b /\ e <= Total
    BY <2>2, RangesAssumption DEF Ranges!merged_end
  <2>4. Ranges!range_from_start_end(a, e) \in Piece
    BY <2>2, <2>3, PieceOf, RangesAssumption
  <2>5. Ranges!Absorb(m, r) = [m EXCEPT ![n] = Ranges!range_from_start_end(a, e)]
    BY <1>1, <2>1, <2>2, <2>3 DEF Ranges!Absorb, Ranges!ReplaceAt, Ranges!Last
  <2> QED
    BY <2>1, <2>4, <2>5
<1>2. CASE ~(m # <<>> /\ Ranges!joins(Ranges!Last(m), r))
  BY <1>2 DEF Ranges!Absorb
<1> QED
  BY <1>1, <1>2

\* The ranges are absorbed one by one.
Absorbed(s) == Ranges!FoldLeft(Ranges!Absorb, <<>>, s)
AbsorbRun(f, s, n) ==
  /\ f[0] = <<>> /\ \A k \in 1..n : f[k] = Ranges!Absorb(f[k - 1], s[k])
  /\ Absorbed(s) = f[n]

LEMMA AbsorbsInOrder ==
  ASSUME NEW n \in Nat, NEW s, DOMAIN s = 1..n, \A k \in 1..n : s[k] \in Piece
  PROVE  \E f : AbsorbRun(f, s, n)
<1> DEFINE Body(g, S) == IF S = {} THEN <<>>
                         ELSE Ranges!Absorb(g[S \ {Ranges!Max(S)}], s[Ranges!Max(S)])
           F == [p \in Seq(Piece) \X (1..n) |-> Ranges!Absorb(p[1], s[p[2]])]
<1>1. Absorbed(s) = (CHOOSE g : g = [S \in SUBSET (DOMAIN s) |-> Body(g, S)])[DOMAIN s]
  BY DEF Absorbed, Ranges!FoldLeft, Ranges!MapThenFoldSet
<1>2. F \in [Seq(Piece) \X (1..n) -> Seq(Piece)]
  BY AbsorbType
<1>3. PICK h \in [SUBSET (1..n) -> Seq(Piece)] : IsFold(h, F, <<>>, n)
  <2> HIDE DEF F
  <2>1. <<>> \in Seq(Piece)
    OBVIOUS
  <2> QED
    BY <1>2, <2>1, FoldExists
<1>4. ASSUME NEW S \in SUBSET (1..n) PROVE h[S] = Body(h, S)
  <2>1. S \ {Ranges!Max(S)} \in SUBSET (1..n)
    OBVIOUS
  <2>2. S # {} => Ranges!Max(S) \in 1..n /\ h[S] = F[<<h[S \ {Ranges!Max(S)}], Ranges!Max(S)>>]
    BY <1>3 DEF IsFold
  <2>3. S = {} => h[S] = <<>>
    BY <1>3 DEF IsFold
  <2>4. h[S \ {Ranges!Max(S)}] \in Seq(Piece)
    BY <2>1
  <2> QED
    BY <2>2, <2>3, <2>4
<1> HIDE DEF Body
<1>5. PICK it : it = [S \in SUBSET (1..n) |-> Body(it, S)] /\ Absorbed(s) = it[1..n]
  <2>1. h = [S \in SUBSET (DOMAIN s) |-> Body(h, S)]
    BY <1>4
  <2> QED
    BY <1>1, <2>1
<1>6. \A S \in SUBSET (1..n) : it[S] = Body(it, S)
  BY <1>5
<1> USE DEF Body
<1> DEFINE f == [k \in 0..n |-> it[1..k]]
<1>7. f[0] = <<>> /\ f[n] = it[1..n]
  <2>1. it[{}] = <<>>
    <3>1. {} \in SUBSET (1..n)
      OBVIOUS
    <3> QED
      BY <1>6, <3>1
  <2>2. 1..0 = {} /\ 0 \in 0..n /\ n \in 0..n
    OBVIOUS
  <2> QED
    BY <2>1, <2>2
<1>8. ASSUME NEW k \in 1..n PROVE f[k] = Ranges!Absorb(f[k - 1], s[k])
  BY <1>6, Prefix
<1> HIDE DEF f
<1> QED
  BY <1>5, <1>7, <1>8 DEF AbsorbRun

\* A range that begins no earlier than the last one is absorbed: the list stays
\* canonical and has just its bytes more.
LEMMA AbsorbKeeps ==
  ASSUME NEW m, Canonical(m), NEW r \in Piece,
         m # <<>> => Ranges!Last(m).offset <= r.offset
  PROVE  LET q == Ranges!Absorb(m, r)
         IN  /\ Canonical(q) /\ q # <<>> /\ Ranges!Last(q).offset <= r.offset
             /\ Ranges!Bytes(q) = Ranges!Bytes(m) \cup Span(r)
<1>1. PICK n \in Nat : n = Len(m) /\ DOMAIN m = 1..n /\ \A i \in 1..n : m[i] \in Piece
  BY DEF Canonical
<1>2. CASE m # <<>> /\ Ranges!joins(Ranges!Last(m), r)
  <2>1. PICK l \in Piece : l = m[n] /\ l = Ranges!Last(m) /\ n \in 1..n
    BY <1>1, <1>2 DEF Canonical, Ranges!Last
  <2>2. PICK a \in Nat, b \in Nat, c \in Nat, d \in Nat :
          a = l.offset /\ b = Ranges!end(l) /\ c = r.offset /\ d = Ranges!end(r)
    BY PieceFields
  <2>3. a < b /\ b <= Total /\ c < d /\ d <= Total /\ a <= c /\ c <= b
    BY <1>2, <2>1, <2>2, PieceFields DEF Ranges!joins
  <2>4. PICK e \in Nat : /\ e = Ranges!merged_end(l, r) /\ e >= b /\ e >= d
                         /\ e = b \/ e = d
    BY <2>2, <2>3 DEF Ranges!merged_end
  <2>5. PICK x \in Piece : /\ x = Ranges!range_from_start_end(a, e)
                           /\ x.offset = a /\ Ranges!end(x) = e
    BY <2>3, <2>4, PieceOf, RangesAssumption
  <2>6. PICK q : q = Ranges!Absorb(m, r) /\ q = Ranges!ReplaceAt(m, Len(m), x)
    BY <1>2, <2>1, <2>2, <2>4, <2>5 DEF Ranges!Absorb
  <2>7. /\ DOMAIN q = 1..n /\ Len(q) = n /\ q \in Seq(Piece)
        /\ q[n] = x /\ \A i \in 1..n : i # n => q[i] = m[i]
    BY <1>1, <2>1, <2>6 DEF Ranges!ReplaceAt, Canonical
  <2>8. Apart(q)
    <3> SUFFICES ASSUME NEW i \in 1..n, NEW j \in 1..n, i < j
                 PROVE  Ranges!end(q[i]) < q[j].offset
      BY <2>7 DEF Apart
    <3>1. q[i] = m[i]
      BY <2>7
    <3>2. q[j].offset = m[j].offset
      <4>1. CASE j = n
        BY <2>1, <2>2, <2>5, <2>7, <4>1
      <4>2. CASE j # n
        BY <2>7, <4>2
      <4> QED
        BY <4>1, <4>2
    <3> QED
      BY <1>1, <3>1, <3>2 DEF Canonical, Apart
  <2>9. Span(l) \subseteq Span(x) /\ Span(x) = Span(l) \cup Span(r)
    BY <2>2, <2>3, <2>4, <2>5 DEF Span
  <2>10. Ranges!Bytes(q) = Ranges!Bytes(m) \cup Span(x)
    BY <1>2, <2>1, <2>6, <2>9, BytesReplace DEF Canonical
  <2>11. Span(l) \subseteq Ranges!Bytes(m)
    BY <1>1, <2>1 DEF Ranges!Bytes, Span
  <2>12. Ranges!Last(q) = x /\ q # <<>>
    BY <2>1, <2>7 DEF Ranges!Last
  <2> QED
    BY <2>2, <2>3, <2>5, <2>6, <2>7, <2>8, <2>9, <2>10, <2>11, <2>12 DEF Canonical
<1>3. CASE ~(m # <<>> /\ Ranges!joins(Ranges!Last(m), r))
  <2>1. PICK q : q = Ranges!Absorb(m, r) /\ q = Append(m, r)
    BY <1>3 DEF Ranges!Absorb
  <2>2. /\ DOMAIN q = 1..(n + 1) /\ Len(q) = n + 1 /\ q \in Seq(Piece)
        /\ q[n + 1] = r /\ \A i \in 1..n : q[i] = m[i]
    BY <1>1, <2>1 DEF Canonical
  <2>3. ASSUME NEW i \in 1..n PROVE Ranges!end(m[i]) < r.offset
    <3>1. m # <<>> /\ m[n] \in Piece /\ m[i] \in Piece /\ n \in 1..n
      BY <1>1
    <3>2. Ranges!end(m[n]) < r.offset
      BY <1>1, <1>3, <3>1, PieceFields DEF Ranges!joins, Ranges!Last
    <3>3. i = n \/ Ranges!end(m[i]) < m[n].offset
      BY <1>1, <3>1 DEF Canonical, Apart
    <3> QED
      BY <3>1, <3>2, <3>3, PieceFields
  <2>4. Apart(q)
    <3> SUFFICES ASSUME NEW i \in 1..(n + 1), NEW j \in 1..(n + 1), i < j
                 PROVE  Ranges!end(q[i]) < q[j].offset
      BY <2>2 DEF Apart
    <3>1. i \in 1..n /\ q[i] = m[i]
      BY <2>2
    <3>2. CASE j = n + 1
      BY <2>2, <2>3, <3>1, <3>2
    <3>3. CASE j # n + 1
      <4>1. j \in 1..n /\ q[j] = m[j]
        BY <2>2, <3>3
      <4> QED
        BY <1>1, <3>1, <4>1 DEF Canonical, Apart
    <3> QED
      BY <3>2, <3>3
  <2>5. Ranges!Bytes(q) = Ranges!Bytes(m) \cup Span(r)
    BY <2>1, BytesAppend DEF Canonical
  <2>6. Ranges!Last(q) = r /\ q # <<>> /\ r.offset <= r.offset
    BY <2>2, PieceFields DEF Ranges!Last
  <2> QED
    BY <2>1, <2>2, <2>4, <2>5, <2>6 DEF Canonical
<1> QED
  BY <1>2, <1>3

\* The instance counts as this module does.
LEMMA SameCardinality == \A S : Ranges!Cardinality(S) = Cardinality(S)
  BY DEF Ranges!Cardinality, Cardinality

\* sort_by_key puts the same ranges in the order of their offsets.
LEMMA SortSorts ==
  ASSUME NEW n \in Nat, NEW s, DOMAIN s = 1..n, \A i \in 1..n : s[i].offset \in Nat
  PROVE  LET t == Ranges!sort_by_offset(s)
         IN  /\ DOMAIN t = 1..n
             /\ \A k \in 1..n : \E i \in 1..n : t[k] = s[i]
             /\ \A i \in 1..n : \E k \in 1..n : t[k] = s[i]
             /\ \A k, l \in 1..n : k < l => t[k].offset <= t[l].offset
<1> DEFINE P(i) == {j \in 1..n : Ranges!Precedes(s, j, i)}
           rank == [i \in 1..n |-> Cardinality(P(i))]
<1>1. IsFiniteSet(1..n) /\ Cardinality(1..n) = n
  <2>1. PICK l \in Int, h \in Int : l = 1 /\ h = n
    OBVIOUS
  <2>2. IsFiniteSet(l..h) /\ Cardinality(l..h) = IF l > h THEN 0 ELSE h - l + 1
    BY FS_Interval
  <2> QED
    BY <2>1, <2>2
<1>2. IsFiniteSet(0..(n - 1)) /\ Cardinality(0..(n - 1)) = n
  <2>1. PICK l \in Int, h \in Int : l = 0 /\ h = n - 1
    OBVIOUS
  <2>2. IsFiniteSet(l..h) /\ Cardinality(l..h) = IF l > h THEN 0 ELSE h - l + 1
    BY FS_Interval
  <2> QED
    BY <2>1, <2>2
<1>3. ASSUME NEW a \in 1..n, NEW b \in 1..n, NEW c \in 1..n
      PROVE  /\ ~Ranges!Precedes(s, a, a)
             /\ a # b => Ranges!Precedes(s, a, b) \/ Ranges!Precedes(s, b, a)
             /\ Ranges!Precedes(s, a, b) /\ Ranges!Precedes(s, b, c) => Ranges!Precedes(s, a, c)
             /\ Ranges!Precedes(s, a, b) => s[a].offset <= s[b].offset
  <2>1. PICK x \in Nat, y \in Nat, z \in Nat :
          x = s[a].offset /\ y = s[b].offset /\ z = s[c].offset
    OBVIOUS
  <2>2. a \in Nat /\ b \in Nat /\ c \in Nat
    OBVIOUS
  <2> QED
    BY <2>1, <2>2 DEF Ranges!Precedes
<1>4. ASSUME NEW i \in 1..n
      PROVE  /\ P(i) \in SUBSET (1..n) /\ i \notin P(i) /\ IsFiniteSet(P(i))
             /\ Cardinality(P(i)) \in 0..(n - 1)
  <2>1. P(i) \in SUBSET (1..n) /\ i \notin P(i)
    BY <1>3
  <2>2. PICK B \in SUBSET (1..n) : B = P(i)
    BY <2>1
  <2>3. /\ IsFiniteSet(B) /\ Cardinality(B) <= Cardinality(1..n)
        /\ Cardinality(1..n) = Cardinality(B) => 1..n = B
    BY <1>1, FS_Subset
  <2>4. Cardinality(B) \in Nat /\ B # 1..n
    BY <2>1, <2>2, <2>3, FS_CardinalityType
  <2> QED
    BY <1>1, <2>1, <2>2, <2>3, <2>4
<1>5. ASSUME NEW a \in 1..n, NEW b \in 1..n, Ranges!Precedes(s, a, b)
      PROVE  rank[a] < rank[b]
  <2>1. PICK A \in SUBSET (1..n), B \in SUBSET (1..n) : A = P(a) /\ B = P(b)
    BY <1>4
  <2>2. A \in SUBSET B /\ a \in B /\ a \notin A
    BY <1>3, <1>5, <2>1
  <2>3. IsFiniteSet(B) /\ Cardinality(A) \in Nat /\ Cardinality(B) \in Nat
    <3>1. IsFiniteSet(A) /\ IsFiniteSet(B)
      BY <1>1, FS_Subset
    <3> QED
      BY <3>1, FS_CardinalityType
  <2>4. Cardinality(A) <= Cardinality(B) /\ (Cardinality(B) = Cardinality(A) => B = A)
    BY <2>2, <2>3, FS_Subset
  <2>5. Cardinality(A) < Cardinality(B)
    BY <2>2, <2>3, <2>4
  <2> QED
    BY <2>1, <2>5
<1>6. rank \in [1..n -> 0..(n - 1)]
  BY <1>4
<1> HIDE DEF P
<1>7. \A a, b \in 1..n : rank[a] = rank[b] => a = b
  <2> SUFFICES ASSUME NEW a \in 1..n, NEW b \in 1..n, rank[a] = rank[b], a # b PROVE FALSE
    OBVIOUS
  <2> HIDE DEF rank
  <2>1. PICK x \in Int, y \in Int : x = rank[a] /\ y = rank[b]
    BY <1>6
  <2>2. x < y \/ y < x
    BY <1>3, <1>5, <2>1
  <2> QED
    BY <2>1, <2>2
<1>8. rank \in Injection(1..n, 0..(n - 1))
  <2> HIDE DEF rank
  <2> QED
    BY <1>6, <1>7 DEF Injection, IsInjective
<1>9. rank \in Surjection(1..n, 0..(n - 1))
  <2> HIDE DEF rank
  <2> QED
    BY <1>1, <1>2, <1>8, FS_Injection
<1> DEFINE at(k) == CHOOSE i \in DOMAIN s :
                      Ranges!Cardinality({j \in DOMAIN s : Ranges!Precedes(s, j, i)}) = k - 1
           t == Ranges!sort_by_offset(s)
<1>10. ASSUME NEW k \in 1..n PROVE at(k) \in 1..n /\ rank[at(k)] = k - 1
  <2>1. k - 1 \in 0..(n - 1)
    OBVIOUS
  <2>2. \E i \in 1..n : rank[i] = k - 1
    <3> HIDE DEF rank
    <3> QED
      BY <1>9, <2>1 DEF Surjection
  <2>3. \A i \in DOMAIN s :
          /\ i \in 1..n
          /\ rank[i] = Ranges!Cardinality({j \in DOMAIN s : Ranges!Precedes(s, j, i)})
    BY SameCardinality DEF P
  <2> HIDE DEF rank
  <2> QED
    BY <2>2, <2>3
<1>11. t = [k \in DOMAIN s |-> s[at(k)]]
  BY DEF Ranges!sort_by_offset
<1> HIDE DEF rank, at, t
<1>12. DOMAIN t = 1..n /\ \A k \in 1..n : t[k] = s[at(k)]
  BY <1>11
<1>13. ASSUME NEW i \in 1..n PROVE \E k \in 1..n : t[k] = s[i]
  <2>1. PICK x \in 0..(n - 1) : x = rank[i]
    BY <1>6
  <2>2. x + 1 \in 1..n /\ (x + 1) - 1 = x
    OBVIOUS
  <2>3. at(x + 1) = i
    BY <1>7, <1>10, <2>1, <2>2
  <2> QED
    BY <1>12, <2>2, <2>3
<1>14. ASSUME NEW k \in 1..n, NEW l \in 1..n, k < l PROVE t[k].offset <= t[l].offset
  <2>1. PICK a \in 1..n, b \in 1..n : /\ a = at(k) /\ b = at(l)
                                      /\ rank[a] = k - 1 /\ rank[b] = l - 1
    BY <1>10
  <2>2. ~(rank[b] < rank[a]) /\ a # b
    BY <1>14, <2>1
  <2>3. Ranges!Precedes(s, a, b)
    BY <1>3, <1>5, <2>2
  <2> QED
    BY <1>3, <1>12, <2>1, <2>3
<1>15. \A k \in 1..n : \E i \in 1..n : t[k] = s[i]
  BY <1>10, <1>12
<1> QED
  BY <1>12, <1>13, <1>14, <1>15 DEF t

\* The bytes of a list, and of its first k ranges.
First(s, k) == UNION {Span(s[i]) : i \in 1..k}

\* merge_range keeps the list canonical and adds the bytes of the new range.
LEMMA MergeKeeps ==
  ASSUME NEW m, Canonical(m), NEW r \in Piece
  PROVE  LET q == Ranges!merge_range(m, r)
         IN  Canonical(q) /\ Ranges!Bytes(q) = Ranges!Bytes(m) \cup Span(r)
<1> DEFINE s == Append(m, r)
           t == Ranges!sort_by_offset(s)
<1>1. PICK n \in Nat : DOMAIN s = 1..n
  BY DEF Canonical
<1>2. \A i \in 1..n : s[i] \in Piece /\ s[i].offset \in Nat
  BY <1>1, PieceFields DEF Canonical
<1>3. Ranges!Bytes(s) = Ranges!Bytes(m) \cup Span(r)
  BY BytesAppend DEF Canonical
<1> HIDE DEF s
<1>4. /\ DOMAIN t = 1..n
      /\ \A k \in 1..n : \E i \in 1..n : t[k] = s[i]
      /\ \A i \in 1..n : \E k \in 1..n : t[k] = s[i]
      /\ \A k, l \in 1..n : k < l => t[k].offset <= t[l].offset
  BY <1>1, <1>2, SortSorts
<1> HIDE DEF t
<1>5. \A k \in 1..n : t[k] \in Piece
  BY <1>2, <1>4
<1>6. First(t, n) = Ranges!Bytes(s)
  BY <1>1, <1>4 DEF First, Span, Ranges!Bytes
<1>7. PICK f : AbsorbRun(f, t, n)
  BY <1>4, <1>5, AbsorbsInOrder
<1> DEFINE Good(k) == /\ Canonical(f[k]) /\ Ranges!Bytes(f[k]) = First(t, k)
                      /\ k = 0 => f[k] = <<>>
                      /\ k > 0 => f[k] # <<>> /\ Ranges!Last(f[k]).offset <= t[k].offset
           T == {k \in 0..n : Good(k)}
<1>8. 0 \in T
  <2>1. Canonical(<<>>)
    BY DEF Canonical, Apart
  <2>2. Ranges!Bytes(<<>>) = {} /\ First(t, 0) = {}
    BY DEF Ranges!Bytes, First
  <2>3. f[0] = <<>> /\ ~(0 > 0)
    BY <1>7 DEF AbsorbRun
  <2>4. Good(0)
    BY <2>1, <2>2, <2>3
  <2> HIDE DEF Good
  <2> QED
    BY <2>4
<1>9. ASSUME NEW k \in 0..n, k < n, k \in T PROVE k + 1 \in T
  <2>1. k + 1 \in 1..n /\ (k + 1) - 1 = k /\ k \in Nat /\ k + 1 > 0
    BY <1>9
  <2>2. f[k + 1] = Ranges!Absorb(f[k], t[k + 1]) /\ t[k + 1] \in Piece
    BY <1>5, <1>7, <2>1 DEF AbsorbRun
  <2>3. f[k] # <<>> => Ranges!Last(f[k]).offset <= t[k + 1].offset
    <3> SUFFICES ASSUME f[k] # <<>> PROVE Ranges!Last(f[k]).offset <= t[k + 1].offset
      OBVIOUS
    <3>1. k \in 1..n /\ k < k + 1 /\ Ranges!Last(f[k]).offset <= t[k].offset
      BY <1>9, <2>1
    <3>2. t[k].offset <= t[k + 1].offset
      BY <1>4, <2>1, <3>1
    <3>3. PICK len \in Nat : len = Len(f[k]) /\ len \in 1..len /\ f[k][len] \in Piece
      BY <1>9 DEF Canonical
    <3>4. Ranges!Last(f[k]).offset \in Nat /\ t[k].offset \in Nat /\ t[k + 1].offset \in Nat
      BY <1>5, <2>1, <3>1, <3>3, PieceFields DEF Ranges!Last
    <3> QED
      BY <3>1, <3>2, <3>4
  <2>4. /\ Canonical(f[k + 1]) /\ f[k + 1] # <<>>
        /\ Ranges!Last(f[k + 1]).offset <= t[k + 1].offset
        /\ Ranges!Bytes(f[k + 1]) = Ranges!Bytes(f[k]) \cup Span(t[k + 1])
    BY <1>9, <2>2, <2>3, AbsorbKeeps
  <2>5. First(t, k + 1) = First(t, k) \cup Span(t[k + 1])
    <3>1. \A i : i \in 1..(k + 1) <=> i \in 1..k \/ i = k + 1
      BY <2>1
    <3> QED
      BY <3>1 DEF First
  <2>6. Good(k + 1)
    BY <1>9, <2>1, <2>4, <2>5
  <2> HIDE DEF Good
  <2> QED
    BY <2>1, <2>6
<1>10. n \in T
  <2> HIDE DEF T
  <2> QED
    BY <1>8, <1>9, CountUp
<1>11. Ranges!merge_range(m, r) = Absorbed(t)
  BY DEF Ranges!merge_range, Absorbed, t, s
<1> QED
  BY <1>3, <1>6, <1>7, <1>10, <1>11 DEF AbsorbRun

-----------------------------------------------------------------------------
(* all_missing_ranges and next_missing_range.                              *)

Gap == [offset : Nat, length : Int]
Scan == [missing : Seq(Gap), cursor : Nat]
Look == [cursor : Nat, gap : Gap]

\* A step of either scan keeps its type.
LEMMA GapOf ==
  ASSUME NEW a \in Nat, NEW b \in Nat
  PROVE  Ranges!range_from_start_end(a, b) \in Gap
  BY DEF Gap, Ranges!range_from_start_end

LEMMA PastGapType ==
  ASSUME NEW scan \in Scan, NEW r \in Piece
  PROVE  Ranges!PastGap(scan, r, Total) \in Scan
<1>1. /\ r.offset \in Nat /\ Ranges!end(r) \in Nat /\ scan.cursor \in Nat
      /\ scan.missing \in Seq(Gap)
  BY PieceFields DEF Scan
<1>2. Ranges!range_from_start_end(scan.cursor, r.offset) \in Gap
  BY <1>1, GapOf
<1>3. Append(scan.missing, Ranges!range_from_start_end(scan.cursor, r.offset)) \in Seq(Gap)
  BY <1>1, <1>2
<1> QED
  BY <1>1, <1>3 DEF Scan, Ranges!PastGap

LEMMA ToFirstGapType ==
  ASSUME NEW scan \in Look, NEW r \in Piece
  PROVE  Ranges!ToFirstGap(scan, r) \in Look
<1>1. r.offset \in Nat /\ Ranges!end(r) \in Nat /\ scan.cursor \in Nat
  BY PieceFields DEF Look
<1>2. Ranges!range_from_start_end(scan.cursor, r.offset) \in Gap
  BY <1>1, GapOf
<1> QED
  BY <1>1, <1>2 DEF Look, Ranges!ToFirstGap

\* Both scans look at the ranges one by one.
Scanned(s) == Ranges!FoldLeft(LAMBDA a, r : Ranges!PastGap(a, r, Total),
                              [missing |-> <<>>, cursor |-> 0], s)
ScanRun(f, s, n) ==
  /\ f[0] = [missing |-> <<>>, cursor |-> 0]
  /\ \A k \in 1..n : f[k] = Ranges!PastGap(f[k - 1], s[k], Total)
  /\ Scanned(s) = f[n]
Looked(s) == Ranges!FoldLeft(Ranges!ToFirstGap, [cursor |-> 0, gap |-> Ranges!NoRange], s)
LookRun(f, s, n) ==
  /\ f[0] = [cursor |-> 0, gap |-> Ranges!NoRange]
  /\ \A k \in 1..n : f[k] = Ranges!ToFirstGap(f[k - 1], s[k])
  /\ Looked(s) = f[n]

LEMMA ScanStarts == [missing |-> <<>>, cursor |-> 0] \in Scan
  BY DEF Scan
LEMMA LookStarts == [cursor |-> 0, gap |-> Ranges!NoRange] \in Look
  BY RangesAssumption DEF Look, Gap, Ranges!NoRange

LEMMA ScansInOrder ==
  ASSUME NEW n \in Nat, NEW s, DOMAIN s = 1..n, \A k \in 1..n : s[k] \in Piece
  PROVE  \E f : ScanRun(f, s, n)
<1> DEFINE base == [missing |-> <<>>, cursor |-> 0]
           Body(g, S) == IF S = {} THEN base
                         ELSE Ranges!PastGap(g[S \ {Ranges!Max(S)}], s[Ranges!Max(S)], Total)
           F == [p \in Scan \X (1..n) |-> Ranges!PastGap(p[1], s[p[2]], Total)]
<1>1. Scanned(s) = (CHOOSE g : g = [S \in SUBSET (DOMAIN s) |-> Body(g, S)])[DOMAIN s]
  BY DEF Scanned, Ranges!FoldLeft, Ranges!MapThenFoldSet
<1>2. F \in [Scan \X (1..n) -> Scan] /\ base \in Scan
  BY PastGapType, ScanStarts
<1> HIDE DEF base
<1>3. PICK h \in [SUBSET (1..n) -> Scan] : IsFold(h, F, base, n)
  <2> HIDE DEF F
  <2> QED
    BY <1>2, FoldExists
<1>4. ASSUME NEW S \in SUBSET (1..n) PROVE h[S] = Body(h, S)
  <2>1. S \ {Ranges!Max(S)} \in SUBSET (1..n)
    OBVIOUS
  <2>2. S # {} => Ranges!Max(S) \in 1..n /\ h[S] = F[<<h[S \ {Ranges!Max(S)}], Ranges!Max(S)>>]
    BY <1>3 DEF IsFold
  <2>3. S = {} => h[S] = base
    BY <1>3 DEF IsFold
  <2>4. h[S \ {Ranges!Max(S)}] \in Scan
    BY <2>1
  <2> QED
    BY <2>2, <2>3, <2>4
<1> HIDE DEF Body
<1>5. PICK it : it = [S \in SUBSET (1..n) |-> Body(it, S)] /\ Scanned(s) = it[1..n]
  <2>1. h = [S \in SUBSET (DOMAIN s) |-> Body(h, S)]
    BY <1>4
  <2> QED
    BY <1>1, <2>1
<1>6. \A S \in SUBSET (1..n) : it[S] = Body(it, S)
  BY <1>5
<1> USE DEF Body
<1> DEFINE f == [k \in 0..n |-> it[1..k]]
<1>7. f[0] = base /\ f[n] = it[1..n]
  <2>1. it[{}] = base
    <3>1. {} \in SUBSET (1..n)
      OBVIOUS
    <3> QED
      BY <1>6, <3>1
  <2>2. 1..0 = {} /\ 0 \in 0..n /\ n \in 0..n
    OBVIOUS
  <2> QED
    BY <2>1, <2>2
<1>8. ASSUME NEW k \in 1..n PROVE f[k] = Ranges!PastGap(f[k - 1], s[k], Total)
  BY <1>6, Prefix
<1> HIDE DEF f
<1> QED
  BY <1>5, <1>7, <1>8 DEF ScanRun, base

LEMMA LooksInOrder ==
  ASSUME NEW n \in Nat, NEW s, DOMAIN s = 1..n, \A k \in 1..n : s[k] \in Piece
  PROVE  \E f : LookRun(f, s, n)
<1> DEFINE base == [cursor |-> 0, gap |-> Ranges!NoRange]
           Body(g, S) == IF S = {} THEN base
                         ELSE Ranges!ToFirstGap(g[S \ {Ranges!Max(S)}], s[Ranges!Max(S)])
           F == [p \in Look \X (1..n) |-> Ranges!ToFirstGap(p[1], s[p[2]])]
<1>1. Looked(s) = (CHOOSE g : g = [S \in SUBSET (DOMAIN s) |-> Body(g, S)])[DOMAIN s]
  BY DEF Looked, Ranges!FoldLeft, Ranges!MapThenFoldSet
<1>2. F \in [Look \X (1..n) -> Look] /\ base \in Look
  BY ToFirstGapType, LookStarts
<1> HIDE DEF base
<1>3. PICK h \in [SUBSET (1..n) -> Look] : IsFold(h, F, base, n)
  <2> HIDE DEF F
  <2> QED
    BY <1>2, FoldExists
<1>4. ASSUME NEW S \in SUBSET (1..n) PROVE h[S] = Body(h, S)
  <2>1. S \ {Ranges!Max(S)} \in SUBSET (1..n)
    OBVIOUS
  <2>2. S # {} => Ranges!Max(S) \in 1..n /\ h[S] = F[<<h[S \ {Ranges!Max(S)}], Ranges!Max(S)>>]
    BY <1>3 DEF IsFold
  <2>3. S = {} => h[S] = base
    BY <1>3 DEF IsFold
  <2>4. h[S \ {Ranges!Max(S)}] \in Look
    BY <2>1
  <2> QED
    BY <2>2, <2>3, <2>4
<1> HIDE DEF Body
<1>5. PICK it : it = [S \in SUBSET (1..n) |-> Body(it, S)] /\ Looked(s) = it[1..n]
  <2>1. h = [S \in SUBSET (DOMAIN s) |-> Body(h, S)]
    BY <1>4
  <2> QED
    BY <1>1, <2>1
<1>6. \A S \in SUBSET (1..n) : it[S] = Body(it, S)
  BY <1>5
<1> USE DEF Body
<1> DEFINE f == [k \in 0..n |-> it[1..k]]
<1>7. f[0] = base /\ f[n] = it[1..n]
  <2>1. it[{}] = base
    <3>1. {} \in SUBSET (1..n)
      OBVIOUS
    <3> QED
      BY <1>6, <3>1
  <2>2. 1..0 = {} /\ 0 \in 0..n /\ n \in 0..n
    OBVIOUS
  <2> QED
    BY <2>1, <2>2
<1>8. ASSUME NEW k \in 1..n PROVE f[k] = Ranges!ToFirstGap(f[k - 1], s[k])
  BY <1>6, Prefix
<1> HIDE DEF f
<1> QED
  BY <1>5, <1>7, <1>8 DEF LookRun, base

\* Where a scan of canonical ranges stands after the first k of them.
EndOf(m, k) == IF k = 0 THEN 0 ELSE Ranges!end(m[k])
AllGaps(f, m, k) ==
  /\ f[k].cursor = EndOf(m, k) /\ First(m, k) \subseteq 0..(EndOf(m, k) - 1)
  /\ Canonical(f[k].missing)
  /\ \A i \in 1..Len(f[k].missing) : Ranges!end(f[k].missing[i]) < EndOf(m, k)
  /\ Ranges!Bytes(f[k].missing) = 0..(EndOf(m, k) - 1) \ First(m, k)

LEMMA EndOfType ==
  ASSUME NEW m, Canonical(m), NEW k \in 0..Len(m)
  PROVE  EndOf(m, k) \in Nat /\ EndOf(m, k) <= Total
<1>1. k # 0 => m[k] \in Piece
  BY DEF Canonical
<1> QED
  BY <1>1, PieceFields, RangesAssumption DEF EndOf

\* The next range begins after the scan's place, inside the artifact.
LEMMA NextRange ==
  ASSUME NEW m, Canonical(m), NEW k \in 0..Len(m), k < Len(m)
  PROVE  /\ m[k + 1] \in Piece /\ EndOf(m, k) <= m[k + 1].offset
         /\ EndOf(m, k) < Total /\ EndOf(m, k + 1) = Ranges!end(m[k + 1])
<1>1. PICK n \in Nat : n = Len(m)
  BY DEF Canonical
<1>2. k \in Nat /\ k + 1 \in 1..n /\ k + 1 # 0
  BY <1>1
<1>3. m[k + 1] \in Piece
  BY <1>1, <1>2 DEF Canonical
<1>4. EndOf(m, k) <= m[k + 1].offset
  <2>1. CASE k = 0
    BY <1>3, <2>1, PieceFields DEF EndOf
  <2>2. CASE k # 0
    <3>1. k \in 1..n /\ k < k + 1 /\ m[k] \in Piece
      BY <1>1, <1>2, <2>2 DEF Canonical
    <3>2. Ranges!end(m[k]) < m[k + 1].offset
      BY <1>1, <1>2, <3>1 DEF Canonical, Apart
    <3> QED
      BY <1>3, <2>2, <3>1, <3>2, PieceFields DEF EndOf
  <2> QED
    BY <2>1, <2>2
<1>5. EndOf(m, k) \in Nat
  BY EndOfType
<1>6. EndOf(m, k) < Total
  BY <1>3, <1>4, <1>5, PieceFields, RangesAssumption
<1> QED
  BY <1>2, <1>3, <1>4, <1>6 DEF EndOf

\* A gap after all the others is appended.
LEMMA AppendKeeps ==
  ASSUME NEW q, Canonical(q), NEW g \in Piece,
         \A i \in 1..Len(q) : Ranges!end(q[i]) < g.offset
  PROVE  /\ Canonical(Append(q, g)) /\ Append(q, g) # <<>>
         /\ Append(q, g)[1] = IF q = <<>> THEN g ELSE q[1]
         /\ \A i \in 1..Len(Append(q, g)) : Ranges!end(Append(q, g)[i]) <= Ranges!end(g)
         /\ Ranges!Bytes(Append(q, g)) = Ranges!Bytes(q) \cup Span(g)
<1>1. PICK n \in Nat : n = Len(q) /\ DOMAIN q = 1..n /\ \A i \in 1..n : q[i] \in Piece
  BY DEF Canonical
<1>2. PICK p : p = Append(q, g)
  OBVIOUS
<1>3. /\ DOMAIN p = 1..(n + 1) /\ Len(p) = n + 1 /\ p \in Seq(Piece)
      /\ p[n + 1] = g /\ \A i \in 1..n : p[i] = q[i]
  BY <1>1, <1>2 DEF Canonical
<1>4. Apart(p)
  <2> SUFFICES ASSUME NEW i \in 1..(n + 1), NEW j \in 1..(n + 1), i < j
               PROVE  Ranges!end(p[i]) < p[j].offset
    BY <1>3 DEF Apart
  <2>1. i \in 1..n /\ p[i] = q[i]
    BY <1>3
  <2>2. CASE j = n + 1
    BY <1>1, <1>3, <2>1, <2>2
  <2>3. CASE j # n + 1
    <3>1. j \in 1..n /\ p[j] = q[j]
      BY <1>3, <2>3
    <3> QED
      BY <1>1, <2>1, <3>1 DEF Canonical, Apart
  <2> QED
    BY <2>2, <2>3
<1>5. ASSUME NEW i \in 1..(n + 1) PROVE Ranges!end(p[i]) <= Ranges!end(g)
  <2>1. CASE i = n + 1
    BY <1>3, <2>1, PieceFields
  <2>2. CASE i # n + 1
    <3>1. i \in 1..n /\ p[i] = q[i] /\ q[i] \in Piece
      BY <1>1, <1>3, <2>2
    <3>2. Ranges!end(q[i]) < g.offset
      BY <1>1, <3>1
    <3> QED
      BY <3>1, <3>2, PieceFields
  <2> QED
    BY <2>1, <2>2
<1>6. p # <<>> /\ p[1] = IF q = <<>> THEN g ELSE q[1]
  <2>1. CASE q = <<>>
    <3>1. n = 0
      BY <1>1, <2>1
    <3> QED
      BY <1>3, <2>1, <3>1
  <2>2. CASE q # <<>>
    <3>1. 1 \in 1..n
      BY <1>1, <2>2 DEF Canonical
    <3> QED
      BY <1>3, <2>2, <3>1
  <2> QED
    BY <2>1, <2>2
<1>7. Ranges!Bytes(p) = Ranges!Bytes(q) \cup Span(g)
  BY <1>2, BytesAppend DEF Canonical
<1> QED
  BY <1>2, <1>3, <1>4, <1>5, <1>6, <1>7 DEF Canonical

\* One more range: its gap, if any, joins the missing ones.
LEMMA ScanKeeps ==
  ASSUME NEW m, Canonical(m), NEW n, n = Len(m), NEW f, ScanRun(f, m, n),
         NEW k \in 0..n, k < n, AllGaps(f, m, k)
  PROVE  AllGaps(f, m, k + 1)
<1>1. n \in Nat /\ k \in Nat /\ k + 1 \in 1..n /\ (k + 1) - 1 = k
  BY DEF Canonical
<1>2. PICK r \in Piece : r = m[k + 1] /\ EndOf(m, k) <= r.offset /\ EndOf(m, k) < Total
                         /\ EndOf(m, k + 1) = Ranges!end(r)
  BY NextRange
<1>3. PICK c \in Nat, o \in Nat, e \in Nat : c = EndOf(m, k) /\ o = r.offset /\ e = Ranges!end(r)
  BY EndOfType, PieceFields
<1>4. c <= o /\ o < e /\ e <= Total /\ c < Total /\ EndOf(m, k + 1) = e
  BY <1>2, <1>3, PieceFields
<1>5. PICK q : q = f[k].missing /\ Canonical(q) /\ f[k].cursor = c
  BY <1>3 DEF AllGaps
<1>6. /\ \A i \in 1..Len(q) : Ranges!end(q[i]) < c
      /\ Ranges!Bytes(q) = 0..(c - 1) \ First(m, k) /\ First(m, k) \subseteq 0..(c - 1)
  BY <1>3, <1>5 DEF AllGaps
<1>7. f[k + 1] = Ranges!PastGap(f[k], r, Total)
  BY <1>1, <1>2 DEF ScanRun
<1>8. /\ f[k + 1].cursor = e
      /\ f[k + 1].missing = IF c < o THEN Append(q, Ranges!range_from_start_end(c, o)) ELSE q
  BY <1>3, <1>4, <1>5, <1>7, RangesAssumption DEF Ranges!PastGap
<1>9. First(m, k + 1) = First(m, k) \cup o..(e - 1)
  <2>1. \A i : i \in 1..(k + 1) <=> i \in 1..k \/ i = k + 1
    BY <1>1
  <2>2. Span(m[k + 1]) = o..(e - 1)
    BY <1>2, <1>3 DEF Span
  <2> QED
    BY <2>1, <2>2 DEF First
<1>10. First(m, k + 1) \subseteq 0..(e - 1)
  BY <1>4, <1>6, <1>9
<1>11. ASSUME NEW B, B = Ranges!Bytes(q) \cup c..(o - 1)
       PROVE  B = 0..(e - 1) \ First(m, k + 1)
  BY <1>4, <1>6, <1>9, <1>11
<1>12. PICK p : p = f[k + 1].missing
  OBVIOUS
<1>13. /\ Canonical(p) /\ \A i \in 1..Len(p) : Ranges!end(p[i]) < e
       /\ Ranges!Bytes(p) = Ranges!Bytes(q) \cup c..(o - 1)
  <2>1. CASE c < o
    <3>1. PICK g \in Piece : g = Ranges!range_from_start_end(c, o) /\ g.offset = c
                             /\ Ranges!end(g) = o
      BY <1>4, <2>1, PieceOf, RangesAssumption
    <3>2. p = Append(q, g)
      BY <1>8, <1>12, <2>1, <3>1
    <3>3. /\ Canonical(p) /\ \A i \in 1..Len(p) : Ranges!end(p[i]) <= o
          /\ Ranges!Bytes(p) = Ranges!Bytes(q) \cup Span(g)
      <4>1. \A i \in 1..Len(q) : Ranges!end(q[i]) < g.offset
        BY <1>6, <3>1
      <4>2. /\ Canonical(Append(q, g))
            /\ \A i \in 1..Len(Append(q, g)) : Ranges!end(Append(q, g)[i]) <= Ranges!end(g)
            /\ Ranges!Bytes(Append(q, g)) = Ranges!Bytes(q) \cup Span(g)
        BY <1>5, <4>1, AppendKeeps
      <4> QED
        BY <3>1, <3>2, <4>2
    <3>4. \A i \in 1..Len(p) : Ranges!end(p[i]) < e
      <4> SUFFICES ASSUME NEW i \in 1..Len(p) PROVE Ranges!end(p[i]) < e
        OBVIOUS
      <4>1. p[i] \in Piece
        BY <3>3 DEF Canonical
      <4>2. Ranges!end(p[i]) <= o
        BY <3>3
      <4> QED
        BY <1>4, <4>1, <4>2, PieceFields
    <3>5. Span(g) = c..(o - 1)
      BY <3>1 DEF Span
    <3> QED
      BY <3>3, <3>4, <3>5
  <2>2. CASE ~(c < o)
    <3>1. p = q /\ c..(o - 1) = {}
      BY <1>4, <1>8, <1>12, <2>2
    <3>2. \A i \in 1..Len(p) : Ranges!end(p[i]) < e
      <4> SUFFICES ASSUME NEW i \in 1..Len(q) PROVE Ranges!end(q[i]) < e
        BY <3>1
      <4>1. q[i] \in Piece
        BY <1>5 DEF Canonical
      <4>2. Ranges!end(q[i]) < c
        BY <1>6
      <4> QED
        BY <1>4, <4>1, <4>2, PieceFields
    <3> QED
      BY <1>5, <3>1, <3>2
  <2> QED
    BY <2>1, <2>2
<1> QED
  BY <1>4, <1>8, <1>10, <1>11, <1>12, <1>13 DEF AllGaps

LEMMA ScanFinds ==
  ASSUME NEW m, Canonical(m), NEW n, n = Len(m), NEW f, ScanRun(f, m, n)
  PROVE  \A k \in 0..n : AllGaps(f, m, k)
<1> DEFINE T == {k \in 0..n : AllGaps(f, m, k)}
<1>1. n \in Nat
  BY DEF Canonical
<1>2. 0 \in T
  <2>1. f[0].missing = <<>> /\ f[0].cursor = 0 /\ EndOf(m, 0) = 0
    BY DEF ScanRun, EndOf
  <2>2. Canonical(<<>>) /\ Len(<<>>) = 0 /\ Ranges!Bytes(<<>>) = {}
    BY DEF Canonical, Apart, Ranges!Bytes
  <2>3. First(m, 0) = {}
    BY DEF First
  <2>4. AllGaps(f, m, 0)
    BY <2>1, <2>2, <2>3 DEF AllGaps
  <2>5. 0 \in 0..n
    BY <1>1
  <2> QED
    BY <2>4, <2>5
<1>3. ASSUME NEW k \in 0..n, k < n, k \in T PROVE k + 1 \in T
  <2>1. k + 1 \in 0..n
    BY <1>1, <1>3
  <2>2. AllGaps(f, m, k + 1)
    BY <1>3, ScanKeeps
  <2> QED
    BY <2>1, <2>2
<1> HIDE DEF T
<1>4. \A k \in 0..n : k \in T
  BY <1>1, <1>2, <1>3, CountUp
<1> QED
  BY <1>4 DEF T

\* next_missing_range stops where the first of the gaps begins.
FirstGap(f, g, m, k) ==
  IF f[k].missing = <<>> THEN g[k].gap = Ranges!NoRange /\ g[k].cursor = EndOf(m, k)
                         ELSE g[k].gap = f[k].missing[1]

\* A gap is not the mark for none.
LEMMA GapIsSome == \A r \in Piece : r # Ranges!NoRange
<1> SUFFICES ASSUME NEW r \in Piece, r = Ranges!NoRange PROVE FALSE
  OBVIOUS
<1>1. r.length > 0 /\ r.length = 0
  BY DEF Piece, Ranges!NoRange
<1> QED
  BY <1>1

LEMMA LookKeeps ==
  ASSUME NEW m, Canonical(m), NEW n, n = Len(m), NEW f, ScanRun(f, m, n),
         NEW g, LookRun(g, m, n), \A k \in 0..n : g[k] \in Look,
         NEW k \in 0..n, k < n, FirstGap(f, g, m, k)
  PROVE  FirstGap(f, g, m, k + 1)
<1>1. n \in Nat /\ k \in Nat /\ k + 1 \in 1..n /\ (k + 1) - 1 = k
  BY DEF Canonical
<1>2. PICK r \in Piece : r = m[k + 1] /\ EndOf(m, k) <= r.offset /\ EndOf(m, k) < Total
                         /\ EndOf(m, k + 1) = Ranges!end(r)
  BY NextRange
<1>3. PICK c \in Nat, o \in Nat, e \in Nat : c = EndOf(m, k) /\ o = r.offset /\ e = Ranges!end(r)
  BY EndOfType, PieceFields
<1>4. c <= o /\ o < e /\ e <= Total /\ c < Total /\ EndOf(m, k + 1) = e
  BY <1>2, <1>3, PieceFields
<1>5. AllGaps(f, m, k)
  BY ScanFinds
<1>6. PICK q : q = f[k].missing /\ Canonical(q) /\ f[k].cursor = c
               /\ \A i \in 1..Len(q) : Ranges!end(q[i]) < c
  BY <1>3, <1>5 DEF AllGaps
<1>7. f[k + 1] = Ranges!PastGap(f[k], r, Total) /\ g[k + 1] = Ranges!ToFirstGap(g[k], r)
  BY <1>1, <1>2 DEF ScanRun, LookRun
<1>8. f[k + 1].missing = IF c < o THEN Append(q, Ranges!range_from_start_end(c, o)) ELSE q
  BY <1>3, <1>4, <1>6, <1>7, RangesAssumption DEF Ranges!PastGap
<1>9. c < o => /\ Append(q, Ranges!range_from_start_end(c, o)) # <<>>
               /\ Append(q, Ranges!range_from_start_end(c, o))[1] =
                    IF q = <<>> THEN Ranges!range_from_start_end(c, o) ELSE q[1]
  <2> SUFFICES ASSUME c < o
               PROVE  /\ Append(q, Ranges!range_from_start_end(c, o)) # <<>>
                      /\ Append(q, Ranges!range_from_start_end(c, o))[1] =
                           IF q = <<>> THEN Ranges!range_from_start_end(c, o) ELSE q[1]
    OBVIOUS
  <2>1. PICK x \in Piece : x = Ranges!range_from_start_end(c, o) /\ x.offset = c
    BY <1>4, PieceOf, RangesAssumption
  <2>2. \A i \in 1..Len(q) : Ranges!end(q[i]) < x.offset
    BY <1>6, <2>1
  <2>3. Append(q, x) # <<>> /\ Append(q, x)[1] = IF q = <<>> THEN x ELSE q[1]
    BY <1>6, <2>2, AppendKeeps
  <2> QED
    BY <2>1, <2>3
<1>10. CASE q = <<>>
  <2>1. g[k].gap = Ranges!NoRange /\ g[k].cursor = c
    BY <1>3, <1>6, <1>10 DEF FirstGap
  <2>2. CASE c < o
    <3>1. g[k + 1].gap = Ranges!range_from_start_end(c, o)
      BY <1>3, <1>7, <2>1, <2>2 DEF Ranges!ToFirstGap, Look
    <3> QED
      BY <1>8, <1>9, <1>10, <2>2, <3>1 DEF FirstGap
  <2>3. CASE ~(c < o)
    <3>1. g[k + 1].gap = Ranges!NoRange /\ g[k + 1].cursor = e
      BY <1>3, <1>7, <2>1, <2>3 DEF Ranges!ToFirstGap, Look
    <3> QED
      BY <1>4, <1>8, <1>10, <2>3, <3>1 DEF FirstGap
  <2> QED
    BY <2>2, <2>3
<1>11. CASE q # <<>>
  <2>1. q[1] \in Piece
    BY <1>6, <1>11 DEF Canonical
  <2>2. g[k].gap = q[1] /\ q[1] # Ranges!NoRange
    BY <1>6, <1>11, <2>1, GapIsSome DEF FirstGap
  <2>3. g[k + 1] = g[k]
    BY <1>7, <2>2 DEF Ranges!ToFirstGap
  <2> QED
    BY <1>8, <1>9, <1>11, <2>2, <2>3 DEF FirstGap
<1> QED
  BY <1>10, <1>11

LEMMA LookFinds ==
  ASSUME NEW m, Canonical(m), NEW n, n = Len(m), NEW f, ScanRun(f, m, n),
         NEW g, LookRun(g, m, n), \A k \in 0..n : g[k] \in Look
  PROVE  FirstGap(f, g, m, n)
<1> DEFINE T == {k \in 0..n : FirstGap(f, g, m, k)}
<1>1. n \in Nat
  BY DEF Canonical
<1>2. 0 \in T
  <2>1. FirstGap(f, g, m, 0)
    BY DEF ScanRun, LookRun, EndOf, FirstGap
  <2>2. 0 \in 0..n
    BY <1>1
  <2> QED
    BY <2>1, <2>2
<1>3. ASSUME NEW k \in 0..n, k < n, k \in T PROVE k + 1 \in T
  <2>1. k + 1 \in 0..n
    BY <1>1, <1>3
  <2>2. FirstGap(f, g, m, k + 1)
    BY <1>3, LookKeeps
  <2> QED
    BY <2>1, <2>2
<1> HIDE DEF T
<1>4. \A k \in 0..n : k \in T
  BY <1>1, <1>2, <1>3, CountUp
<1>5. n \in 0..n
  BY <1>1
<1> QED
  BY <1>4, <1>5 DEF T

\* The looks of a run are typed.
LEMMA LooksTyped ==
  ASSUME NEW n \in Nat, NEW m, \A k \in 1..n : m[k] \in Piece, NEW g, LookRun(g, m, n)
  PROVE  \A k \in 0..n : g[k] \in Look
<1> DEFINE T == {k \in 0..n : g[k] \in Look}
<1>1. 0 \in T
  BY LookStarts DEF LookRun
<1>2. ASSUME NEW k \in 0..n, k < n, k \in T PROVE k + 1 \in T
  <2>1. k + 1 \in 1..n /\ k + 1 \in 0..n /\ (k + 1) - 1 = k
    BY <1>2
  <2>2. g[k + 1] = Ranges!ToFirstGap(g[k], m[k + 1])
    BY <2>1 DEF LookRun
  <2> QED
    BY <1>2, <2>1, <2>2, ToFirstGapType
<1> HIDE DEF T
<1>3. \A k \in 0..n : k \in T
  BY <1>1, <1>2, CountUp
<1> QED
  BY <1>3 DEF T

\* What is missing of a canonical list is exactly the rest, canonical too, and
\* the range asked for next is the first of it.
LEMMA MissingOfCanonical ==
  ASSUME NEW m, Canonical(m)
  PROVE  LET q == Ranges!all_missing_ranges(m, Total)
         IN  /\ Canonical(q) /\ Ranges!Bytes(q) = 0..(Total - 1) \ Ranges!Bytes(m)
             /\ Ranges!next_missing_range(m, Total) = IF q = <<>> THEN Ranges!NoRange ELSE q[1]
<1>1. PICK n \in Nat : n = Len(m) /\ DOMAIN m = 1..n /\ \A k \in 1..n : m[k] \in Piece
  BY DEF Canonical
<1>2. PICK f : ScanRun(f, m, n)
  BY <1>1, ScansInOrder
<1>3. PICK g : LookRun(g, m, n)
  BY <1>1, LooksInOrder
<1>4. n \in 0..n
  BY <1>1
<1>5. AllGaps(f, m, n)
  BY <1>1, <1>2, <1>4, ScanFinds
<1>6. \A k \in 0..n : g[k] \in Look
  BY <1>1, <1>3, LooksTyped
<1>7. FirstGap(f, g, m, n)
  BY <1>1, <1>2, <1>3, <1>6, LookFinds
<1>8. PICK c \in Nat : c = EndOf(m, n) /\ c <= Total
  BY <1>1, <1>4, EndOfType
<1>9. PICK p : p = f[n].missing /\ Canonical(p) /\ f[n].cursor = c
  BY <1>5, <1>8 DEF AllGaps
<1>10. /\ \A i \in 1..Len(p) : Ranges!end(p[i]) < c
       /\ Ranges!Bytes(p) = 0..(c - 1) \ First(m, n) /\ First(m, n) \subseteq 0..(c - 1)
  BY <1>5, <1>8, <1>9 DEF AllGaps
<1>11. First(m, n) = Ranges!Bytes(m)
  BY <1>1 DEF First, Ranges!Bytes, Span
<1>12. PICK q : q = Ranges!all_missing_ranges(m, Total)
  OBVIOUS
<1>13. q = IF c < Total THEN Append(p, Ranges!range_from_start_end(c, Total)) ELSE p
  <2>1. Ranges!all_missing_ranges(m, Total) =
          Ranges!with_last_gap(Scanned(m).missing, Scanned(m).cursor, Total)
    BY DEF Ranges!all_missing_ranges, Scanned
  <2>2. Scanned(m) = f[n]
    BY <1>2 DEF ScanRun
  <2> QED
    BY <1>9, <1>12, <2>1, <2>2 DEF Ranges!with_last_gap
<1>14. Ranges!next_missing_range(m, Total) =
         IF g[n].gap # Ranges!NoRange THEN g[n].gap
         ELSE IF g[n].cursor < Total THEN Ranges!range_from_start_end(g[n].cursor, Total)
         ELSE Ranges!NoRange
  <2>1. Ranges!next_missing_range(m, Total) =
          IF Looked(m).gap # Ranges!NoRange THEN Looked(m).gap
          ELSE IF Looked(m).cursor < Total
            THEN Ranges!range_from_start_end(Looked(m).cursor, Total)
          ELSE Ranges!NoRange
    BY DEF Ranges!next_missing_range, Looked
  <2>2. Looked(m) = g[n]
    BY <1>3 DEF LookRun
  <2> QED
    BY <2>1, <2>2
<1>15. p # <<>> => p[1] \in Piece /\ p[1] # Ranges!NoRange
  BY <1>9, GapIsSome DEF Canonical
<1>16. CASE c < Total
  <2>1. PICK x \in Piece : x = Ranges!range_from_start_end(c, Total) /\ x.offset = c
                           /\ Ranges!end(x) = Total
    BY <1>16, PieceOf, RangesAssumption
  <2>2. \A i \in 1..Len(p) : Ranges!end(p[i]) < x.offset
    BY <1>10, <2>1
  <2>3. /\ Canonical(Append(p, x)) /\ Append(p, x) # <<>>
        /\ Append(p, x)[1] = IF p = <<>> THEN x ELSE p[1]
        /\ Ranges!Bytes(Append(p, x)) = Ranges!Bytes(p) \cup Span(x)
    BY <1>9, <2>2, AppendKeeps
  <2>4. q = Append(p, x) /\ Span(x) = c..(Total - 1)
    BY <1>13, <1>16, <2>1 DEF Span
  <2>5. Ranges!Bytes(q) = 0..(Total - 1) \ Ranges!Bytes(m)
    BY <1>8, <1>10, <1>11, <2>3, <2>4, RangesAssumption
  <2>6. Ranges!next_missing_range(m, Total) = IF p = <<>> THEN x ELSE p[1]
    BY <1>7, <1>8, <1>9, <1>14, <1>15, <1>16, <2>1 DEF FirstGap
  <2> QED
    BY <1>12, <2>3, <2>4, <2>5, <2>6
<1>17. CASE ~(c < Total)
  <2>1. q = p /\ c = Total
    BY <1>8, <1>13, <1>17, RangesAssumption
  <2>2. Ranges!Bytes(q) = 0..(Total - 1) \ Ranges!Bytes(m)
    BY <1>10, <1>11, <2>1
  <2>3. Ranges!next_missing_range(m, Total) = IF p = <<>> THEN Ranges!NoRange ELSE p[1]
    BY <1>7, <1>8, <1>9, <1>14, <1>15, <1>17 DEF FirstGap
  <2> QED
    BY <1>9, <1>12, <2>1, <2>2, <2>3
<1> QED
  BY <1>16, <1>17

\* is_complete says of a canonical list that it has every byte.
LEMMA CompleteIsAll ==
  ASSUME NEW m, Canonical(m)
  PROVE  Ranges!is_complete(m, Total) <=> Ranges!Bytes(m) = 0..(Total - 1)
<1>1. PICK n \in Nat : n = Len(m) /\ DOMAIN m = 1..n /\ \A k \in 1..n : m[k] \in Piece
  BY DEF Canonical
<1>2. Ranges!Bytes(m) = UNION {Span(m[i]) : i \in 1..n}
  BY <1>1 DEF Ranges!Bytes, Span
<1>3. ASSUME Ranges!is_complete(m, Total) PROVE Ranges!Bytes(m) = 0..(Total - 1)
  <2>1. n = 1 /\ m[1].offset = 0 /\ m[1].length = Total
    BY <1>1, <1>3 DEF Ranges!is_complete
  <2>2. Span(m[1]) = 0..(Total - 1)
    BY <2>1, RangesAssumption DEF Span, Ranges!end
  <2>3. 1..n = {1}
    BY <2>1
  <2> QED
    BY <1>2, <2>2, <2>3
<1>4. ASSUME Ranges!Bytes(m) = 0..(Total - 1) PROVE Ranges!is_complete(m, Total)
  <2>1. \A b \in 0..(Total - 1) : \E i \in 1..n : b \in Span(m[i])
    BY <1>2, <1>4
  <2>2. PICK i \in 1..n : 0 \in Span(m[i])
    BY <2>1, RangesAssumption
  <2>3. m[i] \in Piece /\ m[i].offset = 0
    BY <1>1, <2>2, PieceFields DEF Span
  <2>4. ASSUME NEW j \in 1..n, j < i PROVE FALSE
    BY <1>1, <2>3, <2>4, PieceFields DEF Canonical, Apart
  <2>5. i = 1
    <3>1. 1 \in 1..n /\ ~(1 < i)
      BY <2>4
    <3> QED
      BY <3>1
  <2>6. PICK e \in Nat : e = Ranges!end(m[1]) /\ 0 < e /\ e <= Total
    BY <2>3, <2>5, PieceFields
  <2>7. ASSUME e < Total PROVE FALSE
    <3>1. e \in 0..(Total - 1)
      BY <2>7, RangesAssumption
    <3>2. PICK j \in 1..n : e \in Span(m[j])
      BY <2>1, <3>1
    <3>3. j # 1
      BY <2>6, <3>2 DEF Span
    <3>4. e < m[j].offset /\ m[j] \in Piece
      BY <1>1, <2>6, <3>3 DEF Canonical, Apart
    <3> QED
      BY <2>6, <3>2, <3>4, PieceFields DEF Span
  <2>8. e = Total
    BY <2>6, <2>7, RangesAssumption
  <2>9. n = 1
    <3> SUFFICES ASSUME n # 1 PROVE FALSE
      OBVIOUS
    <3>1. 2 \in 1..n /\ 1 \in 1..n
      BY <2>5
    <3>2. e < m[2].offset /\ m[2] \in Piece
      BY <1>1, <2>6, <3>1 DEF Canonical, Apart
    <3> QED
      BY <2>8, <3>2, PieceFields, RangesAssumption
  <2>10. m[1].length = Total
    BY <2>3, <2>5, <2>6, <2>8 DEF Ranges!end, Piece
  <2> QED
    BY <1>1, <2>3, <2>5, <2>9, <2>10 DEF Ranges!is_complete
<1> QED
  BY <1>3, <1>4

\* A canonical list is what RangesAreReceived asks for.
LEMMA CanonicalIsSeparate ==
  ASSUME NEW m, Canonical(m)
  PROVE  m \in Seq(Ranges!ByteRange) /\ Ranges!Separate(m)
<1>1. Piece \subseteq Ranges!ByteRange
  BY RangesAssumption DEF Piece, Ranges!ByteRange
<1>2. PICK n \in Nat : n = Len(m) /\ DOMAIN m = 1..n
  BY DEF Canonical
<1>3. ASSUME NEW i \in 1..(n - 1) PROVE Ranges!end(m[i]) < m[i + 1].offset
  <2>1. i \in 1..n /\ i + 1 \in 1..n /\ i < i + 1
    BY <1>2
  <2> QED
    BY <1>2, <2>1 DEF Canonical, Apart
<1> QED
  BY <1>1, <1>2, <1>3 DEF Canonical, Ranges!Separate

-----------------------------------------------------------------------------
(* The uploads of a session.                                               *)

RangesInv == Canonical(received_ranges) /\ Ranges!Bytes(received_ranges) = received

LEMMA PushKeeps ==
  ASSUME RangesInv, Ranges!Next
  PROVE  RangesInv'
<1>1. PICK offset \in 0..(Total - 1), length \in 1..MaxChunk : Ranges!Push(offset, length)
  BY DEF Ranges!Next
<1>2. PICK a \in Nat, b \in Nat : a = offset /\ b = offset + length /\ a < b /\ b <= Total
  BY <1>1, RangesAssumption DEF Ranges!Push
<1>3. PICK r \in Piece : r = Ranges!range_from_start_end(a, b) /\ r.offset = a
                         /\ Ranges!end(r) = b
  BY <1>2, PieceOf
<1>4. received_ranges' = Ranges!merge_range(received_ranges, r)
  BY <1>1, <1>2, <1>3 DEF Ranges!Push
<1>5. received' = received \cup Span(r)
  BY <1>1, <1>2, <1>3 DEF Ranges!Push, Span
<1>6. PICK m : m = received_ranges
  OBVIOUS
<1>7. /\ Canonical(Ranges!merge_range(m, r))
      /\ Ranges!Bytes(Ranges!merge_range(m, r)) = Ranges!Bytes(m) \cup Span(r)
  BY <1>6, MergeKeeps DEF RangesInv
<1>8. Canonical(received_ranges') /\ Ranges!Bytes(received_ranges') = received'
  BY <1>4, <1>5, <1>6, <1>7 DEF RangesInv
<1> QED
  BY <1>8 DEF RangesInv, Canonical, Apart, Piece, Ranges!Bytes, Ranges!end

LEMMA RangesInvIsExact == RangesInv => RangesAreExact
<1> SUFFICES ASSUME RangesInv PROVE RangesAreExact
  OBVIOUS
<1>1. PICK m : m = received_ranges /\ Canonical(m) /\ Ranges!Bytes(m) = received
  BY DEF RangesInv
<1>2. Ranges!RangesAreReceived
  BY <1>1, CompleteIsAll, CanonicalIsSeparate DEF Ranges!RangesAreReceived
<1>3. PICK q : q = Ranges!all_missing_ranges(m, Total)
  OBVIOUS
<1>4. /\ Canonical(q) /\ Ranges!Bytes(q) = 0..(Total - 1) \ received
      /\ Ranges!next_missing_range(m, Total) = IF q = <<>> THEN Ranges!NoRange ELSE q[1]
  BY <1>1, <1>3, MissingOfCanonical
<1>5. Ranges!Separate(q)
  BY <1>4, CanonicalIsSeparate
<1>6. Ranges!MissingIsTheRest
  BY <1>1, <1>3, <1>4, <1>5 DEF Ranges!MissingIsTheRest
<1> QED
  BY <1>2, <1>6 DEF RangesAreExact

\* However chunks are cut, repeated, overlapped or reordered, received_ranges is
\* the bytes received, in order and with a gap between any two ranges;
\* is_complete, the gate of artifact.commit, opens exactly on the last byte, and
\* what all_missing_ranges and next_missing_range ask for is exactly the rest.
THEOREM RangesStayExact == MCSpec => []RangesAreExact
<1>1. MCInit => RangesInv
  <2>1. Canonical(<<>>) /\ Ranges!Bytes(<<>>) = {}
    BY DEF Canonical, Apart, Ranges!Bytes
  <2> QED
    BY <2>1 DEF MCInit, Ranges!Init, RangesInv
<1>2. RangesInv /\ [StoreNext \/ RangesNext]_<<subject, vars, rangeVars>> => RangesInv'
  <2> SUFFICES ASSUME RangesInv, [StoreNext \/ RangesNext]_<<subject, vars, rangeVars>>
               PROVE  RangesInv'
    OBVIOUS
  <2>1. CASE Ranges!Next
    BY <2>1, PushKeeps
  <2>2. CASE UNCHANGED rangeVars
    BY <2>2 DEF rangeVars, RangesInv, Canonical, Apart, Piece, Ranges!Bytes, Ranges!end
  <2> QED
    BY <2>1, <2>2 DEF StoreNext, RangesNext
<1> QED
  BY <1>1, <1>2, RangesInvIsExact, PTL DEF MCSpec
=============================================================================
