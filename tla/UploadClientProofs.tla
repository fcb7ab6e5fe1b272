------------------------- MODULE UploadClientProofs -------------------------
(***************************************************************************)
(* Proofs about UploadClient, on top of those about ArtifactStore: for any *)
(* numbers of handlers, chunks, attempts and faults, and any limits.       *)
(*                                                                         *)
(* The client's requests are requests of the store's specification, so     *)
(* whatever ArtifactStoreProofs shows of the store holds here too (Inv).   *)
(* What is added is in two parts.  StoreInv says more about a store that   *)
(* serves one artifact only: it holds at most one session, and whatever    *)
(* that session has received is in its file.  The rest connects the client *)
(* with the store through the calls: what a call that is on its way, or    *)
(* its answer, says of a session stays true of it as long as it exists,    *)
(* however late it comes (Tells).                                          *)
(***************************************************************************)
EXTENDS UploadClient, ArtifactStoreProofs

USE DeploysAssumption, LimitsAssumption, TasksAssumption

-----------------------------------------------------------------------------
(* The store, when every request comes from the client of one artifact.    *)

\* One key: all sessions, and all that are being made, are the client's.
OneKey ==
  /\ \A d \in DOMAIN sessions : sessions[d].key = TheKey
  /\ \A t \in Tasks : task[t].pc \in NewPC => task[t].key = TheKey

\* The time a task has read is past.
Times == \A t \in Tasks : task[t].now <= clock

\* What a session has received is in its file, and a commit starts when that is
\* everything.
GoodSession(d) ==
  /\ d \in files
  /\ \A c \in sessions[d].received : content[d][c] = "good"
  /\ sessions[d].committed \/ sessions[d].commit_in_progress => Complete(sessions[d])
GoodTask(t) ==
  /\ task[t].pc \in WritePC => task[t].data = "good"
  /\ task[t].pc = "written" /\ task[t].deploy \in DOMAIN sessions =>
       content[task[t].deploy][task[t].chunk] = "good"
  /\ task[t].pc = "inserting" => task[t].deploy \in files
GoodData ==
  /\ \A d \in DOMAIN sessions : GoodSession(d)
  /\ \A t \in Tasks : GoodTask(t)
  /\ \A w \in detached : w.data = "good"

\* Until the time to live of a session has passed nothing expires.
Early == clock < UploadTtl /\ clock < CommittedTtl
Stays == Early => opened \subseteq DOMAIN sessions \cup purged

StoreInv == OneKey /\ Times /\ GoodData /\ Stays

\* With one key there is at most one session.
LEMMA OneSession ==
  ASSUME Inv, OneKey, NEW d \in DOMAIN sessions, NEW e \in DOMAIN sessions
  PROVE  d = e
  BY DEF Inv, KeyHasOneSession, OneKey

\* A store with at most one session evicts nothing for room: what a cleanup
\* removes has expired.
LEMMA RemovedIsOld ==
  ASSUME NEW S, S \in [DOMAIN S -> UploadSession], \A d, e \in DOMAIN S : d = e,
         NEW now \in Nat, NEW keep, NEW e \in Removed(S, now, keep)
  PROVE  IF S[e].committed THEN now >= CommittedTtl ELSE now >= UploadTtl
<1>1. /\ e \in DOMAIN S /\ S[e].updated_at \in Nat
  BY RemovedFacts DEF UploadSession
<1>2. PICK u \in Nat : u = S[e].updated_at
  BY <1>1
<1>3. CASE e \in collect_expired_sessions(S, now)
  <2>1. Age(S[e], now) >= UploadTtl /\ ~S[e].committed
    BY <1>3 DEF collect_expired_sessions, Committed
  <2> QED
    BY <1>2, <2>1 DEF Age
<1>4. CASE e \in collect_orphan_committed_sessions(S, now, Pinned \cup keep)
  <2> DEFINE protected == Pinned \cup keep
  <2> DEFINE open == {d \in Committed(S) \ protected : Idle(S[d])}
  <2> DEFINE aged == {d \in open : Age(S[d], now) >= CommittedTtl}
  <2> DEFINE guarded == Cardinality(Committed(S) \cap protected)
  <2> DEFINE allowed == IF guarded < MaxCommitted THEN MaxCommitted - guarded ELSE 0
  <2>1. e \in aged \/ e \in Oldest(S, open \ aged, Cardinality(open \ aged) - allowed)
    BY <1>4 DEF collect_orphan_committed_sessions
  <2>2. CASE e \in aged
    <3>1. Age(S[e], now) >= CommittedTtl /\ S[e].committed
      BY <2>2 DEF Committed
    <3> QED
      BY <1>2, <3>1 DEF Age
  <2>3. CASE e \in Oldest(S, open \ aged, Cardinality(open \ aged) - allowed)
    <3> DEFINE D == open \ aged
    <3> DEFINE older == {d \in D : Older(S, d, e)}
    <3>1. e \in D /\ Cardinality(older) < Cardinality(D) - allowed
      BY <2>3 DEF Oldest
    <3>2. e \in Committed(S) \ protected
      BY <3>1
    <3>3. Committed(S) \cap protected = {} /\ D = {e} /\ older \subseteq {e}
      BY <1>1, <3>1, <3>2 DEF Committed
    <3>4. guarded = 0
      BY <3>3, FS_EmptySet
    <3> HIDE DEF guarded
    <3>5. allowed = MaxCommitted
      BY <3>4
    <3>6. IsFiniteSet({e}) /\ Cardinality({e}) = 1
      BY FS_Singleton
    <3>7. Cardinality(older) \in Nat
      BY <3>3, <3>6, FS_Subset, FS_CardinalityType
    <3> HIDE DEF allowed, D, older
    <3> QED
      BY <3>1, <3>3, <3>5, <3>6, <3>7
  <2> QED
    BY <2>1, <2>2, <2>3
<1> QED
  BY <1>3, <1>4 DEF Removed

-----------------------------------------------------------------------------
(* Steps of the store.  T holds the task that moves, if one does.          *)

\* Sessions only grow, a new one has a new id, and one that goes was purged or
\* has expired.
Aged(e) == IF sessions[e].committed THEN clock >= CommittedTtl ELSE clock >= UploadTtl
Grows(T, e) ==
  /\ sessions'[e].key = sessions[e].key
  /\ sessions[e].received \subseteq sessions'[e].received
  /\ \A c \in sessions'[e].received \ sessions[e].received :
       \E t \in T : task[t].pc = "written" /\ task[t].deploy = e /\ task[t].chunk = c
  /\ sessions[e].committed => sessions'[e].committed
  /\ sessions'[e].committed =>
       sessions[e].committed \/ \E t \in T : task[t].pc = "digest good" /\ task[t].deploy = e
  /\ sessions'[e].commit_in_progress =>
       \/ sessions[e].commit_in_progress
       \/ Complete(sessions[e]) /\ \E t \in T : task'[t].pc = "digesting" /\ task'[t].deploy = e
Opens(e) ==
  /\ e \notin opened /\ e \in files'
  /\ sessions'[e].key = TheKey /\ sessions'[e].received = {}
  /\ ~sessions'[e].committed /\ ~sessions'[e].commit_in_progress
Evolves(T) ==
  /\ \A e \in DOMAIN sessions' \cap DOMAIN sessions : Grows(T, e)
  /\ \A e \in DOMAIN sessions' \ DOMAIN sessions : Opens(e)
  /\ \A e \in DOMAIN sessions \ DOMAIN sessions' : e \in purged' \/ Aged(e)
  /\ opened \subseteq opened' /\ opened' \subseteq opened \cup DOMAIN sessions'
  /\ purged \subseteq purged'
  /\ clock' \in Nat /\ clock <= clock'

\* Files that matter stay, with what is good in them.
FilesGrow ==
  /\ \A e \in DOMAIN sessions : e \in files => e \in files'
  /\ \A u \in Tasks : task[u].pc = "inserting" /\ task[u].deploy \in files
       => task[u].deploy \in files'
  /\ \A e \in DOMAIN sessions : \A c \in Chunks :
       content[e][c] = "good" => content'[e][c] = "good"
  /\ \A w \in detached' : w.data = "good"

\* The task that moves.
Fine(t) ==
  /\ task'[t].pc \in NewPC => task'[t].key = TheKey
  /\ task'[t].now <= clock'
  /\ GoodTask(t)'

\* A step that shows these keeps what the client relies on.
LEMMA StoreKept ==
  ASSUME Inv, Inv', StoreInv, NEW T \in SUBSET Tasks,
         \A u \in Tasks \ T : task'[u] = task[u],
         Evolves(T), FilesGrow, \A t \in T : Fine(t)
  PROVE  StoreInv'
<1>0. /\ DOMAIN sessions \subseteq opened /\ clock \in Nat /\ clock' \in Nat
      /\ purged \subseteq opened
  BY DEF Inv, Ids, TypeOK
<1>1. OneKey'
  <2>1. ASSUME NEW d \in DOMAIN sessions' PROVE sessions'[d].key = TheKey
    <3>1. CASE d \in DOMAIN sessions
      <4>1. sessions[d].key = TheKey
        BY <3>1 DEF StoreInv, OneKey
      <4>2. Grows(T, d)
        BY <2>1, <3>1 DEF Evolves
      <4> QED
        BY <4>1, <4>2 DEF Grows
    <3>2. CASE d \notin DOMAIN sessions
      BY <2>1, <3>2 DEF Evolves, Opens
    <3> QED
      BY <3>1, <3>2
  <2>2. ASSUME NEW t \in Tasks, task'[t].pc \in NewPC PROVE task'[t].key = TheKey
    BY <2>2 DEF StoreInv, OneKey, Fine
  <2> QED
    BY <2>1, <2>2 DEF OneKey
<1>2. Times'
  <2>1. ASSUME NEW u \in Tasks PROVE task'[u].now <= clock'
    <3>1. CASE u \in T
      BY <3>1 DEF Fine
    <3>2. CASE u \notin T
      <4>1. task'[u].now = task[u].now /\ task[u].now <= clock /\ task[u].now \in Nat
        BY <3>2 DEF StoreInv, Times, Inv, TypeOK, Task
      <4>2. PICK n \in Nat : n = task[u].now
        BY <4>1
      <4> QED
        BY <1>0, <4>1, <4>2 DEF Evolves
    <3> QED
      BY <3>1, <3>2
  <2> QED
    BY <2>1 DEF Times
<1>3. ASSUME NEW d \in DOMAIN sessions' PROVE GoodSession(d)'
  <2>1. CASE d \notin DOMAIN sessions
    <3>1. Opens(d)
      BY <1>3, <2>1 DEF Evolves
    <3> QED
      BY <3>1 DEF Opens, GoodSession
  <2>2. CASE d \in DOMAIN sessions
    <3>1. Grows(T, d) /\ GoodSession(d)
      BY <1>3, <2>2 DEF Evolves, StoreInv, GoodData
    <3>2. d \in files'
      BY <2>2, <3>1 DEF GoodSession, FilesGrow
    <3>3. /\ sessions'[d].received \subseteq Chunks /\ sessions[d].received \subseteq Chunks
      BY <1>3, <2>2 DEF Inv, TypeOK, UploadSession
    <3>4. ASSUME NEW c \in sessions'[d].received PROVE content'[d][c] = "good"
      <4>1. content[d][c] = "good"
        <5>1. CASE c \in sessions[d].received
          BY <3>1, <5>1 DEF GoodSession
        <5>2. CASE c \notin sessions[d].received
          <6>1. PICK t \in T : task[t].pc = "written" /\ task[t].deploy = d /\ task[t].chunk = c
            BY <3>1, <3>4, <5>2 DEF Grows
          <6>2. GoodTask(t)
            BY DEF StoreInv, GoodData
          <6> QED
            BY <2>2, <6>1, <6>2 DEF GoodTask
        <5> QED
          BY <5>1, <5>2
      <4> QED
        BY <2>2, <3>3, <3>4, <4>1 DEF FilesGrow
    <3>5. ASSUME sessions'[d].committed \/ sessions'[d].commit_in_progress
          PROVE  Complete(sessions'[d])
      <4>1. Complete(sessions[d])
        <5>1. ASSUME NEW t \in T, task[t].pc = "digest good", task[t].deploy = d
              PROVE  sessions[d].commit_in_progress
          BY <2>2, <5>1 DEF Inv, Work, DigestPC
        <5> QED
          BY <3>1, <3>5, <5>1 DEF Grows, GoodSession
      <4>2. sessions[d].received \subseteq sessions'[d].received
        BY <3>1 DEF Grows
      <4> QED
        BY <3>3, <4>1, <4>2, ZenonT(30) DEF Complete
    <3> QED
      BY <3>2, <3>4, <3>5 DEF GoodSession
  <2> QED
    BY <2>1, <2>2
<1>4. ASSUME NEW u \in Tasks PROVE GoodTask(u)'
  <2>1. CASE u \in T
    BY <2>1 DEF Fine
  <2>2. CASE u \notin T
    <3>1. task'[u] = task[u] /\ GoodTask(u)
      BY <2>2 DEF StoreInv, GoodData
    <3>2. PICK d \in Deploys \cup {NoDeploy} : d = task[u].deploy
      BY DEF Inv, TypeOK, Task
    <3>3. ASSUME task[u].pc = "written", d \in DOMAIN sessions'
          PROVE  content'[d][task[u].chunk] = "good"
      <4>1. d \in DOMAIN sessions \cup purged /\ task[u].chunk \in Chunks
        BY <3>2, <3>3 DEF Inv, Work, WritePC, LabelsOK, TaskOK
      <4>2. d \in DOMAIN sessions
        BY <1>0, <3>3, <4>1 DEF Evolves, Opens
      <4>3. content[d][task[u].chunk] = "good"
        BY <3>1, <3>2, <3>3, <4>2 DEF GoodTask
      <4> QED
        BY <4>1, <4>2, <4>3 DEF FilesGrow
    <3>4. ASSUME task[u].pc = "inserting" PROVE d \in files'
      BY <3>1, <3>2, <3>4 DEF GoodTask, FilesGrow
    <3>5. task[u].pc \in WritePC => task[u].data = "good"
      BY <3>1 DEF GoodTask
    <3> QED
      BY <3>1, <3>2, <3>3, <3>4, <3>5 DEF GoodTask
  <2> QED
    BY <2>1, <2>2
<1>5. Stays'
  <2>1. ASSUME Early', NEW e \in opened' PROVE e \in DOMAIN sessions' \cup purged'
    <3>1. Early
      BY <1>0, <2>1 DEF Evolves, Early
    <3>2. CASE e \in opened
      <4>1. e \in DOMAIN sessions \cup purged
        BY <3>1, <3>2 DEF StoreInv, Stays
      <4> QED
        BY <1>0, <3>1, <4>1 DEF Evolves, Aged, Early
    <3> QED
      BY <3>2 DEF Evolves
  <2> QED
    BY <2>1 DEF Stays
<1>6. \A w \in detached' : w.data = "good"
  BY DEF FilesGrow
<1> QED
  BY <1>1, <1>2, <1>3, <1>4, <1>5, <1>6 DEF StoreInv, GoodData

\* A step of a handler leaves its task with the same operation, or ends it ...
KeepsKind(t) ==
  /\ task'[t].pc \in NewPC => task[t].pc \in NewPC
  /\ task'[t].pc \in WritePC =>
       /\ task[t].pc \in WritePC
       /\ task'[t].deploy = task[t].deploy /\ task'[t].chunk = task[t].chunk
  /\ task'[t].pc \in DigestPC => task[t].pc \in DigestPC /\ task'[t].deploy = task[t].deploy
  /\ task'[t].pc \in LookupPC \/ Bound(t)' =>
       (task[t].pc \in LookupPC \/ Bound(t)) /\ task'[t].deploy = task[t].deploy

\* ... and does what its answer says.
Outcome(t) ==
  /\ task[t].pc = "inserting" => TheKey \in DOMAIN idempotency'
  /\ task[t].pc = "written" /\ task[t].deploy \in DOMAIN sessions =>
       /\ task[t].deploy \in DOMAIN sessions'
       /\ task[t].chunk \in sessions'[task[t].deploy].received
  /\ task[t].pc = "digest good" /\ task[t].deploy \in DOMAIN sessions =>
       /\ task[t].deploy \in DOMAIN sessions'
       /\ sessions'[task[t].deploy].committed
  /\ task[t].pc \in {"naming", "locating"} /\ task'[t].pc = "purging" =>
       task[t].deploy \notin Committed(sessions)

Sound(t) == Moves(t) /\ Evolves({t}) /\ FilesGrow /\ Fine(t)
Serving(t) == Sound(t) /\ KeepsKind(t) /\ Outcome(t)

\* A step that leaves the files alone.
LEMMA FilesStand ==
  ASSUME StoreInv, UNCHANGED <<files, content, detached>> PROVE FilesGrow
  BY DEF FilesGrow, StoreInv, GoodData

\* What a cleanup at the present time removes has expired.
LEMMA RemovedAged ==
  ASSUME Inv, StoreInv, NEW keep, NEW e \in Removed(sessions, clock, keep)
  PROVE  Aged(e)
<1>1. \A d, f \in DOMAIN sessions : d = f
  BY OneSession DEF StoreInv
<1>2. clock \in Nat /\ sessions \in [DOMAIN sessions -> UploadSession]
  BY DEF Inv, TypeOK
<1> QED
  BY <1>1, <1>2, RemovedIsOld DEF Aged

\* A cleanup, and at most a new time for a session.
LEMMA TouchedEvolves ==
  ASSUME Inv, NEW T, NEW R, Touched(R), \A e \in R : e \in purged' \/ Aged(e),
         UNCHANGED <<opened, clock>>, purged \subseteq purged'
  PROVE  Evolves(T)
<1>1. clock \in Nat
  BY DEF Inv, TypeOK
<1>2. ASSUME NEW e \in DOMAIN sessions' PROVE Grows(T, e)
  BY <1>2 DEF Touched, Grows
<1>3. DOMAIN sessions' = DOMAIN sessions \ R
  BY DEF Touched
<1> QED
  BY <1>1, <1>2, <1>3 DEF Evolves

\* A cleanup, and one session that is changed.
LEMMA PutEvolves ==
  ASSUME Inv, NEW T, NEW R, NEW S, Left(S, R), \A e \in R : Aged(e), NEW d \in DOMAIN S,
         DOMAIN sessions' = DOMAIN S, \A e \in DOMAIN S \ {d} : sessions'[e] = S[e],
         Grows(T, d), UNCHANGED <<opened, purged, clock>>
  PROVE  Evolves(T)
<1>1. clock \in Nat
  BY DEF Inv, TypeOK
<1>2. DOMAIN S = DOMAIN sessions \ R /\ \A e \in DOMAIN S : S[e] = sessions[e]
  BY DEF Left
<1>3. ASSUME NEW e \in DOMAIN S \ {d} PROVE Grows(T, e)
  BY <1>2, <1>3 DEF Grows
<1> QED
  BY <1>1, <1>2, <1>3 DEF Evolves

\* The maps stand still.
LEMMA StillEvolves ==
  ASSUME Inv, NEW T, UNCHANGED <<sessions, opened, purged, clock>>
  PROVE  Evolves(T)
<1>1. clock \in Nat
  BY DEF Inv, TypeOK
<1>2. \A e : Grows(T, e)
  BY DEF Grows
<1> QED
  BY <1>1, <1>2 DEF Evolves

\* A task that makes no session and writes nothing.
LEMMA IdleFine ==
  ASSUME NEW t, task'[t].pc \notin NewPC \cup WritePC, task'[t].now = 0, clock' \in Nat
  PROVE  Fine(t)
<1>1. /\ task'[t].pc \notin WritePC /\ task'[t].pc \notin NewPC
      /\ task'[t].pc # "written" /\ task'[t].pc # "inserting"
  BY DEF WritePC, NewPC
<1>2. task'[t].now <= clock'
  OBVIOUS
<1> QED
  BY <1>1, <1>2 DEF Fine, GoodTask

\* A task that is done, or waits to go on with its deploy.
LEMMA RestFine ==
  ASSUME NEW t \in Tasks, NEW plan, NEW next \in FoundPC \cup {"idle"},
         Rests(t, plan, next), clock' \in Nat,
         next \in FoundPC => task[t].pc \in LookupPC \/ Bound(t)
  PROVE  Moves(t) /\ Fine(t) /\ KeepsKind(t) /\ task'[t].pc # "purging"
<1>1. /\ Moves(t) /\ task'[t].now = 0 /\ task'[t].pc \in {next, "cleaning"}
      /\ task'[t].pc = "cleaning" => task'[t].next = next
      /\ next # "idle" => task'[t].deploy = task[t].deploy
  BY DEF Rests
<1>2. /\ task'[t].pc \notin NewPC \cup WritePC \cup DigestPC \cup {"purging", "naming"}
      /\ task'[t].pc \in LookupPC \/ Bound(t)' => next \in FoundPC
  BY <1>1 DEF NewPC, WritePC, DigestPC, LookupPC, FoundPC, Bound
<1>3. Fine(t)
  BY <1>1, <1>2, IdleFine
<1>4. KeepsKind(t)
  BY <1>1, <1>2 DEF KeepsKind, FoundPC
<1> QED
  BY <1>1, <1>2, <1>3, <1>4

\* The file of a new session.
LEMMA CreateServes ==
  ASSUME Inv, StoreInv, NEW t \in Tasks, CreateFile(t)
  PROVE  Serving(t)
<1>0. /\ task[t].pc = "creating" /\ TypeOK /\ clock' \in Nat /\ clock \in Nat /\ clock' = clock
      /\ UNCHANGED <<sessions, opened, purged, content, detached>>
      /\ files \subseteq files'
  BY DEF CreateFile, Inv, TypeOK
<1>1. Evolves({t}) /\ FilesGrow
  <2>1. Evolves({t})
    BY <1>0, StillEvolves
  <2>2. FilesGrow
    BY <1>0 DEF FilesGrow, StoreInv, GoodData
  <2> QED
    BY <2>1, <2>2
<1>2. Outcome(t)
  BY <1>0 DEF Outcome
<1>3. CASE CleanThen(t, task[t].plan, "idle")
  <2>1. task[t].plan \in SUBSET Deploys
    BY <1>0 DEF TypeOK, Task
  <2>2. Rests(t, task[t].plan, "idle")
    BY <1>0, <1>3, <2>1, CleanThenFields
  <2> QED
    BY <1>0, <1>1, <1>2, <2>2, RestFine DEF Serving, Sound, FoundPC
<1>4. CASE task' = [task EXCEPT ![t].pc = "inserting"] /\ files' = files \cup {task[t].deploy}
  <2>1. GoesOn(t, "inserting")
    BY <1>0, <1>4, GoesOnFields DEF PC
  <2>2. Fine(t)
    <3>1. /\ task'[t].pc = "inserting" /\ task'[t].now = task[t].now
          /\ task'[t].deploy = task[t].deploy /\ task'[t].key = task[t].key
      BY <2>1 DEF GoesOn
    <3>2. task'[t].key = TheKey /\ task'[t].now <= clock'
      BY <1>0, <3>1 DEF StoreInv, OneKey, Times, NewPC
    <3>3. GoodTask(t)'
      <4>1. task'[t].deploy \in files'
        BY <1>4, <3>1
      <4>2. task'[t].pc \notin WritePC /\ task'[t].pc # "written"
        BY <3>1 DEF WritePC
      <4> QED
        BY <4>1, <4>2 DEF GoodTask
    <3> QED
      BY <3>2, <3>3 DEF Fine
  <2>3. KeepsKind(t)
    BY <1>0, <2>1 DEF KeepsKind, GoesOn, Bound, NewPC, WritePC, DigestPC, LookupPC, FoundPC
  <2> QED
    BY <1>1, <1>2, <2>1, <2>2, <2>3 DEF Serving, Sound, GoesOn
<1> QED
  BY <1>3, <1>4 DEF CreateFile

\* apply_cleanup_plan.
LEMMA ApplyServes ==
  ASSUME Inv, StoreInv, NEW t \in Tasks, ApplyCleanupPlan(t)
  PROVE  Serving(t)
<1> DEFINE next == task[t].next
<1>0. /\ task[t].pc = "cleaning" /\ task' = [task EXCEPT ![t] = At(t, next)]
      /\ UNCHANGED <<sessions, opened, purged, clock, detached>>
      /\ files' = files \ task[t].plan
      /\ content' = [d \in Deploys |-> IF d \in task[t].plan THEN Blank ELSE content[d]]
  BY DEF ApplyCleanupPlan
<1>1. next \in FoundPC \cup {"idle"} /\ TypeOK /\ clock' \in Nat
  BY <1>0 DEF Inv, LabelsOK, TaskOK, TypeOK
<1>2. Rests(t, {}, next)
  <2>1. CleanThen(t, {}, next)
    BY <1>0 DEF CleanThen
  <2> QED
    BY <1>1, <2>1, CleanThenFields
<1>3. next \in FoundPC => Bound(t)
  BY <1>0 DEF Bound
<1>4. FilesGrow
  <2>1. ASSUME NEW e \in DOMAIN sessions
        PROVE  e \in Deploys /\ e \notin task[t].plan /\ content'[e] = content[e]
    BY <1>0, <1>1, <2>1 DEF TypeOK, Inv, Plans
  <2>2. \A u \in Tasks : task[u].pc = "inserting" => task[u].deploy \notin task[t].plan
    BY DEF Inv, Plans, NewPC
  <2> QED
    BY <1>0, <2>1, <2>2 DEF FilesGrow, StoreInv, GoodData
<1>5. Evolves({t}) /\ Outcome(t)
  BY <1>0, StillEvolves DEF Outcome
<1> HIDE DEF next
<1> QED
  BY <1>1, <1>2, <1>3, <1>4, <1>5, RestFine DEF Serving, Sound

\* The write, outside the lock: it spoils nothing that is good.
LEMMA WriteServes ==
  ASSUME Inv, StoreInv, NEW t \in Tasks, WriteChunk(t)
  PROVE  Serving(t)
<1>0. /\ task[t].pc = "writing" /\ TypeOK /\ clock' = clock
      /\ UNCHANGED <<sessions, opened, purged, files, detached>>
  BY DEF WriteChunk, Inv
<1>1. /\ task[t].deploy \in Deploys /\ task[t].chunk \in Chunks /\ task[t].data = "good"
  BY <1>0 DEF Inv, LabelsOK, TaskOK, WritePC, StoreInv, GoodData, GoodTask
<1>2. PICK d \in Deploys, c \in Chunks : d = task[t].deploy /\ c = task[t].chunk
  BY <1>1
<1>3. PICK pc \in {"written", "write failed"}, x \in Data :
        /\ task' = [task EXCEPT ![t].pc = pc]
        /\ content' = content \/ (content' = [content EXCEPT ![d][c] = x])
        /\ x = "good" \/ content[d][c] # "good"
        /\ pc = "written" /\ d \in files => content' = [content EXCEPT ![d][c] = "good"]
  <2>1. CASE /\ content' = IF d \in files THEN [content EXCEPT ![d][c] = "good"] ELSE content
             /\ task' = [task EXCEPT ![t].pc = "written"]
    BY <2>1 DEF Data
  <2>2. CASE task' = [task EXCEPT ![t].pc = "write failed"] /\ content' = content
    BY <2>2 DEF Data
  <2> DEFINE torn == IF content[d][c] = "good" THEN "good" ELSE "bad"
  <2>3. CASE /\ task' = [task EXCEPT ![t].pc = "write failed"]
             /\ content' = IF d \in files THEN [content EXCEPT ![d][c] = torn] ELSE content
    <3>1. torn \in Data /\ (torn = "good" \/ content[d][c] # "good")
      BY DEF Data
    <3> HIDE DEF torn
    <3> QED
      BY <2>3, <3>1
  <2> QED
    BY <1>1, <1>2, <2>1, <2>2, <2>3 DEF WriteChunk
<1>4. GoesOn(t, pc)
  BY <1>0, <1>3, GoesOnFields DEF PC
<1>5. FilesGrow
  <2>1. ASSUME NEW e \in DOMAIN sessions, NEW k \in Chunks, content[e][k] = "good"
        PROVE  content'[e][k] = "good"
    <3>1. e \in Deploys
      BY <1>0, <2>1 DEF TypeOK
    <3>2. CASE content' = content
      BY <2>1, <3>2
    <3>3. CASE content' = [content EXCEPT ![d][c] = x]
      <4>1. content'[e][k] = IF e = d /\ k = c THEN x ELSE content[e][k]
        BY <1>0, <3>1, <3>3 DEF TypeOK
      <4> QED
        BY <1>3, <2>1, <4>1
    <3> QED
      BY <1>3, <3>2, <3>3
  <2> QED
    BY <1>0, <2>1 DEF FilesGrow, StoreInv, GoodData
<1>6. GoodTask(t)'
  <2>1. ASSUME pc = "written", d \in DOMAIN sessions PROVE content'[d][c] = "good"
    <3>1. d \in files
      BY <2>1 DEF StoreInv, GoodData, GoodSession
    <3> QED
      BY <1>0, <1>3, <2>1, <3>1 DEF TypeOK
  <2>2. task'[t].pc = pc /\ task'[t].deploy = d /\ task'[t].chunk = c /\ task'[t].data = "good"
    BY <1>1, <1>2, <1>4 DEF GoesOn
  <2> QED
    BY <1>0, <1>3, <2>1, <2>2 DEF GoodTask
<1>7. Fine(t)
  BY <1>0, <1>3, <1>4, <1>6 DEF Fine, GoesOn, NewPC, StoreInv, Times
<1>8. KeepsKind(t) /\ Outcome(t)
  BY <1>0, <1>3, <1>4 DEF KeepsKind, Outcome, GoesOn, Bound, NewPC, WritePC, DigestPC, LookupPC, FoundPC
<1>9. Evolves({t})
  BY <1>0, StillEvolves
<1> QED
  BY <1>4, <1>5, <1>7, <1>8, <1>9 DEF Serving, Sound, GoesOn

\* The digest.
LEMMA DigestServes ==
  ASSUME Inv, StoreInv, NEW t \in Tasks, DigestFile(t)
  PROVE  Serving(t)
<1>0. /\ task[t].pc = "digesting" /\ TypeOK /\ clock' = clock
      /\ UNCHANGED <<sessions, opened, purged, files, content, detached>>
  BY DEF DigestFile, Inv
<1>1. PICK pc \in {"digest good", "digest bad"} : task' = [task EXCEPT ![t].pc = pc]
  BY DEF DigestFile
<1>2. GoesOn(t, pc)
  BY <1>0, <1>1, GoesOnFields DEF PC
<1>3. Fine(t)
  BY <1>0, <1>1, <1>2 DEF Fine, GoesOn, GoodTask, NewPC, WritePC, StoreInv, Times
<1>4. KeepsKind(t) /\ Outcome(t)
  BY <1>0, <1>1, <1>2 DEF KeepsKind, Outcome, GoesOn, Bound, NewPC, WritePC, DigestPC, LookupPC, FoundPC
<1>5. Evolves({t}) /\ FilesGrow
  BY <1>0, StillEvolves, FilesStand
<1> QED
  BY <1>2, <1>3, <1>4, <1>5 DEF Serving, Sound, GoesOn

\* Looking a committed session up: not found means that it was not committed.
LEMMA LookupServes ==
  ASSUME Inv, StoreInv, NEW t \in Tasks, NEW next \in FoundPC, LookupCommitted(t, next),
         task[t].pc \in {"naming", "locating"}
  PROVE  Serving(t)
<1> DEFINE d == task[t].deploy
<1> DEFINE R == Removed(sessions, clock, {d})
<1> DEFINE S == Without(sessions, R)
<1>0. /\ idempotency' = KeysWithout(sessions, R)
      /\ UNCHANGED <<opened, purged, clock, files, content, detached>>
  BY DEF LookupCommitted
<1>1. /\ Cleaned(R) /\ Left(S, R) /\ R \in SUBSET Deploys
      /\ \A e \in R : sessions[e].committed => e \notin {d}
  <2>1. PICK K : K = {d}
    OBVIOUS
  <2>2. idempotency' = KeysWithout(sessions, Removed(sessions, clock, K)) /\ Inv
    BY <1>0, <2>1
  <2>3. LET Q == Removed(sessions, clock, K)
        IN  /\ Cleaned(Q) /\ Left(Without(sessions, Q), Q) /\ Q \in SUBSET Deploys
            /\ \A e \in Q : sessions[e].committed => e \notin K
    BY <2>2, CleanedFacts
  <2> QED
    BY <2>1, <2>3
<1>2. d \in Deploys /\ clock \in Nat /\ clock' \in Nat /\ TypeOK
  BY <1>0 DEF Inv, LabelsOK, TaskOK, LookupPC, TypeOK
<1>3. \A e \in R : Aged(e)
  BY RemovedAged
<1>4. d \in Committed(sessions) => d \in Committed(S)
  <2> HIDE DEF R, S, d
  <2> QED
    BY <1>1 DEF Left, Committed
<1>5. FilesGrow
  BY <1>0, FilesStand
<1>6. CASE d \in Committed(S)
  <2>1. sessions' = [S EXCEPT ![d].updated_at = clock] /\ CleanThen(t, R, next)
    BY <1>6 DEF LookupCommitted
  <2> HIDE DEF R, S
  <2>2. Touched(R)
    BY <1>1, <1>2, <1>6, <2>1, TimeTouched DEF Committed
  <2>3. Rests(t, R, next)
    BY <1>1, <1>2, <2>1, CleanThenFields
  <2>4. Moves(t) /\ Fine(t) /\ KeepsKind(t) /\ task'[t].pc # "purging"
    BY <1>2, <2>3, RestFine DEF LookupPC
  <2>5. Evolves({t})
    BY <1>0, <1>3, <2>2, TouchedEvolves
  <2>6. Outcome(t)
    BY <2>4 DEF Outcome
  <2> QED
    BY <1>5, <2>4, <2>5, <2>6 DEF Serving, Sound
<1>7. CASE d \notin Committed(S)
  <2>1. sessions' = S /\ task' = [task EXCEPT ![t] = At(t, "purging")]
    BY <1>7 DEF LookupCommitted
  <2> DEFINE c == At(t, "purging")
  <2>2. c.pc = "purging" /\ c.deploy = d /\ c.now = 0
    BY DEF At, NoTask
  <2>3. Begins(t, "purging", d, {})
    BY <1>2, <2>1, AtFields DEF At
  <2>4. task'[t] = c
    BY <1>2, <2>1 DEF TypeOK
  <2> HIDE DEF R, S, c
  <2>5. Evolves({t})
    BY <1>0, <1>1, <1>3, <2>1, LeftTouched, TouchedEvolves
  <2>6. Fine(t)
    BY <1>2, <2>2, <2>4, IdleFine DEF NewPC, WritePC
  <2>7. KeepsKind(t)
    BY <2>2, <2>4 DEF KeepsKind, Bound, NewPC, WritePC, DigestPC, LookupPC, FoundPC
  <2>8. Outcome(t)
    BY <1>4, <1>7 DEF Outcome
  <2> QED
    BY <1>5, <2>3, <2>5, <2>6, <2>7, <2>8 DEF Serving, Sound, Begins
<1> QED
  BY <1>6, <1>7

\* A deploy ends.
LEMMA EndServes ==
  ASSUME Inv, StoreInv, NEW t \in Tasks, EndDeploy(t)
  PROVE  Serving(t)
<1>0. /\ UNCHANGED <<sessions, opened, purged, clock, files, content, detached>> /\ TypeOK
      /\ task[t].pc \in {"locating", "staging"}
  BY DEF EndDeploy, Inv
<1>1. Evolves({t}) /\ FilesGrow /\ clock' \in Nat
  BY <1>0, StillEvolves, FilesStand DEF TypeOK
<1>2. CASE Return(t)
  <2>1. Rests(t, {}, "idle")
    BY <1>0, <1>2, ReturnFields
  <2>2. Moves(t) /\ Fine(t) /\ KeepsKind(t) /\ task'[t].pc # "purging"
    BY <1>1, <2>1, RestFine DEF FoundPC
  <2> QED
    BY <1>0, <1>1, <2>2 DEF Serving, Sound, Outcome
<1>3. CASE task[t].pc = "staging" /\ task' = [task EXCEPT ![t] = At(t, "purging")]
  <2> DEFINE d == task[t].deploy
  <2> DEFINE c == At(t, "purging")
  <2>1. c.pc = "purging" /\ c.deploy = d /\ c.now = 0
    BY DEF At, NoTask
  <2>2. d \in Deploys
    BY <1>3 DEF Inv, LabelsOK, TaskOK, LookupPC
  <2>3. Begins(t, "purging", d, {})
    BY <1>0, <1>3, <2>2, AtFields DEF At
  <2>4. task'[t] = c
    BY <1>0, <1>3 DEF TypeOK
  <2> HIDE DEF c
  <2>6. Fine(t)
    BY <1>1, <2>1, <2>4, IdleFine DEF NewPC, WritePC
  <2>7. KeepsKind(t)
    BY <1>0, <2>1, <2>4 DEF KeepsKind, Bound, NewPC, WritePC, DigestPC, LookupPC, FoundPC
  <2>8. Outcome(t)
    BY <1>3 DEF Outcome
  <2> QED
    BY <1>1, <2>3, <2>6, <2>7, <2>8 DEF Serving, Sound, Begins
<1> QED
  BY <1>2, <1>3 DEF EndDeploy

\* purge_deploy_session.
LEMMA PurgeServes ==
  ASSUME Inv, StoreInv, NEW t \in Tasks, Purge(t)
  PROVE  Serving(t)
<1> DEFINE d == task[t].deploy
<1> DEFINE Q == Removed(sessions, clock, {d})
<1> DEFINE R == Q \cup ({d} \cap DOMAIN sessions)
<1>0. /\ sessions' = Without(sessions, R) /\ CleanThen(t, R, "idle")
      /\ purged' = purged \cup ({d} \cap DOMAIN sessions)
      /\ UNCHANGED <<opened, clock, files, content, detached>> /\ task[t].pc = "purging"
  BY DEF Purge
<1>1. Q \subseteq DOMAIN sessions /\ \A e \in Q : Aged(e)
  BY RemovedFacts, RemovedAged
<1>2. /\ R \subseteq DOMAIN sessions /\ purged \subseteq purged'
      /\ \A e \in R : e \in purged' \/ Aged(e)
  BY <1>0, <1>1
<1> HIDE DEF Q, R
<1>3. /\ TypeOK /\ R \in SUBSET Deploys /\ clock' \in Nat
      /\ sessions \in [DOMAIN sessions -> UploadSession]
  BY <1>0, <1>2 DEF Inv, TypeOK
<1>4. Touched(R)
  <2>1. /\ DOMAIN sessions' = DOMAIN sessions \ R
        /\ sessions' \in [DOMAIN sessions' -> UploadSession]
        /\ \A e \in DOMAIN sessions' : sessions'[e] = sessions[e]
    BY <1>0, <1>3 DEF Without
  <2> QED
    BY <2>1 DEF Touched
<1>5. Evolves({t}) /\ FilesGrow
  BY <1>0, <1>2, <1>4, TouchedEvolves, FilesStand
<1>6. Rests(t, R, "idle")
  BY <1>0, <1>3, CleanThenFields
<1>7. Moves(t) /\ Fine(t) /\ KeepsKind(t)
  BY <1>3, <1>6, RestFine DEF FoundPC
<1> QED
  BY <1>0, <1>5, <1>7 DEF Serving, Sound, Outcome

\* The second half of a push.
LEMMA PushFinishServes ==
  ASSUME Inv, StoreInv, NEW t \in Tasks, PushFinish(t)
  PROVE  Serving(t)
<1>0. /\ task[t].pc \in {"written", "write failed"} /\ TypeOK
      /\ UNCHANGED <<opened, purged, clock, files, content, detached>>
  BY DEF PushFinish, Inv
<1>1. /\ task[t].deploy \in Deploys /\ task[t].chunk \in Chunks /\ task[t].now \in Nat
      /\ task[t].plan \in SUBSET Deploys /\ task[t].pc \in WritePC
  BY <1>0 DEF Inv, LabelsOK, TaskOK, WritePC, TypeOK, Task
<1>c. clock' \in Nat
  <2>1. clock \in Nat
    BY DEF Inv, TypeOK
  <2> QED
    BY <1>0, <2>1
<1>2. PICK d \in Deploys : d = task[t].deploy
  BY <1>1
<1>3. PICK plan \in {{}, task[t].plan} : Rests(t, plan, "idle")
  <2>1. Return(t) \/ CleanThen(t, task[t].plan, "idle")
    BY DEF PushFinish
  <2> QED
    BY <1>0, <1>1, <2>1, ReturnFields, CleanThenFields
<1>4. Moves(t) /\ Fine(t) /\ KeepsKind(t) /\ FilesGrow
  BY <1>0, <1>c, <1>3, RestFine, FilesStand DEF FoundPC
<1>5. CASE d \notin DOMAIN sessions
  <2>1. UNCHANGED sessions
    BY <1>2, <1>5 DEF PushFinish
  <2>2. Evolves({t})
    BY <1>0, <2>1, StillEvolves
  <2> QED
    BY <1>0, <1>2, <1>4, <1>5, <2>2 DEF Serving, Sound, Outcome
<1>6. CASE d \in DOMAIN sessions
  <2> DEFINE s == sessions[d]
  <2> DEFINE left == writes_left(s, task[t].pc = "written")
  <2> DEFINE rec == IF task[t].pc = "written"
                    THEN [s EXCEPT !.inflight_writes = left,
                                   !.received = s.received \cup {task[t].chunk},
                                   !.updated_at = task[t].now]
                    ELSE [s EXCEPT !.inflight_writes = left]
  <2>1. sessions' = [sessions EXCEPT ![d] = rec]
    BY <1>2, <1>6 DEF PushFinish
  <2>2. s \in UploadSession
    BY <1>0, <1>6 DEF TypeOK
  <2> HIDE DEF left, s
  <2>3. /\ rec.key = s.key /\ rec.committed = s.committed
        /\ rec.commit_in_progress = s.commit_in_progress
        /\ rec.received = IF task[t].pc = "written" THEN s.received \cup {task[t].chunk}
                                                    ELSE s.received
    BY <2>2 DEF UploadSession
  <2> HIDE DEF rec
  <2>4. /\ DOMAIN sessions' = DOMAIN sessions /\ sessions'[d] = rec
        /\ \A e \in DOMAIN sessions \ {d} : sessions'[e] = sessions[e]
    BY <1>6, <2>1
  <2>5. Grows({t}, d)
    <3>1. /\ sessions'[d].key = sessions[d].key
          /\ sessions'[d].committed = sessions[d].committed
          /\ sessions'[d].commit_in_progress = sessions[d].commit_in_progress
      BY <2>3, <2>4 DEF s
    <3>2. sessions'[d].received
            = IF task[t].pc = "written" THEN sessions[d].received \cup {task[t].chunk}
                                        ELSE sessions[d].received
      BY <2>3, <2>4 DEF s
    <3>3. sessions[d].received \subseteq sessions'[d].received
      BY <3>2
    <3>4. \A c \in sessions'[d].received \ sessions[d].received :
             task[t].pc = "written" /\ task[t].deploy = d /\ task[t].chunk = c
      BY <1>2, <3>2
    <3> QED
      BY <3>1, <3>3, <3>4 DEF Grows
  <2>6. Evolves({t})
    BY <1>0, <1>6, <2>4, <2>5, NothingRemoved, PutEvolves
  <2>7. Outcome(t)
    BY <1>0, <1>2, <1>6, <2>3, <2>4 DEF Outcome
  <2> QED
    BY <1>4, <2>6, <2>7 DEF Serving, Sound
<1> QED
  BY <1>5, <1>6

\* The second half of a commit: its cleanup spares its own session, and there
\* is no other.
LEMMA CommitFinishServes ==
  ASSUME Inv, StoreInv, NEW t \in Tasks, CommitFinish(t)
  PROVE  Serving(t)
<1>0. /\ task[t].pc \in {"digest good", "digest bad"} /\ TypeOK
      /\ UNCHANGED <<opened, purged, clock, files, content, detached>>
  BY DEF CommitFinish, Inv
<1>1. /\ task[t].deploy \in Deploys /\ task[t].now \in Nat
      /\ task[t].plan \in SUBSET Deploys
  BY <1>0 DEF Inv, LabelsOK, TaskOK, DigestPC, TypeOK, Task
<1>c. clock' \in Nat
  <2>1. clock \in Nat
    BY DEF Inv, TypeOK
  <2> QED
    BY <1>0, <2>1
<1>2. PICK d \in Deploys : d = task[t].deploy
  BY <1>1
<1>f. FilesGrow
  BY <1>0, FilesStand
<1>3. CASE d \notin DOMAIN sessions
  <2>1. UNCHANGED sessions /\ Return(t)
    BY <1>2, <1>3 DEF CommitFinish
  <2>2. Rests(t, {}, "idle")
    BY <1>0, <2>1, ReturnFields
  <2>3. Moves(t) /\ Fine(t) /\ KeepsKind(t) /\ task'[t].pc # "purging"
    BY <1>c, <2>2, RestFine DEF FoundPC
  <2>4. Evolves({t})
    BY <1>0, <2>1, StillEvolves
  <2> QED
    BY <1>0, <1>f, <1>2, <1>3, <2>3, <2>4 DEF Serving, Sound, Outcome
<1>4. CASE d \in DOMAIN sessions
  <2> DEFINE s == sessions[d]
  <2> DEFINE good == task[t].pc = "digest good"
  <2> DEFINE rec == [s EXCEPT !.commit_in_progress = FALSE,
                              !.updated_at = task[t].now,
                              !.committed = s.committed \/ good]
  <2> DEFINE S == [sessions EXCEPT ![d] = rec]
  <2> DEFINE R == IF good THEN Removed(S, task[t].now, {d}) ELSE {}
  <2>1. /\ sessions' = Without(S, R)
        /\ good => CleanThen(t, task[t].plan \cup R, "idle")
        /\ ~good => Return(t)
    BY <1>2, <1>4 DEF CommitFinish
  <2>2. s \in UploadSession
    BY <1>0, <1>4 DEF TypeOK
  <2> HIDE DEF s, good
  <2>3. /\ rec.key = s.key /\ ~rec.commit_in_progress /\ rec.received = s.received
        /\ rec.committed = (s.committed \/ good)
    BY <2>2 DEF UploadSession
  <2> HIDE DEF rec
  <2>4. DOMAIN S = DOMAIN sessions /\ S[d] = rec
    BY <1>4
  <2> HIDE DEF S
  <2>5. R = {}
    <3>1. ASSUME NEW e \in R PROVE FALSE
      <4>1. good /\ e \in Removed(S, task[t].now, {d})
        BY <3>1
      <4>2. e \in DOMAIN S /\ (S[e].committed => e \notin {d})
        BY <4>1, RemovedFacts
      <4>3. e = d
        BY <1>4, <2>4, <4>2, OneSession DEF StoreInv
      <4> QED
        BY <2>3, <2>4, <4>1, <4>2, <4>3
    <3> QED
      BY <3>1
  <2> HIDE DEF R
  <2>6. /\ DOMAIN sessions' = {d} /\ DOMAIN sessions = {d} /\ sessions'[d] = rec
    <3>1. DOMAIN sessions = {d}
      BY <1>4, OneSession DEF StoreInv
    <3> QED
      BY <2>1, <2>4, <2>5, <3>1 DEF Without
  <2>7. Grows({t}, d)
    BY <1>2, <2>3, <2>6 DEF Grows, s, good
  <2>8. Evolves({t})
    <3>1. clock <= clock'
      <4>1. clock' = clock
        BY <1>0
      <4> QED
        BY <1>c, <4>1
    <3>2. \A e \in DOMAIN sessions' : e \in DOMAIN sessions /\ Grows({t}, e)
      BY <2>6, <2>7
    <3>3. DOMAIN sessions \ DOMAIN sessions' = {}
      BY <2>6
    <3> QED
      BY <1>0, <1>c, <3>1, <3>2, <3>3 DEF Evolves
  <2>9. PICK plan \in {{}, task[t].plan \cup R} : Rests(t, plan, "idle")
    BY <1>0, <1>1, <2>1, <2>5, ReturnFields, CleanThenFields
  <2>10. Moves(t) /\ Fine(t) /\ KeepsKind(t)
    BY <1>c, <2>9, RestFine DEF FoundPC
  <2>11. Outcome(t)
    BY <1>0, <1>2, <2>3, <2>6 DEF Outcome, good
  <2> QED
    BY <1>f, <2>8, <2>10, <2>11 DEF Serving, Sound
<1> QED
  BY <1>3, <1>4

\* The second half of a prepare: afterwards the key has a session.
LEMMA InsertServes ==
  ASSUME Inv, StoreInv, NEW t \in Tasks, InsertSession(t)
  PROVE  Serving(t)
<1> DEFINE R == Removed(sessions, clock, {})
<1> DEFINE S == Without(sessions, R)
<1> DEFINE I == KeysWithout(sessions, R)
<1> DEFINE d == task[t].deploy
<1> DEFINE k == task[t].key
<1>0. /\ task[t].pc = "inserting" /\ TypeOK /\ clock' \in Nat
      /\ UNCHANGED <<purged, clock, files, content, detached>>
  BY DEF InsertSession, Inv, TypeOK
<1>1. /\ d \in Deploys /\ task[t].plan \in SUBSET Deploys /\ k = TheKey
      /\ d \in files /\ d \notin opened /\ d \notin DOMAIN sessions
  BY <1>0 DEF Inv, LabelsOK, TaskOK, NewPC, TypeOK, Task, Ids, StoreInv, OneKey,
              GoodData, GoodTask
<1>2. R \subseteq DOMAIN sessions /\ \A e \in R : Aged(e)
  BY RemovedFacts, RemovedAged
<1>3. /\ Left(S, R) /\ R \in SUBSET Deploys
  <2>1. /\ sessions \in [DOMAIN sessions -> UploadSession] /\ DOMAIN sessions \subseteq Deploys
    BY <1>0 DEF TypeOK
  <2> QED
    BY <1>2, <2>1 DEF Left, Without
<1>4. k \in DOMAIN I => I[k] \in DOMAIN S
  BY DEF KeysWithout, Without
<1>f. FilesGrow
  BY <1>0, FilesStand
<1>5. CASE key_taken(I, k)
  <2>1. /\ idempotency' = I /\ sessions' = Resume(S, I[k], task[t].print)
        /\ CleanThen(t, task[t].plan \cup R \cup {d}, "idle") /\ UNCHANGED opened
        /\ k \in DOMAIN I
    BY <1>5 DEF InsertSession, key_taken
  <2> HIDE DEF R, S, I
  <2>2. Touched(R)
    BY <1>3, <1>4, <2>1, ResumeTouched
  <2>3. Rests(t, task[t].plan \cup R \cup {d}, "idle")
    BY <1>0, <1>1, <1>3, <2>1, CleanThenFields
  <2>4. Evolves({t})
    BY <1>0, <1>2, <2>1, <2>2, TouchedEvolves
  <2>5. Moves(t) /\ Fine(t) /\ KeepsKind(t)
    BY <1>0, <2>3, RestFine DEF FoundPC
  <2>6. Outcome(t)
    BY <1>0, <1>1, <2>1 DEF Outcome
  <2> QED
    BY <1>f, <2>4, <2>5, <2>6 DEF Serving, Sound
<1>6. CASE ~key_taken(I, k)
  <2>1. /\ k \notin DOMAIN I /\ opened' = opened \cup {d}
        /\ idempotency' = [j \in DOMAIN I \cup {k} |-> IF j = k THEN d ELSE I[j]]
        /\ sessions' = [e \in DOMAIN S \cup {d} |-> IF e = d THEN NewSession(t) ELSE S[e]]
        /\ CleanThen(t, task[t].plan \cup R, "idle")
    BY <1>6 DEF InsertSession, key_taken
  <2> HIDE DEF R, S, I
  <2>2. Rests(t, task[t].plan \cup R, "idle")
    BY <1>0, <1>1, <1>3, <2>1, CleanThenFields
  <2>3. Moves(t) /\ Fine(t) /\ KeepsKind(t)
    BY <1>0, <2>2, RestFine DEF FoundPC
  <2>4. Outcome(t)
    BY <1>0, <1>1, <2>1 DEF Outcome
  <2>5. /\ DOMAIN sessions' = DOMAIN S \cup {d} /\ sessions'[d] = NewSession(t)
        /\ \A e \in DOMAIN S \ {d} : sessions'[e] = S[e]
    BY <2>1
  <2>6. /\ DOMAIN S = DOMAIN sessions \ R /\ \A e \in DOMAIN S : S[e] = sessions[e]
    BY <1>3 DEF Left
  <2>7. Opens(d)
    <3>1. /\ NewSession(t).key = TheKey /\ NewSession(t).received = {}
          /\ ~NewSession(t).committed /\ ~NewSession(t).commit_in_progress
      BY <1>1 DEF NewSession
    <3> QED
      BY <1>0, <1>1, <2>5, <3>1 DEF Opens
  <2>8. ASSUME NEW e \in DOMAIN sessions' \cap DOMAIN sessions PROVE Grows({t}, e)
    <3>1. sessions'[e] = sessions[e]
      BY <1>1, <2>5, <2>6, <2>8
    <3> QED
      BY <3>1 DEF Grows
  <2>9. Evolves({t})
    <3>1. \A e \in DOMAIN sessions' \ DOMAIN sessions : e = d
      BY <2>5, <2>6
    <3>2. \A e \in DOMAIN sessions \ DOMAIN sessions' : Aged(e)
      BY <1>2, <2>5, <2>6
    <3> HIDE DEF d
    <3>3. clock <= clock'
      BY <1>0
    <3> QED
      BY <1>0, <2>1, <2>5, <2>7, <2>8, <3>1, <3>2, <3>3 DEF Evolves
  <2> QED
    BY <1>f, <2>3, <2>4, <2>9 DEF Serving, Sound
<1> QED
  BY <1>5, <1>6

\* One step of a handler.
LEMMA StepServes ==
  ASSUME Inv, StoreInv, NEW t \in Tasks, Step(t)
  PROVE  Serving(t)
<1>1. ServiceNameForDeploy(t) => Serving(t)
  BY LookupServes DEF ServiceNameForDeploy, FoundPC
<1>2. CommittedArtifact(t) => Serving(t)
  BY LookupServes DEF CommittedArtifact, FoundPC
<1> QED
  BY <1>1, <1>2, CreateServes, InsertServes, ApplyServes, WriteServes, PushFinishServes,
     DigestServes, CommitFinishServes, EndServes, PurgeServes DEF Step

\* deploy.prepare of the client's key: the handler makes a session or is done.
LEMMA PrepareSound ==
  ASSUME Inv, StoreInv, NEW t \in Tasks, Prepare(t, TheKey, ThePrint),
         TheKey \in Keys, ThePrint \in Prints
  PROVE  /\ Sound(t) /\ ~Bound(t)'
         /\ task'[t].pc \notin WritePC \cup DigestPC \cup LookupPC
<1> DEFINE R == Removed(sessions, clock, {})
<1> DEFINE S == Without(sessions, R)
<1> DEFINE I == KeysWithout(sessions, R)
<1>0. /\ task[t].pc = "idle" /\ idempotency' = I /\ TypeOK
      /\ UNCHANGED <<opened, purged, clock, files, content, detached>>
  BY DEF Prepare, Inv
<1>1. Cleaned(R) /\ Left(S, R) /\ R \in SUBSET Deploys /\ \A e \in R : Aged(e)
  BY <1>0, CleanedFacts, RemovedAged
<1>2. clock' \in Nat
  <2>1. clock \in Nat /\ clock' = clock
    BY <1>0 DEF TypeOK
  <2> QED
    BY <2>1
<1>f. FilesGrow
  BY <1>0, FilesStand
<1>3. CASE /\ TheKey \in DOMAIN I /\ sessions' = Resume(S, I[TheKey], ThePrint)
           /\ CleanThen(t, R, "idle")
  <2>1. I[TheKey] \in DOMAIN S
    BY <1>3 DEF KeysWithout, Without
  <2> HIDE DEF R, S, I
  <2>2. Touched(R)
    BY <1>1, <1>3, <2>1, ResumeTouched
  <2>3. Rests(t, R, "idle")
    BY <1>0, <1>1, <1>3, CleanThenFields
  <2>4. Evolves({t})
    BY <1>0, <1>1, <2>2, TouchedEvolves
  <2>5. Moves(t) /\ Fine(t)
    BY <1>2, <2>3, RestFine DEF FoundPC
  <2>6. ~Bound(t)' /\ task'[t].pc \notin WritePC \cup DigestPC \cup LookupPC
    BY <2>3 DEF Rests, Bound, FoundPC, WritePC, DigestPC, LookupPC
  <2> QED
    BY <1>f, <2>4, <2>5, <2>6 DEF Sound
<1>4. ASSUME sessions' = S, NEW d \in Deploys \ issued,
             task' = [task EXCEPT ![t] =
                        [NoTask EXCEPT !.pc = "creating", !.deploy = d, !.key = TheKey,
                                       !.print = ThePrint, !.plan = R]]
      PROVE  /\ Sound(t) /\ ~Bound(t)'
             /\ task'[t].pc \notin WritePC \cup DigestPC \cup LookupPC
  <2> HIDE DEF R, S, I
  <2> DEFINE c == [NoTask EXCEPT !.pc = "creating", !.deploy = d, !.key = TheKey,
                                 !.print = ThePrint, !.plan = R]
  <2>0. /\ TheKey \in Keys \cup {None} /\ ThePrint \in Prints \cup {None}
        /\ d \in Deploys \cup {NoDeploy}
    BY <1>4
  <2>1. c \in Task /\ c.pc = "creating" /\ c.key = TheKey /\ c.now = 0
    <3> HIDE DEF TheKey, ThePrint
    <3> QED
      BY <1>1, <2>0 DEF NoTask, Task, PC, Data, None
  <2>2. task' = [task EXCEPT ![t] = c] /\ task \in [Tasks -> Task]
    BY <1>0, <1>4 DEF TypeOK
  <2> HIDE DEF c
  <2>3. Moves(t) /\ task'[t] = c
    BY <2>1, <2>2 DEF Moves
  <2>4. Evolves({t})
    BY <1>0, <1>1, <1>4, LeftTouched, TouchedEvolves
  <2>5. GoodTask(t)'
    <3>1. task'[t].pc = "creating"
      BY <2>1, <2>3
    <3> QED
      BY <3>1 DEF GoodTask, WritePC
  <2>6. Fine(t)
    BY <1>2, <2>1, <2>3, <2>5 DEF Fine
  <2>7. ~Bound(t)' /\ task'[t].pc \notin WritePC \cup DigestPC \cup LookupPC
    BY <2>1, <2>3 DEF Bound, FoundPC, WritePC, DigestPC, LookupPC
  <2> QED
    BY <1>f, <2>3, <2>4, <2>6, <2>7 DEF Sound
<1> QED
  BY <1>3, <1>4 DEF Prepare

\* artifact.push begins.
LEMMA PushStartSound ==
  ASSUME Inv, StoreInv, NEW t \in Tasks, NEW d \in Deploys, NEW c \in Chunks,
         PushStart(t, d, c, "good")
  PROVE  Sound(t) /\ task'[t].pc = "writing" /\ task'[t].deploy = d /\ task'[t].chunk = c
<1> DEFINE R == Removed(sessions, clock, {})
<1> DEFINE S == Without(sessions, R)
<1>0. /\ task[t].pc = "idle" /\ idempotency' = KeysWithout(sessions, R) /\ TypeOK
      /\ d \in DOMAIN S /\ push_allowed(S[d])
      /\ UNCHANGED <<opened, purged, clock, files, content, detached>>
  BY DEF PushStart, Inv
<1>c. clock \in Nat /\ clock' = clock
  BY <1>0 DEF TypeOK
<1>1. Cleaned(R) /\ Left(S, R) /\ R \in SUBSET Deploys /\ \A e \in R : Aged(e)
  BY <1>0, CleanedFacts, RemovedAged
<1> DEFINE rec == [S[d] EXCEPT !.inflight_writes = @ + 1, !.updated_at = clock]
<1> DEFINE k == [NoTask EXCEPT !.pc = "writing", !.deploy = d, !.chunk = c,
                               !.data = "good", !.now = clock, !.plan = R]
<1>2. sessions' = [S EXCEPT ![d] = rec] /\ task' = [task EXCEPT ![t] = k]
  BY DEF PushStart
<1> HIDE DEF R, S
<1>3. S[d] \in UploadSession /\ S[d] = sessions[d] /\ d \in DOMAIN sessions
  BY <1>0, <1>1 DEF Left
<1>4. /\ rec.key = S[d].key /\ rec.committed = S[d].committed
      /\ rec.commit_in_progress = S[d].commit_in_progress /\ rec.received = S[d].received
  BY <1>3 DEF UploadSession
<1>5. /\ k \in Task /\ k.pc = "writing" /\ k.deploy = d /\ k.chunk = c /\ k.data = "good"
      /\ k.now = clock
  BY <1>c, <1>1 DEF NoTask, Task, PC, Data, None
<1> HIDE DEF rec, k
<1>6. Moves(t) /\ task'[t] = k
  BY <1>0, <1>2, <1>5 DEF TypeOK, Moves
<1>7. /\ DOMAIN sessions' = DOMAIN S /\ sessions'[d] = rec
      /\ \A e \in DOMAIN S \ {d} : sessions'[e] = S[e]
  BY <1>0, <1>2
<1>8. Evolves({t})
  <2>1. Grows({t}, d)
    BY <1>3, <1>4, <1>7 DEF Grows
  <2> QED
    BY <1>0, <1>1, <1>7, <2>1, PutEvolves
<1>9. Fine(t)
  <2>1. task'[t].now <= clock' /\ task'[t].pc \notin NewPC
    BY <1>c, <1>5, <1>6 DEF NewPC
  <2>2. task'[t].pc = "writing" /\ task'[t].data = "good"
    BY <1>5, <1>6
  <2>3. GoodTask(t)'
    BY <2>2 DEF GoodTask
  <2> QED
    BY <2>1, <2>3 DEF Fine
<1>10. FilesGrow
  BY <1>0, FilesStand
<1> QED
  BY <1>5, <1>6, <1>8, <1>9, <1>10 DEF Sound

\* artifact.commit begins.
LEMMA CommitStartSound ==
  ASSUME Inv, StoreInv, NEW t \in Tasks, NEW d \in Deploys, CommitStart(t, d)
  PROVE  Sound(t) /\ task'[t].pc = "digesting" /\ task'[t].deploy = d
<1> DEFINE R == Removed(sessions, clock, {})
<1> DEFINE S == Without(sessions, R)
<1>0. /\ task[t].pc = "idle" /\ idempotency' = KeysWithout(sessions, R) /\ TypeOK
      /\ d \in DOMAIN S /\ commit_allowed(S[d])
      /\ UNCHANGED <<opened, purged, clock, files, content, detached>>
  BY DEF CommitStart, Inv
<1>c. clock \in Nat /\ clock' = clock
  BY <1>0 DEF TypeOK
<1>1. Cleaned(R) /\ Left(S, R) /\ R \in SUBSET Deploys /\ \A e \in R : Aged(e)
  BY <1>0, CleanedFacts, RemovedAged
<1> DEFINE rec == [S[d] EXCEPT !.commit_in_progress = TRUE, !.updated_at = clock]
<1> DEFINE k == [NoTask EXCEPT !.pc = "digesting", !.deploy = d, !.now = clock, !.plan = R]
<1>2. sessions' = [S EXCEPT ![d] = rec] /\ task' = [task EXCEPT ![t] = k]
  BY DEF CommitStart
<1> HIDE DEF R, S
<1>3. S[d] \in UploadSession /\ S[d] = sessions[d] /\ d \in DOMAIN sessions
  BY <1>0, <1>1 DEF Left
<1>4. /\ rec.key = S[d].key /\ rec.committed = S[d].committed /\ rec.received = S[d].received
  BY <1>3 DEF UploadSession
<1>5. k \in Task /\ k.pc = "digesting" /\ k.deploy = d /\ k.now = clock
  BY <1>c, <1>1 DEF NoTask, Task, PC, Data, None
<1> HIDE DEF rec, k
<1>6. Moves(t) /\ task'[t] = k
  BY <1>0, <1>2, <1>5 DEF TypeOK, Moves
<1>7. /\ DOMAIN sessions' = DOMAIN S /\ sessions'[d] = rec
      /\ \A e \in DOMAIN S \ {d} : sessions'[e] = S[e]
  BY <1>0, <1>2
<1>8. Evolves({t})
  <2>1. Complete(sessions[d]) /\ task'[t].pc = "digesting" /\ task'[t].deploy = d
    BY <1>0, <1>3, <1>5, <1>6 DEF commit_allowed
  <2>2. Grows({t}, d)
    BY <1>3, <1>4, <1>7, <2>1 DEF Grows
  <2> QED
    BY <1>0, <1>1, <1>7, <2>2, PutEvolves
<1>9. Fine(t)
  <2>1. task'[t].now <= clock' /\ task'[t].pc \notin NewPC
    BY <1>c, <1>5, <1>6 DEF NewPC
  <2>2. task'[t].pc = "digesting"
    BY <1>5, <1>6
  <2>3. GoodTask(t)'
    BY <2>2 DEF GoodTask, WritePC
  <2> QED
    BY <2>1, <2>3 DEF Fine
<1>10. FilesGrow
  BY <1>0, FilesStand
<1> QED
  BY <1>5, <1>6, <1>8, <1>9, <1>10 DEF Sound

\* command.start deploy begins.
LEMMA DeploySound ==
  ASSUME Inv, StoreInv, NEW t \in Tasks, NEW d \in Deploys, Deploy(t, d)
  PROVE  Sound(t) /\ task'[t].pc = "naming" /\ task'[t].deploy = d
<1> DEFINE k == [NoTask EXCEPT !.pc = "naming", !.deploy = d]
<1>0. /\ task' = [task EXCEPT ![t] = k] /\ TypeOK
      /\ UNCHANGED <<sessions, opened, purged, clock, files, content, detached>>
  BY DEF Deploy, Inv
<1>1. clock' \in Nat
  BY <1>0 DEF TypeOK
<1>2. Begins(t, "naming", d, {})
  BY <1>0, AtFields
<1>3. k.now = 0
  BY DEF NoTask
<1> HIDE DEF k
<1>4. task'[t] = k
  BY <1>0 DEF TypeOK
<1>5. Fine(t)
  BY <1>1, <1>2, <1>3, <1>4, IdleFine DEF Begins, NewPC, WritePC
<1>6. Evolves({t}) /\ FilesGrow
  BY <1>0, StillEvolves, FilesStand
<1> QED
  BY <1>2, <1>5, <1>6 DEF Sound, Begins

\* A handler is dropped.
LEMMA AbortSound ==
  ASSUME Inv, StoreInv, NEW t \in Tasks, Abort(t)
  PROVE  Sound(t) /\ task'[t].pc = "idle"
<1>0. /\ Return(t) /\ TypeOK /\ UNCHANGED <<sessions, opened, purged, clock, content>>
      /\ files \subseteq files'
  BY DEF Abort, sessions_after_drop, Inv
<1>1. clock' \in Nat
  BY <1>0 DEF TypeOK
<1>2. Rests(t, {}, "idle") /\ task'[t] = NoTask
  BY <1>0, ReturnFields
<1>3. Moves(t) /\ Fine(t)
  BY <1>1, <1>2, RestFine DEF FoundPC
<1>4. \A w \in detached' : w.data = "good"
  <2>1. task[t].pc = "writing" => task[t].data = "good"
    BY DEF StoreInv, GoodData, GoodTask, WritePC
  <2>2. \A w \in detached : w.data = "good"
    BY DEF StoreInv, GoodData
  <2>3. CASE task[t].pc = "writing"
    <3> DEFINE v == [deploy |-> task[t].deploy, chunk |-> task[t].chunk, data |-> task[t].data]
    <3>1. detached' = detached \cup {v} /\ v.data = "good"
      BY <2>1, <2>3 DEF Abort
    <3> HIDE DEF v
    <3> QED
      BY <2>2, <3>1
  <2>4. CASE task[t].pc # "writing"
    BY <2>2, <2>4 DEF Abort
  <2> QED
    BY <2>3, <2>4
<1>5. FilesGrow
  BY <1>0, <1>4 DEF FilesGrow
<1>6. Evolves({t})
  BY <1>0, StillEvolves
<1> QED
  BY <1>2, <1>3, <1>5, <1>6 DEF Sound, NoTask

\* The steps of the store in which no handler moves.
Still == UNCHANGED task /\ Evolves({}) /\ FilesGrow

\* A refused request, a write whose task was dropped, the clock.
LEMMA StillSound ==
  ASSUME Inv, StoreInv, Refuse \/ (\E w \in detached : DetachedWrite(w)) \/ Tick
  PROVE  Still
<1>1. CASE Refuse
  <2> DEFINE R == Removed(sessions, clock, {})
  <2>1. /\ Left(Without(sessions, R), R) /\ sessions' = Without(sessions, R)
        /\ \A e \in R : Aged(e)
        /\ UNCHANGED <<task, opened, purged, clock, files, content, detached>>
    BY <1>1, CleanedFacts, RemovedAged DEF Refuse
  <2> HIDE DEF R
  <2>2. Evolves({}) /\ FilesGrow
    BY <2>1, LeftTouched, TouchedEvolves, FilesStand
  <2> QED
    BY <2>1, <2>2 DEF Still
<1>2. ASSUME NEW w \in detached, DetachedWrite(w) PROVE Still
  <2>1. /\ UNCHANGED <<task, sessions, opened, purged, clock, files>>
        /\ detached' \subseteq detached
    BY <1>2 DEF DetachedWrite
  <2>2. w.data = "good" /\ w.deploy \in Deploys /\ w.chunk \in Chunks
    BY DEF StoreInv, GoodData, Inv, TypeOK
  <2>3. PICK d \in Deploys, c \in Chunks : d = w.deploy /\ c = w.chunk
    BY <2>2
  <2>4. content' = content \/ content' = [content EXCEPT ![d][c] = "good"]
    BY <1>2, <2>2, <2>3 DEF DetachedWrite
  <2>5. ASSUME NEW e \in DOMAIN sessions, NEW k \in Chunks, content[e][k] = "good"
        PROVE  content'[e][k] = "good"
    <3>1. e \in Deploys /\ content \in [Deploys -> [Chunks -> Data]]
      BY <2>5 DEF Inv, TypeOK
    <3>2. CASE content' = [content EXCEPT ![d][c] = "good"]
      <4>1. content'[e][k] = IF e = d /\ k = c THEN "good" ELSE content[e][k]
        BY <3>1, <3>2
      <4> QED
        BY <2>5, <4>1
    <3> QED
      BY <2>4, <2>5, <3>2
  <2>6. FilesGrow
    BY <2>1, <2>5 DEF FilesGrow, StoreInv, GoodData
  <2>7. Evolves({})
    BY <2>1, StillEvolves
  <2> QED
    BY <2>1, <2>6, <2>7 DEF Still
<1>3. CASE Tick
  <2>1. /\ UNCHANGED <<task, sessions, opened, purged, files, content, detached>>
        /\ clock' = clock + 1
    BY <1>3 DEF Tick
  <2>2. clock \in Nat
    BY DEF Inv, TypeOK
  <2>3. \A e : Grows({}, e)
    BY <2>1 DEF Grows
  <2>4. clock' \in Nat /\ clock <= clock'
    BY <2>1, <2>2
  <2>5. Evolves({})
    BY <2>1, <2>3, <2>4 DEF Evolves
  <2> QED
    BY <2>1, <2>5, FilesStand DEF Still
<1> QED
  BY <1>1, <1>2, <1>3

-----------------------------------------------------------------------------
(* The calls.                                                              *)

\* A call that the server has, or may get.
Live == {"sent", "running"}

\* A handler works on its call.
Serves(t) ==
  /\ call[t].at # "running" => task[t].pc = "idle"
  /\ task[t].pc \in NewPC => call[t].kind = "prepare"
  /\ task[t].pc \in WritePC =>
       /\ call[t].kind = "push"
       /\ call[t].deploy = task[t].deploy /\ call[t].chunk = task[t].chunk
  /\ task[t].pc \in DigestPC => call[t].kind = "commit" /\ call[t].deploy = task[t].deploy
  /\ task[t].pc \in LookupPC \/ Bound(t) =>
       call[t].kind = "deploy" /\ call[t].deploy = task[t].deploy

\* What the client may learn of a session, each of it for good: a chunk is
\* there, all are, it is committed (and stays until it expires).
Has(d, c) == d \in opened /\ (d \in DOMAIN sessions => c \in sessions[d].received)
Full(d) == d \in opened /\ \A c \in Chunks : Has(d, c)
Uploaded(d) ==
  /\ d \in opened
  /\ d \in DOMAIN sessions => sessions[d].committed
  /\ clock < CommittedTtl => d \in DOMAIN sessions \cup purged

\* Nobody has asked for a commit of this session.
Fresh(d) ==
  /\ d \in DOMAIN sessions => ~sessions[d].committed /\ ~sessions[d].commit_in_progress
  /\ \A t \in Tasks : call[t].at \in Live /\ call[t].kind = "commit" => call[t].deploy # d

\* What a live call says by being there, and by its answer.
Tells(c) ==
  /\ c.kind \in Phases
  /\ c.kind = "prepare" /\ c.code = "ok" =>
       c.deploy \in opened /\ \A x \in Chunks \ c.missing : Has(c.deploy, x)
  /\ c.kind = "push" =>
       c.deploy \in opened /\ c.chunk \in Chunks /\ (c.code = "ok" => Has(c.deploy, c.chunk))
  /\ c.kind = "commit" => Full(c.deploy) /\ (c.code = "ok" => Uploaded(c.deploy))
  /\ c.kind = "deploy" => Uploaded(c.deploy)

\* Errors have causes.
Expired == ~Early \/ purged # {}
Broken == faults > 0 \/ purged # {}
CodeOK(code) ==
  /\ code \notin {"ArtifactIncomplete", "BadRequest", "BadManifest"}
  /\ code = "NotFound" => Expired
  /\ code = "Internal" => Broken

CallOK(t) ==
  /\ Serves(t)
  /\ \A c \in {call[t]} : (c.at \in Live => Tells(c)) /\ CodeOK(c.code)
  /\ task[t].pc = "write failed" => faults > 0
  /\ task[t].pc = "digest bad" => Broken

\* The client awaits the answer to the request of its phase ...
Awaits ==
  client.call # NoHandler =>
    \A c \in {call[client.call]} :
      /\ client.pc \in Phases /\ c.at # "free" /\ c.kind = client.pc
      /\ c.at \in Live /\ c.kind # "prepare" => c.deploy = client.deploy
      /\ c.at \in Live /\ c.kind = "prepare" /\ c.code = "ok" /\ c.missing # {} => Fresh(c.deploy)

\* ... and what it has reached is so.
Knows ==
  \A d \in {client.deploy} :
    /\ client.pc = "push" =>
         d \in opened /\ Fresh(d) /\ \A x \in Chunks \ client.plan : Has(d, x)
    /\ client.pc = "commit" => Full(d)
    /\ client.pc = "deploy" => Uploaded(d)

ClientOK == Awaits /\ Knows /\ CodeOK(client.reason)

ClientTypeOK == client \in Client /\ call \in [Tasks -> Call] /\ faults \in 0..MaxFaults

UploadInv ==
  ClientTypeOK /\ Inv /\ StoreInv /\ (\A t \in Tasks : CallOK(t)) /\ ClientOK

-----------------------------------------------------------------------------
(* What is learnt stays true.                                              *)

\* A chunk that was received ...
LEMMA HasStays ==
  ASSUME Inv, NEW T, Evolves(T), NEW d, NEW c, Has(d, c) PROVE Has(d, c)'
<1>1. d \in opened' /\ (d \in DOMAIN sessions => c \in sessions[d].received)
  BY DEF Has, Evolves
<1>2. ASSUME d \in DOMAIN sessions' PROVE c \in sessions'[d].received
  <2>1. d \in DOMAIN sessions
    BY <1>2 DEF Has, Evolves, Opens
  <2>2. Grows(T, d)
    BY <1>2, <2>1 DEF Evolves
  <2> QED
    BY <1>1, <2>1, <2>2 DEF Grows
<1> QED
  BY <1>1, <1>2 DEF Has

\* ... all of them ...
LEMMA FullStays ==
  ASSUME Inv, NEW T, Evolves(T), NEW d, Full(d) PROVE Full(d)'
<1>1. d \in opened'
  BY DEF Full, Evolves
<1>2. \A c \in Chunks : Has(d, c)'
  BY HasStays DEF Full
<1> QED
  BY <1>1, <1>2 DEF Full

\* ... a session that was committed.
LEMMA UploadedStays ==
  ASSUME Inv, NEW T, Evolves(T), NEW d, Uploaded(d) PROVE Uploaded(d)'
<1>0. d \in opened /\ d \in opened' /\ clock \in Nat /\ clock' \in Nat /\ clock <= clock'
  BY DEF Uploaded, Evolves, Inv, TypeOK
<1>1. ASSUME d \in DOMAIN sessions' PROVE sessions'[d].committed
  <2>1. d \in DOMAIN sessions
    BY <1>0, <1>1 DEF Evolves, Opens
  <2>2. Grows(T, d)
    BY <1>1, <2>1 DEF Evolves
  <2> QED
    BY <2>1, <2>2 DEF Grows, Uploaded
<1>2. ASSUME clock' < CommittedTtl PROVE d \in DOMAIN sessions' \cup purged'
  <2>1. clock < CommittedTtl
    BY <1>0, <1>2
  <2>2. d \in DOMAIN sessions \cup purged /\ (d \in DOMAIN sessions => sessions[d].committed)
    BY <2>1 DEF Uploaded
  <2>3. ASSUME d \in DOMAIN sessions, Aged(d) PROVE FALSE
    BY <1>0, <2>1, <2>2, <2>3 DEF Aged
  <2> QED
    BY <2>2, <2>3 DEF Evolves
<1> QED
  BY <1>0, <1>1, <1>2 DEF Uploaded

\* So a call goes on telling the truth, however long it is under way.
LEMMA TellsStays ==
  ASSUME Inv, NEW T, Evolves(T), NEW c, Tells(c) PROVE Tells(c)'
<1>1. c.kind = "prepare" /\ c.code = "ok" =>
        c.deploy \in opened' /\ \A x \in Chunks \ c.missing : Has(c.deploy, x)'
  BY HasStays DEF Tells, Evolves
<1>2. c.kind = "push" =>
        c.deploy \in opened' /\ c.chunk \in Chunks /\ (c.code = "ok" => Has(c.deploy, c.chunk)')
  BY HasStays DEF Tells, Evolves
<1>3. c.kind = "commit" => Full(c.deploy)' /\ (c.code = "ok" => Uploaded(c.deploy)')
  BY FullStays, UploadedStays DEF Tells
<1>4. c.kind = "deploy" => Uploaded(c.deploy)'
  BY UploadedStays DEF Tells
<1>5. c.kind \in Phases
  BY DEF Tells
<1> QED
  BY <1>1, <1>2, <1>3, <1>4, <1>5 DEF Tells

\* Causes remain.
LEMMA CausesStay ==
  ASSUME Inv, NEW T, Evolves(T), faults \in Nat, faults' \in Nat, faults <= faults'
  PROVE  /\ (Expired => Expired') /\ (Broken => Broken')
         /\ \A code : CodeOK(code) => CodeOK(code)'
<1>0. clock \in Nat /\ clock' \in Nat /\ clock <= clock' /\ purged \subseteq purged'
  BY DEF Inv, TypeOK, Evolves
<1>1. Expired => Expired'
  BY <1>0 DEF Expired, Early
<1>2. Broken => Broken'
  BY <1>0 DEF Broken
<1> QED
  BY <1>1, <1>2 DEF CodeOK

\* A step of handler t begins no commit that was not asked for.
OldCommit(t) ==
  call'[t].at \in Live /\ call'[t].kind = "commit" =>
    call[t].at \in Live /\ call[t].kind = "commit" /\ call[t].deploy = call'[t].deploy

\* A session that nobody has asked to commit stays so.
LEMMA FreshStays ==
  ASSUME Inv, NEW t, NEW T \in SUBSET (Tasks \cap {t}), Evolves(T),
         \A u \in Tasks \ {t} : call'[u] = call[u],
         t \in Tasks => Serves(t) /\ Serves(t)' /\ OldCommit(t), NEW d, Fresh(d)
  PROVE  Fresh(d)'
<1>1. ASSUME d \in DOMAIN sessions'
      PROVE  ~sessions'[d].committed /\ ~sessions'[d].commit_in_progress
  <2>1. CASE d \notin DOMAIN sessions
    BY <1>1, <2>1 DEF Evolves, Opens
  <2>2. CASE d \in DOMAIN sessions
    <3>1. Grows(T, d) /\ ~sessions[d].committed /\ ~sessions[d].commit_in_progress
      BY <1>1, <2>2 DEF Evolves, Fresh
    <3>2. ASSUME sessions'[d].committed PROVE FALSE
      <4>1. t \in Tasks /\ task[t].pc = "digest good" /\ task[t].deploy = d
        <5>1. \E u \in T : task[u].pc = "digest good" /\ task[u].deploy = d
          BY <3>1, <3>2 DEF Grows
        <5>2. \A u \in T : u = t /\ t \in Tasks
          OBVIOUS
        <5> QED
          BY <5>1, <5>2
      <4>2. call[t].kind = "commit" /\ call[t].deploy = d /\ call[t].at = "running"
        BY <4>1 DEF Serves, DigestPC
      <4> QED
        BY <4>1, <4>2 DEF Fresh, Live
    <3>3. ASSUME sessions'[d].commit_in_progress PROVE FALSE
      <4>1. t \in Tasks /\ task'[t].pc = "digesting" /\ task'[t].deploy = d
        <5>1. \E u \in T : task'[u].pc = "digesting" /\ task'[u].deploy = d
          BY <3>1, <3>3 DEF Grows
        <5>2. \A u \in T : u = t /\ t \in Tasks
          OBVIOUS
        <5> QED
          BY <5>1, <5>2
      <4>2. call'[t].kind = "commit" /\ call'[t].deploy = d /\ call'[t].at = "running"
        BY <4>1 DEF Serves, DigestPC
      <4> QED
        BY <4>1, <4>2 DEF OldCommit, Fresh, Live
    <3> QED
      BY <3>2, <3>3
  <2> QED
    BY <2>1, <2>2
<1>2. ASSUME NEW u \in Tasks, call'[u].at \in Live, call'[u].kind = "commit"
      PROVE  call'[u].deploy # d
  BY <1>2 DEF OldCommit, Fresh
<1> QED
  BY <1>1, <1>2 DEF Fresh

-----------------------------------------------------------------------------
(* Steps of the handlers and of the store.                                 *)

\* What a step of handler t has to show of its call, if the client awaits it.
Awaited(t) ==
  client.call = t =>
    \A c \in {call'[t]} :
      /\ c.at # "free" /\ c.kind = call[t].kind
      /\ c.at \in Live /\ c.kind # "prepare" => call[t].at \in Live /\ c.deploy = call[t].deploy
      /\ c.at \in Live /\ c.kind = "prepare" /\ c.code = "ok" /\ c.missing # {} => Fresh(c.deploy)'

\* Only handler t and the store move.
Handles(t) ==
  /\ \A u \in Tasks \ {t} : task'[u] = task[u] /\ call'[u] = call[u]
  /\ client' = client /\ ClientTypeOK' /\ faults <= faults'

\* A handler that does not move: its call is as true as before.
LEMMA CallStays ==
  ASSUME UploadInv, NEW T, Evolves(T), faults \in Nat, faults' \in Nat, faults <= faults',
         NEW u \in Tasks, task'[u] = task[u], call'[u] = call[u]
  PROVE  CallOK(u)'
<1>0. Inv /\ CallOK(u)
  BY DEF UploadInv
<1>1. /\ (Broken => Broken')
      /\ \A code : CodeOK(code) => CodeOK(code)'
  BY <1>0, CausesStay
<1>2. Serves(u)'
  BY <1>0 DEF CallOK, Serves, Bound
<1>3. ASSUME NEW c \in {call'[u]} PROVE (c.at \in Live => Tells(c)') /\ CodeOK(c.code)'
  <2>1. c = call[u]
    BY <1>3
  <2>2. (c.at \in Live => Tells(c)) /\ CodeOK(c.code)
    BY <1>0, <2>1 DEF CallOK
  <2> QED
    BY <1>0, <1>1, <2>2, TellsStays
<1>4. task'[u].pc = "write failed" => faults' > 0
  <2>1. ASSUME task'[u].pc = "write failed" PROVE faults > 0
    BY <1>0, <2>1 DEF CallOK
  <2>2. faults > 0 => faults' > 0
    OBVIOUS
  <2> QED
    BY <2>1, <2>2
<1>5. ASSUME task'[u].pc = "digest bad" PROVE Broken'
  <2>1. task[u].pc = "digest bad"
    BY <1>5
  <2>2. Broken
    BY <1>0, <2>1 DEF CallOK
  <2> QED
    BY <1>1, <2>2
<1> QED
  BY <1>2, <1>3, <1>4, <1>5 DEF CallOK

\* Such a step keeps the invariant if handler t is left with a proper call: all
\* other calls, and what the client knows, are true as before.
LEMMA HandlerKeeps ==
  ASSUME UploadInv, NEW t, NEW T \in SUBSET (Tasks \cap {t}), Evolves(T), Inv', StoreInv',
         Handles(t), t \in Tasks => CallOK(t)' /\ OldCommit(t) /\ Awaited(t)
  PROVE  UploadInv'
<1>0. /\ Inv /\ faults \in Nat /\ faults' \in Nat /\ faults <= faults'
      /\ ClientTypeOK' /\ client' = client
      /\ \A u \in Tasks \ {t} : task'[u] = task[u] /\ call'[u] = call[u]
  BY DEF UploadInv, ClientTypeOK, Handles
<1>1. /\ (Expired => Expired') /\ (Broken => Broken')
      /\ \A code : CodeOK(code) => CodeOK(code)'
  BY <1>0, CausesStay
<1>2. ASSUME NEW d, Fresh(d) PROVE Fresh(d)'
  <2>1. t \in Tasks => Serves(t) /\ Serves(t)' /\ OldCommit(t)
    BY DEF UploadInv, CallOK
  <2> QED
    BY <1>0, <1>2, <2>1, FreshStays
<1>3. ASSUME NEW u \in Tasks \ {t} PROVE CallOK(u)'
  <2>1. task'[u] = task[u] /\ call'[u] = call[u]
    BY <1>0, <1>3
  <2> QED
    BY <1>0, <2>1, CallStays
<1>4. Awaits'
  <2>1. ASSUME client.call # NoHandler, NEW c \in {call'[client.call]}
        PROVE  /\ client.pc \in Phases /\ c.at # "free" /\ c.kind = client.pc
               /\ c.at \in Live /\ c.kind # "prepare" => c.deploy = client.deploy
               /\ c.at \in Live /\ c.kind = "prepare" /\ c.code = "ok" /\ c.missing # {}
                    => Fresh(c.deploy)'
    <3>0. PICK b : b = call[client.call]
      OBVIOUS
    <3>1. /\ client.pc \in Phases /\ b.at # "free" /\ b.kind = client.pc
          /\ b.at \in Live /\ b.kind # "prepare" => b.deploy = client.deploy
          /\ b.at \in Live /\ b.kind = "prepare" /\ b.code = "ok" /\ b.missing # {}
               => Fresh(b.deploy)
      BY <2>1, <3>0 DEF UploadInv, ClientOK, Awaits
    <3>2. client.call \in Tasks
      BY <2>1 DEF UploadInv, ClientTypeOK, Client
    <3>3. CASE client.call = t
      BY <2>1, <3>0, <3>1, <3>2, <3>3 DEF Awaited
    <3>4. CASE client.call # t
      <4>1. c = b
        BY <1>0, <2>1, <3>0, <3>2, <3>4
      <4> QED
        BY <1>2, <3>1, <4>1
    <3> QED
      BY <3>3, <3>4
  <2> QED
    BY <1>0, <2>1 DEF Awaits
<1>5. Knows'
  <2>1. ASSUME NEW d \in {client.deploy}
        PROVE  /\ client.pc = "push" =>
                    d \in opened' /\ Fresh(d)' /\ \A x \in Chunks \ client.plan : Has(d, x)'
               /\ client.pc = "commit" => Full(d)'
               /\ client.pc = "deploy" => Uploaded(d)'
    <3>1. /\ client.pc = "push" =>
               d \in opened /\ Fresh(d) /\ \A x \in Chunks \ client.plan : Has(d, x)
          /\ client.pc = "commit" => Full(d)
          /\ client.pc = "deploy" => Uploaded(d)
      BY <2>1 DEF UploadInv, ClientOK, Knows
    <3>2. opened \subseteq opened'
      BY DEF Evolves
    <3>3. CASE client.pc = "push"
      BY <1>0, <1>2, <3>1, <3>2, <3>3, HasStays
    <3>4. CASE client.pc # "push"
      BY <1>0, <3>1, <3>4, FullStays, UploadedStays
    <3> QED
      BY <3>3, <3>4
  <2> QED
    BY <1>0, <2>1 DEF Knows
<1>6. CodeOK(client.reason)'
  <2>1. PICK code : code = client.reason
    OBVIOUS
  <2>2. CodeOK(code)'
    BY <1>1, <2>1 DEF UploadInv, ClientOK
  <2> QED
    BY <1>0, <2>1, <2>2 DEF CodeOK
<1>7. \A u \in Tasks : CallOK(u)'
  BY <1>3
<1> QED
  BY <1>0, <1>4, <1>5, <1>6, <1>7 DEF UploadInv, ClientOK

\* What the task at work for call c is doing is what c asks for.
Works(t, c) ==
  /\ task[t].pc \in NewPC => c.kind = "prepare"
  /\ task[t].pc \in WritePC =>
       c.kind = "push" /\ c.deploy = task[t].deploy /\ c.chunk = task[t].chunk
  /\ task[t].pc \in DigestPC => c.kind = "commit" /\ c.deploy = task[t].deploy
  /\ task[t].pc \in LookupPC \/ Bound(t) => c.kind = "deploy" /\ c.deploy = task[t].deploy

\* Handler t goes on with its call as c, which is its answer once it is done ...
Reply(t, c) ==
  /\ c \in Call /\ c.at = "running" /\ call[t].at \in Live
  /\ c.kind = call[t].kind
  /\ c.kind # "prepare" => c.deploy = call[t].deploy
  /\ call' = [call EXCEPT ![t] = Answer(t, c)]
  /\ client' = client /\ faults' \in 0..MaxFaults /\ faults <= faults'

\* ... a failure on the way has been counted ...
Marks(t) ==
  /\ task'[t].pc = "write failed" => faults' > 0
  /\ task'[t].pc = "digest bad" => Broken'

\* ... and c is true.
Truth(t, c) ==
  /\ Works(t, c)' /\ Tells(c)' /\ CodeOK(c.code)'
  /\ Marks(t)
  /\ client.call = t /\ c.kind = "prepare" /\ c.code = "ok" /\ c.missing # {} => Fresh(c.deploy)'

\* The answer still has a reader, or is still to come.
Heard(t) == client.call = t \/ task'[t].pc # "idle"

\* The store's part of a step keeps what the client relies on.
LEMMA StoreMoves ==
  ASSUME UploadInv, Inv', NEW t \in Tasks, Sound(t) \/ Still
  PROVE  /\ StoreInv' /\ (\A u \in Tasks \ {t} : task'[u] = task[u])
         /\ \E T \in SUBSET (Tasks \cap {t}) : Evolves(T)
<1>1. Inv /\ StoreInv
  BY DEF UploadInv
<1>2. CASE Sound(t)
  <2>1. /\ \A u \in Tasks \ {t} : task'[u] = task[u]
        /\ Evolves({t}) /\ FilesGrow /\ Fine(t)
    BY <1>2 DEF Sound, Moves
  <2>2. StoreInv'
    BY <1>1, <2>1, StoreKept
  <2> QED
    BY <2>1, <2>2
<1>3. CASE Still
  <2>1. task' = task /\ Evolves({}) /\ FilesGrow
    BY <1>3 DEF Still
  <2>2. PICK T : T = {}
    OBVIOUS
  <2>3. StoreInv'
    BY <1>1, <2>1, <2>2, StoreKept
  <2> QED
    BY <2>1, <2>3
<1> QED
  BY <1>2, <1>3

\* No handler, no call.
LEMMA NoCallOK ==
  ASSUME NEW t, call[t] = NoCall, task[t].pc = "idle"
  PROVE  CallOK(t)
<1>1. call[t].at = "free" /\ call[t].code = "none"
  BY DEF NoCall
<1>2. Serves(t)
  BY DEF Serves, NewPC, WritePC, DigestPC, LookupPC, Bound, FoundPC
<1> QED
  BY <1>1, <1>2 DEF CallOK, Live, CodeOK

\* A handler whose call, or answer, is true keeps the invariant.
LEMMA ReplyKeeps ==
  ASSUME UploadInv, Inv', NEW t \in Tasks, Sound(t) \/ Still,
         NEW c, Reply(t, c), Heard(t) => Truth(t, c)
  PROVE  UploadInv'
<1>1. /\ StoreInv' /\ \A u \in Tasks \ {t} : task'[u] = task[u]
  BY StoreMoves
<1>2. PICK T \in SUBSET (Tasks \cap {t}) : Evolves(T)
  BY StoreMoves
<1>3. /\ call \in [Tasks -> Call] /\ client \in Client
      /\ call' = [call EXCEPT ![t] = Answer(t, c)] /\ client' = client
      /\ faults' \in 0..MaxFaults /\ faults <= faults'
      /\ c \in Call /\ c.at = "running" /\ call[t].at \in Live
      /\ c.kind = call[t].kind
      /\ c.kind # "prepare" => c.deploy = call[t].deploy
  BY DEF Reply, UploadInv, ClientTypeOK
<1>4. \A u \in Tasks \ {t} : call'[u] = call[u]
  BY <1>3
<1>5. CASE Heard(t)
  <2>1. call'[t] = c
    BY <1>3, <1>5 DEF Answer, Heard
  <2>2. ClientTypeOK'
    BY <1>3, <1>4, <2>1 DEF ClientTypeOK
  <2>3. Truth(t, c)
    BY <1>5
  <2>4. Serves(t)'
    BY <1>3, <2>1, <2>3 DEF Truth, Works, Serves
  <2>5. CallOK(t)'
    <3>1. \A x \in {call'[t]} : (x.at \in Live => Tells(x)') /\ CodeOK(x.code)'
      BY <2>1, <2>3 DEF Truth
    <3> QED
      BY <2>3, <2>4, <3>1 DEF CallOK, Truth, Marks
  <2>6. OldCommit(t)
    BY <1>3, <2>1 DEF OldCommit
  <2>7. Awaited(t)
    BY <1>3, <2>1, <2>3 DEF Awaited, Truth
  <2>8. Handles(t)
    BY <1>1, <1>3, <1>4, <2>2 DEF Handles
  <2> QED
    BY <1>1, <1>2, <2>5, <2>6, <2>7, <2>8, HandlerKeeps
<1>6. CASE ~Heard(t)
  <2>1. call'[t] = NoCall /\ client.call # t /\ task'[t].pc = "idle"
    BY <1>3, <1>6 DEF Answer, Heard
  <2>2. NoCall \in Call
    BY DEF NoCall, Call, Codes
  <2>3. ClientTypeOK'
    BY <1>3, <1>4, <2>1, <2>2 DEF ClientTypeOK
  <2>4. CallOK(t)'
    <3>1. NoCall.at = "free" /\ NoCall.code = "none"
      BY DEF NoCall
    <3>2. Serves(t)'
      BY <2>1 DEF Serves, NewPC, WritePC, DigestPC, LookupPC, Bound, FoundPC
    <3> QED
      BY <2>1, <3>1, <3>2 DEF CallOK, Live, CodeOK
  <2>5. OldCommit(t) /\ Awaited(t)
    BY <2>1 DEF OldCommit, Awaited, NoCall, Live
  <2>6. Handles(t)
    BY <1>1, <1>3, <1>4, <2>3 DEF Handles
  <2> QED
    BY <1>1, <1>2, <2>4, <2>5, <2>6, HandlerKeeps
<1> QED
  BY <1>5, <1>6

-----------------------------------------------------------------------------
(* The handlers' answers.                                                  *)

\* An answer that is an error says no more than the call.
LEMMA ErrorTells ==
  ASSUME NEW b \in Call, Tells(b), NEW code, NEW at \in {"sent", "running"},
         code # "ok" \/ b.kind = "deploy",
         NEW c, c = [b EXCEPT !.at = at, !.code = code]
  PROVE  Tells(c)
<1>1. /\ c.kind = b.kind /\ c.deploy = b.deploy /\ c.chunk = b.chunk
      /\ c.missing = b.missing /\ c.code = code
  BY DEF Call
<1> QED
  BY <1>1 DEF Tells

\* The answer to a prepare is true, and if chunks are missing nobody has asked
\* for a commit: a commit is asked for when all of them are there.
LEMMA PreparedTells ==
  ASSUME Inv', StoreInv', NEW c, c.kind = "prepare", c.code = "ok",
         TheKey \in DOMAIN idempotency', c.deploy = idempotency'[TheKey],
         c.missing = Chunks \ sessions'[c.deploy].received
  PROVE  /\ Tells(c)'
         /\ (\A u \in Tasks : call'[u].at \in Live /\ call'[u].kind = "commit" =>
               call'[u].deploy # c.deploy \/ \A d \in {call'[u].deploy} : Full(d)')
            => (c.missing # {} => Fresh(c.deploy)')
<1>1. PICK d : d = c.deploy
  OBVIOUS
<1>2. d \in DOMAIN sessions' /\ d \in opened' /\ sessions'[d].received \subseteq Chunks
  BY <1>1 DEF Inv, KeyHasOneSession, Ids, TypeOK, UploadSession
<1>3. \A x \in Chunks \ c.missing : Has(d, x)'
  BY <1>1, <1>2 DEF Has
<1>4. Tells(c)'
  BY <1>1, <1>2, <1>3 DEF Tells, Phases
<1>5. ASSUME \A u \in Tasks : call'[u].at \in Live /\ call'[u].kind = "commit" =>
               call'[u].deploy # d \/ \A e \in {call'[u].deploy} : Full(e)',
             c.missing # {}
      PROVE  Fresh(d)'
  <2>1. PICK x \in Chunks : x \notin sessions'[d].received
    BY <1>1, <1>5
  <2>2. ~sessions'[d].committed /\ ~sessions'[d].commit_in_progress
    BY <1>2, <2>1 DEF StoreInv, GoodData, GoodSession, Complete
  <2>3. ~Full(d)'
    BY <1>2, <2>1 DEF Full, Has
  <2>4. \A u \in Tasks : call'[u].at \in Live /\ call'[u].kind = "commit" => call'[u].deploy # d
    BY <1>5, <2>3
  <2> QED
    BY <2>2, <2>4 DEF Fresh
<1> QED
  BY <1>1, <1>4, <1>5

\* A call that goes on without an answer, or with the one it has.
LEMMA SameReply ==
  ASSUME UploadInv, Inv', NEW t \in Tasks, Sound(t), NEW c,
         c = [call[t] EXCEPT !.at = "running"], Reply(t, c), Works(t, c)', Marks(t)
  PROVE  UploadInv'
<1>1. PICK b \in Call : b = call[t]
  BY DEF UploadInv, ClientTypeOK
<1>2. /\ c.kind = b.kind /\ c.deploy = b.deploy /\ c.chunk = b.chunk
      /\ c.missing = b.missing /\ c.code = b.code /\ c.at = "running" /\ b.at \in Live
  BY <1>1 DEF Call, Reply
<1>3. Inv /\ Evolves({t}) /\ faults \in Nat /\ faults' \in Nat /\ faults <= faults'
  BY DEF Sound, UploadInv, ClientTypeOK, Reply
<1>4. CallOK(t)
  BY DEF UploadInv
<1>5. Tells(c)' /\ CodeOK(c.code)'
  <2>1. Tells(b) /\ CodeOK(b.code)
    BY <1>1, <1>2, <1>4 DEF CallOK
  <2>2. Tells(c) /\ CodeOK(c.code)
    BY <1>2, <2>1 DEF Tells
  <2>3. Tells(c)'
    BY <1>3, <2>2, TellsStays
  <2>4. CodeOK(c.code)'
    BY <1>3, <2>2, CausesStay
  <2> QED
    BY <2>3, <2>4
<1>6. ASSUME Heard(t), client.call = t, c.kind = "prepare", c.code = "ok", c.missing # {}
      PROVE  Fresh(c.deploy)'
  <2>1. Fresh(c.deploy)
    <3>1. client.call # NoHandler
      BY <1>6, HandlerAssumption
    <3> QED
      BY <1>1, <1>2, <1>6, <3>1 DEF UploadInv, ClientOK, Awaits
  <2>2. call'[t] = c /\ \A u \in Tasks \ {t} : call'[u] = call[u]
    BY <1>6 DEF Heard, Reply, Answer, UploadInv, ClientTypeOK
  <2>3. Serves(t) /\ Serves(t)'
    BY <1>2, <1>4, <2>2 DEF CallOK, Works, Serves
  <2>4. OldCommit(t)
    BY <1>6, <2>2 DEF OldCommit
  <2>5. PICK d : d = c.deploy
    OBVIOUS
  <2>6. Fresh(d)'
    BY <1>3, <2>1, <2>2, <2>3, <2>4, <2>5, FreshStays
  <2> QED
    BY <2>5, <2>6
<1>7. Heard(t) => Truth(t, c)
  BY <1>5, <1>6 DEF Truth
<1> QED
  BY <1>7, ReplyKeeps

\* An answer that is an error, or ends a deploy.
LEMMA ErrorReply ==
  ASSUME UploadInv, Inv', NEW t \in Tasks, Sound(t) \/ Still, NEW code, NEW c,
         c = [call[t] EXCEPT !.at = "running", !.code = code],
         code # "ok" \/ call[t].kind = "deploy",
         Reply(t, c), Works(t, c)', Marks(t), Heard(t) => CodeOK(code)'
  PROVE  UploadInv'
<1>1. PICK b \in Call : b = call[t]
  BY DEF UploadInv, ClientTypeOK
<1>2. c.kind = b.kind /\ c.code = code /\ b.at \in Live
  BY <1>1 DEF Call, Reply
<1>3. Inv /\ \E T : Evolves(T)
  BY DEF Sound, Still, UploadInv
<1>4. Tells(c)'
  <2>1. Tells(b)
    BY <1>1, <1>2 DEF UploadInv, CallOK
  <2>2. Tells(c)
    BY <1>1, <2>1, ErrorTells
  <2> QED
    BY <1>3, <2>2, TellsStays
<1>5. Heard(t) => Truth(t, c)
  BY <1>1, <1>2, <1>4 DEF Truth
<1> QED
  BY <1>5, ReplyKeeps

\* The answer to a prepare.
LEMMA PreparedReply ==
  ASSUME UploadInv, Inv', NEW t \in Tasks, Sound(t), NEW c,
         Reply(t, c), Works(t, c)', Marks(t), c.kind = "prepare", c.code = "ok",
         TheKey \in DOMAIN idempotency', c.deploy = idempotency'[TheKey],
         c.missing = Chunks \ sessions'[c.deploy].received
  PROVE  UploadInv'
<1>1. StoreInv' /\ Inv /\ Evolves({t})
  BY StoreMoves DEF Sound, UploadInv
<1>2. /\ call'[t] \in {c, NoCall} /\ \A u \in Tasks \ {t} : call'[u] = call[u]
  BY DEF Reply, Answer, UploadInv, ClientTypeOK
<1>3. ASSUME NEW u \in Tasks, call'[u].at \in Live, call'[u].kind = "commit"
      PROVE  \A d \in {call'[u].deploy} : Full(d)'
  <2>1. CASE u = t
    BY <1>2, <1>3, <2>1 DEF NoCall
  <2>2. CASE u # t
    <3>1. call'[u] = call[u] /\ CallOK(u)
      BY <1>2, <2>2 DEF UploadInv
    <3>2. PICK d : d = call[u].deploy
      OBVIOUS
    <3>3. Full(d)
      BY <1>3, <3>1, <3>2 DEF CallOK, Tells
    <3>4. Full(d)'
      BY <1>1, <3>3, FullStays
    <3> QED
      BY <3>1, <3>2, <3>4
  <2> QED
    BY <2>1, <2>2
<1>4. Tells(c)' /\ (c.missing # {} => Fresh(c.deploy)')
  BY <1>1, <1>3, PreparedTells
<1>5. CodeOK(c.code)'
  BY DEF CodeOK
<1>6. Truth(t, c)
  BY <1>4, <1>5 DEF Truth
<1> QED
  BY <1>6, ReplyKeeps

-----------------------------------------------------------------------------
(* A handler takes its request up.                                         *)

\* There is a key and a fingerprint.
LEMMA TheArtifact == TheKey \in Keys /\ ThePrint \in Prints
  BY ArtifactAssumption DEF TheKey, ThePrint

\* A step without a fault.
LEMMA FaultsStand ==
  ASSUME UploadInv, faults' = faults
  PROVE  faults' \in 0..MaxFaults /\ faults <= faults'
<1>1. faults \in 0..MaxFaults
  BY DEF UploadInv, ClientTypeOK
<1> QED
  BY <1>1

\* What is known of a request that no handler has taken up.
LEMMA SentFacts ==
  ASSUME UploadInv, NEW t \in Tasks, call[t].at = "sent"
  PROVE  /\ Inv /\ StoreInv /\ CallOK(t) /\ Tells(call[t]) /\ call[t] \in Call
         /\ task[t].pc = "idle" /\ faults \in 0..MaxFaults /\ faults \in Nat
         /\ call \in [Tasks -> Call]
<1>1. CallOK(t) /\ Inv /\ StoreInv /\ call \in [Tasks -> Call] /\ faults \in 0..MaxFaults
  BY DEF UploadInv, ClientTypeOK
<1>2. Tells(call[t])
  BY <1>1 DEF CallOK, Live
<1>3. task[t].pc = "idle"
  BY <1>1 DEF CallOK, Serves
<1> QED
  BY <1>1, <1>2, <1>3

\* The reply c of a handler that goes on, or answers, by an edit of its call.
LEMMA EditReplies ==
  ASSUME UploadInv, NEW t \in Tasks, call[t].at \in Live, NEW code \in Codes \cup {"none"}, NEW c,
         c = [call[t] EXCEPT !.at = "running", !.code = code],
         call' = [call EXCEPT ![t] = Answer(t, c)], client' = client,
         faults' \in 0..MaxFaults, faults <= faults'
  PROVE  /\ Reply(t, c) /\ c.kind = call[t].kind /\ c.deploy = call[t].deploy
         /\ c.chunk = call[t].chunk /\ c.code = code
<1>1. PICK b \in Call : b = call[t]
  BY DEF UploadInv, ClientTypeOK
<1>2. /\ c \in Call /\ c.kind = b.kind /\ c.deploy = b.deploy /\ c.chunk = b.chunk
      /\ c.at = "running" /\ c.code = code
  BY <1>1 DEF Call
<1> QED
  BY <1>1, <1>2 DEF Reply

\* A request that begins: its task is at work on it.
LEMMA BeginKeeps ==
  ASSUME UploadInv, NEW t \in Tasks, call[t].at = "sent", Inv', Sound(t),
         task'[t].pc \notin {"idle", "write failed", "digest bad"},
         \A c \in {call[t]} : Works(t, c)',
         call' = [call EXCEPT ![t] = [call[t] EXCEPT !.at = "running"]],
         UNCHANGED <<client, faults>>
  PROVE  UploadInv'
<1>1. PICK b \in Call : b = call[t]
  BY SentFacts
<1>2. PICK c : c = [call[t] EXCEPT !.at = "running"]
  OBVIOUS
<1>3. /\ c = [call[t] EXCEPT !.at = "running", !.code = b.code]
      /\ b.code \in Codes \cup {"none"}
      /\ c.kind = b.kind /\ c.deploy = b.deploy /\ c.chunk = b.chunk
  BY <1>1, <1>2 DEF Call
<1>4. call' = [call EXCEPT ![t] = Answer(t, c)]
  BY <1>2 DEF Answer
<1>5. faults' \in 0..MaxFaults /\ faults <= faults'
  BY FaultsStand
<1>6. Reply(t, c)
  BY <1>3, <1>4, <1>5, EditReplies DEF Live
<1>7. Works(t, c)' /\ Marks(t)
  BY <1>1, <1>3 DEF Works, Marks
<1> QED
  BY <1>2, <1>6, <1>7, SameReply

\* A refusal: the handler has cleaned up, and answers at once.
LEMMA RefusalKeeps ==
  ASSUME UploadInv, NEW t \in Tasks, call[t].at = "sent", Refuse \/ UNCHANGED vars,
         NEW code \in Codes \ {"ok"}, client.call = t => CodeOK(code),
         call' = [call EXCEPT ![t] =
                    Answer(t, [[call[t] EXCEPT !.at = "running"] EXCEPT !.code = code])],
         UNCHANGED <<client, faults>>
  PROVE  [Next]_vars /\ UploadInv'
<1>0. /\ Inv /\ StoreInv /\ task[t].pc = "idle" /\ faults \in 0..MaxFaults /\ faults \in Nat
      /\ call[t] \in Call
  BY SentFacts
<1>1. [Next]_vars
  BY DEF Next
<1>2. Inv'
  BY <1>0, <1>1, InvStep
<1>3. Still
  <2>1. CASE Refuse
    BY <1>0, <2>1, StillSound
  <2>2. CASE UNCHANGED vars
    BY <1>0, <2>2, StillEvolves, FilesStand DEF Still, vars
  <2> QED
    BY <2>1, <2>2
<1>4. PICK c : c = [call[t] EXCEPT !.at = "running", !.code = code]
  OBVIOUS
<1>5. c = [[call[t] EXCEPT !.at = "running"] EXCEPT !.code = code]
  BY <1>0, <1>4 DEF Call
<1>6. Reply(t, c)
  <2>3. faults' \in 0..MaxFaults /\ faults <= faults' /\ client' = client
    BY FaultsStand
  <2>4. call' = [call EXCEPT ![t] = Answer(t, c)] /\ code \in Codes \cup {"none"}
    BY <1>5
  <2> QED
    BY <1>4, <2>3, <2>4, EditReplies DEF Live
<1>7. task'[t].pc = "idle"
  BY <1>0, <1>3 DEF Still
<1>8. Works(t, c)' /\ Marks(t)
  BY <1>7 DEF Works, Marks, NewPC, WritePC, DigestPC, LookupPC, Bound, FoundPC
<1>9. Heard(t) => CodeOK(code)'
  <2>1. Evolves({}) /\ faults' = faults
    BY <1>3 DEF Still
  <2>2. PICK T : T = {}
    OBVIOUS
  <2> QED
    BY <1>0, <1>7, <2>1, <2>2, CausesStay DEF Heard
<1> QED
  BY <1>1, <1>2, <1>3, <1>4, <1>6, <1>8, <1>9, ErrorReply

\* deploy.prepare: the handler answers for the session there is, or makes one.
LEMMA AcceptPrepare ==
  ASSUME UploadInv, NEW t \in Tasks, call[t].at = "sent", call[t].kind = "prepare",
         Prepare(t, TheKey, ThePrint),
         call' = [call EXCEPT ![t] =
                IF TheKey \in DOMAIN idempotency'
                  THEN LET d == idempotency'[TheKey]
                       IN Answer(t, [[call[t] EXCEPT !.at = "running"]
                                       EXCEPT !.code = "ok", !.deploy = d,
                                       !.missing = Chunks \ sessions'[d].received])
                  ELSE [call[t] EXCEPT !.at = "running"]],
         UNCHANGED <<client, faults>>
  PROVE  [Next]_vars /\ UploadInv'
<1>0. /\ Inv /\ StoreInv /\ task[t].pc = "idle" /\ faults \in 0..MaxFaults /\ faults \in Nat
      /\ call[t] \in Call /\ call \in [Tasks -> Call]
  BY SentFacts
<1>1. [Next]_vars
  BY TheArtifact DEF Next, Request
<1>2. Inv'
  BY <1>0, <1>1, InvStep
<1>3. /\ Sound(t) /\ ~Bound(t)'
      /\ task'[t].pc \notin WritePC \cup DigestPC \cup LookupPC
  BY <1>0, TheArtifact, PrepareSound
<1>4. ASSUME NEW c, c.kind = "prepare" PROVE Works(t, c)'
  BY <1>3, <1>4 DEF Works
<1>5. Marks(t)
  BY <1>3 DEF Marks, WritePC, DigestPC
<1>6. CASE TheKey \in DOMAIN idempotency'
  <2>1. PICK d : d = idempotency'[TheKey]
    OBVIOUS
  <2>2. PICK m : m = Chunks \ sessions'[d].received
    OBVIOUS
  <2>3. d \in Deploys /\ m \in SUBSET Chunks
    BY <1>2, <1>6, <2>1, <2>2 DEF Inv, TypeOK
  <2>4. PICK b \in Call : b = call[t]
    BY <1>0
  <2>5. PICK c : c = [[b EXCEPT !.at = "running"] EXCEPT !.code = "ok", !.deploy = d, !.missing = m]
    OBVIOUS
  <2>6. /\ c \in Call /\ c.at = "running" /\ c.kind = "prepare" /\ c.code = "ok"
        /\ c.deploy = d /\ c.missing = m
    BY <2>3, <2>4, <2>5 DEF Call, Codes
  <2>7. call' = [call EXCEPT ![t] = Answer(t, c)]
    BY <1>6, <2>1, <2>2, <2>4, <2>5
  <2>8. Reply(t, c)
    <3>1. faults' \in 0..MaxFaults /\ faults <= faults'
      BY FaultsStand
    <3> QED
      BY <2>6, <2>7, <3>1 DEF Reply, Live
  <2> QED
    BY <1>1, <1>2, <1>3, <1>4, <1>5, <1>6, <2>1, <2>2, <2>6, <2>8, PreparedReply
<1>7. CASE TheKey \notin DOMAIN idempotency'
  <2>1. task'[t].pc = "creating"
    <3> DEFINE R == Removed(sessions, clock, {})
    <3>1. idempotency' = KeysWithout(sessions, R)
      BY DEF Prepare
    <3>2. \E d \in Deploys \ issued :
            task' = [task EXCEPT ![t] =
                        [NoTask EXCEPT !.pc = "creating", !.deploy = d, !.key = TheKey,
                                       !.print = ThePrint, !.plan = R]]
      BY <1>7, <3>1 DEF Prepare
    <3> HIDE DEF R
    <3> QED
      BY <1>0, <3>2 DEF Inv, TypeOK, NoTask
  <2>2. call' = [call EXCEPT ![t] = [call[t] EXCEPT !.at = "running"]]
    BY <1>7
  <2>3. \A c \in {call[t]} : Works(t, c)'
    BY <1>4
  <2> QED
    BY <1>1, <1>2, <1>3, <2>1, <2>2, <2>3, BeginKeeps
<1> QED
  BY <1>6, <1>7

\* A session that the client has seen and that a request does not find has
\* expired, or was purged.
LEMMA SweptFacts ==
  ASSUME Inv, StoreInv
  PROVE  /\ \A d \in DOMAIN Swept : d \in DOMAIN sessions /\ Swept[d] = sessions[d]
         /\ \A d \in opened \ DOMAIN Swept : Expired
<1>1. DOMAIN Swept = DOMAIN sessions \ Removed(sessions, clock, {})
  BY WithoutFields DEF Swept
<1>2. \A d \in DOMAIN Swept : Swept[d] = sessions[d]
  BY <1>1 DEF Swept, Without
<1>3. ASSUME NEW d \in opened, d \notin DOMAIN Swept PROVE Expired
  <2>1. clock \in Nat
    BY DEF Inv, TypeOK
  <2>2. CASE d \in DOMAIN sessions
    <3>1. Aged(d)
      BY <1>1, <1>3, <2>2, RemovedAged
    <3> QED
      BY <2>1, <3>1 DEF Aged, Expired, Early
  <2>3. CASE d \notin DOMAIN sessions
    <3>1. Early => purged # {}
      BY <1>3, <2>3 DEF StoreInv, Stays
    <3> QED
      BY <2>1, <3>1 DEF Expired
  <2> QED
    BY <2>2, <2>3
<1> QED
  BY <1>1, <1>2, <1>3

\* artifact.push: it begins, or is refused; the refusal that would mean a wrong
\* upload (already committed) does not reach the client.
LEMMA AcceptPush ==
  ASSUME UploadInv, NEW t \in Tasks, call[t].at = "sent", call[t].kind = "push",
         NEW d, d = call[t].deploy, UNCHANGED <<client, faults>>,
         IF d \in DOMAIN Swept /\ push_allowed(Swept[d])
           THEN /\ PushStart(t, d, call[t].chunk, "good")
                /\ call' = [call EXCEPT ![t] = [call[t] EXCEPT !.at = "running"]]
           ELSE /\ Refuse \/ (Swept = sessions /\ UNCHANGED vars)
                /\ call' = [call EXCEPT ![t] =
                     Answer(t, [[call[t] EXCEPT !.at = "running"] EXCEPT !.code = PushRefusal(d)])]
  PROVE  [Next]_vars /\ UploadInv'
<1>0. /\ Inv /\ StoreInv /\ task[t].pc = "idle"
      /\ d \in opened /\ d \in issued /\ d \in Deploys /\ call[t].chunk \in Chunks
  BY SentFacts DEF Tells, Inv, Ids, TypeOK
<1>1. CASE d \in DOMAIN Swept /\ push_allowed(Swept[d])
  <2>1. PICK x \in Chunks : x = call[t].chunk
    BY <1>0
  <2>2. PushStart(t, d, x, "good")
    BY <1>1, <2>1
  <2>3. [Next]_vars
    BY <1>0, <2>2 DEF Next, Request
  <2>4. Inv'
    BY <1>0, <2>3, InvStep
  <2>5. Sound(t) /\ task'[t].pc = "writing" /\ task'[t].deploy = d /\ task'[t].chunk = x
    BY <1>0, <2>2, PushStartSound
  <2>6. \A c \in {call[t]} : Works(t, c)'
    BY <2>1, <2>5 DEF Works, NewPC, WritePC, DigestPC, LookupPC, Bound, FoundPC
  <2>7. call' = [call EXCEPT ![t] = [call[t] EXCEPT !.at = "running"]]
    BY <1>1
  <2>8. task'[t].pc \notin {"idle", "write failed", "digest bad"}
    BY <2>5
  <2> QED
    BY <2>3, <2>4, <2>5, <2>6, <2>7, <2>8, BeginKeeps
<1>2. CASE ~(d \in DOMAIN Swept /\ push_allowed(Swept[d]))
  <2>1. PICK code : code = PushRefusal(d)
    OBVIOUS
  <2>2. code \in Codes \ {"ok"}
    BY <2>1 DEF PushRefusal, Codes
  <2>3. ASSUME client.call = t PROVE CodeOK(code)
    <3>1. client.call # NoHandler
      BY <2>3, HandlerAssumption
    <3>2. client.pc = "push" /\ client.deploy = d
      BY <2>3, <3>1 DEF UploadInv, ClientOK, Awaits, Live
    <3>3. Fresh(d)
      BY <3>2 DEF UploadInv, ClientOK, Knows
    <3>4. d \in DOMAIN Swept => ~Swept[d].committed
      BY <1>0, <3>3, SweptFacts DEF Fresh
    <3>5. d \notin DOMAIN Swept => Expired
      BY <1>0, SweptFacts
    <3> QED
      BY <2>1, <3>4, <3>5 DEF PushRefusal, CodeOK
  <2>4. call' = [call EXCEPT ![t] =
                     Answer(t, [[call[t] EXCEPT !.at = "running"] EXCEPT !.code = code])]
    BY <1>2, <2>1
  <2>5. Refuse \/ UNCHANGED vars
    BY <1>2
  <2> QED
    BY <2>2, <2>3, <2>4, <2>5, RefusalKeeps
<1> QED
  BY <1>1, <1>2

\* artifact.commit: it begins, or is refused, but never as incomplete.
LEMMA AcceptCommit ==
  ASSUME UploadInv, NEW t \in Tasks, call[t].at = "sent", call[t].kind = "commit",
         NEW d, d = call[t].deploy, UNCHANGED <<client, faults>>,
         IF d \in DOMAIN Swept /\ commit_allowed(Swept[d])
           THEN /\ CommitStart(t, d)
                /\ call' = [call EXCEPT ![t] = [call[t] EXCEPT !.at = "running"]]
           ELSE /\ Refuse \/ (Swept = sessions /\ UNCHANGED vars)
                /\ call' = [call EXCEPT ![t] =
                     Answer(t, [[call[t] EXCEPT !.at = "running"] EXCEPT !.code = CommitRefusal(d)])]
  PROVE  [Next]_vars /\ UploadInv'
<1>0. /\ Inv /\ StoreInv /\ task[t].pc = "idle" /\ Full(d)
      /\ d \in opened /\ d \in issued /\ d \in Deploys
  BY SentFacts DEF Tells, Full, Inv, Ids, TypeOK
<1>1. CASE d \in DOMAIN Swept /\ commit_allowed(Swept[d])
  <2>2. CommitStart(t, d)
    BY <1>1
  <2>3. [Next]_vars
    BY <1>0, <2>2 DEF Next, Request
  <2>4. Inv'
    BY <1>0, <2>3, InvStep
  <2>5. Sound(t) /\ task'[t].pc = "digesting" /\ task'[t].deploy = d
    BY <1>0, <2>2, CommitStartSound
  <2>6. \A c \in {call[t]} : Works(t, c)'
    BY <2>5 DEF Works, NewPC, WritePC, DigestPC, LookupPC, Bound, FoundPC
  <2>7. call' = [call EXCEPT ![t] = [call[t] EXCEPT !.at = "running"]]
    BY <1>1
  <2>8. task'[t].pc \notin {"idle", "write failed", "digest bad"}
    BY <2>5
  <2> QED
    BY <2>3, <2>4, <2>5, <2>6, <2>7, <2>8, BeginKeeps
<1>2. CASE ~(d \in DOMAIN Swept /\ commit_allowed(Swept[d]))
  <2>1. PICK code : code = CommitRefusal(d)
    OBVIOUS
  <2>2. code \in Codes \ {"ok"}
    BY <2>1 DEF CommitRefusal, Codes
  <2>3. CodeOK(code)
    <3>1. d \notin DOMAIN Swept => Expired
      BY <1>0, SweptFacts
    <3>2. ASSUME d \in DOMAIN Swept PROVE Complete(Swept[d])
      <4>1. d \in DOMAIN sessions /\ Swept[d] = sessions[d]
        BY <1>0, <3>2, SweptFacts
      <4>2. sessions[d].received \subseteq Chunks
        BY <1>0, <4>1 DEF Inv, TypeOK, UploadSession
      <4>3. \A c \in Chunks : c \in sessions[d].received
        BY <1>0, <4>1 DEF Full, Has
      <4> QED
        BY <4>1, <4>2, <4>3 DEF Complete
    <3>3. d \in DOMAIN Swept => ~Idle(Swept[d])
      BY <1>2, <3>2 DEF commit_allowed, Idle
    <3> QED
      BY <2>1, <3>1, <3>3 DEF CommitRefusal, CodeOK
  <2>4. call' = [call EXCEPT ![t] =
                     Answer(t, [[call[t] EXCEPT !.at = "running"] EXCEPT !.code = code])]
    BY <1>2, <2>1
  <2>5. Refuse \/ UNCHANGED vars
    BY <1>2
  <2> QED
    BY <2>2, <2>3, <2>4, <2>5, RefusalKeeps
<1> QED
  BY <1>1, <1>2

\* command.start deploy.
LEMMA AcceptDeploy ==
  ASSUME UploadInv, NEW t \in Tasks, call[t].at = "sent", call[t].kind = "deploy",
         NEW d, d = call[t].deploy, UNCHANGED <<client, faults>>, Deploy(t, d),
         call' = [call EXCEPT ![t] = [call[t] EXCEPT !.at = "running"]]
  PROVE  [Next]_vars /\ UploadInv'
<1>0. Inv /\ StoreInv /\ d \in issued /\ d \in Deploys
  BY SentFacts DEF Tells, Uploaded, Inv, Ids, TypeOK
<1>1. [Next]_vars
  BY <1>0 DEF Next, Request
<1>2. Inv'
  BY <1>0, <1>1, InvStep
<1>3. Sound(t) /\ task'[t].pc = "naming" /\ task'[t].deploy = d
  BY <1>0, DeploySound
<1>4. \A c \in {call[t]} : Works(t, c)'
  BY <1>3 DEF Works, NewPC, WritePC, DigestPC, LookupPC, Bound, FoundPC
<1>5. task'[t].pc \notin {"idle", "write failed", "digest bad"}
  BY <1>3
<1> QED
  BY <1>1, <1>2, <1>3, <1>4, <1>5, BeginKeeps

\* A handler takes up any request.
LEMMA AcceptKeeps ==
  ASSUME UploadInv, NEW t \in Tasks, Accept(t) PROVE [Next]_vars /\ UploadInv'
<1>1. call[t].at = "sent" /\ UNCHANGED <<client, faults>>
  BY DEF Accept
<1>2. PICK d : d = call[t].deploy
  OBVIOUS
<1>3. CASE call[t].kind = "prepare"
  BY <1>1, <1>3, AcceptPrepare DEF Accept
<1>4. CASE call[t].kind = "push"
  BY <1>1, <1>2, <1>4, AcceptPush DEF Accept
<1>5. CASE call[t].kind = "commit"
  BY <1>1, <1>2, <1>5, AcceptCommit DEF Accept
<1>6. CASE call[t].kind = "deploy"
  BY <1>1, <1>2, <1>6, AcceptDeploy DEF Accept
<1> QED
  BY <1>3, <1>4, <1>5, <1>6 DEF Accept

-----------------------------------------------------------------------------
(* A handler goes on.                                                      *)

\* What a running handler knows of its call.
LEMMA RunningFacts ==
  ASSUME UploadInv, NEW t \in Tasks, call[t].at = "running"
  PROVE  /\ Inv /\ StoreInv /\ CallOK(t) /\ Serves(t) /\ Tells(call[t]) /\ call[t] \in Call
         /\ task[t].pc = "write failed" => faults > 0
         /\ task[t].pc = "digest bad" => Broken
<1>1. CallOK(t) /\ Inv /\ StoreInv /\ call[t] \in Call
  BY DEF UploadInv, ClientTypeOK
<1>2. Tells(call[t])
  BY <1>1 DEF CallOK, Live
<1>3. task[t].pc = "digest bad" => Broken
  BY <1>1 DEF CallOK
<1> QED
  BY <1>1, <1>2, <1>3 DEF CallOK

\* Its task goes on with what the call asks for.
LEMMA StillWorks ==
  ASSUME NEW t, Serves(t), KeepsKind(t), NEW c, c.kind = call[t].kind, c.chunk = call[t].chunk,
         c.kind # "prepare" => c.deploy = call[t].deploy
  PROVE  Works(t, c)'
<1>1. task'[t].pc \in NewPC => c.kind = "prepare"
  BY DEF Serves, KeepsKind
<1>2. task'[t].pc \in WritePC =>
        c.kind = "push" /\ c.deploy = task'[t].deploy /\ c.chunk = task'[t].chunk
  BY DEF Serves, KeepsKind
<1>3. task'[t].pc \in DigestPC => c.kind = "commit" /\ c.deploy = task'[t].deploy
  BY DEF Serves, KeepsKind
<1>4. task'[t].pc \in LookupPC \/ Bound(t)' => c.kind = "deploy" /\ c.deploy = task'[t].deploy
  BY DEF Serves, KeepsKind
<1> QED
  BY <1>1, <1>2, <1>3, <1>4 DEF Works

\* A task comes to a failed write, or to a bad digest, from the operation itself.
LEMMA FailedFrom ==
  ASSUME Inv, NEW t \in Tasks, Step(t), KeepsKind(t)
  PROVE  /\ task'[t].pc = "write failed" => task[t].pc = "writing"
         /\ task'[t].pc = "digest bad" => task[t].pc = "digesting"
<1>0. task \in [Tasks -> Task]
  BY DEF Inv, TypeOK
<1>1. ASSUME PushFinish(t) \/ CommitFinish(t) PROVE task'[t].pc \in {"idle", "cleaning"}
  <2>1. Return(t) \/ \E plan : CleanThen(t, plan, "idle")
    BY <1>1 DEF PushFinish, CommitFinish
  <2>2. CASE Return(t)
    BY <1>0, <2>2 DEF Return, NoTask
  <2>3. ASSUME NEW plan, CleanThen(t, plan, "idle") PROVE task'[t].pc \in {"idle", "cleaning"}
    <3> DEFINE k == IF plan = {} THEN At(t, "idle")
                    ELSE [NoTask EXCEPT !.pc = "cleaning", !.next = "idle",
                                        !.plan = plan, !.deploy = At(t, "idle").deploy]
    <3>1. task' = [task EXCEPT ![t] = k]
      BY <2>3 DEF CleanThen
    <3>2. k.pc \in {"idle", "cleaning"}
      BY DEF At, NoTask
    <3> HIDE DEF k
    <3> QED
      BY <1>0, <3>1, <3>2
  <2> QED
    BY <2>1, <2>2, <2>3
<1>2. ASSUME task'[t].pc = "write failed" PROVE task[t].pc = "writing"
  <2>1. task[t].pc \in WritePC
    BY <1>2 DEF KeepsKind, WritePC
  <2>2. WriteChunk(t) \/ PushFinish(t)
    BY <2>1 DEF Step, CreateFile, InsertSession, ApplyCleanupPlan, DigestFile, CommitFinish,
                ServiceNameForDeploy, CommittedArtifact, EndDeploy, Purge, WritePC
  <2> QED
    BY <1>1, <1>2, <2>2 DEF WriteChunk
<1>3. ASSUME task'[t].pc = "digest bad" PROVE task[t].pc = "digesting"
  <2>1. task[t].pc \in DigestPC
    BY <1>3 DEF KeepsKind, DigestPC
  <2>2. DigestFile(t) \/ CommitFinish(t)
    BY <2>1 DEF Step, CreateFile, InsertSession, ApplyCleanupPlan, WriteChunk, PushFinish,
                ServiceNameForDeploy, CommittedArtifact, EndDeploy, Purge, DigestPC
  <2> QED
    BY <1>1, <1>3, <2>2 DEF DigestFile
<1> QED
  BY <1>2, <1>3

\* A file that a digest reads while its session exists is the declared one.
LEMMA DigestIsGood ==
  ASSUME Inv, StoreInv, NEW t \in Tasks, task[t].pc \in DigestPC,
         NEW d, d = task[t].deploy, d \in DOMAIN sessions
  PROVE  Verified(d)
<1>1. sessions[d].commit_in_progress /\ GoodSession(d)
  BY DEF Inv, Work, StoreInv, GoodData
<1> QED
  BY <1>1 DEF GoodSession, Complete, Verified

\* A write or digest whose session is gone has seen a purge.
LEMMA GoneIsPurged ==
  ASSUME Inv, NEW t \in Tasks, task[t].pc \in WritePC \cup DigestPC,
         task[t].deploy \notin DOMAIN sessions
  PROVE  Broken
  BY DEF Inv, Work, Broken

\* Failures on the way are counted, or are a purge's.
LEMMA ServeMarks ==
  ASSUME UploadInv, NEW t \in Tasks, call[t].at = "running", Step(t), Serving(t), NEW code,
         faults' = IF Failed(t, code) THEN faults + 1 ELSE faults
  PROVE  Marks(t) /\ (Failed(t, code) => faults' > 0) /\ faults <= faults'
<1>0. /\ Inv /\ StoreInv /\ KeepsKind(t)
  BY RunningFacts DEF Serving
<1>f. faults \in Nat
  BY DEF UploadInv, ClientTypeOK
<1>1. /\ Failed(t, code) => faults' > 0
      /\ faults <= faults'
  BY <1>f
<1>2. ASSUME task'[t].pc = "write failed" PROVE faults' > 0
  BY <1>0, <1>1, <1>2, FailedFrom DEF Failed
<1>3. ASSUME task'[t].pc = "digest bad" PROVE Broken'
  <2>1. task[t].pc = "digesting" /\ task[t].pc \in DigestPC
    BY <1>0, <1>3, FailedFrom DEF DigestPC
  <2>2. CASE task[t].deploy \in DOMAIN sessions
    <3>1. Verified(task[t].deploy)
      BY <1>0, <2>1, <2>2, DigestIsGood
    <3> QED
      BY <1>1, <1>3, <2>1, <3>1 DEF Failed, Broken
  <2>3. CASE task[t].deploy \notin DOMAIN sessions
    <3>1. purged # {}
      BY <1>0, <2>1, <2>3 DEF Inv, Work
    <3>2. purged \subseteq purged'
      BY DEF Serving, Sound, Evolves
    <3> QED
      BY <3>1, <3>2 DEF Broken
  <2> QED
    BY <2>2, <2>3
<1> QED
  BY <1>1, <1>2, <1>3 DEF Marks

\* A push or a commit that has done its work: the answer says so.
LEMMA DoneReply ==
  ASSUME UploadInv, Inv', NEW t \in Tasks, Serving(t), call[t].at = "running", NEW c,
         c = [call[t] EXCEPT !.at = "running", !.code = "ok"], Reply(t, c), Works(t, c)', Marks(t),
         NEW d, d = task[t].deploy, d \in DOMAIN sessions,
         task[t].pc \in {"written", "digest good"}
  PROVE  UploadInv'
<1>1. PICK b \in Call : b = call[t]
  BY DEF UploadInv, ClientTypeOK
<1>2. /\ c.kind = b.kind /\ c.deploy = b.deploy /\ c.chunk = b.chunk /\ c.code = "ok"
  BY <1>1 DEF Call
<1>3. Serves(t) /\ Tells(b) /\ Inv /\ Sound(t) /\ Outcome(t)
  BY <1>1, RunningFacts DEF Serving
<1>4. d \in opened /\ opened \subseteq opened'
  BY <1>3 DEF Inv, Ids, Sound, Evolves
<1>5. CASE task[t].pc = "written"
  <2>1. b.kind = "push" /\ b.deploy = d /\ b.chunk = task[t].chunk
    BY <1>1, <1>3, <1>5 DEF Serves, WritePC
  <2>2. b.chunk \in Chunks /\ b.chunk \in sessions'[d].received
    BY <1>3, <1>5, <2>1 DEF Outcome, Tells
  <2>3. Has(c.deploy, c.chunk)'
    BY <1>2, <1>4, <2>1, <2>2 DEF Has
  <2>4. Tells(c)'
    BY <1>2, <1>4, <2>1, <2>2, <2>3 DEF Tells, Phases
  <2> QED
    BY <1>2, <1>3, <2>1, <2>4, ReplyKeeps DEF Truth, CodeOK
<1>6. CASE task[t].pc = "digest good"
  <2>1. b.kind = "commit" /\ b.deploy = d
    BY <1>1, <1>3, <1>6 DEF Serves, DigestPC
  <2>2. Full(d)'
    BY <1>3, <2>1, FullStays DEF Tells, Sound
  <2>3. d \in DOMAIN sessions' /\ sessions'[d].committed
    BY <1>3, <1>6 DEF Outcome
  <2>4. Uploaded(d)'
    BY <1>4, <2>3 DEF Uploaded
  <2>5. Tells(c)'
    BY <1>2, <2>1, <2>2, <2>4 DEF Tells, Phases
  <2> QED
    BY <1>2, <1>3, <2>1, <2>5, ReplyKeeps DEF Truth, CodeOK
<1> QED
  BY <1>5, <1>6

\* A prepare that has made its session, or found the one of another.
LEMMA InsertedReply ==
  ASSUME UploadInv, Inv', NEW t \in Tasks, Serving(t), call[t].at = "running", Marks(t),
         task[t].pc = "inserting", NEW c, c = Answered(t, "ok"),
         call' = [call EXCEPT ![t] = Answer(t, c)], client' = client,
         faults' \in 0..MaxFaults, faults <= faults'
  PROVE  UploadInv'
<1>1. PICK b \in Call : b = call[t]
  BY DEF UploadInv, ClientTypeOK
<1>2. Serves(t) /\ KeepsKind(t) /\ Sound(t) /\ TheKey \in DOMAIN idempotency'
  BY RunningFacts DEF Serving, Outcome
<1>3. b.kind = "prepare"
  BY <1>1, <1>2 DEF Serves, NewPC
<1>4. PICK d : d = idempotency'[TheKey]
  OBVIOUS
<1>5. PICK m : m = Chunks \ sessions'[d].received
  OBVIOUS
<1>6. d \in Deploys /\ m \in SUBSET Chunks
  BY <1>2, <1>4, <1>5 DEF Inv, TypeOK
<1>7. c = [b EXCEPT !.code = "ok", !.deploy = d, !.missing = m]
  BY <1>1, <1>4, <1>5 DEF Answered
<1>8. /\ c \in Call /\ c.at = "running" /\ c.kind = "prepare" /\ c.code = "ok"
      /\ c.deploy = d /\ c.missing = m /\ c.chunk = b.chunk
  BY <1>1, <1>3, <1>6, <1>7 DEF Call, Codes
<1>9. Reply(t, c)
  BY <1>1, <1>3, <1>8 DEF Reply, Live
<1>10. Works(t, c)'
  BY <1>1, <1>2, <1>3, <1>8, StillWorks
<1> QED
  BY <1>2, <1>4, <1>5, <1>8, <1>9, <1>10, PreparedReply

\* Time is a number of seconds.
LEMMA ClockIsNat ==
  ASSUME Inv PROVE clock \in Nat
  BY DEF Inv, TypeOK

\* What handlers answer, and why.
LEMMA AnswerCodes ==
  ASSUME UploadInv, NEW t \in Tasks, call[t].at = "running", Step(t), Serving(t),
         task[t].pc # "inserting", NEW code \in Answers(t),
         Failed(t, code) => faults' > 0,
         faults \in Nat, faults' \in Nat, faults <= faults'
  PROVE  \/ code = call[t].code
         \/ code \in Codes /\ code # "ok" /\ CodeOK(code)'
         \/ code = "ok" /\ call[t].kind = "deploy"
         \/ /\ code = "ok" /\ task[t].pc \in {"written", "digest good"}
            /\ task[t].deploy \in DOMAIN sessions
<1>0. /\ Inv /\ StoreInv /\ Serves(t) /\ Tells(call[t]) /\ Evolves({t})
      /\ task[t].pc = "write failed" => faults > 0
      /\ task[t].pc = "digest bad" => Broken
  BY RunningFacts DEF Serving, Sound
<1>1. (Expired => Expired') /\ (Broken => Broken')
  BY <1>0, CausesStay
<1>2. ASSUME code = "Internal", Broken' PROVE code \in Codes /\ code # "ok" /\ CodeOK(code)'
  BY <1>2 DEF Codes, CodeOK
<1>3. faults' > 0 => Broken'
  BY DEF Broken
<1>d. PICK d : d = task[t].deploy
  OBVIOUS
<1>4. CASE task[t].pc = "creating"
  <2>1. code = call[t].code \/ code = "Internal"
    BY <1>4 DEF Answers
  <2>2. code = "Internal" => Broken'
    BY <1>3, <1>4 DEF Failed
  <2> QED
    BY <1>2, <2>1, <2>2
<1>5. CASE task[t].pc \in {"written", "digest good"}
  <2>1. code = IF d \notin DOMAIN sessions THEN "Internal" ELSE "ok"
    BY <1>5, <1>d DEF Answers
  <2>2. d \notin DOMAIN sessions => Broken'
    BY <1>0, <1>1, <1>5, <1>d, GoneIsPurged DEF WritePC, DigestPC
  <2> QED
    BY <1>2, <1>5, <1>d, <2>1, <2>2
<1>6. CASE task[t].pc = "write failed"
  <2>1. code = "Internal"
    BY <1>6 DEF Answers
  <2>2. Broken
    BY <1>0, <1>6 DEF Broken
  <2> QED
    BY <1>1, <1>2, <2>1, <2>2
<1>7. CASE task[t].pc = "digest bad"
  <2>1. code = IF d \notin DOMAIN sessions \/ Verified(d) THEN "Internal" ELSE "BadManifest"
    BY <1>7, <1>d DEF Answers
  <2>2. d \in DOMAIN sessions => Verified(d)
    BY <1>0, <1>7, <1>d, DigestIsGood DEF DigestPC
  <2> QED
    BY <1>0, <1>1, <1>2, <1>7, <2>1, <2>2
<1>8. CASE task[t].pc \in {"naming", "locating", "staging"}
  <2>0. call[t].kind = "deploy" /\ call[t].deploy = d
    BY <1>0, <1>8, <1>d DEF Serves, LookupPC
  <2>1. CASE task[t].pc \in {"naming", "locating"} /\ task'[t].pc = "purging"
    <3>1. code = "NotFound"
      BY <2>1 DEF Answers
    <3>2. d \notin Committed(sessions)
      BY <1>d, <2>1 DEF Serving, Outcome
    <3>3. d \in opened /\ d \notin DOMAIN sessions
      BY <1>0, <2>0, <3>2 DEF Tells, Uploaded, Committed
    <3>c. clock \in Nat
      BY <1>0, ClockIsNat
    <3>4. Early => purged # {}
      BY <1>0, <3>3 DEF StoreInv, Stays
    <3>5. Expired
      BY <3>c, <3>4 DEF Expired
    <3> QED
      BY <1>1, <3>1, <3>5 DEF CodeOK, Codes
  <2>2. CASE task[t].pc = "staging" /\ task'[t].pc = "purging"
    <3>1. code \in {"ok", "Internal"}
      BY <2>2 DEF Answers
    <3>2. code = "Internal" => Broken'
      BY <1>3, <2>2 DEF Failed
    <3> QED
      BY <1>2, <2>0, <3>1, <3>2
  <2>3. CASE task'[t].pc # "purging"
    <3>1. code \in {"Busy", call[t].code}
      BY <1>8, <2>3 DEF Answers
    <3> QED
      BY <3>1 DEF CodeOK, Codes
  <2> QED
    BY <1>8, <2>1, <2>2, <2>3
<1>9. CASE task[t].pc \notin {"creating", "inserting", "written", "digest good", "write failed",
                              "digest bad", "naming", "locating", "staging"}
  BY <1>9 DEF Answers
<1> QED
  BY <1>4, <1>5, <1>6, <1>7, <1>8, <1>9

\* One step of a handler.
LEMMA ServeKeeps ==
  ASSUME UploadInv, NEW t \in Tasks, Serve(t) PROVE [Next]_vars /\ UploadInv'
<1>0. call[t].at = "running" /\ Step(t) /\ client' = client
  BY DEF Serve
<1>1. PICK code \in Answers(t) :
        /\ faults' = IF Failed(t, code) THEN faults + 1 ELSE faults
        /\ faults' <= MaxFaults
        /\ call' = [call EXCEPT ![t] = Answer(t, Answered(t, code))]
  BY DEF Serve
<1>2. /\ Inv /\ StoreInv /\ Serves(t)
  BY <1>0, RunningFacts
<1>3. [Next]_vars
  BY <1>0 DEF Next
<1>4. Inv'
  BY <1>2, <1>3, InvStep
<1>5. Serving(t) /\ Sound(t) /\ KeepsKind(t)
  BY <1>0, <1>2, StepServes DEF Serving
<1>6. Marks(t) /\ (Failed(t, code) => faults' > 0) /\ faults <= faults'
  BY <1>0, <1>1, <1>5, ServeMarks
<1>7. faults \in Nat /\ faults' \in Nat /\ faults' \in 0..MaxFaults
  <2>1. faults \in Nat
    BY DEF UploadInv, ClientTypeOK
  <2>2. faults' \in Nat
    BY <1>1, <2>1
  <2> QED
    BY <1>1, <2>1, <2>2, AttemptsAssumption
<1>8. PICK b \in Call : b = call[t]
  BY DEF UploadInv, ClientTypeOK
<1>9. CASE task[t].pc = "inserting"
  <2>1. code = "ok"
    BY <1>9 DEF Answers
  <2>2. PICK c : c = Answered(t, "ok")
    OBVIOUS
  <2> QED
    BY <1>0, <1>1, <1>3, <1>4, <1>5, <1>6, <1>7, <1>9, <2>1, <2>2, InsertedReply
<1>10. CASE task[t].pc # "inserting"
  <2>1. PICK c : c = [call[t] EXCEPT !.at = "running", !.code = code]
    OBVIOUS
  <2>2. c = [b EXCEPT !.code = code]
    BY <1>0, <1>8, <2>1 DEF Call
  <2>3. call' = [call EXCEPT ![t] = Answer(t, c)]
    BY <1>1, <1>8, <1>10, <2>2 DEF Answered
  <2>4. \/ code = b.code
        \/ code \in Codes /\ code # "ok" /\ CodeOK(code)'
        \/ code = "ok" /\ b.kind = "deploy"
        \/ /\ code = "ok" /\ task[t].pc \in {"written", "digest good"}
           /\ task[t].deploy \in DOMAIN sessions
    BY <1>0, <1>1, <1>5, <1>6, <1>7, <1>8, <1>10, AnswerCodes
  <2>5. code \in Codes \cup {"none"}
    BY <1>8, <2>4 DEF Call, Codes
  <2>r. call[t].at \in Live
    BY <1>0 DEF Live
  <2>f. faults' \in 0..MaxFaults /\ faults <= faults' /\ client' = client
    BY <1>0, <1>6, <1>7
  <2>6. /\ Reply(t, c) /\ c.kind = call[t].kind /\ c.deploy = call[t].deploy
        /\ c.chunk = call[t].chunk
    <3>1. /\ c \in Call /\ c.kind = b.kind /\ c.deploy = b.deploy /\ c.chunk = b.chunk
          /\ c.at = "running"
      BY <1>0, <1>8, <2>2, <2>5 DEF Call
    <3> QED
      BY <1>8, <2>3, <2>r, <2>f, <3>1 DEF Reply
  <2>7. Works(t, c)'
    BY <1>2, <1>5, <2>6, StillWorks
  <2>8. CASE code = b.code
    <3>1. c = [call[t] EXCEPT !.at = "running"]
      BY <1>8, <2>1, <2>8 DEF Call
    <3> QED
      BY <1>3, <1>4, <1>5, <1>6, <2>6, <2>7, <3>1, SameReply
  <2>9. CASE (code # "ok" /\ CodeOK(code)') \/ (code = "ok" /\ b.kind = "deploy")
    <3>1. CodeOK(code)'
      BY <2>9 DEF CodeOK
    <3> QED
      BY <1>3, <1>4, <1>5, <1>6, <1>8, <2>1, <2>6, <2>7, <2>9, <3>1, ErrorReply
  <2>10. CASE /\ code = "ok" /\ task[t].pc \in {"written", "digest good"}
              /\ task[t].deploy \in DOMAIN sessions
    BY <1>0, <1>3, <1>4, <1>5, <1>6, <2>1, <2>6, <2>7, <2>10, DoneReply
  <2> QED
    BY <2>4, <2>8, <2>9, <2>10
<1> QED
  BY <1>9, <1>10

-----------------------------------------------------------------------------
(* Handlers that are dropped, and the store by itself.                     *)

\* A call ends without an answer.
LEMMA DropKeeps ==
  ASSUME UploadInv, Inv', NEW t \in Tasks, Sound(t) \/ Still, task'[t].pc = "idle",
         NEW c \in Call, c.at \in {"free", "lost"}, c.code = "none",
         client.call = t => c.at = "lost" /\ c.kind = call[t].kind,
         call' = [call EXCEPT ![t] = c], UNCHANGED <<client, faults>>
  PROVE  UploadInv'
<1>1. /\ StoreInv' /\ \A u \in Tasks \ {t} : task'[u] = task[u]
  BY StoreMoves
<1>2. PICK T \in SUBSET (Tasks \cap {t}) : Evolves(T)
  BY StoreMoves
<1>3. call'[t] = c /\ \A u \in Tasks \ {t} : call'[u] = call[u]
  BY DEF UploadInv, ClientTypeOK
<1>4. ClientTypeOK' /\ faults <= faults'
  BY FaultsStand DEF UploadInv, ClientTypeOK
<1>5. CallOK(t)'
  <2>1. Serves(t)'
    BY DEF Serves, NewPC, WritePC, DigestPC, LookupPC, Bound, FoundPC
  <2> QED
    BY <1>3, <2>1 DEF CallOK, Live, CodeOK
<1>6. OldCommit(t) /\ Awaited(t)
  BY <1>3 DEF OldCommit, Awaited, Live
<1>7. Handles(t)
  BY <1>1, <1>3, <1>4 DEF Handles
<1> QED
  BY <1>1, <1>2, <1>5, <1>6, <1>7, HandlerKeeps

\* The two ways in which handlers are dropped.
LEMMA DropsKeep ==
  ASSUME UploadInv, NEW t \in Tasks, Drop(t) \/ DropAwaited(t) PROVE [Next]_vars /\ UploadInv'
<1>0. Inv /\ StoreInv /\ call[t] \in Call /\ CallOK(t)
  BY DEF UploadInv, ClientTypeOK
<1>1. ASSUME Abort(t) PROVE [Next]_vars /\ Inv' /\ Sound(t) /\ task'[t].pc = "idle"
  <2>1. [Next]_vars
    BY <1>1 DEF Next
  <2> QED
    BY <1>0, <1>1, <2>1, InvStep, AbortSound
<1>2. ASSUME UNCHANGED vars, call[t].at = "sent"
      PROVE  [Next]_vars /\ Inv' /\ Still /\ task'[t].pc = "idle"
  <2>1. Still
    BY <1>0, <1>2, StillEvolves, FilesStand DEF Still, vars
  <2>2. task'[t].pc = "idle"
    BY <1>0, <1>2 DEF CallOK, Serves, vars
  <2>3. Inv'
    BY <1>0, <1>2, InvStep
  <2> QED
    BY <1>2, <2>1, <2>2, <2>3
<1>3. CASE Drop(t)
  <2>1. PICK c : c = NoCall
    OBVIOUS
  <2>2. c \in Call /\ c.at = "free" /\ c.code = "none"
    BY <2>1 DEF NoCall, Call, Codes
  <2>3. client.call # t /\ call' = [call EXCEPT ![t] = c] /\ UNCHANGED <<client, faults>>
    BY <1>3, <2>1 DEF Drop
  <2>4. [Next]_vars /\ Inv' /\ (Sound(t) \/ Still) /\ task'[t].pc = "idle"
    BY <1>1, <1>2, <1>3 DEF Drop
  <2> QED
    BY <2>2, <2>3, <2>4, DropKeeps
<1>4. CASE DropAwaited(t)
  <2>1. PICK c : c = [NoCall EXCEPT !.at = "lost", !.kind = call[t].kind]
    OBVIOUS
  <2>2. c \in Call /\ c.at = "lost" /\ c.code = "none" /\ c.kind = call[t].kind
    BY <1>0, <2>1 DEF NoCall, Call, Codes
  <2>3. call' = [call EXCEPT ![t] = c] /\ UNCHANGED <<client, faults>>
    BY <1>4, <2>1 DEF DropAwaited
  <2>4. [Next]_vars /\ Inv' /\ Sound(t) /\ task'[t].pc = "idle"
    BY <1>1, <1>4 DEF DropAwaited
  <2> QED
    BY <2>2, <2>3, <2>4, DropKeeps
<1> QED
  BY <1>3, <1>4

\* A late write of a dropped push, or the clock: no handler moves.
LEMMA StoreStepKeeps ==
  ASSUME UploadInv, StoreStep PROVE [Next]_vars /\ UploadInv'
<1>0. Inv /\ StoreInv /\ UNCHANGED <<client, call, faults>>
  BY DEF UploadInv, StoreStep
<1>1. [Next]_vars
  BY DEF StoreStep, Next
<1>2. Inv'
  BY <1>0, <1>1, InvStep
<1>3. task' = task /\ Evolves({}) /\ FilesGrow
  BY <1>0, StillSound DEF StoreStep, Still
<1>4. PICK T : T = {}
  OBVIOUS
<1>5. StoreInv'
  BY <1>0, <1>2, <1>3, <1>4, StoreKept
<1>6. ClientTypeOK' /\ faults <= faults'
  BY <1>0, FaultsStand DEF UploadInv, ClientTypeOK
<1>7. Handles(NoHandler)
  BY <1>0, <1>3, <1>6 DEF Handles
<1> QED
  BY <1>1, <1>2, <1>3, <1>4, <1>5, <1>7, HandlerAssumption, HandlerKeeps

-----------------------------------------------------------------------------
(* The client.                                                             *)

\* The client leaves the store alone: what is known of it stays.
LEMMA KnownStays ==
  ASSUME Inv, UNCHANGED vars, NEW t, \A u \in Tasks \ {t} : call'[u] = call[u],
         t \in Tasks => OldCommit(t)
  PROVE  /\ opened' = opened /\ \A d : (Full(d) => Full(d)') /\ (Uploaded(d) => Uploaded(d)')
         /\ \A d, x : Has(d, x) => Has(d, x)'
         /\ \A d : Fresh(d) => Fresh(d)'
<1>1. Evolves({})
  BY StillEvolves DEF vars
<1>2. PICK T : T = {}
  OBVIOUS
<1>3. ASSUME NEW d, Fresh(d) PROVE Fresh(d)'
  <2>1. \A u \in Tasks : call'[u].at \in Live /\ call'[u].kind = "commit" => call'[u].deploy # d
    BY <1>3 DEF Fresh, OldCommit
  <2>2. d \in DOMAIN sessions' => ~sessions'[d].committed /\ ~sessions'[d].commit_in_progress
    BY <1>3 DEF Fresh, vars
  <2> QED
    BY <2>1, <2>2 DEF Fresh
<1>4. \A d : (Full(d) => Full(d)') /\ (Uploaded(d) => Uploaded(d)')
  BY <1>1, <1>2, FullStays, UploadedStays
<1>5. \A d, x : Has(d, x) => Has(d, x)'
  BY <1>1, <1>2, HasStays
<1> QED
  BY <1>3, <1>4, <1>5 DEF vars

\* The client's steps, and at most one call that changes.
LEMMA ClientKeeps ==
  ASSUME UploadInv, UNCHANGED vars, NEW t, \A u \in Tasks \ {t} : call'[u] = call[u],
         t \in Tasks => CallOK(t)', ClientTypeOK', faults <= faults', ClientOK'
  PROVE  [Next]_vars /\ UploadInv'
<1>0. Inv /\ StoreInv /\ faults \in Nat /\ faults' \in Nat
  BY DEF UploadInv, ClientTypeOK
<1>1. Inv'
  BY <1>0, InvStep
<1>2. Evolves({}) /\ FilesGrow /\ task' = task
  BY <1>0, StillEvolves, FilesStand DEF vars
<1>3. PICK T : T = {}
  OBVIOUS
<1>4. StoreInv'
  BY <1>0, <1>1, <1>2, <1>3, StoreKept
<1>5. \A u \in Tasks \ {t} : CallOK(u)'
  BY <1>0, <1>2, <1>3, CallStays
<1> QED
  BY <1>1, <1>4, <1>5 DEF UploadInv

\* The client is done with a call, which ends if its handler has.
Hangs(t) ==
  \/ call' = call
  \/ t \in Tasks /\ task[t].pc = "idle" /\ call' = [call EXCEPT ![t] = NoCall]

\* All other calls are as they were, and that one is true, or gone.
LEMMA HangsFacts ==
  ASSUME UploadInv, NEW t, UNCHANGED vars, Hangs(t), faults \in Nat, faults' \in Nat,
         faults <= faults'
  PROVE  /\ \A u \in Tasks \ {t} : call'[u] = call[u]
         /\ call' \in [Tasks -> Call]
         /\ t \in Tasks => OldCommit(t) /\ CallOK(t)'
<1>1. call \in [Tasks -> Call] /\ NoCall \in Call /\ Inv
  BY DEF UploadInv, ClientTypeOK, NoCall, Call, Codes
<1>2. \A u \in Tasks \ {t} : call'[u] = call[u]
  BY <1>1 DEF Hangs
<1>3. call' \in [Tasks -> Call]
  BY <1>1 DEF Hangs
<1>4. ASSUME t \in Tasks PROVE OldCommit(t) /\ CallOK(t)'
  <2>1. CASE call' = call
    <3>1. Evolves({})
      BY <1>1, StillEvolves DEF vars
    <3>2. PICK T : T = {}
      OBVIOUS
    <3>3. CallOK(t)'
      BY <1>4, <2>1, <3>1, <3>2, CallStays DEF vars
    <3> QED
      BY <2>1, <3>3 DEF OldCommit
  <2>2. CASE task[t].pc = "idle" /\ call' = [call EXCEPT ![t] = NoCall]
    <3>1. call'[t] = NoCall /\ task'[t].pc = "idle"
      BY <1>1, <1>4, <2>2 DEF vars
    <3>2. NoCall.at = "free" /\ NoCall.code = "none"
      BY DEF NoCall
    <3>3. Serves(t)'
      BY <3>1 DEF Serves, NewPC, WritePC, DigestPC, LookupPC, Bound, FoundPC
    <3>4. CallOK(t)'
      BY <3>1, <3>2, <3>3 DEF CallOK, Live, CodeOK
    <3> QED
      BY <3>1, <3>2, <3>4 DEF OldCommit, Live
  <2> QED
    BY <2>1, <2>2 DEF Hangs
<1> QED
  BY <1>2, <1>3, <1>4

\* The client goes on from what it knows, awaiting nothing.
LEMMA GoesOnKeeps ==
  ASSUME UploadInv, UNCHANGED vars, NEW t, Hangs(t), faults' \in 0..MaxFaults, faults <= faults',
         NEW b \in Client, client' = b, b.call = NoHandler, CodeOK(b.reason),
         \A d \in {b.deploy} :
           /\ b.pc = "push" => d \in opened /\ Fresh(d) /\ \A x \in Chunks \ b.plan : Has(d, x)
           /\ b.pc = "commit" => Full(d)
           /\ b.pc = "deploy" => Uploaded(d)
  PROVE  [Next]_vars /\ UploadInv'
<1>0. Inv /\ faults \in Nat /\ faults' \in Nat
  BY DEF UploadInv, ClientTypeOK
<1>1. /\ \A u \in Tasks \ {t} : call'[u] = call[u]
      /\ call' \in [Tasks -> Call]
      /\ t \in Tasks => OldCommit(t) /\ CallOK(t)'
  BY <1>0, HangsFacts
<1>2. /\ opened' = opened /\ \A d : (Full(d) => Full(d)') /\ (Uploaded(d) => Uploaded(d)')
      /\ \A d, x : Has(d, x) => Has(d, x)'
      /\ \A d : Fresh(d) => Fresh(d)'
  BY <1>0, <1>1, KnownStays
<1>3. PICK d : d = b.deploy
  OBVIOUS
<1>4. /\ b.pc = "push" => d \in opened' /\ Fresh(d)' /\ \A x \in Chunks \ b.plan : Has(d, x)'
      /\ b.pc = "commit" => Full(d)'
      /\ b.pc = "deploy" => Uploaded(d)'
  BY <1>2, <1>3
<1>5. Knows'
  BY <1>3, <1>4 DEF Knows
<1>6. Awaits'
  BY DEF Awaits
<1>7. CodeOK(client.reason)'
  <2>1. PICK code : code = b.reason
    OBVIOUS
  <2>2. Evolves({})
    BY <1>0, StillEvolves DEF vars
  <2>3. PICK T : T = {}
    OBVIOUS
  <2>4. CodeOK(code)'
    BY <1>0, <2>1, <2>2, <2>3, CausesStay
  <2> QED
    BY <2>1, <2>4 DEF CodeOK
<1>8. ClientTypeOK' /\ ClientOK'
  BY <1>1, <1>5, <1>6, <1>7 DEF ClientTypeOK, ClientOK
<1> QED
  BY <1>1, <1>8, ClientKeeps

\* A client that starts from scratch, or has ended.
Scratch(pc, n, reason) ==
  [pc |-> pc, attempt |-> n, try |-> 1, deploy |-> NoDeploy, plan |-> {}, call |-> NoHandler,
   reason |-> reason]

\* It has the type of a client.
LEMMA ScratchFacts ==
  ASSUME NEW pc \in {"prepare", "failed", "deployed"}, NEW n \in 1..UploadAttempts,
         NEW reason \in Codes \cup {"none", "transport"}, NEW b, b = Scratch(pc, n, reason)
  PROVE  /\ b \in Client /\ b.call = NoHandler /\ b.reason = reason
         /\ b.pc \notin {"push", "commit", "deploy"}
<1>1. 1 \in 1..StreamAttempts
  BY AttemptsAssumption
<1> QED
  BY <1>1 DEF Scratch, Client, Phases

\* What the model writes for the start of a run and of an attempt is that client.
LEMMA ScratchForms ==
  ASSUME NEW pc, NEW n, NEW reason
  PROVE  /\ [NoClient EXCEPT !.pc = pc] = Scratch(pc, 1, "none")
         /\ [NoClient EXCEPT !.pc = pc, !.attempt = n] = Scratch(pc, n, "none")
         /\ [NoClient EXCEPT !.pc = pc, !.reason = reason] = Scratch(pc, 1, reason)
<1>1. [NoClient EXCEPT !.pc = pc] = Scratch(pc, 1, "none")
  BY DEF NoClient, Scratch
<1>2. PICK a : a = [NoClient EXCEPT !.pc = pc, !.attempt = n]
  OBVIOUS
<1>3. a = Scratch(pc, n, "none")
  BY <1>2 DEF NoClient, Scratch
<1>4. PICK b : b = [NoClient EXCEPT !.pc = pc, !.reason = reason]
  OBVIOUS
<1>5. b = Scratch(pc, 1, reason)
  BY <1>4 DEF NoClient, Scratch
<1> QED
  BY <1>1, <1>2, <1>3, <1>4, <1>5

\* The first attempt is one of the attempts.
LEMMA FirstAttempt == 1 \in 1..UploadAttempts /\ 1 \in 1..StreamAttempts
  BY AttemptsAssumption

\* The command is run, or run again.
LEMMA RunKeeps == ASSUME UploadInv, Run PROVE [Next]_vars /\ UploadInv'
<1>1. PICK b : b = Scratch("prepare", 1, "none")
  OBVIOUS
<1>2. client' = b /\ UNCHANGED vars /\ call' = call /\ faults' = faults
  BY <1>1, ScratchForms DEF Run
<1>3. /\ b \in Client /\ b.call = NoHandler /\ b.reason = "none"
      /\ b.pc \notin {"push", "commit", "deploy"}
  BY <1>1, FirstAttempt, ScratchFacts
<1>4. CodeOK(b.reason)
  BY <1>3 DEF CodeOK
<1>5. faults' \in 0..MaxFaults /\ faults <= faults'
  BY <1>2, FaultsStand
<1>6. Hangs(NoHandler)
  BY <1>2 DEF Hangs
<1> QED
  BY <1>2, <1>3, <1>4, <1>5, <1>6, GoesOnKeeps

\* An attempt ends with an error that has a cause.
LEMMA AttemptFailedKeeps ==
  ASSUME UploadInv, UNCHANGED vars, NEW t, Hangs(t), faults' \in 0..MaxFaults, faults <= faults',
         NEW code \in Codes \cup {"none", "transport"}, CodeOK(code), AttemptFailed(code)
  PROVE  [Next]_vars /\ UploadInv'
<1>1. PICK m \in 1..UploadAttempts : m = client.attempt
  BY DEF UploadInv, ClientTypeOK, Client
<1>2. CASE /\ client.pc # "deploy" /\ should_retry(code) /\ client.attempt < UploadAttempts
  <2>1. m + 1 \in 1..UploadAttempts
    BY <1>1, <1>2, AttemptsAssumption
  <2>2. PICK n \in 1..UploadAttempts : n = m + 1
    BY <2>1
  <2>3. PICK b : b = Scratch("prepare", n, "none")
    OBVIOUS
  <2>4. client' = b
    BY <1>1, <1>2, <2>2, <2>3, ScratchForms DEF AttemptFailed, next_attempt
  <2>5. /\ b \in Client /\ b.call = NoHandler /\ b.reason = "none"
        /\ b.pc \notin {"push", "commit", "deploy"}
    BY <2>3, ScratchFacts
  <2>6. CodeOK(b.reason)
    BY <2>5 DEF CodeOK
  <2> QED
    BY <2>4, <2>5, <2>6, GoesOnKeeps
<1>3. CASE ~(client.pc # "deploy" /\ should_retry(code) /\ client.attempt < UploadAttempts)
  <2>1. PICK b : b = Scratch("failed", 1, code)
    OBVIOUS
  <2>2. client' = b
    BY <1>3, <2>1, ScratchForms DEF AttemptFailed
  <2>3. /\ b \in Client /\ b.call = NoHandler /\ b.reason = code
        /\ b.pc \notin {"push", "commit", "deploy"}
    BY <2>1, FirstAttempt, ScratchFacts
  <2> QED
    BY <2>2, <2>3, GoesOnKeeps
<1> QED
  BY <1>2, <1>3

\* The client gives a call up.
LEMMA GiveUpKeeps == ASSUME UploadInv, GiveUp PROVE [Next]_vars /\ UploadInv'
<1>1. PICK t \in Tasks : t = client.call
  BY DEF GiveUp, UploadInv, ClientTypeOK, Client
<1>2. UNCHANGED vars /\ CallOK(t)
  BY DEF GiveUp, UploadInv
<1>3. Hangs(t)
  <2>1. call[t].at = "lost" => task[t].pc = "idle"
    BY <1>2 DEF CallOK, Serves
  <2> QED
    BY <1>1, <2>1 DEF GiveUp, Hangs
<1>4. faults' \in 0..MaxFaults /\ faults <= faults'
  <2>1. CASE faults' = faults
    BY <2>1, FaultsStand
  <2>2. CASE faults < MaxFaults /\ faults' = faults + 1
    <3>1. faults \in Nat
      BY DEF UploadInv, ClientTypeOK
    <3> QED
      BY <2>2, <3>1, AttemptsAssumption
  <2> QED
    BY <2>1, <2>2 DEF GiveUp
<1> DEFINE tries == IF client.pc = "deploy" THEN 1 ELSE StreamAttempts
<1>5. CASE client.try < tries
  <2>1. PICK a \in Client : a = client
    BY DEF UploadInv, ClientTypeOK
  <2>2. PICK n \in 1..StreamAttempts : n = a.try
    BY <2>1 DEF Client
  <2>3. n + 1 \in 1..StreamAttempts
    BY <1>5, <2>1, <2>2, AttemptsAssumption
  <2>4. PICK m \in 1..StreamAttempts : m = n + 1
    BY <2>3
  <2>5. PICK b : b = [a EXCEPT !.try = m, !.call = NoHandler]
    OBVIOUS
  <2>6. client' = b
    BY <1>1, <1>5, <2>1, <2>2, <2>4, <2>5 DEF GiveUp
  <2>7. /\ b \in Client /\ b.call = NoHandler /\ b.reason = a.reason /\ b.pc = a.pc
        /\ b.deploy = a.deploy /\ b.plan = a.plan
    BY <2>1, <2>5 DEF Client
  <2>8. CodeOK(b.reason) /\
        \A d \in {b.deploy} :
           /\ b.pc = "push" => d \in opened /\ Fresh(d) /\ \A x \in Chunks \ b.plan : Has(d, x)
           /\ b.pc = "commit" => Full(d)
           /\ b.pc = "deploy" => Uploaded(d)
    BY <2>1, <2>7 DEF UploadInv, ClientOK, Knows
  <2> QED
    BY <1>2, <1>3, <1>4, <2>6, <2>7, <2>8, GoesOnKeeps
<1>6. CASE ~(client.try < tries)
  <2>1. AttemptFailed("transport")
    BY <1>6 DEF GiveUp
  <2>2. CodeOK("transport")
    BY DEF CodeOK
  <2> QED
    BY <1>2, <1>3, <1>4, <2>1, <2>2, AttemptFailedKeeps
<1> QED
  BY <1>5, <1>6

\* The answer to a request takes the client to its next phase with what that
\* phase takes for granted.
LEMMA AfterAnswerKeeps ==
  ASSUME UploadInv, UNCHANGED vars, NEW t \in Tasks, Hangs(t), faults' = faults,
         client.call = t, NEW c, c = call[t], c.at = "running", c.code = "ok",
         client' = AfterAnswer(c)
  PROVE  [Next]_vars /\ UploadInv'
<1>0. PICK a \in Client : a = client
  BY DEF UploadInv, ClientTypeOK
<1>1. faults' \in 0..MaxFaults /\ faults <= faults' /\ c \in Call
  BY FaultsStand DEF UploadInv, ClientTypeOK
<1>2. /\ a.pc \in Phases /\ c.kind = a.pc
      /\ c.kind # "prepare" => c.deploy = a.deploy
      /\ c.kind = "prepare" /\ c.missing # {} => Fresh(c.deploy)
  <2>1. client.call # NoHandler
    BY HandlerAssumption
  <2> QED
    BY <1>0, <2>1 DEF UploadInv, ClientOK, Awaits, Live
<1>3. Tells(c)
  BY DEF UploadInv, CallOK, Live
<1>4. /\ a.pc = "push" =>
           /\ a.deploy \in opened /\ Fresh(a.deploy)
           /\ \A x \in Chunks \ a.plan : Has(a.deploy, x)
      /\ CodeOK(a.reason)
  BY <1>0 DEF UploadInv, ClientOK, Knows
<1>5. 1 \in 1..UploadAttempts /\ 1 \in 1..StreamAttempts
  BY FirstAttempt
<1>6. CASE c.kind = "prepare"
  <2>1. PICK b : b = [a EXCEPT !.pc = IF c.missing = {} THEN "commit" ELSE "push",
                               !.deploy = c.deploy, !.plan = c.missing,
                               !.call = NoHandler, !.try = 1]
    OBVIOUS
  <2>2. client' = b
    BY <1>0, <1>6, <2>1 DEF AfterAnswer, upload_plan
  <2>3. /\ b \in Client /\ b.call = NoHandler /\ b.reason = a.reason
        /\ b.pc = IF c.missing = {} THEN "commit" ELSE "push"
        /\ b.deploy = c.deploy /\ b.plan = c.missing
    <3>1. PICK p \in {"commit", "push"} : p = IF c.missing = {} THEN "commit" ELSE "push"
      OBVIOUS
    <3>2. PICK m \in SUBSET Chunks, d \in Deploys \cup {NoDeploy} : m = c.missing /\ d = c.deploy
      BY <1>1 DEF Call
    <3>3. b = [a EXCEPT !.pc = p, !.deploy = d, !.plan = m, !.call = NoHandler, !.try = 1]
      BY <2>1, <3>1, <3>2
    <3>4. /\ b \in Client /\ b.call = NoHandler /\ b.reason = a.reason
          /\ b.pc = p /\ b.deploy = d /\ b.plan = m
      BY <1>0, <1>5, <3>3 DEF Client, Phases
    <3> QED
      BY <3>1, <3>2, <3>4
  <2>4. c.deploy \in opened /\ \A x \in Chunks \ c.missing : Has(c.deploy, x)
    BY <1>3, <1>6 DEF Tells
  <2>5. c.missing = {} => Full(c.deploy)
    BY <2>4 DEF Full
  <2>6. \A d \in {b.deploy} :
           /\ b.pc = "push" => d \in opened /\ Fresh(d) /\ \A x \in Chunks \ b.plan : Has(d, x)
           /\ b.pc = "commit" => Full(d)
           /\ b.pc = "deploy" => Uploaded(d)
    BY <1>2, <1>6, <2>3, <2>4, <2>5
  <2> QED
    BY <1>1, <1>4, <2>2, <2>3, <2>6, GoesOnKeeps
<1>7. CASE c.kind = "push"
  <2>1. PICK b : b = [a EXCEPT !.pc = IF a.plan = {c.chunk} THEN "commit" ELSE "push",
                               !.plan = a.plan \ {c.chunk}, !.call = NoHandler, !.try = 1]
    OBVIOUS
  <2>2. client' = b
    BY <1>0, <1>7, <2>1 DEF AfterAnswer
  <2>3. /\ b \in Client /\ b.call = NoHandler /\ b.reason = a.reason
        /\ b.pc = IF a.plan = {c.chunk} THEN "commit" ELSE "push"
        /\ b.deploy = a.deploy /\ b.plan = a.plan \ {c.chunk}
    <3>1. PICK p \in {"commit", "push"} : p = IF a.plan = {c.chunk} THEN "commit" ELSE "push"
      OBVIOUS
    <3>2. a.plan \in SUBSET Chunks
      BY <1>0 DEF Client
    <3>3. PICK m \in SUBSET Chunks : m = a.plan \ {c.chunk}
      BY <3>2
    <3>4. b = [a EXCEPT !.pc = p, !.plan = m, !.call = NoHandler, !.try = 1]
      BY <2>1, <3>1, <3>3
    <3>5. /\ b \in Client /\ b.call = NoHandler /\ b.reason = a.reason
          /\ b.pc = p /\ b.deploy = a.deploy /\ b.plan = m
      BY <1>0, <1>5, <3>4 DEF Client, Phases
    <3> QED
      BY <3>1, <3>3, <3>5
  <2>4. Has(a.deploy, c.chunk) /\ a.pc = "push"
    BY <1>2, <1>3, <1>7 DEF Tells
  <2>5. \A x \in Chunks \ b.plan : Has(a.deploy, x)
    BY <1>4, <2>3, <2>4
  <2>6. a.plan = {c.chunk} => Full(a.deploy)
    BY <1>4, <2>4, <2>5, <2>3 DEF Full
  <2>7. \A d \in {b.deploy} :
           /\ b.pc = "push" => d \in opened /\ Fresh(d) /\ \A x \in Chunks \ b.plan : Has(d, x)
           /\ b.pc = "commit" => Full(d)
           /\ b.pc = "deploy" => Uploaded(d)
    BY <1>4, <2>3, <2>4, <2>5, <2>6
  <2> QED
    BY <1>1, <1>4, <2>2, <2>3, <2>7, GoesOnKeeps
<1>8. CASE c.kind = "commit"
  <2>1. PICK b : b = [a EXCEPT !.pc = "deploy", !.call = NoHandler, !.try = 1]
    OBVIOUS
  <2>2. client' = b
    BY <1>0, <1>8, <2>1 DEF AfterAnswer
  <2>3. /\ b \in Client /\ b.call = NoHandler /\ b.reason = a.reason
        /\ b.pc = "deploy" /\ b.deploy = a.deploy
    BY <1>0, <1>5, <2>1 DEF Client, Phases
  <2>4. Uploaded(a.deploy)
    BY <1>2, <1>3, <1>8 DEF Tells
  <2> QED
    BY <1>1, <1>4, <2>2, <2>3, <2>4, GoesOnKeeps
<1>9. CASE c.kind = "deploy"
  <2>1. PICK b : b = Scratch("deployed", 1, "none")
    OBVIOUS
  <2>2. client' = b
    BY <1>9, <2>1, ScratchForms DEF AfterAnswer
  <2>3. /\ b \in Client /\ b.call = NoHandler /\ b.reason = "none"
        /\ b.pc \notin {"push", "commit", "deploy"}
    BY <1>5, <2>1, ScratchFacts
  <2>4. CodeOK(b.reason)
    BY <2>3 DEF CodeOK
  <2> QED
    BY <1>1, <2>2, <2>3, <2>4, GoesOnKeeps
<1> QED
  BY <1>2, <1>6, <1>7, <1>8, <1>9 DEF Phases

\* The client takes an answer.
LEMMA ReceiveKeeps == ASSUME UploadInv, Receive PROVE [Next]_vars /\ UploadInv'
<1>1. PICK t \in Tasks : t = client.call
  BY DEF Receive, UploadInv, ClientTypeOK, Client
<1>2. PICK c \in Call : c = call[t]
  BY DEF UploadInv, ClientTypeOK
<1>3. /\ UNCHANGED vars /\ faults' = faults /\ c.at = "running" /\ task[t].pc = "idle"
      /\ call' = [call EXCEPT ![t] = NoCall]
  BY <1>1, <1>2 DEF Receive
<1>4. Hangs(t)
  BY <1>3 DEF Hangs
<1>5. CASE c.code = "ok"
  <2>1. client' = AfterAnswer(c)
    BY <1>1, <1>2, <1>5 DEF Receive, succeeded
  <2> QED
    BY <1>1, <1>2, <1>3, <1>4, <1>5, <2>1, AfterAnswerKeeps
<1>6. CASE c.code # "ok"
  <2>1. AttemptFailed(c.code)
    BY <1>1, <1>2, <1>6 DEF Receive, succeeded
  <2>2. PICK code : code = c.code
    OBVIOUS
  <2>3. CodeOK(code)
    BY <1>2, <2>2 DEF UploadInv, CallOK
  <2>4. code \in Codes \cup {"none"}
    BY <1>2, <2>2 DEF Call
  <2>5. faults' \in 0..MaxFaults /\ faults <= faults'
    BY <1>3, FaultsStand
  <2> QED
    BY <1>3, <1>4, <2>1, <2>2, <2>3, <2>4, <2>5, AttemptFailedKeeps
<1> QED
  BY <1>5, <1>6

\* The client sends the request of its phase.
LEMMA SendKeeps ==
  ASSUME UploadInv, NEW t \in Tasks, Send(t) PROVE [Next]_vars /\ UploadInv'
<1>0. PICK a \in Client : a = client
  BY DEF UploadInv, ClientTypeOK
<1>1. /\ a.pc \in Phases /\ UNCHANGED vars /\ faults' = faults
      /\ client' = [a EXCEPT !.call = t]
  BY <1>0 DEF Send
<1>2. task[t].pc = "idle"
  <2>1. t \in Free
    BY DEF Send
  <2> QED
    BY <2>1 DEF Free
<1>3. PICK x \in (IF a.pc = "push" THEN a.plan ELSE {"none"}) :
        call' = [call EXCEPT ![t] =
            [NoCall EXCEPT !.at = "sent", !.kind = a.pc, !.chunk = x, !.deploy = a.deploy]]
  BY <1>0 DEF Send
<1>4. /\ x \in Chunks \cup {"none"} /\ (a.pc = "push" => x \in Chunks)
      /\ a.deploy \in Deploys \cup {NoDeploy}
  BY <1>0, <1>3 DEF Client
<1>5. PICK c : c = [NoCall EXCEPT !.at = "sent", !.kind = a.pc, !.chunk = x, !.deploy = a.deploy]
  OBVIOUS
<1>6. /\ c \in Call /\ c.at = "sent" /\ c.kind = a.pc /\ c.chunk = x /\ c.deploy = a.deploy
      /\ c.code = "none"
  BY <1>1, <1>4, <1>5 DEF NoCall, Call, Codes, Phases
<1>7. call'[t] = c /\ (\A u \in Tasks \ {t} : call'[u] = call[u]) /\ call' \in [Tasks -> Call]
  BY <1>3, <1>5, <1>6 DEF UploadInv, ClientTypeOK
<1>8. PICK b : b = [a EXCEPT !.call = t]
  OBVIOUS
<1>9. /\ b \in Client /\ b.call = t /\ b.pc = a.pc /\ b.deploy = a.deploy /\ b.plan = a.plan
      /\ b.reason = a.reason /\ client' = b
  BY <1>0, <1>1, <1>8 DEF Client
<1>10. Inv /\ faults' \in 0..MaxFaults /\ faults <= faults'
  BY <1>1, FaultsStand DEF UploadInv
<1>11. /\ a.pc = "push" =>
            a.deploy \in opened /\ Fresh(a.deploy) /\ \A y \in Chunks \ a.plan : Has(a.deploy, y)
       /\ a.pc = "commit" => Full(a.deploy)
       /\ a.pc = "deploy" => Uploaded(a.deploy)
       /\ CodeOK(a.reason)
  BY <1>0 DEF UploadInv, ClientOK, Knows
<1>12. Tells(c)
  BY <1>1, <1>4, <1>6, <1>11 DEF Tells
<1>e. Evolves({})
  BY <1>1, <1>10, StillEvolves DEF vars
<1>T. PICK T : T = {}
  OBVIOUS
<1>13. CallOK(t)'
  <2>1. Tells(c)'
    BY <1>10, <1>12, <1>e, <1>T, TellsStays
  <2>2. task'[t].pc = "idle"
    BY <1>1, <1>2 DEF vars
  <2>3. Serves(t)'
    BY <2>2 DEF Serves, NewPC, WritePC, DigestPC, LookupPC, Bound, FoundPC
  <2> QED
    BY <1>6, <1>7, <2>1, <2>2, <2>3 DEF CallOK, CodeOK
<1>14. Awaits'
  BY <1>1, <1>6, <1>7, <1>9 DEF Awaits
<1>15. Knows'
  <2>1. CASE a.pc = "commit"
    <3>1. Full(a.deploy)'
      BY <1>10, <1>11, <1>e, <1>T, <2>1, FullStays
    <3> QED
      BY <1>9, <2>1, <3>1 DEF Knows
  <2>2. CASE a.pc # "commit"
    <3>1. OldCommit(t)
      BY <1>6, <1>7, <2>2 DEF OldCommit
    <3>2. /\ opened' = opened /\ \A d : (Full(d) => Full(d)') /\ (Uploaded(d) => Uploaded(d)')
          /\ \A d, y : Has(d, y) => Has(d, y)'
          /\ \A d : Fresh(d) => Fresh(d)'
      BY <1>1, <1>7, <1>10, <3>1, KnownStays
    <3>3. /\ a.pc = "push" => /\ a.deploy \in opened' /\ Fresh(a.deploy)'
                              /\ \A y \in Chunks \ a.plan : Has(a.deploy, y)'
          /\ a.pc = "deploy" => Uploaded(a.deploy)'
      BY <1>11, <3>2
    <3> QED
      BY <1>9, <2>2, <3>3 DEF Knows
  <2> QED
    BY <2>1, <2>2
<1>16. CodeOK(client.reason)'
  <2>1. PICK code : code = a.reason
    OBVIOUS
  <2>2. CodeOK(code) /\ faults \in Nat /\ faults' \in Nat
    BY <1>10, <1>11, <2>1 DEF UploadInv, ClientTypeOK
  <2>3. CodeOK(code)'
    BY <1>10, <1>e, <1>T, <2>2, CausesStay
  <2> QED
    BY <1>9, <2>1, <2>3 DEF CodeOK
<1>17. ClientTypeOK' /\ ClientOK'
  BY <1>7, <1>9, <1>10, <1>14, <1>15, <1>16 DEF ClientTypeOK, ClientOK
<1> QED
  BY <1>1, <1>7, <1>10, <1>13, <1>17, ClientKeeps

-----------------------------------------------------------------------------
(* The theorems.                                                           *)

\* At the start there is no session, no call and nothing known.
LEMMA UploadStarts == UploadInit => UploadInv
<1> SUFFICES ASSUME UploadInit PROVE UploadInv
  OBVIOUS
<1>1. Init /\ client = NoClient /\ call = [t \in Tasks |-> NoCall] /\ faults = 0
  BY DEF UploadInit
<1>2. Inv
  BY <1>1, InvInit
<1>3. /\ DOMAIN sessions = {} /\ opened = {} /\ detached = {}
      /\ \A t \in Tasks : task[t].pc = "idle" /\ task[t].now = 0
  BY <1>1 DEF Init, NoTask
<1>4. StoreInv
  <2>1. OneKey /\ Stays
    BY <1>3 DEF OneKey, NewPC, Stays
  <2>2. Times
    BY <1>1, <1>3 DEF Times, Init
  <2>3. GoodData
    BY <1>3 DEF GoodData, GoodTask, WritePC
  <2> QED
    BY <2>1, <2>2, <2>3 DEF StoreInv
<1>5. \A t \in Tasks : CallOK(t)
  BY <1>1, <1>3, NoCallOK
<1>6. ClientTypeOK
  <2>1. NoCall \in Call
    BY DEF NoCall, Call, Codes
  <2>2. NoClient \in Client
    BY FirstAttempt DEF NoClient, Client, Phases
  <2>3. faults \in 0..MaxFaults
    BY <1>1, AttemptsAssumption
  <2> QED
    BY <1>1, <2>1, <2>2, <2>3 DEF ClientTypeOK
<1>7. ClientOK
  BY <1>1 DEF ClientOK, Awaits, Knows, CodeOK, NoClient
<1> QED
  BY <1>2, <1>4, <1>5, <1>6, <1>7 DEF UploadInv

\* Every step of client and handlers is a step of the store or leaves it alone,
\* and keeps the invariant.
LEMMA UploadStep == UploadInv /\ [UploadNext]_uploadVars => [Next]_vars /\ UploadInv'
<1> SUFFICES ASSUME UploadInv, [UploadNext]_uploadVars PROVE [Next]_vars /\ UploadInv'
  OBVIOUS
<1>1. CASE Run \/ GiveUp \/ Receive
  BY <1>1, RunKeeps, GiveUpKeeps, ReceiveKeeps
<1>2. ASSUME NEW t \in Tasks, Send(t) \/ Accept(t) \/ Serve(t) \/ Drop(t) \/ DropAwaited(t)
      PROVE  [Next]_vars /\ UploadInv'
  BY <1>2, SendKeeps, AcceptKeeps, ServeKeeps, DropsKeep
<1>3. CASE StoreStep
  BY <1>3, StoreStepKeeps
<1>4. CASE UNCHANGED uploadVars
  <2>1. UNCHANGED vars /\ client' = client /\ call' = call /\ faults' = faults
    BY <1>4 DEF uploadVars
  <2>2. Hangs(NoHandler) /\ ClientTypeOK'
    BY <2>1 DEF Hangs, UploadInv, ClientTypeOK
  <2>3. ClientOK'
    <3>1. Inv /\ (\A u \in Tasks \ {NoHandler} : call'[u] = call[u]) /\ NoHandler \notin Tasks
      BY <2>1, HandlerAssumption DEF UploadInv
    <3>2. /\ opened' = opened /\ \A d : (Full(d) => Full(d)') /\ (Uploaded(d) => Uploaded(d)')
          /\ \A d, y : Has(d, y) => Has(d, y)'
          /\ \A d : Fresh(d) => Fresh(d)'
      BY <2>1, <3>1, KnownStays
    <3>3. PICK a, b : a = client /\ b = call
      OBVIOUS
    <3>4. Awaits'
      BY <2>1, <3>2, <3>3 DEF UploadInv, ClientOK, Awaits
    <3>5. Knows'
      BY <2>1, <3>2, <3>3 DEF UploadInv, ClientOK, Knows
    <3>6. CodeOK(client.reason)'
      BY <2>1 DEF UploadInv, ClientOK, CodeOK, Expired, Early, Broken, vars
    <3> QED
      BY <3>4, <3>5, <3>6 DEF ClientOK
  <2>4. faults <= faults'
    BY <2>1, FaultsStand
  <2> QED
    BY <2>1, <2>2, <2>3, <2>4, HandlerAssumption, ClientKeeps
<1> QED
  BY <1>1, <1>2, <1>3, <1>4 DEF UploadNext

\* The invariant holds in every state that client and store reach.
LEMMA UploadInvariant == UploadSpec => []UploadInv
  BY UploadStarts, UploadStep, PTL DEF UploadSpec

\* The client and its handlers use the store as any client may: every behaviour
\* of the composition is a behaviour of ArtifactStore, so each of the store's
\* theorems holds under the retries, late calls and dropped handlers of
\* `imago service deploy'.
THEOREM UploadImplementsStore == UploadSpec => Spec
<1>1. UploadInit => Init
  BY DEF UploadInit
<1> QED
  BY <1>1, UploadInvariant, UploadStep, PTL DEF UploadSpec, Spec

\* Every value of the client's and the handlers' variables has the type
\* UploadTypeOK gives it: the attempts and tries of run_upload_phase_with_resume
\* stay within their limits.
THEOREM UploadTypeCorrect == UploadSpec => []UploadTypeOK
<1>1. UploadInv => UploadTypeOK
  BY DEF UploadInv, ClientTypeOK, Inv, UploadTypeOK
<1> QED
  BY <1>1, UploadInvariant, PTL

\* When run_upload_phase_with_resume ends well and command.start is sent, the
\* session is committed and its file verified, however many calls were lost,
\* repeated or late; only the end of an earlier deploy of the session, or its
\* committed_session_ttl_secs, takes it away.
THEOREM UploadedStaysCommitted == UploadSpec => []UploadedIsCommitted
<1>1. UploadInv => UploadedIsCommitted
  <2> SUFFICES ASSUME UploadInv, client.pc = "deploy" PROVE UploadedIsCommitted
    BY DEF UploadedIsCommitted
  <2>1. PICK d : d = client.deploy
    OBVIOUS
  <2>2. Uploaded(d) /\ clock \in Nat
    BY <2>1, ClockIsNat DEF UploadInv, ClientOK, Knows
  <2>3. CASE d \in DOMAIN sessions
    <3>1. d \in Committed(sessions)
      BY <2>2, <2>3 DEF Uploaded, Committed
    <3>2. Verified(d)
      BY <3>1 DEF UploadInv, Inv, Content, CommittedIsVerified
    <3> QED
      BY <2>1, <3>1, <3>2 DEF UploadedIsCommitted
  <2>4. CASE d \notin DOMAIN sessions
    <3>1. d \in purged \/ clock >= CommittedTtl
      BY <2>2, <2>4 DEF Uploaded
    <3> QED
      BY <2>1, <2>4, <3>1 DEF UploadedIsCommitted
  <2> QED
    BY <2>3, <2>4
<1> QED
  BY <1>1, UploadInvariant, PTL

\* Retries and late calls never make an upload fail by themselves: the errors
\* that mean a wrong upload (incomplete, already committed, digest mismatch)
\* never reach the client, NotFound needs a session that was purged or whose time
\* to live has passed,
\* and Internal a failed file operation or a purge.
THEOREM FailuresHaveCauses == UploadSpec => []FailureHasCause
<1>1. UploadInv => FailureHasCause
  <2> SUFFICES ASSUME UploadInv PROVE FailureHasCause
    OBVIOUS
  <2>1. CodeOK(client.reason) /\ clock \in Nat
    BY ClockIsNat DEF UploadInv, ClientOK
  <2>2. ~Early => clock >= UploadTtl \/ clock >= CommittedTtl
    BY <2>1 DEF Early
  <2> QED
    BY <2>1, <2>2 DEF CodeOK, Expired, Broken, FailureHasCause
<1> QED
  BY <1>1, UploadInvariant, PTL
=============================================================================
