--------------------------- MODULE ArtifactStore ---------------------------
(***************************************************************************)
(* The artifact store of imagod (imagod-control/src/artifact_store.rs and  *)
(* artifact_store/): resumable upload sessions, their idempotency keys,    *)
(* the files behind them and the cleanup that every operation performs.    *)
(*                                                                         *)
(* Every operation takes the state lock once or twice and does its file    *)
(* I/O outside it; a task's `pc' says between which two critical sections  *)
(* it is.  `now' is read once, when an operation starts, and used again    *)
(* after the I/O.  The clock does not tick between that reading and the    *)
(* first critical section: no I/O happens under the lock.                  *)
(*                                                                         *)
(* The artifact is a set of chunks; received_ranges is the set of chunks   *)
(* received (module ByteRanges relates the list of ranges to such a set).  *)
(* A file maps each chunk to what was written there; its digest is the     *)
(* declared one iff every chunk is "good".                                 *)
(***************************************************************************)
EXTENDS Integers, FiniteSets

CONSTANTS
  Deploys,        \* deploy ids (uuids): naturals, their order is the BTreeMap's
  Keys,           \* idempotency keys
  Prints,         \* fingerprints of deploy.prepare payloads
  Chunks,         \* the chunks of an artifact
  Tasks,          \* concurrent requests
  UploadTtl,      \* upload_session_ttl_secs
  CommittedTtl,   \* committed_session_ttl_secs
  MaxCommitted,   \* max_committed_sessions
  MaxInflight,    \* max_inflight_chunks
  MaxTime,        \* bound: the clock stops here
  MaxAborts       \* bound: tasks dropped by a session abort

ASSUME DeploysAssumption == Deploys \subseteq Nat \ {0}
ASSUME LimitsAssumption ==
  /\ UploadTtl \in Nat \ {0} /\ CommittedTtl \in Nat \ {0}
  /\ MaxCommitted \in Nat \ {0} /\ MaxInflight \in Nat \ {0}
  /\ MaxTime \in Nat /\ MaxAborts \in Nat
ASSUME TasksAssumption == IsFiniteSet(Tasks)

VARIABLES
  sessions,      \* StoreState.sessions: deploy id -> UploadSession
  idempotency,   \* StoreState.idempotency: key -> deploy id
  files,         \* deploy ids whose sessions/<id>.artifact exists
  content,       \* deploy id -> chunk -> what the file holds there
  task,          \* request tasks
  clock,         \* wall clock, in seconds
  issued,        \* deploy ids handed out so far (uuids are never reused)
  opened,        \* history: deploy ids that have had a session
  detached,      \* chunk writes on the blocking pool whose task was dropped
  dropped,       \* history: pushes dropped after they were counted in flight
  purged,        \* history: deploy ids removed by purge_deploy_session
  aborts         \* tasks dropped so far

vars == <<sessions, idempotency, files, content, task, clock, issued,
          opened, detached, dropped, purged, aborts>>

(***************************************************************************)
(* Data.                                                                   *)
(***************************************************************************)
UploadSession ==
  [key : Keys, print : Prints, received : SUBSET Chunks, committed : BOOLEAN,
   inflight_writes : Nat, commit_in_progress : BOOLEAN, updated_at : Nat]

Data == {"empty", "good", "bad"}
Blank == [c \in Chunks |-> "empty"]
NoDeploy == 0
None == "none"

PC == {"idle", "creating", "inserting", "writing", "written", "write failed",
       "digesting", "digest good", "digest bad", "naming", "locating",
       "staging", "purging", "cleaning"}

\* What a task carries across its await points; `next' is where it goes on
\* after apply_cleanup_plan, `plan' the files it still has to delete.
Task == [pc : PC, next : PC, deploy : Deploys \cup {NoDeploy},
         key : Keys \cup {None}, print : Prints \cup {None},
         chunk : Chunks \cup {None}, data : Data, now : Nat,
         plan : SUBSET Deploys]

NoTask == [pc |-> "idle", next |-> "idle", deploy |-> NoDeploy,
           key |-> None, print |-> None, chunk |-> None, data |-> "empty",
           now |-> 0, plan |-> {}]

TypeOK ==
  /\ DOMAIN sessions \subseteq Deploys
  /\ sessions \in [DOMAIN sessions -> UploadSession]
  /\ DOMAIN idempotency \subseteq Keys
  /\ idempotency \in [DOMAIN idempotency -> Deploys]
  /\ files \subseteq Deploys
  /\ content \in [Deploys -> [Chunks -> Data]]
  /\ task \in [Tasks -> Task]
  /\ clock \in 0..MaxTime
  /\ issued \subseteq Deploys
  /\ opened \subseteq Deploys
  /\ detached \subseteq [deploy : Deploys, chunk : Chunks, data : Data]
  /\ dropped \in [Deploys -> Nat]
  /\ purged \subseteq Deploys
  /\ aborts \in 0..MaxAborts

\* DeploySessionPinGuard: a deploy holds its pin from pin_deploy_session until
\* the artifact is staged, and its Drop releases it when the task is dropped.
HoldsPin(t) ==
  \/ task[t].pc \in {"naming", "locating", "staging"}
  \/ task[t].pc = "cleaning" /\ task[t].next \in {"locating", "staging"}
Pinned == {task[t].deploy : t \in {u \in Tasks : HoldsPin(u)}}

(***************************************************************************)
(* collect_session_cleanup_locked: what one pass over the sessions S, at   *)
(* time `now', removes.                                                    *)
(***************************************************************************)
Committed(S) == {d \in DOMAIN S : S[d].committed}
Idle(s) == s.inflight_writes = 0 /\ ~s.commit_in_progress
Age(s, now) == IF now > s.updated_at THEN now - s.updated_at ELSE 0

\* Seeded fault: a session expires although a request is using it.
expired_busy_too(S, now) ==
  {d \in DOMAIN S \ Committed(S) : Age(S[d], now) >= UploadTtl}
collect_expired_sessions(S, now) ==
  {d \in DOMAIN S \ Committed(S) : Idle(S[d]) /\ Age(S[d], now) >= UploadTtl}

\* Eviction order: the oldest first, ties to the smaller deploy id (BTreeMap
\* order and a stable sort).
Older(S, d, e) ==
  \/ S[d].updated_at < S[e].updated_at
  \/ S[d].updated_at = S[e].updated_at /\ d < e
Oldest(S, D, n) == {d \in D : Cardinality({e \in D : Older(S, e, d)}) < n}

\* Seeded fault: protected sessions are evicted by age like the others.
orphans_unprotected(S, now, protected) ==
  {d \in Committed(S) : Idle(S[d]) /\ Age(S[d], now) >= CommittedTtl}
\* Seeded fault: the protected sessions are not counted against the limit.
orphans_uncounted(S, now, protected) ==
  LET open == {d \in Committed(S) \ protected : Idle(S[d])}
      aged == {d \in open : Age(S[d], now) >= CommittedTtl}
  IN aged \cup Oldest(S, open \ aged, Cardinality(open \ aged) - MaxCommitted)
collect_orphan_committed_sessions(S, now, protected) ==
  LET open == {d \in Committed(S) \ protected : Idle(S[d])}
      aged == {d \in open : Age(S[d], now) >= CommittedTtl}
      guarded == Cardinality(Committed(S) \cap protected)
      allowed == IF guarded < MaxCommitted THEN MaxCommitted - guarded ELSE 0
  IN aged \cup Oldest(S, open \ aged, Cardinality(open \ aged) - allowed)

\* The pins are consulted for committed sessions only.
Removed(S, now, keep) ==
  collect_expired_sessions(S, now) \cup
  collect_orphan_committed_sessions(S, now, Pinned \cup keep)

\* The maps without the sessions in R: a key goes with the session it maps to
\* (collect_sessions_for_removal_locked, cleanup_orphan_idempotency).
Without(S, R) == [d \in DOMAIN S \ R |-> S[d]]
KeysWithout(S, R) ==
  [k \in {j \in DOMAIN idempotency : idempotency[j] \in DOMAIN S \ R}
     |-> idempotency[k]]

\* is_complete(received_ranges, artifact_size).
Complete(s) == s.received = Chunks

(***************************************************************************)
(* deploy.prepare                                                          *)
(***************************************************************************)
Init ==
  /\ sessions = [d \in {} |-> NoTask]
  /\ idempotency = [k \in {} |-> NoDeploy]
  /\ files = {}
  /\ content = [d \in Deploys |-> Blank]
  /\ task = [t \in Tasks |-> NoTask]
  /\ clock = 0
  /\ issued = {}
  /\ opened = {}
  /\ detached = {}
  /\ dropped = [d \in Deploys |-> 0]
  /\ purged = {}
  /\ aborts = 0

\* Where a task is after an operation: only a deploy goes on.
At(t, pc) == IF pc = "idle" THEN NoTask
             ELSE [NoTask EXCEPT !.pc = pc, !.deploy = task[t].deploy]

\* apply_cleanup_plan(plan).await, then `next'; an empty plan awaits nothing.
CleanThen(t, plan, next) ==
  task' = [task EXCEPT ![t] =
             IF plan = {} THEN At(t, next)
             ELSE [NoTask EXCEPT !.pc = "cleaning", !.next = next,
                                 !.plan = plan, !.deploy = At(t, next).deploy]]
\* An early return: the plan is dropped with the task.
Return(t) == task' = [task EXCEPT ![t] = NoTask]

\* The answer to a prepare whose key has a session: the session is touched, or
\* IdempotencyConflict.
Resume(S, d, print) ==
  IF S[d].print = print THEN [S EXCEPT ![d].updated_at = clock] ELSE S

\* First critical section: resume, or choose a fresh deploy id.
Prepare(t, k, print) ==
  /\ task[t].pc = "idle"
  /\ LET R == Removed(sessions, clock, {})
         S == Without(sessions, R)
         I == KeysWithout(sessions, R)
     IN /\ idempotency' = I
        /\ \/ /\ k \in DOMAIN I
              /\ sessions' = Resume(S, I[k], print)
              /\ CleanThen(t, R, "idle")
              /\ UNCHANGED issued
           \/ /\ k \notin DOMAIN I
              /\ sessions' = S
              /\ \E d \in Deploys \ issued :
                   /\ issued' = issued \cup {d}
                   /\ task' = [task EXCEPT ![t] =
                        [NoTask EXCEPT !.pc = "creating", !.deploy = d, !.key = k,
                                       !.print = print, !.plan = R]]
  /\ UNCHANGED <<files, content, clock, opened, detached, dropped, purged, aborts>>

\* create_preallocated_file; a failure after open leaves the file behind.
CreateFile(t) ==
  /\ task[t].pc = "creating"
  /\ \/ /\ files' = files \cup {task[t].deploy}
        /\ \/ task' = [task EXCEPT ![t].pc = "inserting"]
           \/ CleanThen(t, task[t].plan, "idle")
     \/ /\ UNCHANGED files
        /\ CleanThen(t, task[t].plan, "idle")
  /\ UNCHANGED <<sessions, idempotency, content, clock, issued, opened,
                 detached, dropped, purged, aborts>>

NewSession(t) ==
  [key |-> task[t].key, print |-> task[t].print, received |-> {},
   committed |-> FALSE, inflight_writes |-> 0, commit_in_progress |-> FALSE,
   updated_at |-> clock]

\* Seeded fault: the key is not looked up again after the I/O.
key_not_looked_up(I, k) == FALSE
key_taken(I, k) == k \in DOMAIN I

\* Second critical section: another prepare may have won the key meanwhile.
InsertSession(t) ==
  /\ task[t].pc = "inserting"
  /\ LET R == Removed(sessions, clock, {})
         S == Without(sessions, R)
         I == KeysWithout(sessions, R)
         d == task[t].deploy
         k == task[t].key
     IN IF key_taken(I, k)
          THEN /\ idempotency' = I
               /\ sessions' = Resume(S, I[k], task[t].print)
               /\ CleanThen(t, task[t].plan \cup R \cup {d}, "idle")
               /\ UNCHANGED opened
          ELSE /\ idempotency' = [j \in DOMAIN I \cup {k} |->
                                    IF j = k THEN d ELSE I[j]]
               /\ sessions' = [e \in DOMAIN S \cup {d} |->
                                 IF e = d THEN NewSession(t) ELSE S[e]]
               /\ opened' = opened \cup {d}
               /\ CleanThen(t, task[t].plan \cup R, "idle")
  /\ UNCHANGED <<files, content, clock, issued, detached, dropped, purged, aborts>>

\* The end of every operation that keeps its plan.
ApplyCleanupPlan(t) ==
  /\ task[t].pc = "cleaning"
  /\ files' = files \ task[t].plan
  /\ content' = [d \in Deploys |-> IF d \in task[t].plan THEN Blank ELSE content[d]]
  /\ task' = [task EXCEPT ![t] = At(t, task[t].next)]
  /\ UNCHANGED <<sessions, idempotency, clock, issued, opened,
                 detached, dropped, purged, aborts>>

(***************************************************************************)
(* artifact.push                                                           *)
(***************************************************************************)
\* Seeded fault: one more chunk than the limit is accepted.
push_over_limit(s) == ~s.committed /\ ~s.commit_in_progress
push_allowed(s) ==
  ~s.commit_in_progress /\ ~s.committed /\ s.inflight_writes < MaxInflight

\* First critical section: count the write.
PushStart(t, d, c, data) ==
  /\ task[t].pc = "idle"
  /\ LET R == Removed(sessions, clock, {})
         S == Without(sessions, R)
     IN /\ d \in DOMAIN S
        /\ push_allowed(S[d])
        /\ sessions' = [S EXCEPT ![d].inflight_writes = @ + 1,
                                 ![d].updated_at = clock]
        /\ idempotency' = KeysWithout(sessions, R)
        /\ task' = [task EXCEPT ![t] =
             [NoTask EXCEPT !.pc = "writing", !.deploy = d, !.chunk = c,
                            !.data = data, !.now = clock, !.plan = R]]
  /\ UNCHANGED <<files, content, clock, issued, opened, detached, dropped,
                 purged, aborts>>

\* write_chunk_to_file, outside the lock.  A write that fails may have reached
\* the file in part, which is no harm to bytes that were right already; a file
\* that was unlinked is written to no effect.
WriteChunk(t) ==
  LET d == task[t].deploy
      torn == IF content[d][task[t].chunk] = task[t].data THEN task[t].data ELSE "bad"
      Put(x) == content' = IF d \in files
                             THEN [content EXCEPT ![d][task[t].chunk] = x]
                             ELSE content
  IN /\ task[t].pc = "writing"
     /\ \/ Put(task[t].data) /\ task' = [task EXCEPT ![t].pc = "written"]
        \/ /\ Put(torn) \/ UNCHANGED content
           /\ task' = [task EXCEPT ![t].pc = "write failed"]
     /\ UNCHANGED <<sessions, idempotency, files, clock, issued, opened,
                    detached, dropped, purged, aborts>>

\* Seeded fault: write_result? comes before the counter.
failed_write_not_counted_out(s, ok) ==
  IF ok THEN s.inflight_writes - 1 ELSE s.inflight_writes
writes_left(s, ok) ==
  IF s.inflight_writes > 0 THEN s.inflight_writes - 1 ELSE 0

\* Second critical section, with the time read before the write.  A failed
\* write, or a session that is gone, returns without applying the plan.
PushFinish(t) ==
  LET d == task[t].deploy
      s == sessions[d]
      ok == task[t].pc = "written"
  IN /\ task[t].pc \in {"written", "write failed"}
     /\ IF d \in DOMAIN sessions
          THEN sessions' = [sessions EXCEPT ![d] =
                 IF ok THEN [s EXCEPT !.inflight_writes = writes_left(s, ok),
                                      !.received = s.received \cup {task[t].chunk},
                                      !.updated_at = task[t].now]
                       ELSE [s EXCEPT !.inflight_writes = writes_left(s, ok)]]
          ELSE UNCHANGED sessions
     /\ IF ok /\ d \in DOMAIN sessions THEN CleanThen(t, task[t].plan, "idle")
                                       ELSE Return(t)
     /\ UNCHANGED <<idempotency, files, content, clock, issued, opened,
                    detached, dropped, purged, aborts>>

(***************************************************************************)
(* artifact.commit                                                         *)
(***************************************************************************)
commit_allowed(s) ==
  ~s.commit_in_progress /\ s.inflight_writes = 0 /\ Complete(s)

\* First critical section.  A session that is committed may be committed again.
CommitStart(t, d) ==
  /\ task[t].pc = "idle"
  /\ LET R == Removed(sessions, clock, {})
         S == Without(sessions, R)
     IN /\ d \in DOMAIN S
        /\ commit_allowed(S[d])
        /\ sessions' = [S EXCEPT ![d].commit_in_progress = TRUE,
                                 ![d].updated_at = clock]
        /\ idempotency' = KeysWithout(sessions, R)
        /\ task' = [task EXCEPT ![t] =
             [NoTask EXCEPT !.pc = "digesting", !.deploy = d, !.now = clock,
                            !.plan = R]]
  /\ UNCHANGED <<files, content, clock, issued, opened, detached, dropped,
                 purged, aborts>>

\* What the digest of the file says: the declared artifact, or not.
Verified(d) == d \in files /\ \A c \in Chunks : content[d][c] = "good"

\* digest_file, outside the lock; reading may fail.
DigestFile(t) ==
  /\ task[t].pc = "digesting"
  /\ \/ Verified(task[t].deploy) /\ task' = [task EXCEPT ![t].pc = "digest good"]
     \/ task' = [task EXCEPT ![t].pc = "digest bad"]
  /\ UNCHANGED <<sessions, idempotency, files, content, clock, issued, opened,
                 detached, dropped, purged, aborts>>

\* Second critical section.  Every error path returns without the plan; the
\* good path cleans up again, at the time read before the digest, sparing
\* its own session.
CommitFinish(t) ==
  LET d == task[t].deploy
      good == task[t].pc = "digest good"
  IN /\ task[t].pc \in {"digest good", "digest bad"}
     /\ IF d \notin DOMAIN sessions
          THEN /\ UNCHANGED <<sessions, idempotency>>
               /\ Return(t)
          ELSE LET s == sessions[d]
                   S == [sessions EXCEPT
                           ![d] = [s EXCEPT !.commit_in_progress = FALSE,
                                            !.updated_at = task[t].now,
                                            !.committed = s.committed \/ good]]
                   R == IF good THEN Removed(S, task[t].now, {d}) ELSE {}
               IN /\ sessions' = Without(S, R)
                  /\ IF good
                       THEN /\ idempotency' = KeysWithout(S, R)
                            /\ CleanThen(t, task[t].plan \cup R, "idle")
                       ELSE /\ UNCHANGED idempotency
                            /\ Return(t)
     /\ UNCHANGED <<files, content, clock, issued, opened, detached, dropped,
                    purged, aborts>>

\* A push or commit that is refused (unknown id, wrong token or metadata, range
\* outside the artifact, busy, incomplete) has cleaned up the maps and returns
\* without applying the plan.
Refuse ==
  /\ LET R == Removed(sessions, clock, {})
     IN /\ R # {}
        /\ sessions' = Without(sessions, R)
        /\ idempotency' = KeysWithout(sessions, R)
  /\ UNCHANGED <<files, content, task, clock, issued, opened, detached,
                 dropped, purged, aborts>>

(***************************************************************************)
(* command.start deploy, as far as it uses the store: pin, look the name   *)
(* up, take the service gate, locate and stage the artifact, unpin, and    *)
(* purge the session after success or a final failure (router.rs).         *)
(***************************************************************************)
Deploy(t, d) ==
  /\ task[t].pc = "idle"
  /\ task' = [task EXCEPT ![t] = [NoTask EXCEPT !.pc = "naming", !.deploy = d]]
  /\ UNCHANGED <<sessions, idempotency, files, content, clock, issued, opened,
                 detached, dropped, purged, aborts>>

\* service_name_for_deploy and committed_artifact: touch a committed session.
\* NotFound and ArtifactIncomplete are final failures, and drop the plan.
LookupCommitted(t, next) ==
  LET d == task[t].deploy
      R == Removed(sessions, clock, {d})
      S == Without(sessions, R)
  IN /\ idempotency' = KeysWithout(sessions, R)
     /\ IF d \in Committed(S)
          THEN /\ sessions' = [S EXCEPT ![d].updated_at = clock]
               /\ CleanThen(t, R, next)
          ELSE /\ sessions' = S
               /\ task' = [task EXCEPT ![t] = At(t, "purging")]
     /\ UNCHANGED <<files, content, clock, issued, opened, detached, dropped,
                    purged, aborts>>

ServiceNameForDeploy(t) == task[t].pc = "naming" /\ LookupCommitted(t, "locating")
CommittedArtifact(t) == task[t].pc = "locating" /\ LookupCommitted(t, "staging")

\* The deploy ends: Busy at the gate, or retryable, and the session stays; or
\* the artifact is staged and the rest of the deploy succeeds or fails for good.
EndDeploy(t) ==
  /\ \/ task[t].pc \in {"locating", "staging"} /\ Return(t)
     \/ /\ task[t].pc = "staging"
        /\ task' = [task EXCEPT ![t] = At(t, "purging")]
  /\ UNCHANGED <<sessions, idempotency, files, content, clock, issued, opened,
                 detached, dropped, purged, aborts>>

\* purge_deploy_session: removes the session whatever uses it.
Purge(t) ==
  /\ task[t].pc = "purging"
  /\ LET d == task[t].deploy
         R == Removed(sessions, clock, {d}) \cup ({d} \cap DOMAIN sessions)
     IN /\ sessions' = Without(sessions, R)
        /\ idempotency' = KeysWithout(sessions, R)
        /\ purged' = purged \cup ({d} \cap DOMAIN sessions)
        /\ CleanThen(t, R, "idle")
  /\ UNCHANGED <<files, content, clock, issued, opened, detached, dropped, aborts>>

(***************************************************************************)
(* Dropped tasks (JoinSet::abort_all in the session loop) and time.        *)
(***************************************************************************)
\* Seeded fault: a guard counts the write out when its task is dropped.
write_counted_out_on_drop(t) ==
  IF task[t].pc = "writing" /\ task[t].deploy \in DOMAIN sessions
    THEN [sessions EXCEPT ![task[t].deploy].inflight_writes = @ - 1]
    ELSE sessions
\* No guard undoes what the task did to its session.
sessions_after_drop(t) == sessions

\* The task ends at its await point: counters and flags it set stay set, its
\* plan is lost; file operations already handed to the blocking pool go on.
Abort(t) ==
  LET d == task[t].deploy
  IN /\ aborts < MaxAborts
     /\ task[t].pc # "idle"
     /\ aborts' = aborts + 1
     /\ Return(t)
     /\ sessions' = sessions_after_drop(t)
     /\ \/ task[t].pc = "creating" /\ files' = files \cup {d}
        \/ UNCHANGED files
     /\ detached' = IF task[t].pc = "writing"
                      THEN detached \cup {[deploy |-> d, chunk |-> task[t].chunk,
                                           data |-> task[t].data]}
                      ELSE detached
     /\ dropped' = IF task[t].pc \in {"writing", "written", "write failed"}
                     THEN [dropped EXCEPT ![d] = @ + 1] ELSE dropped
     /\ UNCHANGED <<idempotency, content, clock, issued, opened, purged>>

DetachedWrite(w) ==
  /\ w \in detached
  /\ detached' = detached \ {w}
  /\ content' = IF w.deploy \in files
                  THEN [content EXCEPT ![w.deploy][w.chunk] = w.data] ELSE content
  /\ UNCHANGED <<sessions, idempotency, files, task, clock, issued, opened,
                 dropped, purged, aborts>>

Tick ==
  /\ clock < MaxTime
  /\ clock' = clock + 1
  /\ UNCHANGED <<sessions, idempotency, files, content, task, issued, opened,
                 detached, dropped, purged, aborts>>

Request(t) ==
  \/ \E k \in Keys, p \in Prints : Prepare(t, k, p)
  \/ \E d \in issued : \/ \E c \in Chunks, x \in {"good", "bad"} : PushStart(t, d, c, x)
                       \/ CommitStart(t, d)
                       \/ Deploy(t, d)

Step(t) ==
  \/ CreateFile(t) \/ InsertSession(t) \/ ApplyCleanupPlan(t)
  \/ WriteChunk(t) \/ PushFinish(t) \/ DigestFile(t) \/ CommitFinish(t)
  \/ ServiceNameForDeploy(t) \/ CommittedArtifact(t) \/ EndDeploy(t) \/ Purge(t)

Next ==
  \/ \E t \in Tasks : Request(t) \/ Step(t) \/ Abort(t)
  \/ Refuse
  \/ \E w \in detached : DetachedWrite(w)
  \/ Tick

Spec == Init /\ [][Next]_vars

(***************************************************************************)
(* Properties.                                                             *)
(***************************************************************************)
WritePC == {"writing", "written", "write failed"}

\* A session that is committed has a file whose bytes are the ones the digest
\* was computed of: no push, dropped push or cleanup touches it afterwards.
CommittedIsVerified ==
  \A d \in Committed(sessions) : Verified(d)

\* Keys and sessions are one to one: however prepares of one key race, at most
\* one of them creates a session, and a key never outlives its session.
KeyHasOneSession ==
  /\ \A k \in DOMAIN idempotency :
       /\ idempotency[k] \in DOMAIN sessions
       /\ sessions[idempotency[k]].key = k
  /\ \A d \in DOMAIN sessions :
       /\ sessions[d].key \in DOMAIN idempotency
       /\ idempotency[sessions[d].key] = d

\* While a deploy stages an artifact its file is there and is the verified one
\* (pin_deploy_session), unless another deploy of the same id purged it.
StagedIsVerified ==
  \A t \in Tasks : task[t].pc = "staging" =>
    task[t].deploy \in purged \/ Verified(task[t].deploy)

\* A request at work keeps its session: only purge_deploy_session takes it away
\* (no "session disappeared during artifact.push").  And the session counts
\* its writers exactly, dropped ones included, within max_inflight_chunks.
WorkKeepsSession ==
  /\ \A t \in Tasks :
       task[t].pc \in WritePC \cup {"digesting", "digest good", "digest bad"}
       => task[t].deploy \in DOMAIN sessions \cup purged
  /\ \A d \in DOMAIN sessions :
       /\ sessions[d].inflight_writes <= MaxInflight
       /\ sessions[d].inflight_writes = dropped[d] +
            Cardinality({t \in Tasks : task[t].deploy = d /\ task[t].pc \in WritePC})

\* The session that a step commits fits max_committed_sessions together with
\* the pinned ones: the idle committed sessions that nobody protects are
\* evicted first.
CommitKeepsLimit ==
  [][\A d \in Committed(sessions') \ Committed(sessions) :
       LET protected == (Committed(sessions') \cap Pinned) \cup {d}
           others == {e \in Committed(sessions') \ protected : Idle(sessions'[e])}
       IN others = {} \/ Cardinality(others \cup protected) <= MaxCommitted]_vars

\* The file of a session that has left the map is deleted, or in the plan of a
\* task that is about to delete it.
RemovedFileIsDeleted ==
  \A f \in files \cap opened :
    f \in DOMAIN sessions \/ \E t \in Tasks : f \in task[t].plan
=============================================================================
