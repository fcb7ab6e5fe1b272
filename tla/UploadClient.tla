---------------------------- MODULE UploadClient ----------------------------
(***************************************************************************)
(* `imago service deploy' against the artifact store: the upload phase of  *)
(* the CLI (imago-cli/src/commands/deploy/mod.rs) composed with module     *)
(* ArtifactStore, whose request tasks are the handlers of this client's    *)
(* calls.                                                                  *)
(*                                                                         *)
(* There is one artifact, hence one idempotency key: build_idempotency_key *)
(* hashes the artifact, so a command that is run again resumes the session *)
(* of the earlier one.  A call that the client gives up on (timeout, lost  *)
(* request or answer) stays `late': the server may still execute it, at    *)
(* any time, or drop it.                                                   *)
(***************************************************************************)
EXTENDS ArtifactStore

CONSTANTS
  UploadAttempts,   \* UPLOAD_MAX_ATTEMPTS
  StreamAttempts,   \* DEPLOY_STREAM_MAX_ATTEMPTS
  MaxFaults         \* bound: transport errors and failed file operations

ASSUME AttemptsAssumption ==
  /\ UploadAttempts \in Nat \ {0} /\ StreamAttempts \in Nat \ {0}
  /\ MaxFaults \in Nat
\* There is an artifact to upload, and it is not empty.
ASSUME ArtifactAssumption == Keys # {} /\ Prints # {} /\ Chunks # {}

VARIABLES
  client,   \* the command: phase, attempt, what is left to push
  call,     \* per handler: the request it serves and its answer
  faults    \* faults so far

uploadVars == <<vars, client, call, faults>>

(***************************************************************************)
(* Data.                                                                   *)
(***************************************************************************)
NoHandler == "no handler"
ASSUME HandlerAssumption == NoHandler \notin Tasks
Codes == {"ok", "Busy", "NotFound", "ArtifactIncomplete", "BadRequest",
          "BadManifest", "Internal"}

\* A "running" call whose task is idle again has been answered; "lost" is an
\* awaited call whose handler was dropped.
Call == [at : {"free", "sent", "running", "lost"},
         kind : {"none", "prepare", "push", "commit", "deploy"},
         deploy : Deploys \cup {NoDeploy}, chunk : Chunks \cup {"none"},
         code : Codes \cup {"none"},
         missing : SUBSET Chunks]    \* missing_ranges of a prepare's answer
NoCall == [at |-> "free", kind |-> "none", deploy |-> NoDeploy, chunk |-> "none",
           code |-> "none", missing |-> {}]

\* The phases that wait for an answer, and the ones that end a run.
Phases == {"prepare", "push", "commit", "deploy"}
Client == [pc : Phases \cup {"idle", "deployed", "failed"},
           attempt : 1..UploadAttempts, try : 1..StreamAttempts,
           deploy : Deploys \cup {NoDeploy}, plan : SUBSET Chunks,
           call : Tasks \cup {NoHandler}, reason : Codes \cup {"none", "transport"}]
NoClient == [pc |-> "idle", attempt |-> 1, try |-> 1, deploy |-> NoDeploy,
             plan |-> {}, call |-> NoHandler, reason |-> "none"]

UploadTypeOK ==
  /\ TypeOK
  /\ client \in Client
  /\ call \in [Tasks -> Call]
  /\ faults \in 0..MaxFaults

UploadInit ==
  /\ Init
  /\ client = NoClient
  /\ call = [t \in Tasks |-> NoCall]
  /\ faults = 0

(***************************************************************************)
(* The client.                                                             *)
(***************************************************************************)
\* run_upload_phase_with_resume starts, for a first or a repeated command.
Run ==
  /\ client.pc \in {"idle", "failed"}
  /\ client' = [NoClient EXCEPT !.pc = "prepare"]
  /\ UNCHANGED <<vars, call, faults>>

\* A new stream; which handler serves it makes no difference.
Free == {t \in Tasks : call[t].at = "free" /\ task[t].pc = "idle"}

\* One request at a time: max_inflight_chunks is 1 in push_artifact_ranges.
Send(t) ==
  /\ client.pc \in Phases
  /\ client.call = NoHandler
  /\ Free # {} /\ t = CHOOSE u \in Free : TRUE
  /\ \E c \in IF client.pc = "push" THEN client.plan ELSE {"none"} :
       /\ call' = [call EXCEPT ![t] =
            [NoCall EXCEPT !.at = "sent", !.kind = client.pc, !.chunk = c,
                           !.deploy = client.deploy]]
  /\ client' = [client EXCEPT !.call = t]
  /\ UNCHANGED <<vars, faults>>

\* should_retry_upload_error: Busy, and the server errors marked retryable,
\* which are the ones of map_internal; an error without an answer, too.
should_retry(code) == code \in {"Busy", "Internal", "transport"}

\* Seeded fault: a repeated attempt does not count.
attempt_not_counted(attempt) == 1
next_attempt(attempt) == attempt + 1

\* run_upload_phase_with_resume after an error; command.start is outside it
\* and never sent again.
AttemptFailed(code) ==
  client' = IF /\ client.pc # "deploy" /\ should_retry(code)
               /\ client.attempt < UploadAttempts
              THEN [NoClient EXCEPT !.pc = "prepare",
                                    !.attempt = next_attempt(client.attempt)]
              ELSE [NoClient EXCEPT !.pc = "failed", !.reason = code]

\* The stream fails or times out: the same request is sent again on a new
\* stream (request_events_with_retry_policy_framed), but never command.start.
\* A dropped handler is noticed the same way, without a fault of its own.
GiveUp ==
  /\ client.call # NoHandler
  /\ LET t == client.call
         tries == IF client.pc = "deploy" THEN 1 ELSE StreamAttempts
     IN /\ IF call[t].at = "lost" THEN UNCHANGED faults
           ELSE faults < MaxFaults /\ faults' = faults + 1
        /\ IF client.try < tries
             THEN client' = [client EXCEPT !.try = @ + 1, !.call = NoHandler]
             ELSE AttemptFailed("transport")
        \* an answer that is on its way is lost with the stream
        /\ call' = IF call[t].at = "lost" \/ (call[t].at = "running" /\ task[t].pc = "idle")
                     THEN [call EXCEPT ![t] = NoCall] ELSE call
  /\ UNCHANGED vars

\* Seeded fault: Busy at artifact.commit is taken for "already committed".
busy_commit_is_done(kind, code) == code = "ok" \/ (kind = "commit" /\ code = "Busy")
succeeded(kind, code) == code = "ok"

\* Seeded fault: the short chunk at the end of the artifact is not cut.
short_chunk_left_out(missing) == missing \ {CHOOSE c \in Chunks : TRUE}
\* upload_ranges_for_prepare and build_upload_chunk_plan: everything missing.
upload_plan(missing) == missing

\* Where an answer takes the client: prepare, the pushes, commit, deploy.
AfterAnswer(c) ==
  CASE c.kind = "prepare" ->
         [client EXCEPT !.pc = IF upload_plan(c.missing) = {} THEN "commit" ELSE "push",
                        !.deploy = c.deploy, !.plan = upload_plan(c.missing),
                        !.call = NoHandler, !.try = 1]
    [] c.kind = "push" ->
         [client EXCEPT !.pc = IF client.plan = {c.chunk} THEN "commit" ELSE "push",
                        !.plan = @ \ {c.chunk}, !.call = NoHandler, !.try = 1]
    [] c.kind = "commit" -> [client EXCEPT !.pc = "deploy", !.call = NoHandler, !.try = 1]
    [] OTHER -> [NoClient EXCEPT !.pc = "deployed"]

Receive ==
  /\ client.call # NoHandler
  /\ LET t == client.call
     IN /\ call[t].at = "running" /\ task[t].pc = "idle"
        /\ IF succeeded(call[t].kind, call[t].code)
             THEN client' = AfterAnswer(call[t])
             ELSE AttemptFailed(call[t].code)
        /\ call' = [call EXCEPT ![t] = NoCall]
  /\ UNCHANGED <<vars, faults>>

(***************************************************************************)
(* The server's side of a call.                                            *)
(***************************************************************************)
TheKey == CHOOSE k \in Keys : TRUE
ThePrint == CHOOSE p \in Prints : TRUE

\* A late answer has no reader.
Answer(t, c) == IF client.call = t \/ task'[t].pc # "idle" THEN c ELSE NoCall

\* The maps after the cleanup with which every operation begins.
Swept == Without(sessions, Removed(sessions, clock, {}))

\* The codes with which push and commit refuse, in the order of the tests.
PushRefusal(d) ==
  IF d \notin DOMAIN Swept THEN "NotFound"
  ELSE IF Swept[d].commit_in_progress THEN "Busy"
  ELSE IF Swept[d].committed THEN "BadRequest"
  ELSE "Busy"
CommitRefusal(d) ==
  IF d \notin DOMAIN Swept THEN "NotFound"
  ELSE IF ~Idle(Swept[d]) THEN "Busy"
  ELSE "ArtifactIncomplete"

\* The handler takes the request up and runs to its first await; a prepare of
\* a session that exists, and a refusal, is decided then.
Accept(t) ==
  /\ call[t].at = "sent"
  /\ LET c == call[t]
         accepted == [c EXCEPT !.at = "running"]
         RefuseWith(code) ==
           /\ Refuse \/ (Swept = sessions /\ UNCHANGED vars)
           /\ call' = [call EXCEPT ![t] = Answer(t, [accepted EXCEPT !.code = code])]
     IN \/ /\ c.kind = "prepare"
           /\ Prepare(t, TheKey, ThePrint)
           /\ \A d \in issued' \ issued : \A e \in Deploys \ issued : d <= e
           /\ call' = [call EXCEPT ![t] =
                IF TheKey \in DOMAIN idempotency'
                  THEN LET d == idempotency'[TheKey]
                       IN Answer(t, [accepted EXCEPT !.code = "ok", !.deploy = d,
                                       !.missing = Chunks \ sessions'[d].received])
                  ELSE accepted]
        \/ /\ c.kind = "push"
           /\ IF c.deploy \in DOMAIN Swept /\ push_allowed(Swept[c.deploy])
                THEN /\ PushStart(t, c.deploy, c.chunk, "good")
                     /\ call' = [call EXCEPT ![t] = accepted]
                ELSE RefuseWith(PushRefusal(c.deploy))
        \/ /\ c.kind = "commit"
           /\ IF c.deploy \in DOMAIN Swept /\ commit_allowed(Swept[c.deploy])
                THEN /\ CommitStart(t, c.deploy)
                     /\ call' = [call EXCEPT ![t] = accepted]
                ELSE RefuseWith(CommitRefusal(c.deploy))
        \/ /\ c.kind = "deploy"
           /\ Deploy(t, c.deploy)
           /\ call' = [call EXCEPT ![t] = accepted]
  /\ UNCHANGED <<client, faults>>

\* What the critical section that ends an operation may answer.  A deploy that
\* purges after staging has succeeded or failed for good; one that returns has
\* met a busy service or failed in a way that can be retried.
Answers(t) ==
  LET d == task[t].deploy
      gone == d \notin DOMAIN sessions
      next == task'[t].pc
  IN CASE task[t].pc = "creating" /\ next # "inserting" -> {"Internal"}
       [] task[t].pc = "inserting" -> {"ok"}
       [] task[t].pc = "written" -> {IF gone THEN "Internal" ELSE "ok"}
       [] task[t].pc = "write failed" -> {"Internal"}
       [] task[t].pc = "digest good" -> {IF gone THEN "Internal" ELSE "ok"}
       [] task[t].pc = "digest bad" ->
            {IF gone \/ Verified(d) THEN "Internal" ELSE "BadManifest"}
       [] task[t].pc \in {"naming", "locating"} /\ next = "purging" -> {"NotFound"}
       [] task[t].pc \in {"locating", "staging"} /\ next = "idle" -> {"Busy"}
       [] task[t].pc = "staging" /\ next = "purging" -> {"ok", "Internal"}
       [] OTHER -> {call[t].code}

\* The call with its answer: a prepare tells the session and what it misses.
Answered(t, code) ==
  IF task[t].pc = "inserting"
    THEN LET d == idempotency'[TheKey]
         IN [call[t] EXCEPT !.code = code, !.deploy = d,
                            !.missing = Chunks \ sessions'[d].received]
    ELSE [call[t] EXCEPT !.code = code]

\* Steps of a handler at which something outside the store failed.
Failed(t, code) ==
  \/ task[t].pc = "creating" /\ code = "Internal"
  \/ task[t].pc = "writing" /\ task'[t].pc = "write failed"
  \/ /\ task[t].pc = "digesting" /\ task'[t].pc = "digest bad"
     /\ Verified(task[t].deploy)
  \/ task[t].pc = "staging" /\ code = "Internal"

\* One step of the handler.
Serve(t) ==
  /\ call[t].at = "running"
  /\ Step(t)
  /\ \E code \in Answers(t) :
       /\ faults' = IF Failed(t, code) THEN faults + 1 ELSE faults
       /\ faults' <= MaxFaults
       /\ call' = [call EXCEPT ![t] = Answer(t, Answered(t, code))]
  /\ UNCHANGED client

\* A call the client has given up on is lost in the network, or dropped by the
\* server when its session ends (JoinSet::abort_all).
Drop(t) ==
  /\ client.call # t
  /\ \/ call[t].at = "sent" /\ UNCHANGED vars
     \/ call[t].at = "running" /\ Abort(t)
  /\ call' = [call EXCEPT ![t] = NoCall]
  /\ UNCHANGED <<client, faults>>

\* A session that ends takes the awaited call with it as well.
DropAwaited(t) ==
  /\ client.call = t
  /\ call[t].at = "running" /\ Abort(t)
  /\ call' = [call EXCEPT ![t] = [NoCall EXCEPT !.at = "lost", !.kind = call[t].kind]]
  /\ UNCHANGED <<client, faults>>

StoreStep ==
  /\ \/ \E w \in detached : DetachedWrite(w)
     \/ Tick
  /\ UNCHANGED <<client, call, faults>>

UploadNext ==
  \/ Run \/ GiveUp \/ Receive
  \/ \E t \in Tasks : Send(t) \/ Accept(t) \/ Serve(t) \/ Drop(t) \/ DropAwaited(t)
  \/ StoreStep

UploadSpec == UploadInit /\ [][UploadNext]_uploadVars

(***************************************************************************)
(* Fairness: the runtime schedules every handler, the client's calls end   *)
(* by an answer or by the stream timeout, and a command that failed is run *)
(* again.                                                                  *)
(***************************************************************************)
Progress ==
  /\ WF_uploadVars(Run)
  /\ WF_uploadVars(Receive)
  /\ WF_uploadVars(GiveUp /\ faults' = faults)
  /\ WF_uploadVars(\E t \in Tasks : Send(t))
  /\ \A t \in Tasks : WF_uploadVars(Accept(t)) /\ WF_uploadVars(Serve(t))

FairSpec == UploadSpec /\ Progress

(***************************************************************************)
(* Properties.                                                             *)
(***************************************************************************)
\* When the upload phase ends well and command.start is sent, the session the
\* client names is committed and its file verified, whatever calls were lost,
\* repeated or late; only the end of an earlier deploy of it, or its time to
\* live, takes it away.
UploadedIsCommitted ==
  client.pc = "deploy" =>
    \/ client.deploy \in purged
    \/ client.deploy \in Committed(sessions) /\ Verified(client.deploy)
    \/ client.deploy \notin DOMAIN sessions /\ clock >= CommittedTtl

\* Retries and late calls never make an upload fail by themselves.  The answers
\* that mean a wrong upload (incomplete, already committed, digest mismatch)
\* never come, though an attempt after an error meets what the earlier ones
\* left; a lost session has expired or was purged by an earlier deploy, and an
\* internal error, of the last attempt or of the deploy, has a failed file
\* operation or a purge behind it.
FailureHasCause ==
  /\ client.reason \notin {"ArtifactIncomplete", "BadRequest", "BadManifest"}
  /\ client.reason = "NotFound" =>
       clock >= UploadTtl \/ clock >= CommittedTtl \/ purged # {}
  /\ client.reason = "Internal" => faults > 0 \/ purged # {}

\* Every run of the command ends, whatever is lost or dropped.
RunEnds == client.pc \in Phases ~> client.pc \in {"deployed", "failed"}

\* Once the faults stop, a command that is run again gets its upload through,
\* unless the server dropped a handler halfway (see README: nothing resets
\* what it left in the session).
UploadGetsThrough == <>(client.pc \in {"deploy", "deployed"} \/ aborts > 0)
=============================================================================
