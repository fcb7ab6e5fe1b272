---------------------- MODULE CommandLifecycleProofs ----------------------
(***************************************************************************)
(* Proofs, for any number of requests, handlers, sessions and write        *)
(* failures, of the safety properties of CommandLifecycle.                 *)
(*                                                                         *)
(* The properties are not inductive: CancelHonoured says nothing about the *)
(* flag in the entry, which is what MarkSpawned looks at.  CommandInv adds *)
(* the link between the flag and the promise, and what `outcome' can be at *)
(* each await point.                                                       *)
(***************************************************************************)
EXTENDS CommandLifecycle, TLAPS

USE SessionOfAssumption, NoDeployAssumption, MaxWriteFailuresAssumption

\* A request id has at most one handler between start and remove.
OneOwner ==
  \A g, h \in Handlers :
    /\ pc[g] \in Owning /\ pc[h] \in Owning /\ job[g].req = job[h].req
    => g = h

\* The owner finds its entry, in the phase it left it in.
EntryPresent ==
  \A h \in Handlers : pc[h] \in Owning =>
    /\ job[h].req \in DOMAIN operations
    /\ operations[job[h].req].phase =
         IF pc[h] \in BeforeSpawn THEN "Starting" ELSE "Spawned"

\* Until the decision, the flag in the entry is the promise to the client.
FlagIsPromise ==
  \A h \in Handlers : pc[h] \in BeforeSpawn =>
    (operations[job[h].req].cancel_requested <=> h \in granted)

\* Only a handler that has owned an entry has been promised anything.
PromiseHasOwner ==
  \A h \in granted : pc[h] \in Owning \cup {"purging", "ended"}

\* What `outcome' is at each await point.
OutcomeAtPc ==
  \A h \in Handlers :
    /\ pc[h] \in {"idle", "refusing", "admitted", "executing"} \cup BeforeSpawn
         => outcome[h] = "none"
    /\ pc[h] = "reporting" => outcome[h] = "ok"

\* Only a handler that has ended has returned an error or was dropped.
EndingAtEnd ==
  \A h \in Handlers : ending[h] # "none" => pc[h] = "ended"

CommandInv ==
  /\ TypeOK
  /\ OneOwner
  /\ EntryPresent
  /\ FlagIsPromise
  /\ PromiseHasOwner
  /\ OutcomeAtPc
  /\ CancelHonoured
  /\ CanceledOnlyOnGrant

\* The initial state satisfies the inductive invariant.
LEMMA CommandInit == Init => CommandInv
<1> SUFFICES ASSUME Init PROVE CommandInv
  OBVIOUS
<1>1. TypeOK
  <2>1. DOMAIN operations = {}
    BY DEF Init
  <2>2. operations \in [DOMAIN operations -> OperationEntry]
    BY DEF Init
  <2>3. /\ "idle" \in PC
        /\ "none" \in Outcome /\ "none" \in Event
    BY DEF PC, Outcome, Event
  <2>4. write_failures \in 0..MaxWriteFailures
    BY DEF Init
  <2> QED
    BY <2>1, <2>2, <2>3, <2>4 DEF Init, TypeOK
<1>2. \A h \in Handlers : pc[h] \notin Owning
  BY DEF Init, Owning, BeforeSpawn, AfterSpawn
<1>3. OneOwner /\ EntryPresent /\ FlagIsPromise
  BY <1>2 DEF OneOwner, EntryPresent, FlagIsPromise, Owning
<1>4. PromiseHasOwner /\ OutcomeAtPc /\ CancelHonoured /\ CanceledOnlyOnGrant
  BY DEF Init, PromiseHasOwner, OutcomeAtPc, CancelHonoured,
         CanceledOnlyOnGrant
<1> QED
  BY <1>1, <1>3, <1>4 DEF CommandInv

-----------------------------------------------------------------------------
(* Types.  The sets of labels stay folded; the steps only need that the    *)
(* labels they write belong to them.                                       *)

\* The labels, events and outcomes the steps write.
LEMMA Labels ==
  /\ {"idle", "refusing", "admitted", "accepting", "announced", "starting",
      "marking", "executing", "reporting", "closing", "finishing",
      "removing", "purging", "ended"} = PC
  /\ {"none", "refused", "accepted", "progress"} \subseteq Event
  /\ {"none", "ok", "retryable", "fatal", "canceled"} = Outcome
  BY DEF PC, Owning, BeforeSpawn, AfterSpawn, Event, Outcome

\* TerminalState is both a command state and an event.
LEMMA TerminalStateType ==
  \A h \in Handlers : /\ TerminalState(h) \in Event
                      /\ TerminalState(h) \in CommandState
                      /\ is_terminal(TerminalState(h))
  BY DEF TerminalState, Event, CommandState, is_terminal

\* Writing an entry keeps the map well typed.
LEMMA WithEntryType ==
  ASSUME TypeOK, NEW r \in Requests, NEW e \in OperationEntry,
         operations' = WithEntry(r, e)
  PROVE  /\ DOMAIN operations' = DOMAIN operations \cup {r}
         /\ DOMAIN operations' \subseteq Requests
         /\ operations' \in [DOMAIN operations' -> OperationEntry]
         /\ operations'[r] = e
         /\ \A q \in DOMAIN operations : q # r => operations'[q] = operations[q]
  BY DEF TypeOK, WithEntry

\* A write, failed or not, keeps the handler's and the session's types.
LEMMA WriteOrFailType ==
  ASSUME TypeOK, NEW h \in Handlers, NEW event \in Event, NEW next \in PC,
         pc[h] \in FailedWrite, WriteOrFail(h, event, next)
  PROVE  /\ pc' \in [Handlers -> PC]
         /\ told' \in [Handlers -> Event]
         /\ ending' \in [Handlers -> {"none", "dropped"} \cup FailedWrite]
         /\ write_failures' \in 0..MaxWriteFailures
<1>1. "ended" \in PC
  BY Labels
<1> QED
  BY <1>1 DEF TypeOK, WriteOrFail, Goto

\* The handler that is about to write its entry finds a well-typed one.
LEMMA OwnedEntryType ==
  ASSUME TypeOK, EntryPresent, NEW h \in Handlers, pc[h] \in Owning
  PROVE  /\ job[h].req \in Requests
         /\ job[h].req \in DOMAIN operations
         /\ operations[job[h].req] \in OperationEntry
  BY DEF TypeOK, EntryPresent, Job

\* Every step keeps the types.
LEMMA TypeStep == TypeOK /\ EntryPresent /\ [Next]_vars => TypeOK'
<1> SUFFICES ASSUME TypeOK, EntryPresent, [Next]_vars PROVE TypeOK'
  OBVIOUS
<1>1. ASSUME NEW h \in Handlers, ReceiveStart(h) PROVE TypeOK'
  BY <1>1, Labels DEF TypeOK, ReceiveStart, Goto
<1>2. ASSUME NEW h \in Handlers, StartOperation(h) PROVE TypeOK'
  <2>1. job[h].req \in Requests /\ NewEntry \in OperationEntry
    BY DEF TypeOK, Job, NewEntry, OperationEntry, CommandState, OperationPhase
  <2>2. CASE start_allowed(job[h].req)
    BY <1>2, <2>1, <2>2, WithEntryType, Labels DEF TypeOK, StartOperation, Goto
  <2>3. CASE ~start_allowed(job[h].req)
    BY <1>2, <2>3, Labels DEF TypeOK, StartOperation, Goto
  <2> QED
    BY <2>2, <2>3
<1>3. ASSUME NEW h \in Handlers, WriteRefusal(h) PROVE TypeOK'
  BY <1>3, WriteOrFailType, Labels DEF TypeOK, WriteRefusal, FailedWrite
<1>4. ASSUME NEW h \in Handlers, WriteAccepted(h) PROVE TypeOK'
  BY <1>4, WriteOrFailType, Labels DEF TypeOK, WriteAccepted, FailedWrite
<1>5. ASSUME NEW h \in Handlers, SetRunning(h) PROVE TypeOK'
  <2>1. /\ job[h].req \in Requests
        /\ [operations[job[h].req] EXCEPT !.state = "running"] \in OperationEntry
    BY <1>5, OwnedEntryType
       DEF SetRunning, Owning, BeforeSpawn, OperationEntry, CommandState
  <2> QED
    BY <1>5, <2>1, WithEntryType, Labels DEF TypeOK, SetRunning, set_state, Goto
<1>6. ASSUME NEW h \in Handlers, WriteStarting(h) PROVE TypeOK'
  BY <1>6, WriteOrFailType, Labels DEF TypeOK, WriteStarting, FailedWrite
<1>7. ASSUME NEW h \in Handlers, MarkSpawned(h) PROVE TypeOK'
  <2>1. job[h].req \in Requests /\ spawned_entry(job[h].req) \in OperationEntry
    BY <1>7, OwnedEntryType
       DEF MarkSpawned, Owning, BeforeSpawn, OperationEntry, OperationPhase,
           spawned_entry
  <2> QED
    BY <1>7, <2>1, WithEntryType, Labels DEF TypeOK, MarkSpawned, Goto
<1>8. ASSUME NEW h \in Handlers, Execute(h) PROVE TypeOK'
  BY <1>8, Labels DEF TypeOK, Execute, Goto
<1>9. ASSUME NEW h \in Handlers, WriteReport(h) PROVE TypeOK'
  BY <1>9, WriteOrFailType, Labels DEF TypeOK, WriteReport, FailedWrite
<1>10. ASSUME NEW h \in Handlers, WriteTerminal(h) PROVE TypeOK'
  BY <1>10, TerminalStateType, Labels
     DEF TypeOK, WriteTerminal, after_terminal_write_error, Goto
<1>11. ASSUME NEW h \in Handlers, Finish(h) PROVE TypeOK'
  <2>1. job[h].req \in Requests
    BY DEF TypeOK, Job
  <2>2. [state |-> TerminalState(h), cancel_requested |-> FALSE,
         phase |-> "Spawned"] \in OperationEntry
    BY TerminalStateType DEF OperationEntry, OperationPhase
  <2> QED
    BY <1>11, <2>1, <2>2, WithEntryType, Labels DEF TypeOK, Finish, finish, Goto
<1>12. ASSUME NEW h \in Handlers, Remove(h) PROVE TypeOK'
  BY <1>12, Labels DEF TypeOK, Remove, WithoutEntry, Goto
<1>13. ASSUME NEW h \in Handlers, Purge(h) PROVE TypeOK'
  BY <1>13, Labels DEF TypeOK, Purge, Goto, FailedWrite
<1>14. ASSUME NEW r \in Requests, RequestCancel(r) PROVE TypeOK'
  <2>1. [operations[r] EXCEPT !.cancel_requested = TRUE] \in OperationEntry
    BY <1>14 DEF TypeOK, RequestCancel, cancellable, snapshot_running,
                 OperationEntry
  <2> QED
    BY <1>14, <2>1, WithEntryType DEF TypeOK, RequestCancel, Owners
<1>15. ASSUME NEW s \in Sessions, AbortSession(s) PROVE TypeOK'
  BY <1>15, Labels DEF TypeOK, AbortSession
<1>16. ASSUME BeginShutdown PROVE TypeOK'
  BY <1>16 DEF TypeOK, BeginShutdown
<1>17. ASSUME UNCHANGED vars PROVE TypeOK'
  BY <1>17 DEF TypeOK, vars
<1> QED
  BY <1>1, <1>2, <1>3, <1>4, <1>5, <1>6, <1>7, <1>8, <1>9, <1>10, <1>11,
     <1>12, <1>13, <1>14, <1>15, <1>16, <1>17 DEF Next, HandlerStep

-----------------------------------------------------------------------------
(* The inductive step, one named fact per action. *)

\* The conjuncts of CommandInv other than the types.
Core ==
  /\ OneOwner /\ EntryPresent /\ FlagIsPromise /\ PromiseHasOwner
  /\ OutcomeAtPc /\ CancelHonoured /\ CanceledOnlyOnGrant

\* Every step keeps them.
LEMMA CoreStep == CommandInv /\ [Next]_vars => Core'
<1> SUFFICES ASSUME CommandInv, [Next]_vars PROVE Core'
  OBVIOUS
<1> USE DEF CommandInv, Core, OneOwner, EntryPresent, FlagIsPromise,
            PromiseHasOwner, OutcomeAtPc, CancelHonoured, CanceledOnlyOnGrant,
            Owning, BeforeSpawn, AfterSpawn
<1>0. /\ pc \in [Handlers -> PC]
      /\ outcome \in [Handlers -> Outcome]
      /\ granted \subseteq Handlers
  BY DEF TypeOK
<1>1. ASSUME NEW h \in Handlers, ReceiveStart(h) PROVE Core'
  BY <1>0, <1>1 DEF ReceiveStart, Goto
<1>2. ASSUME NEW h \in Handlers, StartOperation(h) PROVE Core'
  BY <1>0, <1>2 DEF StartOperation, Goto, WithEntry, NewEntry, start_allowed
<1>3. ASSUME NEW h \in Handlers, WriteRefusal(h) PROVE Core'
  BY <1>0, <1>3 DEF WriteRefusal, WriteOrFail, Goto
<1>4. ASSUME NEW h \in Handlers, WriteAccepted(h) PROVE Core'
  BY <1>0, <1>4 DEF WriteAccepted, WriteOrFail, Goto
<1>5. ASSUME NEW h \in Handlers, SetRunning(h) PROVE Core'
  BY <1>0, <1>5, OwnedEntryType DEF SetRunning, set_state, Goto, WithEntry
<1>6. ASSUME NEW h \in Handlers, WriteStarting(h) PROVE Core'
  BY <1>0, <1>6 DEF WriteStarting, WriteOrFail, Goto
<1>7. ASSUME NEW h \in Handlers, MarkSpawned(h) PROVE Core'
  BY <1>0, <1>7 DEF MarkSpawned, spawned_entry, cancel_pending, Goto, WithEntry
<1>8. ASSUME NEW h \in Handlers, Execute(h) PROVE Core'
  BY <1>0, <1>8 DEF Execute, Goto
<1>9. ASSUME NEW h \in Handlers, WriteReport(h) PROVE Core'
  BY <1>0, <1>9 DEF WriteReport, WriteOrFail, Goto
<1>10. ASSUME NEW h \in Handlers, WriteTerminal(h) PROVE Core'
  BY <1>0, <1>10 DEF WriteTerminal, after_terminal_write_error, Goto
<1>11. ASSUME NEW h \in Handlers, Finish(h) PROVE Core'
  BY <1>0, <1>11 DEF Finish, finish, Goto, WithEntry
<1>12. ASSUME NEW h \in Handlers, Remove(h) PROVE Core'
  BY <1>0, <1>12 DEF Remove, WithoutEntry, Goto
<1>13. ASSUME NEW h \in Handlers, Purge(h) PROVE Core'
  BY <1>0, <1>13 DEF Purge, Goto
<1>14. ASSUME NEW r \in Requests, RequestCancel(r) PROVE Core'
  BY <1>0, <1>14 DEF RequestCancel, cancellable, snapshot_running, Owners, WithEntry
<1>15. ASSUME NEW s \in Sessions, AbortSession(s) PROVE Core'
  BY <1>0, <1>15 DEF AbortSession
<1>16. ASSUME BeginShutdown PROVE Core'
  BY <1>0, <1>16 DEF BeginShutdown
<1>17. ASSUME UNCHANGED vars PROVE Core'
  BY <1>0, <1>17 DEF vars
<1> QED
  BY <1>1, <1>2, <1>3, <1>4, <1>5, <1>6, <1>7, <1>8, <1>9, <1>10, <1>11,
     <1>12, <1>13, <1>14, <1>15, <1>16, <1>17 DEF Next, HandlerStep

\* CommandInv is an invariant of the specification.
THEOREM CommandInvariant == Spec => []CommandInv
<1>1. CommandInv /\ [Next]_vars => CommandInv'
  BY TypeStep, CoreStep DEF CommandInv, Core
<1> QED
  BY CommandInit, <1>1, PTL DEF Spec

\* The variables of the daemon keep their types (operation_state.rs, router.rs).
THEOREM TypeCorrect == Spec => []TypeOK
<1>1. CommandInv => TypeOK
  BY DEF CommandInv
<1> QED
  BY <1>1, CommandInvariant, PTL

\* request_cancel's promise: a command whose cancel was granted never reaches
\* the orchestrator, whatever writes fail and whichever sessions are aborted.
THEOREM CancelIsHonoured == Spec => []CancelHonoured
<1>1. CommandInv => CancelHonoured
  BY DEF CommandInv
<1> QED
  BY <1>1, CommandInvariant, PTL

\* The cancel flag of one operation never cancels another one.
THEOREM CancelIsNeverInherited == Spec => []CanceledOnlyOnGrant
<1>1. CommandInv => CanceledOnlyOnGrant
  BY DEF CommandInv
<1> QED
  BY <1>1, CommandInvariant, PTL

\* A request id has one handler, which finds its entry until it removes it.
THEOREM EntryFollowsItsHandler == Spec => []EntryFollowsHandler
<1>1. CommandInv => EntryFollowsHandler
  <2> SUFFICES ASSUME CommandInv, NEW h \in Handlers, pc[h] \in Owning
               PROVE  Owners(job[h].req) = {h}
    BY DEF CommandInv, EntryFollowsHandler, EntryPresent
  <2> QED
    BY DEF CommandInv, OneOwner, Owners
<1> QED
  BY <1>1, CommandInvariant, PTL

-----------------------------------------------------------------------------
(* Who can leave an entry behind. *)

\* Every entry has a handler, or one that ended before it could finish it.
AbandonedInv == EndingAtEnd /\ AbandonedOnlyMidway

\* No step revives a handler that has ended, so the witnesses stay; the steps
\* that end an owner are the failed writes and AbortSession.
LEMMA AbandonedStep ==
  CommandInv /\ AbandonedInv /\ [Next]_vars => AbandonedInv'
<1> SUFFICES ASSUME CommandInv, AbandonedInv, [Next]_vars PROVE AbandonedInv'
  OBVIOUS
<1> USE DEF CommandInv, AbandonedInv, EndingAtEnd, AbandonedOnlyMidway,
            Owners, Owning, BeforeSpawn, AfterSpawn
<1>0. /\ pc \in [Handlers -> PC]
      /\ ending \in [Handlers -> {"none", "dropped"} \cup FailedWrite]
  BY DEF TypeOK
<1>1. ASSUME NEW h \in Handlers, ReceiveStart(h) PROVE AbandonedInv'
  BY <1>0, <1>1 DEF ReceiveStart, Goto
<1>2. ASSUME NEW h \in Handlers, StartOperation(h) PROVE AbandonedInv'
  BY <1>0, <1>2 DEF StartOperation, Goto, WithEntry
<1>3. ASSUME NEW h \in Handlers, WriteRefusal(h) PROVE AbandonedInv'
  BY <1>0, <1>3 DEF WriteRefusal, WriteOrFail, Goto, FailedWrite
<1>4. ASSUME NEW h \in Handlers, WriteAccepted(h) PROVE AbandonedInv'
  BY <1>0, <1>4 DEF WriteAccepted, WriteOrFail, Goto, FailedWrite
<1>5. ASSUME NEW h \in Handlers, SetRunning(h) PROVE AbandonedInv'
  BY <1>0, <1>5, OwnedEntryType DEF SetRunning, set_state, Goto, WithEntry
<1>6. ASSUME NEW h \in Handlers, WriteStarting(h) PROVE AbandonedInv'
  BY <1>0, <1>6 DEF WriteStarting, WriteOrFail, Goto, FailedWrite
<1>7. ASSUME NEW h \in Handlers, MarkSpawned(h) PROVE AbandonedInv'
  BY <1>0, <1>7, OwnedEntryType DEF MarkSpawned, Goto, WithEntry
<1>8. ASSUME NEW h \in Handlers, Execute(h) PROVE AbandonedInv'
  BY <1>0, <1>8 DEF Execute, Goto
<1>9. ASSUME NEW h \in Handlers, WriteReport(h) PROVE AbandonedInv'
  BY <1>0, <1>9 DEF WriteReport, WriteOrFail, Goto, FailedWrite
<1>10. ASSUME NEW h \in Handlers, WriteTerminal(h) PROVE AbandonedInv'
  BY <1>0, <1>10 DEF WriteTerminal, after_terminal_write_error, Goto
<1>11. ASSUME NEW h \in Handlers, Finish(h) PROVE AbandonedInv'
  BY <1>0, <1>11 DEF Finish, finish, Goto, WithEntry
<1>12. ASSUME NEW h \in Handlers, Remove(h) PROVE AbandonedInv'
  BY <1>0, <1>12 DEF Remove, WithoutEntry, Goto
<1>13. ASSUME NEW h \in Handlers, Purge(h) PROVE AbandonedInv'
  BY <1>0, <1>13 DEF Purge, Goto, FailedWrite
<1>14. ASSUME NEW r \in Requests, RequestCancel(r) PROVE AbandonedInv'
  BY <1>0, <1>14 DEF RequestCancel, cancellable, snapshot_running, WithEntry
<1>15. ASSUME NEW s \in Sessions, AbortSession(s) PROVE AbandonedInv'
  <2> DEFINE Dropped == {h \in Handlers : SessionOf[h] = s /\ pc[h] \notin {"idle", "ended"}}
  <2>1. /\ pc' = [h \in Handlers |-> IF h \in Dropped THEN "ended" ELSE pc[h]]
        /\ ending' = [h \in Handlers |-> IF h \in Dropped /\ pc[h] \in Owning
                                            THEN "dropped" ELSE ending[h]]
        /\ UNCHANGED <<operations, job>>
    BY <1>15 DEF AbortSession
  <2>2. PICK g \in Handlers : SessionOf[g] = s /\ ending[g] \in FailedWrite
    BY <1>15 DEF AbortSession, broken
  <2>3. pc[g] = "ended" /\ ending'[g] \in FailedWrite
    BY <2>1, <2>2 DEF FailedWrite
  <2>4. EndingAtEnd'
    BY <2>1
  <2>5. \A h \in Handlers : ending[h] # "none" => ending'[h] = ending[h]
    BY <2>1
  <2>6. ASSUME NEW r \in DOMAIN operations, NEW h \in Owners(r), Owners(r)' = {}
        PROVE  /\ h \in Handlers \ {g} /\ job[h].req = r
               /\ SessionOf[h] = s /\ ending'[h] = "dropped"
    BY <2>1, <2>3, <2>6
  <2>7. AbandonedOnlyMidway'
    <3> SUFFICES ASSUME NEW r \in DOMAIN operations, Owners(r)' = {}
                 PROVE  \E h \in Handlers :
                          /\ job[h].req = r
                          /\ \/ ending'[h] \in {"accepting", "starting", "reporting"}
                             \/ /\ ending'[h] = "dropped"
                                /\ \E f \in Handlers \ {h} : /\ SessionOf[f] = SessionOf[h]
                                                             /\ ending'[f] \in FailedWrite
      BY <2>1
    <3>1. CASE Owners(r) = {}
      BY <2>5, <3>1 DEF FailedWrite
    <3>2. CASE Owners(r) # {}
      BY <2>2, <2>3, <2>6, <3>2
    <3> QED
      BY <3>1, <3>2
  <2> QED
    BY <2>4, <2>7
<1>16. ASSUME BeginShutdown PROVE AbandonedInv'
  BY <1>0, <1>16 DEF BeginShutdown
<1>17. ASSUME UNCHANGED vars PROVE AbandonedInv'
  BY <1>0, <1>17 DEF vars
<1> QED
  BY <1>1, <1>2, <1>3, <1>4, <1>5, <1>6, <1>7, <1>8, <1>9, <1>10, <1>11,
     <1>12, <1>13, <1>14, <1>15, <1>16, <1>17 DEF Next, HandlerStep

\* finalize_operation_after_terminal_event removes the entry even when the
\* terminal event cannot be written.  An entry is leaked only by a handler that
\* fails to write an earlier event, or is dropped for the failed write of
\* another stream of its session.
THEOREM OnlyMidwayFailuresAbandon == Spec => []AbandonedOnlyMidway
<1>1. Init => AbandonedInv
  BY DEF Init, AbandonedInv, EndingAtEnd, AbandonedOnlyMidway
<1>2. AbandonedInv => AbandonedOnlyMidway
  BY DEF AbandonedInv
<1> QED
  BY <1>1, <1>2, AbandonedStep, CommandInvariant, PTL DEF Spec
=============================================================================
