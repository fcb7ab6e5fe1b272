---------------------------- MODULE RunnerProofs ----------------------------
(***************************************************************************)
(* Proofs about the two parts of MCRunner, for any numbers of requests,    *)
(* callers, permits, faults, services, runners, calls and seconds: when a  *)
(* process says RunnerReady (RunnerProcess), and which calls a runner      *)
(* executes (Invocation).  Both are about a step, and about what was done  *)
(* several steps before it.                                                *)
(***************************************************************************)
EXTENDS MCRunner, TLAPS

USE CallsAssumption

-----------------------------------------------------------------------------
(* Readiness.  The process marks itself ready some steps after its run has *)
(* come up and its ingress was bound, while every task goes on.  What      *)
(* keeps both as they were is that nothing but a shutdown ends them.       *)

\* The run of an http app, once up, ends with the shutdown only ...
RunStands ==
  app = "http" /\ ~shutdown =>
    /\ run \notin {"draining", "ok"}
    /\ main \in {"bind", "mark"} => run = "up"
    /\ main # "mark_finished"

\* ... and its ingress, once bound, ends when it is told of one.
IngressStands ==
  /\ told => shutdown
  /\ app = "http" /\ ~shutdown /\ main = "mark" => ingress = "accepting"

ProcessInv == RunStands /\ IngressStands

\* The steps of the main task.
LEMMA MainKeeps ==
  ASSUME ProcessInv, MainStep PROVE ProcessInv'
<1>1. CASE Register
  BY <1>1 DEF Register, ProcessInv, RunStands, IngressStands, NoSend, outside, ingressVars
<1>2. CASE WaitHttpReady
  BY <1>2 DEF WaitHttpReady, ProcessInv, RunStands, IngressStands, NoSend, outside,
              ingressVars, taskVars, Down, down_signal, SendShutdown, after_http_ready
<1>3. CASE ObserveStartup
  BY <1>3 DEF ObserveStartup, ProcessInv, RunStands, IngressStands, NoSend, outside,
              ingressVars, taskVars, Down, down_signal, SendShutdown
<1>4. CASE BindIngress
  BY <1>4 DEF BindIngress, ProcessInv, RunStands, IngressStands, NoSend, outside,
              taskVars, Down, down_signal, SendShutdown
<1>5. CASE MarkReady
  BY <1>5 DEF MarkReady, ProcessInv, RunStands, IngressStands, NoSend, outside,
              ingressVars, taskVars, Down, down_signal, SendShutdown
<1>6. CASE MarkFinished \/ JoinRun
  BY <1>6 DEF MarkFinished, JoinRun, ProcessInv, RunStands, IngressStands, outside,
              ingressVars, taskVars, Down, down_signal, SendShutdown
<1>7. CASE Exit
  BY <1>7 DEF Exit, ProcessInv, RunStands, IngressStands, NoSend, outside, ingressVars, taskVars
<1> QED
  BY <1>1, <1>2, <1>3, <1>4, <1>5, <1>6, <1>7 DEF MainStep

\* The steps of the other tasks, which leave main alone.
LEMMA TasksKeep ==
  ASSUME ProcessInv, Next, ~MainStep PROVE ProcessInv'
<1>1. CASE RunLoad \/ RunReturns \/ RunShutdown
  BY <1>1 DEF RunLoad, RunReturns, RunShutdown, ProcessInv, RunStands, IngressStands,
              NoSend, outside, ingressVars
<1>2. CASE WorkerTake \/ WorkerAnswer \/ Wedge
  BY <1>2 DEF WorkerTake, WorkerAnswer, Wedge, ProcessInv, RunStands, IngressStands,
              NoSend, outside, ingressVars
<1>3. CASE \E c \in Callers : Connect(c) \/ InboundAccept(c) \/ HandleInbound(c)
  BY <1>3 DEF Connect, InboundAccept, HandleInbound, ProcessInv, RunStands, IngressStands,
              NoSend, SendShutdown, outside, ingressVars, taskVars
<1>4. CASE InboundEnd \/ \E r \in Requests : HttpAccept(r) \/ Dispatch(r) \/ ConnTimeout(r)
  BY <1>4 DEF InboundEnd, HttpAccept, Dispatch, ConnTimeout, ProcessInv, RunStands,
              IngressStands, NoSend, outside, ingressVars, taskVars
<1>5. CASE IngressEnd
  BY <1>5 DEF IngressEnd, ProcessInv, RunStands, IngressStands, NoSend, SendShutdown,
              outside, taskVars
<1>6. CASE Beat \/ BeatSleep \/ ManagerLost
  BY <1>6 DEF Beat, BeatSleep, ManagerLost, ProcessInv, RunStands, IngressStands, NoSend,
              SendShutdown, outside, ingressVars, taskVars
<1> QED
  BY <1>1, <1>2, <1>3, <1>4, <1>5, <1>6 DEF Next

\* The invariant holds at the start of a process, and of one that has ended ...
LEMMA ProcessInit == MCInit => ProcessInv
  BY DEF MCInit, Init, Ended, ProcessInv, RunStands, IngressStands

\* ... and every step keeps it.
LEMMA ProcessStep ==
  ProcessInv /\ [ProcessNext \/ CallsNext]_<<subject, vars, callVars>> => ProcessInv'
<1> SUFFICES ASSUME ProcessInv, Next \/ UNCHANGED vars PROVE ProcessInv'
  BY DEF ProcessNext, CallsNext
<1>1. CASE UNCHANGED vars
  BY <1>1 DEF vars, ProcessInv, RunStands, IngressStands
<1> QED
  BY <1>1, MainKeeps, TasksKeep

\* runner_ready is sent when the service can serve: unless a shutdown has been
\* asked for, an http runner has its component registered and its ingress bound,
\* whatever raced with the start (runner_process.rs).
THEOREM ReadyMeansServing == MCSpec => ReadyIsServing
<1> DEFINE A == marked' /\ ~marked /\ app = "http" /\ ~shutdown
                  => run = "up" /\ ingress = "accepting"
<1>1. ProcessInv /\ [ProcessNext \/ CallsNext]_<<subject, vars, callVars>> => [A]_vars
  <2> SUFFICES ASSUME ProcessInv, Next, marked' # marked PROVE A
    BY DEF ProcessNext, CallsNext, vars
  <2>1. MarkReady \/ MarkFinished
    BY DEF Next, MainStep, Register, WaitHttpReady, ObserveStartup, BindIngress, JoinRun, Exit,
           RunLoad, RunReturns, RunShutdown, WorkerTake, WorkerAnswer, Wedge, Connect,
           InboundAccept, HandleInbound, InboundEnd, HttpAccept, Dispatch, ConnTimeout,
           IngressEnd, Beat, BeatSleep, ManagerLost
  <2> QED
    BY <2>1 DEF MarkReady, MarkFinished, ProcessInv, RunStands, IngressStands
<1> QED
  BY <1>1, ProcessInit, ProcessStep, PTL DEF MCSpec, ReadyIsServing

-----------------------------------------------------------------------------
(* Calls.  A runner executes a call long after the manager resolved it:    *)
(* the service may be stopped, replaced or restarted in between.  The call *)
(* carries what it was resolved to, and the invariant says what that still *)
(* means: the runner is ready and of the service, or it is dead, and no    *)
(* runner id comes back.                                                   *)

\* What the supervisor's map has is a runner of that service, a live runner
\* belongs to a service, and one that is ready was spawned.
RunnersOK ==
  /\ service_of \in [Runners -> Services \cup {Invoking!None, "gone"}]
  /\ inner \in [Services -> Runners \cup {Invoking!None}]
  /\ \A s \in Services : inner[s] # Invoking!None => service_of[inner[s]] = s
  /\ alive \subseteq Runners /\ \A r \in alive : service_of[r] # Invoking!None

\* A call x that has been resolved.
Current(x) ==
  x.pc \in {"resolved", "queued", "running"} =>
    /\ x.runner \in Runners /\ service_of[x.runner] # Invoking!None
    /\ x.runner \in alive => x.runner \in is_ready /\ service_of[x.runner] = x.target
    /\ x.exp <= clock + TokenTtl
    /\ x.pc # "resolved" => x.runner \in alive

CallsInv ==
  /\ RunnersOK /\ clock \in 0..MaxTime
  /\ call \in [Calls -> Invoking!Call]
  /\ \A c \in Calls : Current(call[c])

\* The records of no call, and of one that has its answer.
LEMMA NoCallType ==
  /\ Invoking!NoCall \in Invoking!Call /\ Invoking!NoCall.pc = "idle"
  /\ Invoking!Done \in Invoking!Call /\ Invoking!Done.pc = "done"
<1>1. (CHOOSE s \in Services : TRUE) \in Services
  OBVIOUS
<1>2. 0 \in 0..(MaxTime + TokenTtl)
  OBVIOUS
<1> QED
  BY <1>1, <1>2 DEF Invoking!NoCall, Invoking!Done, Invoking!Call, Invoking!PC, Invoking!Ops,
                    Invoking!None

\* A step of one call that leaves the runners and the clock alone.
LEMMA OneCall ==
  ASSUME CallsInv, NEW c \in Calls, NEW x \in Invoking!Call,
         call' = [call EXCEPT ![c] = x],
         UNCHANGED <<inner, is_ready, service_of, alive, clock>>, Current(x)
  PROVE  CallsInv'
<1>1. RunnersOK' /\ clock' \in 0..MaxTime /\ call' \in [Calls -> Invoking!Call]
  BY DEF CallsInv, RunnersOK
<1>2. \A o \in Calls : Current(call'[o])
  BY DEF CallsInv
<1>3. \A o \in Calls : Current(call[o])'
  BY <1>2 DEF Current
<1> QED
  BY <1>1, <1>3 DEF CallsInv

\* A call that is answered, or goes on to wait, is none that is resolved.
LEMMA AnswerKeeps ==
  ASSUME CallsInv, NEW c \in Calls, Invoking!Answer(c),
         UNCHANGED <<inner, is_ready, service_of, alive, clock>>
  PROVE  CallsInv'
<1>1. Current(Invoking!Done)
  BY NoCallType DEF Current
<1> QED
  BY <1>1, NoCallType, OneCall DEF Invoking!Answer

\* A call that goes on to pc.
LEMMA GotoKeeps ==
  ASSUME CallsInv, NEW c \in Calls, NEW pc \in Invoking!PC, Invoking!Goto(c, pc),
         UNCHANGED <<inner, is_ready, service_of, alive, clock>>,
         pc \in {"resolved", "queued", "running"} =>
           /\ call[c].pc \in {"resolved", "queued", "running"}
           /\ call[c].runner \in alive
  PROVE  CallsInv'
<1>1. call[c] \in Invoking!Call /\ Current(call[c])
  BY DEF CallsInv
<1>2. PICK x : x = [call[c] EXCEPT !.pc = pc]
  OBVIOUS
<1>3. call' = [call EXCEPT ![c] = x]
  BY <1>2 DEF Invoking!Goto
<1>4. /\ x \in Invoking!Call /\ x.pc = pc /\ x.runner = call[c].runner
      /\ x.target = call[c].target /\ x.exp = call[c].exp
  BY <1>1, <1>2 DEF Invoking!Call
<1>5. Current(x)
  BY <1>1, <1>4 DEF Current
<1> QED
  BY <1>3, <1>4, <1>5, OneCall

\* ResolveInvocationTarget and invoke: the call is bound to the runner that the
\* map has for the target, which is ready.
LEMMA ResolveKeeps ==
  ASSUME CallsInv, NEW c \in Calls, Invoking!Resolve(c)
  PROVE  CallsInv'
<1>0. UNCHANGED <<inner, is_ready, service_of, alive, clock>>
  BY DEF Invoking!Resolve, Invoking!runnerVars
<1>1. CASE Invoking!Answer(c)
  BY <1>0, <1>1, AnswerKeeps
<1>2. CASE Invoking!target_ready(call[c].target) /\ Invoking!Resolved(c)
  <2>1. call[c] \in Invoking!Call /\ RunnersOK /\ clock \in 0..MaxTime
    BY DEF CallsInv
  <2>2. PICK t \in Services : t = call[c].target
    BY <2>1 DEF Invoking!Call
  <2>3. PICK r \in Runners : r = inner[t] /\ service_of[r] = t /\ r \in is_ready
    BY <1>2, <2>1, <2>2 DEF RunnersOK, Invoking!target_ready
  <2>4. PICK e : e = clock + TokenTtl
    OBVIOUS
  <2>5. e \in 0..(MaxTime + TokenTtl) /\ e <= clock + TokenTtl
    BY <2>1, <2>4
  <2>6. PICK x : x = [call[c] EXCEPT !.pc = "resolved", !.runner = r, !.exp = e]
    OBVIOUS
  <2>7. call' = [call EXCEPT ![c] = x]
    BY <1>2, <2>2, <2>3, <2>4, <2>6 DEF Invoking!Resolved
  <2>8. /\ x \in Invoking!Call /\ x.pc = "resolved" /\ x.runner = r
        /\ x.target = t /\ x.exp = e
    BY <2>1, <2>2, <2>5, <2>6 DEF Invoking!Call, Invoking!PC
  <2>9. Current(x)
    BY <2>3, <2>5, <2>8 DEF Current
  <2> QED
    BY <1>0, <2>7, <2>8, <2>9, OneCall
<1> QED
  BY <1>1, <1>2 DEF Invoking!Resolve, Invoking!refuse

\* The other steps of a call.
LEMMA CallKeeps ==
  ASSUME CallsInv, NEW c \in Calls, Invoking!Step(c)
  PROVE  CallsInv'
<1>1. CASE Invoking!Resolve(c)
  BY <1>1, ResolveKeeps
<1>2. CASE Invoking!AskAway(c) \/ Invoking!BackAgain(c) \/ Invoking!Finish(c)
  <2>1. UNCHANGED <<inner, is_ready, service_of, alive, clock>>
    BY <1>2 DEF Invoking!AskAway, Invoking!BackAgain, Invoking!Finish, Invoking!runnerVars
  <2>2. Invoking!Answer(c) \/ Invoking!Goto(c, "away")
    BY <1>2 DEF Invoking!AskAway, Invoking!BackAgain, Invoking!Finish
  <2>3. "away" \in Invoking!PC
    BY DEF Invoking!PC
  <2> QED
    BY <2>1, <2>2, <2>3, AnswerKeeps, GotoKeeps
<1>3. CASE Invoking!Connect(c)
  <2>1. UNCHANGED <<inner, is_ready, service_of, alive, clock>> /\ call[c].pc = "resolved"
    BY <1>3 DEF Invoking!Connect, Invoking!runnerVars
  <2>2. Invoking!Answer(c) \/ (Invoking!Goto(c, "queued") /\ call[c].runner \in alive)
    BY <1>3 DEF Invoking!Connect
  <2>3. "queued" \in Invoking!PC
    BY DEF Invoking!PC
  <2> QED
    BY <2>1, <2>2, <2>3, AnswerKeeps, GotoKeeps
<1>4. CASE Invoking!Accept(c)
  <2>1. UNCHANGED <<inner, is_ready, service_of, alive, clock>> /\ call[c].pc = "queued"
    BY <1>4 DEF Invoking!Accept, Invoking!runnerVars
  <2>2. Invoking!Answer(c) \/ Invoking!Goto(c, "running")
    BY <1>4 DEF Invoking!Accept
  <2>3. "running" \in Invoking!PC /\ call[c].runner \in alive
    BY <2>1 DEF Invoking!PC, CallsInv, Current
  <2> QED
    BY <2>1, <2>2, <2>3, AnswerKeeps, GotoKeeps
<1> QED
  BY <1>1, <1>2, <1>3, <1>4 DEF Invoking!Step, Invoking!ManagerStep

\* A guest calls, or handle_rpc_invoke.
LEMMA AskKeeps ==
  ASSUME CallsInv, NEW c \in Calls, NEW s \in Services,
         \/ Invoking!RpcInvoke(c, s)
         \/ \E r \in Runners, p \in Calls \cup {Invoking!None}, op \in Invoking!Ops :
              Invoking!Ask(c, r, p, op, s)
  PROVE  CallsInv'
<1>0. UNCHANGED <<inner, is_ready, service_of, alive, clock>>
  BY DEF Invoking!RpcInvoke, Invoking!Ask, Invoking!runnerVars
<1>1. ASSUME NEW x \in Invoking!Call, x.pc = "asking", call' = [call EXCEPT ![c] = x]
      PROVE  CallsInv'
  BY <1>0, <1>1, OneCall DEF Current
<1>2. CASE Invoking!RpcInvoke(c, s)
  <2>1. PICK x : x = [Invoking!NoCall EXCEPT !.pc = "asking", !.op = "rpc", !.by = Daemon,
                                             !.target = s]
    OBVIOUS
  <2>2. call' = [call EXCEPT ![c] = x]
    BY <1>2, <2>1 DEF Invoking!RpcInvoke
  <2>3. "rpc" \in Invoking!Ops
    BY DEF Invoking!Ops
  <2>4. x \in Invoking!Call /\ x.pc = "asking"
    BY <2>1, <2>3, NoCallType DEF Invoking!Call, Invoking!PC
  <2> QED
    BY <1>1, <2>2, <2>4
<1>3. ASSUME NEW r \in Runners, NEW p \in Calls \cup {Invoking!None}, NEW op \in Invoking!Ops,
             Invoking!Ask(c, r, p, op, s)
      PROVE  CallsInv'
  <2>1. PICK x : x = [Invoking!NoCall EXCEPT !.pc = "asking", !.op = op, !.by = r,
                                             !.parent = p, !.target = s]
    OBVIOUS
  <2>2. call' = [call EXCEPT ![c] = x]
    BY <1>3, <2>1 DEF Invoking!Ask
  <2>3. x \in Invoking!Call /\ x.pc = "asking"
    BY <2>1, NoCallType DEF Invoking!Call, Invoking!PC
  <2> QED
    BY <1>1, <2>2, <2>3
<1> QED
  BY <1>2, <1>3

-----------------------------------------------------------------------------
(* Runners come and go.                                                    *)

\* What becomes of a call: it is not or no longer resolved, or what it carries
\* stays, and so does the runner that it is with.
Stands(c) ==
  /\ call'[c] \in Invoking!Call
  /\ call'[c].pc \in {"resolved", "queued", "running"} =>
       /\ call'[c].pc = call[c].pc /\ call'[c].runner = call[c].runner
       /\ call'[c].target = call[c].target /\ call'[c].exp = call[c].exp
       /\ call[c].pc # "resolved" => call[c].runner \in alive'

\* A runner that was spawned does not come back to life, and remains what it
\* was while it lives.
Ages(r) ==
  service_of[r] # Invoking!None =>
    /\ service_of'[r] # Invoking!None
    /\ r \in alive' => /\ r \in alive /\ service_of'[r] = service_of[r]
                       /\ r \in is_ready => r \in is_ready'

\* Runners come and go, and time passes, and calls stay what they were.
LEMMA RunnersChange ==
  ASSUME CallsInv, RunnersOK', clock' \in 0..MaxTime, clock <= clock',
         call' = [c \in Calls |-> call'[c]], \A c \in Calls : Stands(c),
         \A r \in Runners : Ages(r)
  PROVE  CallsInv'
<1>1. ASSUME NEW c \in Calls PROVE Current(call[c])'
  <2> SUFFICES ASSUME call'[c].pc \in {"resolved", "queued", "running"}
               PROVE  Current(call[c])'
    BY DEF Current
  <2>1. /\ call'[c].pc = call[c].pc /\ call'[c].runner = call[c].runner
        /\ call'[c].target = call[c].target /\ call'[c].exp = call[c].exp
        /\ call[c].pc # "resolved" => call[c].runner \in alive'
    BY DEF Stands
  <2>2. Current(call[c]) /\ call[c] \in Invoking!Call /\ clock \in 0..MaxTime
    BY DEF CallsInv
  <2>3. PICK r \in Runners : /\ r = call[c].runner /\ service_of[r] # Invoking!None
                             /\ r \in alive => r \in is_ready /\ service_of[r] = call[c].target
    BY <2>1, <2>2 DEF Current
  <2>4. Ages(r)
    OBVIOUS
  <2>5. /\ service_of'[r] # Invoking!None
        /\ r \in alive' => r \in is_ready' /\ service_of'[r] = call'[c].target
    BY <2>1, <2>3, <2>4 DEF Ages
  <2>6. call'[c].exp <= clock' + TokenTtl
    <3>1. PICK e \in 0..(MaxTime + TokenTtl) : e = call[c].exp /\ e <= clock + TokenTtl
      BY <2>1, <2>2 DEF Current, Invoking!Call
    <3> QED
      BY <2>1, <2>2, <3>1
  <2> QED
    BY <2>1, <2>3, <2>5, <2>6 DEF Current
<1>2. call' \in [Calls -> Invoking!Call]
  BY DEF Stands
<1> QED
  BY <1>1, <1>2 DEF CallsInv

\* Calls that do not move stand, unless their runner ends.
LEMMA CallsStand ==
  ASSUME CallsInv, UNCHANGED call, alive \subseteq alive'
  PROVE  call' = [c \in Calls |-> call'[c]] /\ \A c \in Calls : Stands(c)
  BY DEF CallsInv, Stands, Current

\* A runner is spawned: its id is new.
LEMMA StartKeeps ==
  ASSUME CallsInv, NEW s \in Services, NEW r \in Runners, Invoking!Start(s, r)
  PROVE  CallsInv'
<1>1. RunnersOK /\ clock \in 0..MaxTime /\ clock' = clock /\ clock <= clock'
  BY DEF CallsInv, Invoking!Start
<1>2. /\ service_of[r] = Invoking!None /\ inner' = [inner EXCEPT ![s] = r]
      /\ service_of' = [service_of EXCEPT ![r] = s] /\ alive' = alive \cup {r}
      /\ is_ready' = is_ready /\ call' = call
  BY DEF Invoking!Start
<1>3. RunnersOK'
  <2>1. \A t \in Services \ {s} : inner[t] # r \/ r = Invoking!None
    BY <1>1, <1>2 DEF RunnersOK
  <2>2. \A t \in Services : inner'[t] # Invoking!None => service_of'[inner'[t]] = t
    BY <1>1, <1>2, <2>1 DEF RunnersOK
  <2> QED
    BY <1>1, <1>2, <2>2 DEF RunnersOK
<1>4. \A q \in Runners : Ages(q)
  BY <1>1, <1>2 DEF Ages, RunnersOK
<1> QED
  BY <1>1, <1>2, <1>3, <1>4, CallsStand, RunnersChange

\* RunnerReady.
LEMMA ReadyKeeps ==
  ASSUME CallsInv, NEW r \in Runners, Invoking!RunnerReady(r)
  PROVE  CallsInv'
<1>1. RunnersOK /\ clock \in 0..MaxTime /\ clock' = clock /\ clock <= clock'
  BY DEF CallsInv, Invoking!RunnerReady
<1>2. UNCHANGED <<inner, service_of, alive, call>> /\ is_ready \subseteq is_ready'
  BY DEF Invoking!RunnerReady
<1>3. RunnersOK' /\ \A q \in Runners : Ages(q)
  <2>1. RunnersOK'
    BY <1>1, <1>2 DEF RunnersOK
  <2>2. \A q \in Runners : Ages(q)
    BY <1>1, <1>2 DEF Ages, RunnersOK
  <2> QED
    BY <2>1, <2>2
<1> QED
  BY <1>1, <1>2, <1>3, CallsStand, RunnersChange

\* Seconds pass.
LEMMA TickKeeps ==
  ASSUME CallsInv, Invoking!Tick
  PROVE  CallsInv'
<1>1. RunnersOK /\ clock \in 0..MaxTime
  BY DEF CallsInv
<1>2. clock' \in 0..MaxTime /\ clock <= clock'
  BY <1>1 DEF Invoking!Tick
<1>3. UNCHANGED <<inner, is_ready, service_of, alive, call>>
  BY DEF Invoking!Tick, Invoking!runnerVars
<1>4. RunnersOK'
  BY <1>1, <1>3 DEF RunnersOK
<1>5. \A q \in Runners : Ages(q)
  BY <1>1, <1>3 DEF Ages, RunnersOK
<1> QED
  BY <1>2, <1>3, <1>4, <1>5, CallsStand, RunnersChange

\* The ids that are forgotten are those of runners that neither live nor are in
\* the map.
LEMMA ForgetKeeps ==
  ASSUME RunnersOK, NEW known, alive' \subseteq known, alive' \subseteq alive,
         Invoking!Forget(known),
         inner' \in [Services -> Runners \cup {Invoking!None}],
         \A s \in Services : inner'[s] # Invoking!None => inner'[s] = inner[s] /\ inner'[s] \in known
  PROVE  RunnersOK' /\ \A q \in Runners : Ages(q)
<1>1. \A q \in Runners :
        /\ q \in known => service_of'[q] = service_of[q]
        /\ service_of'[q] \in {service_of[q], "gone"}
        /\ service_of[q] # Invoking!None => service_of'[q] # Invoking!None
  BY DEF Invoking!Forget, Invoking!None
<1>2. service_of' \in [Runners -> Services \cup {Invoking!None, "gone"}]
  BY <1>1 DEF RunnersOK, Invoking!Forget
<1>3. \A s \in Services : inner'[s] # Invoking!None => service_of'[inner'[s]] = s
  <2> SUFFICES ASSUME NEW s \in Services, inner'[s] # Invoking!None
               PROVE  service_of'[inner'[s]] = s
    OBVIOUS
  <2>1. PICK q \in Runners : q = inner'[s] /\ q = inner[s] /\ q \in known
    OBVIOUS
  <2> QED
    BY <1>1, <2>1 DEF RunnersOK
<1>4. \A q \in alive' : q \in Runners /\ service_of'[q] # Invoking!None
  BY <1>1 DEF RunnersOK
<1>5. \A q \in Runners : Ages(q)
  BY <1>1 DEF Ages, Invoking!Forget
<1> QED
  BY <1>2, <1>3, <1>4, <1>5 DEF RunnersOK

\* take_running and reap_finished.
LEMMA TakeKeeps ==
  ASSUME CallsInv, NEW s \in Services, Invoking!TakeRunning(s)
  PROVE  CallsInv'
<1>1. RunnersOK /\ clock \in 0..MaxTime /\ clock' = clock /\ clock <= clock'
  BY DEF CallsInv, Invoking!TakeRunning
<1>2. /\ inner' = [inner EXCEPT ![s] = Invoking!None]
      /\ alive' = alive /\ call' = call
      /\ Invoking!Forget(alive \cup Invoking!Range(inner'))
  BY DEF Invoking!TakeRunning
<1>3. /\ inner' \in [Services -> Runners \cup {Invoking!None}]
      /\ \A t \in Services : inner'[t] # Invoking!None => inner'[t] = inner[t]
  BY <1>1, <1>2 DEF RunnersOK
<1>4. \A t \in Services : inner'[t] \in Invoking!Range(inner')
  BY <1>3 DEF Invoking!Range
<1>5. PICK known : known = alive \cup Invoking!Range(inner')
  OBVIOUS
<1>6. RunnersOK' /\ \A q \in Runners : Ages(q)
  BY <1>1, <1>2, <1>3, <1>4, <1>5, ForgetKeeps
<1> QED
  BY <1>1, <1>2, <1>6, CallsStand, RunnersChange

\* A call after the end of process r.
Left(c, r) ==
  IF \/ call[c].by = r /\ call[c].pc \in {"asking", "resolved"}
     \/ call[c].runner = r /\ call[c].pc \in {"queued", "running"} THEN Invoking!Done
  ELSE IF call[c].by = r THEN [call[c] EXCEPT !.by = Invoking!None, !.parent = Invoking!None]
  ELSE call[c]

\* It was answered, or is as it was but for who made it.
LEMMA LeftForms ==
  ASSUME NEW c, NEW r
  PROVE  \/ Left(c, r) = Invoking!Done
         \/ /\ \/ Left(c, r) = call[c]
               \/ Left(c, r) = [call[c] EXCEPT !.by = Invoking!None, !.parent = Invoking!None]
            /\ ~(call[c].runner = r /\ call[c].pc \in {"queued", "running"})
  BY DEF Left

\* A process ends: the calls it was to execute are answered.
LEMMA ExitKeeps ==
  ASSUME CallsInv, NEW r \in Runners, Invoking!Exit(r)
  PROVE  CallsInv'
<1>0. UNCHANGED <<inner, clock>> /\ alive' = alive \ {r}
  BY DEF Invoking!Exit
<1>1. /\ RunnersOK /\ clock \in 0..MaxTime /\ clock' = clock /\ clock <= clock'
      /\ inner' = inner /\ alive' = alive \ {r}
  BY <1>0 DEF CallsInv
<1>2. PICK known : known = alive' \cup Invoking!Range(inner) /\ Invoking!Forget(known)
  BY DEF Invoking!Exit
<1>3. \A t \in Services : inner[t] \in known
  BY <1>1, <1>2 DEF Invoking!Range, RunnersOK
<1>4. RunnersOK' /\ \A q \in Runners : Ages(q)
  BY <1>1, <1>2, <1>3, ForgetKeeps DEF RunnersOK
<1>5. call' = [c \in Calls |-> Left(c, r)]
  BY DEF Invoking!Exit, Left
<1>6. ASSUME NEW c \in Calls PROVE Stands(c)
  <2>1. PICK x \in Invoking!Call : x = call[c]
    BY DEF CallsInv
  <2>2. Current(x)
    BY <2>1 DEF CallsInv
  <2>3. \/ call'[c] = Invoking!Done
        \/ /\ call'[c] \in {x, [x EXCEPT !.by = Invoking!None, !.parent = Invoking!None]}
           /\ ~(x.runner = r /\ x.pc \in {"queued", "running"})
    BY <1>5, <2>1, LeftForms
  <2>4. CASE call'[c] = Invoking!Done
    BY <2>4, NoCallType DEF Stands
  <2>5. CASE call'[c] # Invoking!Done
    <3>1. PICK y : y = [x EXCEPT !.by = Invoking!None, !.parent = Invoking!None]
      OBVIOUS
    <3>2. /\ y \in Invoking!Call /\ y.pc = x.pc /\ y.runner = x.runner
          /\ y.target = x.target /\ y.exp = x.exp
      BY <3>1 DEF Invoking!Call
    <3>3. x.pc \in {"queued", "running"} => x.runner \in alive'
      BY <1>1, <2>2, <2>3, <2>5 DEF Current
    <3> QED
      BY <2>1, <2>3, <2>5, <3>1, <3>2, <3>3 DEF Stands
  <2> QED
    BY <2>4, <2>5
<1> QED
  BY <1>1, <1>4, <1>5, <1>6, RunnersChange

-----------------------------------------------------------------------------
(* The theorem.                                                            *)

\* The invariant holds initially ...
LEMMA CallsInit == MCInit => CallsInv
<1> SUFFICES ASSUME Invoking!Init PROVE CallsInv
  BY DEF MCInit
<1>1. RunnersOK /\ clock \in 0..MaxTime
  BY DEF Invoking!Init, RunnersOK
<1>2. call = [c \in Calls |-> Invoking!NoCall]
  BY DEF Invoking!Init
<1> QED
  BY <1>1, <1>2, NoCallType DEF CallsInv, Current

\* ... and every step keeps it.
LEMMA CallsStep ==
  CallsInv /\ [ProcessNext \/ CallsNext]_<<subject, vars, callVars>> => CallsInv'
<1> SUFFICES ASSUME CallsInv, Invoking!Next \/ UNCHANGED callVars PROVE CallsInv'
  BY DEF ProcessNext, CallsNext
<1>1. CASE UNCHANGED callVars
  BY <1>1 DEF callVars, CallsInv, RunnersOK, Current
<1>2. CASE \E c \in Calls : Invoking!Step(c)
  BY <1>2, CallKeeps
<1>3. CASE \E c \in Calls, s \in Services : Invoking!RpcInvoke(c, s)
  BY <1>3, AskKeeps
<1>4. CASE \E c \in Calls, r \in Runners, p \in Calls \cup {Invoking!None}, op \in Invoking!Ops,
              s \in Services : Invoking!Ask(c, r, p, op, s)
  BY <1>4, AskKeeps
<1>5. CASE \/ \E s \in Services, r \in Runners : Invoking!Start(s, r)
           \/ \E r \in Runners : Invoking!RunnerReady(r) \/ Invoking!Exit(r)
           \/ \E s \in Services : Invoking!TakeRunning(s)
           \/ Invoking!Tick
  BY <1>5, StartKeeps, ReadyKeeps, ExitKeeps, TakeKeeps, TickKeeps
<1> QED
  BY <1>1, <1>2, <1>3, <1>4, <1>5 DEF Invoking!Next

\* What makes a call run is the acceptance of its connection.
LEMMA OnlyAccepted ==
  ASSUME CallsInv, Invoking!Next, NEW c \in Calls, call[c].pc = "queued",
         call'[c].pc = "running"
  PROVE  Invoking!Accept(c) /\ clock < call[c].exp
<1>0. call \in [Calls -> Invoking!Call] /\ Invoking!Done.pc = "done"
  BY NoCallType DEF CallsInv
<1>1. ASSUME NEW o \in Calls, NEW x, call' = [call EXCEPT ![o] = x], o # c \/ x.pc # "running"
      PROVE  FALSE
  BY <1>0, <1>1
<1>2. ASSUME NEW o \in Calls, Invoking!Answer(o) PROVE FALSE
  BY <1>0, <1>1, <1>2 DEF Invoking!Answer
<1>3. ASSUME NEW o \in Calls, NEW pc, Invoking!Goto(o, pc), o # c \/ pc # "running" PROVE FALSE
  <2>1. PICK x : x = [call[o] EXCEPT !.pc = pc]
    OBVIOUS
  <2>2. call' = [call EXCEPT ![o] = x]
    BY <1>3, <2>1 DEF Invoking!Goto
  <2>3. x.pc = pc
    BY <1>0, <2>1 DEF Invoking!Call
  <2> QED
    BY <1>1, <1>3, <2>2, <2>3
<1>4. CASE UNCHANGED call
  BY <1>4
<1>5. ASSUME NEW r, Invoking!Exit(r) PROVE FALSE
  <2>1. call'[c] = Left(c, r)
    BY <1>5 DEF Invoking!Exit, Left
  <2>2. [call[c] EXCEPT !.by = Invoking!None, !.parent = Invoking!None].pc = "queued"
    BY <1>0 DEF Invoking!Call
  <2> QED
    BY <1>0, <2>1, <2>2, LeftForms
<1>6. ASSUME NEW o \in Calls, Invoking!Resolve(o) PROVE FALSE
  <2>1. CASE Invoking!Resolved(o)
    <3>1. PICK x : x = [call[o] EXCEPT !.pc = "resolved", !.runner = inner[call[o].target],
                                       !.exp = clock + TokenTtl]
      OBVIOUS
    <3>2. call' = [call EXCEPT ![o] = x]
      BY <2>1, <3>1 DEF Invoking!Resolved
    <3>3. x.pc = "resolved"
      BY <1>0, <3>1 DEF Invoking!Call
    <3> QED
      BY <1>1, <3>2, <3>3
  <2> QED
    BY <1>2, <1>6, <2>1 DEF Invoking!Resolve, Invoking!refuse
<1>7. ASSUME NEW o \in Calls, Invoking!Step(o) PROVE Invoking!Accept(c) /\ o = c
  <2>1. Invoking!AskAway(o) \/ Invoking!BackAgain(o) \/ Invoking!Finish(o) => FALSE
    BY <1>2, <1>3 DEF Invoking!AskAway, Invoking!BackAgain, Invoking!Finish
  <2>2. Invoking!Connect(o) => FALSE
    BY <1>2, <1>3 DEF Invoking!Connect
  <2>3. Invoking!Accept(o) => o = c
    BY <1>2, <1>3 DEF Invoking!Accept
  <2> QED
    BY <1>6, <1>7, <2>1, <2>2, <2>3 DEF Invoking!Step, Invoking!ManagerStep
<1>8. ASSUME NEW o \in Calls, NEW s, Invoking!RpcInvoke(o, s) PROVE FALSE
  <2>1. o # c
    BY <1>8 DEF Invoking!RpcInvoke
  <2> QED
    BY <1>1, <1>8, <2>1 DEF Invoking!RpcInvoke
<1>9. ASSUME NEW o \in Calls, NEW r, NEW p, NEW op, NEW s, Invoking!Ask(o, r, p, op, s)
      PROVE  FALSE
  <2>1. o # c
    BY <1>9 DEF Invoking!Ask
  <2> QED
    BY <1>1, <1>9, <2>1 DEF Invoking!Ask
<1>10. Invoking!Accept(c)
  <2>1. (\E s \in Services, r \in Runners : Invoking!Start(s, r)) => UNCHANGED call
    BY DEF Invoking!Start
  <2>2. (\E r \in Runners : Invoking!RunnerReady(r)) => UNCHANGED call
    BY DEF Invoking!RunnerReady
  <2>3. Invoking!Tick \/ (\E s \in Services : Invoking!TakeRunning(s)) => UNCHANGED call
    BY DEF Invoking!TakeRunning, Invoking!Tick
  <2> QED
    BY <1>4, <1>5, <1>7, <1>8, <1>9, <2>1, <2>2, <2>3 DEF Invoking!Next
<1>11. clock < call[c].exp
  BY <1>2, <1>10 DEF Invoking!Accept, Invoking!verify_invocation_token
<1> QED
  BY <1>10, <1>11

\* A runner executes an invocation only if it is the one the manager resolved
\* the target to, ready and of that service, less than a token's life ago
\* (verify_invocation_token), however long the connection waited for a slot and
\* whatever was stopped, replaced or restarted since.
THEOREM InvokedAsResolved == MCSpec => InvokedIsResolved
<1> DEFINE A == \A c \in Calls :
       call[c].pc = "queued" /\ call'[c].pc = "running" =>
         LET r == call[c].runner
         IN /\ r \in alive \cap is_ready /\ service_of[r] = call[c].target
            /\ clock < call[c].exp /\ call[c].exp <= clock + TokenTtl
<1>1. CallsInv /\ [ProcessNext \/ CallsNext]_<<subject, vars, callVars>> => [A]_(Invoking!vars)
  <2> SUFFICES ASSUME CallsInv, Invoking!Next, NEW c \in Calls,
                      call[c].pc = "queued", call'[c].pc = "running"
               PROVE  LET r == call[c].runner
                      IN /\ r \in alive \cap is_ready /\ service_of[r] = call[c].target
                         /\ clock < call[c].exp /\ call[c].exp <= clock + TokenTtl
    BY DEF ProcessNext, CallsNext, callVars, Invoking!vars
  <2>1. /\ call[c].runner \in alive /\ call[c].runner \in is_ready
        /\ service_of[call[c].runner] = call[c].target /\ call[c].exp <= clock + TokenTtl
    BY DEF CallsInv, Current
  <2>2. clock < call[c].exp
    BY OnlyAccepted
  <2> QED
    BY <2>1, <2>2
<1> QED
  BY <1>1, CallsInit, CallsStep, PTL DEF MCSpec, InvokedIsResolved, Invoking!InvokedIsResolved
=============================================================================
