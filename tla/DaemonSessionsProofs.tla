------------------------ MODULE DaemonSessionsProofs ------------------------
(***************************************************************************)
(* Proof about DaemonSessions, for any sets of connections and streams and *)
(* any limit on sessions, that nothing is left that could start a service  *)
(* when the daemon stops them.                                             *)
(*                                                                         *)
(* It needs to know of sessions that have ended that their streams have    *)
(* too, or were told to, and of sessions that have not begun that they     *)
(* have none.                                                              *)
(***************************************************************************)
EXTENDS DaemonSessions, TLAPS

\* A session that has not got to its loop has no streams; what is left of one
\* that has ended was told to end.
NoStreams(c) == \A i \in Streams : stream[c][i] = "none"
Unserved ==
  \A c \in Clients :
    session[c] \in {"none", "connecting", "rejected", "responding"} => NoStreams(c)
Leftovers ==
  \A c \in Clients : session[c] = "ended" => Live(c) \subseteq aborted[c]

\* Past the drain there are no sessions.
Stopped == daemon \in {"stopping", "exited"} => Holding = {}

SessionsInv == TypeOK /\ Unserved /\ Leftovers /\ Stopped

-----------------------------------------------------------------------------
(* Steps that change one session, or one stream.                           *)

\* The fields of a session that gets another state.
LEMMA SessionFields ==
  ASSUME TypeOK, NEW c \in Clients, NEW s, SetSession(c, s)
  PROVE  session'[c] = s /\ \A e \in Clients \ {c} : session'[e] = session[e]
  BY DEF TypeOK, SetSession

\* A session ends or moves on, its streams as they are.
LEMMA SessionMoves ==
  ASSUME SessionsInv, NEW c \in Clients, NEW s, SetSession(c, s), UNCHANGED stream,
         s \in {"none", "connecting", "rejected", "responding", "serving",
                "closing", "failing", "ended"},
         daemon' \in {"accepting", "rejecting", "draining", "aborting", "stopping", "exited"},
         signal' \in BOOLEAN, peer' \in SUBSET Clients,
         aborted' \in [Clients -> SUBSET Streams],
         \A e \in Clients \ {c} : aborted'[e] = aborted[e],
         s \in {"none", "connecting", "rejected", "responding"} => NoStreams(c),
         s = "ended" => Live(c) \subseteq aborted'[c],
         daemon' \in {"stopping", "exited"} =>
           /\ daemon \in {"stopping", "exited"}
           /\ c \in Holding \/ s \notin {"responding", "serving", "closing", "failing"}
  PROVE  SessionsInv'
<1>1. session'[c] = s /\ \A e \in Clients \ {c} : session'[e] = session[e]
  BY SessionFields DEF SessionsInv
<1>2. TypeOK'
  BY DEF SessionsInv, TypeOK, SetSession
<1>3. Unserved'
  BY <1>1 DEF SessionsInv, Unserved, NoStreams
<1>4. Leftovers'
  BY <1>1 DEF SessionsInv, Leftovers, Live
<1>5. Stopped'
  BY <1>1 DEF SessionsInv, Stopped, Holding
<1> QED
  BY <1>2, <1>3, <1>4, <1>5 DEF SessionsInv

\* A stream moves on.
LEMMA StreamMoves ==
  ASSUME SessionsInv, NEW c \in Clients, NEW i \in Streams, NEW x,
         x \in {"none", "handling", "following", "invoking", "writing", "failed"},
         SetStream(c, i, x),
         UNCHANGED <<daemon, signal, session, peer, aborted>>,
         \/ x \in {"none", "failed"} /\ stream[c][i] # "none"
         \/ i \in Live(c)
         \/ session[c] = "serving"
  PROVE  SessionsInv'
<1>1. /\ stream' \in [Clients -> [Streams -> {"none", "handling", "following", "invoking",
                                              "writing", "failed"}]]
      /\ stream'[c][i] = x
      /\ \A j \in Streams \ {i} : stream'[c][j] = stream[c][j]
      /\ \A e \in Clients \ {c} : stream'[e] = stream[e]
  BY DEF SessionsInv, TypeOK, SetStream
<1>2. TypeOK'
  BY <1>1 DEF SessionsInv, TypeOK
<1>3. Unserved'
  <2>1. i \in Live(c) => stream[c][i] # "none"
    BY DEF Live
  <2> QED
    BY <1>1, <2>1 DEF SessionsInv, Unserved, NoStreams
<1>4. Leftovers'
  BY <1>1 DEF SessionsInv, Leftovers, Live
<1>5. Stopped'
  BY DEF SessionsInv, Stopped, Holding
<1> QED
  BY <1>2, <1>3, <1>4, <1>5 DEF SessionsInv

\* Steps of the daemon and the clients that touch no session.
LEMMA DaemonMoves ==
  ASSUME SessionsInv, UNCHANGED <<session, stream, aborted>>,
         daemon' \in {"accepting", "rejecting", "draining", "aborting", "stopping", "exited"},
         signal' \in BOOLEAN, peer' \in SUBSET Clients,
         daemon' \in {"stopping", "exited"} =>
           daemon \in {"stopping", "exited"} \/ Holding = {}
  PROVE  SessionsInv'
<1>1. TypeOK'
  BY DEF SessionsInv, TypeOK
<1>2. Unserved' /\ Leftovers'
  BY DEF SessionsInv, Unserved, Leftovers, NoStreams, Live
<1>3. Stopped'
  BY DEF SessionsInv, Stopped, Holding
<1> QED
  BY <1>1, <1>2, <1>3 DEF SessionsInv

-----------------------------------------------------------------------------
(* The invariant holds of every reachable state.                           *)

\* Initially the daemon accepts and nobody has connected.
LEMMA SessionsInit == Init => SessionsInv
<1> SUFFICES ASSUME Init PROVE SessionsInv
  OBVIOUS
<1>1. TypeOK
  BY DEF Init, TypeOK
<1>2. Unserved /\ Leftovers /\ Stopped
  BY DEF Init, Unserved, Leftovers, Stopped, NoStreams
<1> QED
  BY <1>1, <1>2 DEF SessionsInv

\* The main task.
LEMMA DaemonKeeps ==
  ASSUME SessionsInv, Signal \/ DaemonStep
  PROVE  SessionsInv'
<1>0. TypeOK
  BY DEF SessionsInv
<1>1. CASE Signal \/ Rejected \/ BeginShutdown \/ Drained \/ DrainTimeout \/ Exit
  BY <1>0, <1>1, DaemonMoves DEF Signal, Rejected, BeginShutdown, Drained, all_joined,
     DrainTimeout, Exit, StreamVars, TypeOK
<1>2. ASSUME NEW c \in Clients, DropSession(c) PROVE SessionsInv'
  <2>1. Live(c) \in SUBSET Streams
    BY DEF Live
  <2>2. /\ aborted' \in [Clients -> SUBSET Streams] /\ aborted'[c] = Live(c)
        /\ \A e \in Clients \ {c} : aborted'[e] = aborted[e]
    BY <1>0, <1>2, <2>1 DEF DropSession, TypeOK
  <2>3. /\ SetSession(c, "ended") /\ UNCHANGED <<stream, daemon, signal, peer>>
        /\ daemon = "aborting"
    BY <1>2 DEF DropSession
  <2> QED
    BY <1>0, <2>2, <2>3, SessionMoves DEF TypeOK
<1> QED
  BY <1>1, <1>2 DEF DaemonStep

\* Clients connect and leave; sessions are accepted and served.
LEMMA ClientKeeps ==
  ASSUME SessionsInv, NEW c \in Clients,
         \/ Connect(c) \/ Disconnect(c) \/ Accept(c)
         \/ Respond(c) \/ CloseSession(c) \/ EndSession(c)
  PROVE  SessionsInv'
<1>0. TypeOK /\ Unserved
  BY DEF SessionsInv
<1>s. daemon \in {"stopping", "exited"} => c \notin Holding
  BY DEF SessionsInv, Stopped
<1>a. aborted \in [Clients -> SUBSET Streams] /\ signal \in BOOLEAN /\ peer \in SUBSET Clients
      /\ daemon \in {"accepting", "rejecting", "draining", "aborting", "stopping", "exited"}
  BY <1>0 DEF TypeOK
<1>n. NoStreams(c) => Live(c) = {}
  BY DEF NoStreams, Live
<1>1. CASE Connect(c)
  <2>1. NoStreams(c)
    BY <1>0, <1>1 DEF Connect, Unserved
  <2> QED
    BY <1>1, <1>a, <2>1, SessionMoves DEF Connect, StreamVars
<1>2. CASE Disconnect(c)
  BY <1>2, <1>a, DaemonMoves DEF Disconnect, StreamVars
<1>3. CASE Accept(c)
  <2>1. NoStreams(c)
    BY <1>0, <1>3 DEF Accept, Unserved
  <2> QED
    BY <1>3, <1>a, <2>1, SessionMoves DEF Accept, StreamVars
<1>4. CASE Respond(c)
  <2>1. NoStreams(c) /\ c \in Holding
    BY <1>0, <1>4 DEF Respond, Unserved, Holding
  <2> QED
    BY <1>4, <1>a, <1>n, <2>1, SessionMoves DEF Respond, StreamVars
<1>5. CASE CloseSession(c)
  <2>1. c \in Holding
    BY <1>5 DEF CloseSession, Holding
  <2> QED
    BY <1>5, <1>a, <2>1, SessionMoves DEF CloseSession, StreamVars
<1>6. CASE EndSession(c)
  <2>1. NoStreams(c)
    BY <1>6 DEF EndSession, NoStreams
  <2> QED
    BY <1>6, <1>a, <1>n, <2>1, SessionMoves DEF EndSession, StreamVars
<1> QED
  BY <1>1, <1>2, <1>3, <1>4, <1>5, <1>6

\* The streams of a session.
LEMMA StreamKeeps ==
  ASSUME SessionsInv, NEW c \in Clients, NEW i \in Streams,
         AcceptStream(c, i) \/ Join(c, i) \/ StreamStep(c, i)
  PROVE  SessionsInv'
<1>1. CASE AcceptStream(c, i)
  BY <1>1, StreamMoves DEF AcceptStream
<1>2. CASE Join(c, i) /\ session[c] # "serving"
  BY <1>2, StreamMoves DEF Join
<1>3. CASE Join(c, i) /\ session[c] = "serving"
  <2>1. /\ SetStream(c, i, "none") /\ SetSession(c, "failing")
        /\ aborted' = [aborted EXCEPT ![c] = Live(c)]
        /\ UNCHANGED <<daemon, signal, peer>>
    BY <1>3 DEF Join, aborted_by
  <2>2. TypeOK /\ Live(c) \in SUBSET Streams
    BY DEF SessionsInv, Live
  <2>3. /\ session' \in [Clients -> {"none", "connecting", "rejected", "responding", "serving",
                                     "closing", "failing", "ended"}]
        /\ session'[c] = "failing" /\ \A e \in Clients \ {c} : session'[e] = session[e]
    BY <2>1, <2>2 DEF SetSession, TypeOK
  <2>4. /\ stream' \in [Clients -> [Streams -> {"none", "handling", "following", "invoking",
                                                "writing", "failed"}]]
        /\ \A e \in Clients \ {c} : stream'[e] = stream[e]
    BY <2>1, <2>2 DEF SetStream, TypeOK
  <2>5. /\ aborted' \in [Clients -> SUBSET Streams]
        /\ \A e \in Clients \ {c} : aborted'[e] = aborted[e]
    BY <2>1, <2>2 DEF TypeOK
  <2>6. TypeOK'
    BY <2>1, <2>2, <2>3, <2>4, <2>5 DEF TypeOK
  <2>7. Unserved'
    BY <2>3, <2>4 DEF SessionsInv, Unserved, NoStreams
  <2>8. Leftovers'
    BY <2>3, <2>4, <2>5 DEF SessionsInv, Leftovers, Live
  <2>9. Stopped'
    BY <1>3, <2>1, <2>3 DEF SessionsInv, Stopped, Holding
  <2> QED
    BY <2>6, <2>7, <2>8, <2>9 DEF SessionsInv
<1>4. CASE StreamStep(c, i)
  BY <1>4, StreamMoves DEF StreamStep, Handle, FollowEnds, InvokeReturns, Write,
     DropStream, Live
<1> QED
  BY <1>1, <1>2, <1>3, <1>4

\* Hence every step keeps it ...
LEMMA SessionsStep == SessionsInv /\ [Next]_vars => SessionsInv'
<1> SUFFICES ASSUME SessionsInv, [Next]_vars PROVE SessionsInv'
  OBVIOUS
<1>1. CASE UNCHANGED vars
  BY <1>1, DaemonMoves DEF vars, SessionsInv, TypeOK
<1> QED
  BY <1>1, DaemonKeeps, ClientKeeps, StreamKeeps DEF Next

\* ... and it always holds.
LEMMA SessionsAlways == Spec => []SessionsInv
<1> QED
  BY SessionsInit, SessionsStep, PTL DEF Spec

-----------------------------------------------------------------------------
(* Theorems.                                                               *)

\* When run_manager stops the services, every session task has ended and every
\* stream task that still runs was told to end, however the clients, the
\* time-out of drain_session_tasks and failing streams interleave.
THEOREM ServicesStopLast == Spec => []StopIsLast
<1>1. SessionsInv => StopIsLast
  <2> SUFFICES ASSUME SessionsInv, daemon \in {"stopping", "exited"}, NEW c \in Clients
               PROVE  c \notin Holding /\ Live(c) \subseteq aborted[c]
    BY DEF StopIsLast
  <2>1. c \notin Holding
    BY DEF SessionsInv, Stopped
  <2>2. session[c] \in {"none", "connecting", "rejected", "ended"}
    BY <2>1 DEF Holding, SessionsInv, TypeOK
  <2> QED
    BY <2>1, <2>2 DEF SessionsInv, Unserved, Leftovers, NoStreams, Live
<1> QED
  BY <1>1, SessionsAlways, PTL
=============================================================================
