-------------------------- MODULE ServiceLogsProofs --------------------------
(***************************************************************************)
(* Proofs about ServiceLogs, for any streams, readers, capacities and      *)
(* numbers of runs and lines: the warning of lost lines is the truth, and  *)
(* a follower that got no warning has no hole in what it saw.              *)
(*                                                                         *)
(* For the first, what is lost is traced from the channel to the client:   *)
(* it is in the message the forwarding task holds or in the queue, or it   *)
(* is the difference between the forwarder's and the client's sequence     *)
(* numbers, or the client was warned.                                      *)
(*                                                                         *)
(* For the second, what a reader got is taken together with what is on the *)
(* way to it: the rest of the snapshot, the queue, the part of the channel *)
(* it has not received, and the lines the drains hold between the buffer   *)
(* and the channel.  With a line this has every later one of its stream,   *)
(* from the snapshot on.  That needs the order of lines in the buffer and  *)
(* in the channel.  When the stream ends nothing is on the way.            *)
(*                                                                         *)
(* Then the retained logs on disk (RetainedStore) and the buffer in bytes  *)
(* (LogBuffer), for any capacity, sizes and lengths of reads.              *)
(***************************************************************************)
EXTENDS MCServiceLogs, SequenceTheorems, FiniteSetTheorems, TLAPS

USE CapsAssumption

Types ==
  /\ phase \in [Runs -> {"none", "running", "stopping", "reaping", "retired"}]
  /\ written \in 0..MaxEvents
  /\ pipe \in [Runs -> [Streams -> Seq(Lines)]]
  /\ drain \in [Runs -> [Streams -> Lines \cup {NoLine, -1}]]
  /\ pushed \in [Runs -> [Streams -> Seq(Lines)]]
  /\ buffer \in [Runs -> Seq(Lines)]
  /\ channel \in [Runs -> Seq(Lines)]
  /\ retained \in [run : Runs \cup {NoRun}, lines : Seq(Lines)]
  /\ reader \in [Readers -> Reader]
  /\ client \in [Readers -> [expected : Nat, warned : BOOLEAN, got : Seq(Lines)]]

(***************************************************************************)
(* Lines of one run.                                                       *)
(***************************************************************************)
Kept(r, s) == Range(pushed[r][s])
Unread(r, s) == Range(pipe[r][s])
Increasing(p) == \A i, j \in DOMAIN p : i < j => p[i] < p[j]

\* The lines of a stream are numbered in order, and belong to no other.
Numbered(r, s) ==
  /\ Increasing(pushed[r][s]) /\ Increasing(pipe[r][s])
  /\ \A a \in Kept(r, s), b \in Unread(r, s) : a < b
  /\ \A a \in Kept(r, s) \cup Unread(r, s) : a <= written
  /\ \A o \in Streams \ {s} :
       \A a \in Kept(r, s) \cup Unread(r, s) : a \notin Kept(r, o) \cup Unread(r, o)

\* A line the drain has yet to broadcast is the last one of its stream.
InHand(r, s) ==
  drain[r][s] \in Lines => drain[r][s] \in Kept(r, s) /\ \A b \in Kept(r, s) : b <= drain[r][s]

\* The buffer and the channel have, with a line, the later ones after it,
\* except that the last one may not have been broadcast.
After(p, k, b) == \E m \in DOMAIN p : m > k /\ p[m] = b
Buffered(r) ==
  \A s \in Streams : \A k \in DOMAIN buffer[r] : \A b \in Kept(r, s) :
    buffer[r][k] \in Kept(r, s) /\ b > buffer[r][k] => After(buffer[r], k, b)
Sent(r) ==
  \A s \in Streams : \A k \in DOMAIN channel[r] : \A b \in Kept(r, s) :
    channel[r][k] \in Kept(r, s) /\ b > channel[r][k]
      => After(channel[r], k, b) \/ b = drain[r][s]

RunOK(r) ==
  Buffered(r) /\ Sent(r) /\ \A s \in Streams : Numbered(r, s) /\ InHand(r, s)

(***************************************************************************)
(* A reader and its client.                                                *)
(***************************************************************************)
Early == {"idle", "subscribed", "retained", "refused"}
Late == {"following", "ended"}

\* Before it forwards events nothing is lost.
Fresh(q) ==
  /\ reader[q].pc \notin Late =>
       /\ reader[q].queue = <<>> /\ reader[q].hold = NoMsg /\ reader[q].missed = {}
       /\ ~reader[q].closed /\ reader[q].seq = client[q].expected /\ ~client[q].warned
  /\ reader[q].pc \in Early => client[q] = NoClient /\ reader[q].out = <<>>

\* A message is a line or a loss.
MsgOK(m) == (m.line = NoLine => m.lagged > 0) /\ (m.line # NoLine => m.lagged = 0)

\* What was lost is known somewhere on the way to the client.
Told(q) ==
  \/ client[q].warned \/ reader[q].seq > client[q].expected
  \/ reader[q].hold.lagged > 0
  \/ \E m \in Range(reader[q].queue) : m.lagged > 0
Counted(q) ==
  /\ reader[q].pc = "following" =>
       /\ client[q].expected <= reader[q].seq
       /\ Told(q) <=> reader[q].missed # {}
       /\ reader[q].hold = NoMsg \/ MsgOK(reader[q].hold)
       /\ \A m \in Range(reader[q].queue) : MsgOK(m)
  /\ reader[q].pc = "ended" => (client[q].warned <=> reader[q].missed # {})

\* The receiver of a follower, and when its stream may end.
From(q) == IF reader[q].pc \in Late THEN reader[q].pos ELSE reader[q].start
Placed(q) ==
  /\ reader[q].pc = "subscribed" => reader[q].run \in Runs
  /\ reader[q].follow =>
       /\ reader[q].run \in Runs /\ From(q) <= Len(channel[reader[q].run])
       /\ reader[q].pc \in Late => reader[q].out = <<>>
  /\ reader[q].pc = "following" => reader[q].follow
  /\ reader[q].closed =>
       /\ reader[q].follow /\ From(q) = Len(channel[reader[q].run])
       /\ \A s \in Streams : drain[reader[q].run][s] = -1
  /\ reader[q].pc = "ended" /\ reader[q].follow =>
       reader[q].closed /\ reader[q].queue = <<>> /\ reader[q].hold = NoMsg

\* What a follower got, and what is on the way to it.
Due(q, x) ==
  \/ x \in Got(q) \/ x \in Range(reader[q].out)
  \/ \E m \in Range(reader[q].queue) : m.line = x
  \/ reader[q].hold.line = x
  \/ \E i \in DOMAIN channel[reader[q].run] : i > From(q) /\ channel[reader[q].run][i] = x
  \/ \E s \in Streams : drain[reader[q].run][s] = x

\* With a line, every later one of its stream.
Joined(q) ==
  reader[q].follow /\ reader[q].pc \in Late \cup {"sending"} /\ reader[q].missed = {} =>
    \A s \in Streams : \A a, b \in Kept(reader[q].run, s) : a < b /\ Due(q, a) => Due(q, b)

ReaderOK(q) == Fresh(q) /\ Counted(q) /\ Placed(q) /\ Joined(q)

LogsInv ==
  Types /\ (\A r \in Runs : RunOK(r)) /\ (\A q \in Readers : ReaderOK(q))

-----------------------------------------------------------------------------
(* Sequences.                                                              *)

\* A sequence with one more element.
LEMMA Appended ==
  ASSUME NEW S, NEW p \in Seq(S), NEW x \in S
  PROVE  /\ Append(p, x) \in Seq(S) /\ Len(Append(p, x)) = Len(p) + 1
         /\ DOMAIN p = 1..Len(p) /\ DOMAIN Append(p, x) = 1..(Len(p) + 1)
         /\ Append(p, x)[Len(p) + 1] = x
         /\ \A i \in DOMAIN p : Append(p, x)[i] = p[i]
         /\ Range(Append(p, x)) = Range(p) \cup {x}
<1>1. /\ Append(p, x) \in Seq(S) /\ Len(Append(p, x)) = Len(p) + 1
      /\ Len(p) \in Nat
      /\ DOMAIN p = 1..Len(p) /\ DOMAIN Append(p, x) = 1..(Len(p) + 1)
      /\ Append(p, x)[Len(p) + 1] = x
      /\ \A i \in 1..Len(p) : Append(p, x)[i] = p[i]
  OBVIOUS
<1> DEFINE a == Append(p, x)
<1> HIDE DEF a
<1>2. Range(a) = Range(p) \cup {x}
  BY <1>1 DEF Range, a
<1> QED
  BY <1>1, <1>2 DEF a

\* An empty sequence has no elements.
LEMMA NothingIn == Range(<<>>) = {}
  BY DEF Range

\* The first element and the others.
LEMMA Headed ==
  ASSUME NEW S, NEW p \in Seq(S), p # <<>>
  PROVE  /\ Head(p) \in S /\ Head(p) = p[1] /\ 1 \in DOMAIN p
         /\ Tail(p) \in Seq(S)
         /\ \A i \in DOMAIN Tail(p) : i + 1 \in DOMAIN p /\ Tail(p)[i] = p[i + 1]
         /\ Range(p) = Range(Tail(p)) \cup {Head(p)}
<1>1. /\ Head(p) \in S /\ Head(p) = p[1] /\ Len(p) \in Nat /\ Len(p) >= 1
      /\ DOMAIN p = 1..Len(p)
      /\ Tail(p) \in Seq(S) /\ DOMAIN Tail(p) = 1..(Len(p) - 1)
      /\ \A i \in 1..(Len(p) - 1) : Tail(p)[i] = p[i + 1]
  OBVIOUS
<1> DEFINE t == Tail(p)
<1> HIDE DEF t
<1>2. \A i \in DOMAIN p : i = 1 \/ (i - 1 \in DOMAIN t /\ t[i - 1] = p[i])
  BY <1>1 DEF t
<1>3. \A i \in DOMAIN t : i + 1 \in DOMAIN p /\ t[i] = p[i + 1]
  BY <1>1 DEF t
<1>4. Range(p) = Range(t) \cup {p[1]}
  <2>1. \A y \in Range(p) : y \in Range(t) \cup {p[1]}
    BY <1>2 DEF Range
  <2>2. \A y \in Range(t) \cup {p[1]} : y \in Range(p)
    BY <1>1, <1>3 DEF Range
  <2> QED
    BY <2>1, <2>2
<1> QED
  BY <1>1, <1>3, <1>4 DEF t

\* The last n elements.
LEMMA LastElements ==
  ASSUME NEW S, NEW p \in Seq(S), NEW n \in Nat
  PROVE  \E k \in Nat : /\ k <= Len(p) /\ LastLines(p, n) \in Seq(S)
                        /\ DOMAIN LastLines(p, n) = 1..(Len(p) - k)
                        /\ \A i \in 1..(Len(p) - k) : LastLines(p, n)[i] = p[i + k]
<1> DEFINE k == IF Len(p) > n THEN Len(p) - n ELSE 0
<1>1. k \in Nat /\ k <= Len(p) /\ LastLines(p, n) = SubSeq(p, k + 1, Len(p))
  BY DEF LastLines
<1> HIDE DEF k
<1>2. /\ SubSeq(p, k + 1, Len(p)) \in Seq(S)
      /\ DOMAIN SubSeq(p, k + 1, Len(p)) = 1..(Len(p) - k)
      /\ \A i \in 1..(Len(p) - k) : SubSeq(p, k + 1, Len(p))[i] = p[i + k]
  BY <1>1
<1> QED
  BY <1>1, <1>2

\* One line more at the end of what the client got, or none.
LEMMA Concatenated ==
  ASSUME NEW S, NEW p \in Seq(S), NEW x \in S
  PROVE  /\ p \o <<x>> \in Seq(S) /\ Range(p \o <<x>>) = Range(p) \cup {x}
         /\ p \o <<>> = p
<1>1. p \o <<x>> = Append(p, x) /\ p \o <<>> = p
  OBVIOUS
<1>2. Append(p, x) \in Seq(S) /\ Range(Append(p, x)) = Range(p) \cup {x}
  BY Appended
<1> QED
  BY <1>1, <1>2

\* Increasing sequences.
LEMMA Grows ==
  ASSUME NEW p \in Seq(Lines), Increasing(p), NEW x \in Lines, \A a \in Range(p) : a < x
  PROVE  Increasing(Append(p, x))
<1>1. /\ DOMAIN p = 1..Len(p) /\ DOMAIN Append(p, x) = 1..(Len(p) + 1) /\ Len(p) \in Nat
      /\ Append(p, x)[Len(p) + 1] = x /\ \A i \in DOMAIN p : Append(p, x)[i] = p[i]
  BY Appended
<1> DEFINE a == Append(p, x)
<1>2. \A i \in DOMAIN p : a[i] = p[i] /\ a[i] < x
  BY <1>1 DEF Range
<1> HIDE DEF a
<1> SUFFICES ASSUME NEW i \in DOMAIN a, NEW j \in DOMAIN a, i < j PROVE a[i] < a[j]
  BY DEF Increasing, a
<1>3. i \in DOMAIN p /\ (j \in DOMAIN p \/ j = Len(p) + 1)
  BY <1>1 DEF a
<1>4. CASE j \in DOMAIN p
  BY <1>2, <1>3, <1>4 DEF Increasing
<1>5. CASE j = Len(p) + 1
  BY <1>1, <1>2, <1>3, <1>5 DEF a
<1> QED
  BY <1>3, <1>4, <1>5

\* ... of which the first element is the least.
LEMMA Shrinks ==
  ASSUME NEW p \in Seq(Lines), Increasing(p), p # <<>>
  PROVE  Increasing(Tail(p)) /\ \A b \in Range(Tail(p)) : Head(p) < b
<1> DEFINE t == Tail(p)
<1>1. /\ Head(p) = p[1] /\ 1 \in DOMAIN p /\ DOMAIN p \subseteq Int /\ DOMAIN t \subseteq Nat \ {0}
      /\ \A i \in DOMAIN t : i + 1 \in DOMAIN p /\ t[i] = p[i + 1]
  BY Headed
<1> HIDE DEF t
<1>2. Increasing(t)
  BY <1>1, SMTT(30) DEF Increasing
<1>3. \A b \in Range(t) : Head(p) < b
  BY <1>1 DEF Increasing, Range
<1> QED
  BY <1>2, <1>3 DEF t

-----------------------------------------------------------------------------
(* Steps of the runner and of its drains, in one run.                      *)

\* The lines are numbers.
LEMMA LinesAreNumbers ==
  ASSUME Types, NEW r \in Runs, NEW s \in Streams
  PROVE  /\ Kept(r, s) \subseteq Lines /\ Unread(r, s) \subseteq Lines
         /\ pushed[r][s] \in Seq(Lines) /\ pipe[r][s] \in Seq(Lines)
         /\ buffer[r] \in Seq(Lines) /\ channel[r] \in Seq(Lines)
         /\ drain[r][s] \in Lines \cup {NoLine, -1}
         /\ Lines \subseteq Nat \ {0} /\ written \in Nat
<1>1. pushed[r][s] \in Seq(Lines) /\ pipe[r][s] \in Seq(Lines)
  BY DEF Types
<1>2. Kept(r, s) \subseteq Lines
  BY <1>1 DEF Kept, Range
<1>3. Unread(r, s) \subseteq Lines
  BY <1>1 DEF Unread, Range
<1> QED
  BY <1>1, <1>2, <1>3, SMTT(30) DEF Types, Lines

\* What the invariant says of a run depends on nothing else.
LEMMA RunUnchanged ==
  ASSUME Types, NEW r \in Runs, RunOK(r), written' \in Nat, written <= written',
         pushed'[r] = pushed[r], pipe'[r] = pipe[r], drain'[r] = drain[r],
         buffer'[r] = buffer[r], channel'[r] = channel[r]
  PROVE  RunOK(r)'
<1>1. Buffered(r)'
  BY DEF RunOK, Buffered, Kept, After
<1>2. Sent(r)'
  BY DEF RunOK, Sent, Kept, After
<1>3. ASSUME NEW s \in Streams PROVE Numbered(r, s)' /\ InHand(r, s)'
  <2>1. InHand(r, s)'
    BY DEF RunOK, InHand, Kept
  <2>2. \A a \in Kept(r, s) \cup Unread(r, s) : a <= written'
    <3>1. \A a \in Kept(r, s) \cup Unread(r, s) : a \in Int /\ a <= written
      BY LinesAreNumbers DEF RunOK, Numbered
    <3> QED
      BY <3>1 DEF Types
  <2>3. \A o \in Streams : Kept(r, o)' = Kept(r, o) /\ Unread(r, o)' = Unread(r, o)
    BY DEF Kept, Unread
  <2>4. Increasing(pushed[r][s])' /\ Increasing(pipe[r][s])'
    BY DEF RunOK, Numbered, Increasing
  <2> QED
    BY <2>1, <2>2, <2>3, <2>4 DEF RunOK, Numbered
<1> QED
  BY <1>1, <1>2, <1>3 DEF RunOK

\* The runner writes a line.
LEMMA WriteKeepsRun ==
  ASSUME Types, NEW r \in Runs, NEW s \in Streams, RunOK(r), Write(r, s)
  PROVE  RunOK(r)'
<1> DEFINE n == written + 1
<1>1. /\ n \in Lines /\ written' = n /\ written \in Nat
      /\ pipe'[r][s] = Append(pipe[r][s], n)
      /\ \A o \in Streams \ {s} : pipe'[r][o] = pipe[r][o]
      /\ UNCHANGED <<drain, pushed, buffer, channel>>
  BY SMTT(30) DEF Write, Types, Lines
<1> HIDE DEF n
<1>2. Buffered(r)' /\ Sent(r)' /\ \A o \in Streams : InHand(r, o)'
  BY <1>1 DEF RunOK, Buffered, Sent, InHand, Kept, After
<1>3. /\ \A o \in Streams : Kept(r, o)' = Kept(r, o)
      /\ \A o \in Streams \ {s} : Unread(r, o)' = Unread(r, o)
      /\ Unread(r, s)' = Unread(r, s) \cup {n}
  BY <1>1, LinesAreNumbers, Appended DEF Kept, Unread
<1>4. \A o \in Streams : \A a \in Kept(r, o) \cup Unread(r, o) : a \in Int /\ a < n
  <2>1. \A o \in Streams : \A a \in Kept(r, o) \cup Unread(r, o) : a \in Int /\ a <= written
    BY LinesAreNumbers DEF RunOK, Numbered
  <2> QED
    BY <1>1, <2>1 DEF n
<1>5. ASSUME NEW o \in Streams PROVE Numbered(r, o)'
  <2>0. n \in Int /\ Numbered(r, o)
    BY <1>1 DEF RunOK, Lines
  <2>1. Increasing(pushed[r][o])' /\ Increasing(pipe[r][o])'
    <3>1. CASE o = s
      <4>1. Increasing(Append(pipe[r][s], n))
        BY <1>1, <1>4, <2>0, <3>1, LinesAreNumbers, Grows DEF Numbered, Unread
      <4> QED
        BY <1>1, <2>0, <3>1, <4>1 DEF Numbered
    <3>2. CASE o # s
      BY <1>1, <2>0, <3>2 DEF Numbered
    <3> QED
      BY <3>1, <3>2
  <2>2. \A a \in Kept(r, o)', b \in Unread(r, o)' : a < b
    BY <1>3, <1>4, <2>0 DEF Numbered
  <2>3. \A a \in (Kept(r, o) \cup Unread(r, o))' : a <= written'
    BY <1>1, <1>3, <1>4, <2>0
  <2>4. \A e \in Streams \ {o} : \A a \in (Kept(r, o) \cup Unread(r, o))' :
           a \notin Kept(r, e)' \cup Unread(r, e)'
    <3>1. \A e \in Streams : n \notin Kept(r, e) \cup Unread(r, e)
      BY <1>4, <2>0
    <3> QED
      BY <1>3, <2>0, <3>1 DEF Numbered
  <2> QED
    BY <2>1, <2>2, <2>3, <2>4 DEF Numbered
<1> QED
  BY <1>2, <1>5 DEF RunOK

\* A drain reads a line and appends it to the buffer.
LEMMA DrainKeepsRun ==
  ASSUME Types, NEW r \in Runs, NEW s \in Streams, RunOK(r), Drain(r, s)
  PROVE  RunOK(r)'
<1> DEFINE x == Head(pipe[r][s])
           p == Append(buffer[r], x)
<1>0. /\ drain[r][s] = NoLine /\ pipe[r][s] # <<>> /\ x \in Lines
      /\ pipe[r][s] \in Seq(Lines) /\ Lines \subseteq Nat \ {0}
  BY LinesAreNumbers, Headed DEF Drain
<1>1. /\ written' = written /\ channel' = channel
      /\ pipe'[r][s] = Tail(pipe[r][s]) /\ \A o \in Streams \ {s} : pipe'[r][o] = pipe[r][o]
      /\ pushed'[r][s] = Append(pushed[r][s], x)
      /\ \A o \in Streams \ {s} : pushed'[r][o] = pushed[r][o]
      /\ drain'[r][s] = x /\ \A o \in Streams \ {s} : drain'[r][o] = drain[r][o]
      /\ buffer'[r] = LastLines(p, BufferCap)
  BY DEF Drain, Types
<1>2. /\ Kept(r, s)' = Kept(r, s) \cup {x} /\ Unread(r, s) = Unread(r, s)' \cup {x}
      /\ \A o \in Streams \ {s} : Kept(r, o)' = Kept(r, o) /\ Unread(r, o)' = Unread(r, o)
  <2>1. Kept(r, s)' = Kept(r, s) \cup {x}
    BY <1>0, <1>1, LinesAreNumbers, Appended DEF Kept
  <2>2. Unread(r, s) = Unread(r, s)' \cup {x}
    BY <1>0, <1>1, Headed DEF Unread
  <2> QED
    BY <1>1, <2>1, <2>2 DEF Kept, Unread
<1>3. /\ \A a \in Kept(r, s) : a \in Nat /\ a < x
      /\ \A b \in Unread(r, s)' : b \in Nat /\ x < b
      /\ \A o \in Streams \ {s} : x \notin Kept(r, o)
  <2>1. Numbered(r, s)
    BY DEF RunOK
  <2>2. \A b \in Unread(r, s)' : x < b
    BY <1>0, <1>1, <2>1, Shrinks DEF Numbered, Unread
  <2>3. Kept(r, s) \subseteq Nat /\ Unread(r, s) \subseteq Nat
    BY LinesAreNumbers
  <2> QED
    BY <1>2, <2>1, <2>2, <2>3 DEF Numbered
<1>4. p \in Seq(Lines) /\ DOMAIN p = 1..(Len(buffer[r]) + 1) /\ Len(p) = Len(buffer[r]) + 1
      /\ DOMAIN buffer[r] = 1..Len(buffer[r]) /\ Len(buffer[r]) \in Nat
      /\ p[Len(buffer[r]) + 1] = x /\ \A i \in DOMAIN buffer[r] : p[i] = buffer[r][i]
  BY <1>0, LinesAreNumbers, Appended
<1> HIDE DEF x, p
<1>5. ASSUME NEW o \in Streams, NEW k \in DOMAIN p, NEW b \in Kept(r, o)',
             p[k] \in Kept(r, o)', b > p[k]
      PROVE  After(p, k, b)
  <2>1. p[k] # x
    BY <1>0, <1>2, <1>3, <1>5
  <2>2. k \in DOMAIN buffer[r] /\ p[k] = buffer[r][k] /\ p[k] \in Kept(r, o)
    BY <1>2, <1>4, <1>5, <2>1
  <2>3. CASE b = x
    BY <1>4, <2>2, <2>3, SMTT(30) DEF After
  <2>4. CASE b # x
    <3>1. b \in Kept(r, o)
      BY <1>2, <2>4
    <3>2. After(buffer[r], k, b)
      BY <1>5, <2>2, <3>1 DEF RunOK, Buffered
    <3> QED
      BY <1>4, <3>2 DEF After
  <2> QED
    BY <2>3, <2>4
<1>6. Buffered(r)'
  <2>1. PICK k \in Nat : /\ k <= Len(p) /\ DOMAIN buffer'[r] = 1..(Len(p) - k)
                         /\ \A i \in 1..(Len(p) - k) : buffer'[r][i] = p[i + k]
    <3>1. BufferCap \in Nat /\ p \in Seq(Lines)
      BY <1>4
    <3>2. \E k \in Nat : /\ k <= Len(p) /\ LastLines(p, BufferCap) \in Seq(Lines)
                         /\ DOMAIN LastLines(p, BufferCap) = 1..(Len(p) - k)
                         /\ \A i \in 1..(Len(p) - k) : LastLines(p, BufferCap)[i] = p[i + k]
      BY <3>1, LastElements, Zenon
    <3> QED
      BY <1>1, <3>2
  <2> SUFFICES ASSUME NEW o \in Streams, NEW i \in DOMAIN buffer'[r], NEW b \in Kept(r, o)',
                      buffer'[r][i] \in Kept(r, o)', b > buffer'[r][i]
               PROVE  After(buffer'[r], i, b)
    BY DEF Buffered, After
  <2>2. i + k \in DOMAIN p /\ p[i + k] = buffer'[r][i] /\ i \in Nat
    BY <1>4, <2>1, SMTT(30)
  <2>3. PICK m \in DOMAIN p : m > i + k /\ p[m] = b
    BY <1>5, <2>2 DEF After
  <2>4. m - k \in 1..(Len(p) - k) /\ m - k > i /\ (m - k) + k = m
    BY <1>4, <2>1, <2>2, <2>3, SMTT(30)
  <2>5. m - k \in DOMAIN buffer'[r] /\ buffer'[r][m - k] = b
    BY <2>1, <2>3, <2>4
  <2> QED
    BY <2>4, <2>5 DEF After
<1>7. Sent(r)'
  <2> SUFFICES ASSUME NEW o \in Streams, NEW k \in DOMAIN channel[r], NEW b \in Kept(r, o)',
                      channel[r][k] \in Kept(r, o)', b > channel[r][k]
               PROVE  After(channel[r], k, b) \/ b = drain'[r][o]
    BY <1>1 DEF Sent, After
  <2>1. channel[r][k] # x
    BY <1>0, <1>2, <1>3
  <2>2. channel[r][k] \in Kept(r, o)
    BY <1>2, <2>1
  <2>3. CASE b = x
    BY <1>1, <1>2, <1>3, <2>3
  <2>4. CASE b # x
    <3>1. b \in Kept(r, o) /\ b \in Nat \ {0}
      BY <1>2, <2>4, LinesAreNumbers
    <3>2. After(channel[r], k, b) \/ b = drain[r][o]
      BY <2>2, <3>1 DEF RunOK, Sent
    <3> QED
      BY <1>0, <1>1, <3>1, <3>2 DEF NoLine
  <2> QED
    BY <2>3, <2>4
<1>8. ASSUME NEW o \in Streams PROVE InHand(r, o)'
  <2>1. CASE o = s
    <3>1. x \in Nat /\ x \in Kept(r, s)' /\ \A b \in Kept(r, s)' : b <= x
      BY <1>0, <1>2, <1>3
    <3> QED
      BY <1>1, <2>1, <3>1 DEF InHand
  <2>2. CASE o # s
    BY <1>1, <1>2, <2>2 DEF InHand, RunOK
  <2> QED
    BY <2>1, <2>2
<1>9. ASSUME NEW o \in Streams PROVE Numbered(r, o)'
  <2>0. Numbered(r, o) /\ Numbered(r, s)
    BY DEF RunOK
  <2>1. Increasing(pushed[r][o])' /\ Increasing(pipe[r][o])'
    <3>1. CASE o = s
      <4>1. Increasing(Append(pushed[r][s], x))
        BY <1>0, <1>3, <2>0, LinesAreNumbers, Grows DEF Numbered, Kept
      <4>2. Increasing(Tail(pipe[r][s]))
        BY <1>0, <2>0, Shrinks DEF Numbered
      <4> QED
        BY <1>1, <3>1, <4>1, <4>2
    <3>2. CASE o # s
      BY <1>1, <2>0, <3>2 DEF Numbered
    <3> QED
      BY <3>1, <3>2
  <2>2. /\ (Kept(r, o) \cup Unread(r, o))' = Kept(r, o) \cup Unread(r, o)
        /\ \A e \in Streams : (Kept(r, e) \cup Unread(r, e))' = Kept(r, e) \cup Unread(r, e)
    BY <1>2
  <2>3. \A a \in Kept(r, o)', b \in Unread(r, o)' : a < b
    <3>1. CASE o = s
      <4>1. \A b \in Unread(r, s)' : b \in Unread(r, s)
        BY <1>2
      <4> QED
        BY <1>2, <1>3, <2>0, <3>1, <4>1 DEF Numbered
    <3>2. CASE o # s
      BY <1>2, <2>0, <3>2 DEF Numbered
    <3> QED
      BY <3>1, <3>2
  <2> QED
    BY <1>1, <2>0, <2>1, <2>2, <2>3 DEF Numbered
<1> QED
  BY <1>6, <1>7, <1>8, <1>9 DEF RunOK

\* A drain broadcasts the line it holds.
LEMMA BroadcastKeepsRun ==
  ASSUME Types, NEW r \in Runs, NEW s \in Streams, RunOK(r), Broadcast(r, s)
  PROVE  RunOK(r)'
<1> DEFINE x == drain[r][s]
           p == Append(channel[r], x)
<1>1. /\ x \in Lines /\ UNCHANGED <<written, pipe, pushed, buffer>> /\ channel'[r] = p
      /\ drain'[r][s] = NoLine /\ \A o \in Streams \ {s} : drain'[r][o] = drain[r][o]
  BY DEF Broadcast, Types
<1>2. /\ DOMAIN p = 1..(Len(channel[r]) + 1)
      /\ DOMAIN channel[r] = 1..Len(channel[r]) /\ Len(channel[r]) \in Nat
      /\ p[Len(channel[r]) + 1] = x /\ \A i \in DOMAIN channel[r] : p[i] = channel[r][i]
  <2>1. channel[r] \in Seq(Lines)
    BY LinesAreNumbers
  <2>2. Len(channel[r]) \in Nat
    BY <2>1
  <2> QED
    BY <1>1, <2>1, <2>2, Appended
<1>3. x \in Kept(r, s) /\ \A b \in Kept(r, s) : b <= x /\ b \in Nat
  BY <1>1, LinesAreNumbers DEF RunOK, InHand
<1>4. \A o \in Streams \ {s} : x \notin Kept(r, o)
  BY <1>3 DEF RunOK, Numbered
<1> HIDE DEF x, p
<1>5. Buffered(r)' /\ \A o \in Streams : Numbered(r, o)'
  BY <1>1 DEF RunOK, Buffered, Numbered, Kept, Unread, After, Increasing
<1>6. \A o \in Streams : InHand(r, o)'
  BY <1>1 DEF RunOK, InHand, Kept, NoLine, Lines
<1>7. Sent(r)'
  <2> SUFFICES ASSUME NEW o \in Streams, NEW k \in DOMAIN p, NEW b \in Kept(r, o),
                      p[k] \in Kept(r, o), b > p[k]
               PROVE  After(p, k, b) \/ b = drain'[r][o]
    BY <1>1 DEF Sent, After, Kept
  <2>1. p[k] # x
    BY <1>3, <1>4
  <2>2. k \in DOMAIN channel[r] /\ p[k] = channel[r][k]
    BY <1>2, <2>1
  <2>3. After(channel[r], k, b) \/ b = drain[r][o]
    BY <2>2 DEF RunOK, Sent
  <2>4. CASE After(channel[r], k, b)
    BY <1>2, <2>4 DEF After
  <2>5. CASE b = drain[r][o] /\ o = s
    BY <1>2, <2>2, <2>5, SMTT(30) DEF After, x
  <2>6. CASE b = drain[r][o] /\ o # s
    BY <1>1, <2>6
  <2> QED
    BY <2>3, <2>4, <2>5, <2>6
<1> QED
  BY <1>5, <1>6, <1>7 DEF RunOK

\* A drain ends.
LEMMA DrainEndKeepsRun ==
  ASSUME Types, NEW r \in Runs, NEW s \in Streams, RunOK(r), DrainEnd(r, s)
  PROVE  RunOK(r)'
<1>1. /\ UNCHANGED <<written, pipe, pushed, buffer, channel>>
      /\ drain[r][s] = NoLine /\ drain'[r][s] = -1
      /\ \A o \in Streams \ {s} : drain'[r][o] = drain[r][o]
  BY DEF DrainEnd, Types
<1>2. Buffered(r)' /\ \A o \in Streams : Numbered(r, o)'
  BY <1>1 DEF RunOK, Buffered, Numbered, Kept, Unread, After, Increasing
<1>3. \A o \in Streams : InHand(r, o)'
  BY <1>1 DEF RunOK, InHand, Kept, Lines
<1>4. Sent(r)'
  <2>1. \A o \in Streams : \A b \in Kept(r, o) : b # NoLine
    BY LinesAreNumbers DEF NoLine
  <2> QED
    BY <1>1, <2>1 DEF RunOK, Sent, After, Kept
<1> QED
  BY <1>2, <1>3, <1>4 DEF RunOK

-----------------------------------------------------------------------------
(* The same steps, seen by a reader.                                       *)

\* A reader that does not move: the channel it follows may have got longer,
\* unless it is closed.
LEMMA ReaderWaits ==
  ASSUME Types, NEW q \in Readers, ReaderOK(q),
         reader'[q] = reader[q], client'[q] = client[q],
         reader[q].follow =>
           /\ Len(channel'[reader[q].run]) \in Nat
           /\ Len(channel[reader[q].run]) <= Len(channel'[reader[q].run])
           /\ reader[q].closed => /\ channel'[reader[q].run] = channel[reader[q].run]
                                  /\ drain'[reader[q].run] = drain[reader[q].run],
         Joined(q)'
  PROVE  ReaderOK(q)'
<1>1. Fresh(q)' /\ Counted(q)' /\ From(q)' = From(q)
  BY DEF ReaderOK, Fresh, Counted, Told, From
<1>2. Placed(q)'
  <2>1. From(q) \in Nat
    BY DEF Types, Reader, From
  <2>2. reader[q].follow => reader[q].run \in Runs
    BY DEF ReaderOK, Placed
  <2>3. reader[q].follow => Len(channel[reader[q].run]) \in Nat
    BY <2>2 DEF Types
  <2>4. reader[q].follow => From(q) <= Len(channel'[reader[q].run])
    BY <2>1, <2>2, <2>3 DEF ReaderOK, Placed
  <2> QED
    BY <1>1, <2>2, <2>4 DEF ReaderOK, Placed
<1> QED
  BY <1>1, <1>2 DEF ReaderOK

\* What a reader has or will get stays when its run does not move.
LEMMA JoinedWaits ==
  ASSUME Types, NEW q \in Readers, ReaderOK(q),
         reader'[q] = reader[q], client'[q] = client[q],
         reader[q].follow =>
           /\ channel'[reader[q].run] = channel[reader[q].run]
           /\ pushed'[reader[q].run] = pushed[reader[q].run]
           /\ \A s \in Streams : \/ drain'[reader[q].run][s] = drain[reader[q].run][s]
                                 \/ /\ drain[reader[q].run][s] = NoLine
                                    /\ drain'[reader[q].run][s] = -1
  PROVE  Joined(q)'
<1> SUFFICES ASSUME reader[q].follow, reader[q].pc \in Late \cup {"sending"},
                    reader[q].missed = {}, NEW s \in Streams,
                    NEW a \in Kept(reader[q].run, s)', NEW b \in Kept(reader[q].run, s)',
                    a < b, Due(q, a)'
             PROVE  Due(q, b)'
  BY DEF Joined
<1> DEFINE r == reader[q].run
<1>1. r \in Runs
  BY DEF ReaderOK, Placed
<1>2. a \in Kept(r, s) /\ b \in Kept(r, s)
  BY DEF Kept
<1>3. a \in Nat \ {0} /\ b \in Nat \ {0}
  BY <1>1, <1>2, LinesAreNumbers
<1>4. \A y \in Nat \ {0} : Due(q, y)' <=> Due(q, y)
  <2>1. From(q)' = From(q) /\ Got(q)' = Got(q)
    BY DEF From, Got
  <2>2. \A y \in Nat \ {0} : \A o \in Streams : drain'[r][o] = y <=> drain[r][o] = y
    BY DEF NoLine
  <2> QED
    BY <2>1, <2>2 DEF Due
<1> QED
  BY <1>2, <1>3, <1>4 DEF ReaderOK, Joined

\* A line appended to the buffer is on its way.
LEMMA JoinedDrain ==
  ASSUME Types, NEW q \in Readers, ReaderOK(q), NEW s \in Streams,
         reader[q].run \in Runs, RunOK(reader[q].run),
         Drain(reader[q].run, s)
  PROVE  Joined(q)'
<1> DEFINE r == reader[q].run
           x == Head(pipe[r][s])
<1>1. /\ x \in Lines /\ Lines \subseteq Nat \ {0} /\ pipe[r][s] # <<>>
      /\ pipe[r][s] \in Seq(Lines) /\ drain[r][s] = NoLine
  BY LinesAreNumbers, Headed DEF Drain
<1>2. /\ reader' = reader /\ client' = client /\ channel' = channel
      /\ pushed'[r][s] = Append(pushed[r][s], x)
      /\ \A o \in Streams \ {s} : pushed'[r][o] = pushed[r][o]
      /\ drain'[r][s] = x /\ \A o \in Streams \ {s} : drain'[r][o] = drain[r][o]
  BY DEF Drain, Types
<1>3. /\ Kept(r, s)' = Kept(r, s) \cup {x}
      /\ \A o \in Streams \ {s} : Kept(r, o)' = Kept(r, o)
  <2>1. pushed[r][s] \in Seq(Lines)
    BY LinesAreNumbers
  <2>2. Range(Append(pushed[r][s], x)) = Range(pushed[r][s]) \cup {x}
    BY <1>1, <2>1, Appended
  <2> QED
    BY <1>2, <2>2 DEF Kept
<1>4. x \in Unread(r, s)
  BY <1>1, Headed DEF Unread
<1>5. /\ \A a \in Kept(r, s) : a < x /\ a \in Nat \ {0}
      /\ \A o \in Streams \ {s} : \A a \in Kept(r, o) : a # x /\ a \in Nat \ {0}
  <2>1. Numbered(r, s) /\ \A o \in Streams : Kept(r, o) \subseteq Nat \ {0}
    BY LinesAreNumbers DEF RunOK
  <2> QED
    BY <1>4, <2>1 DEF Numbered
<1> HIDE DEF x
<1>6. \A y \in Nat \ {0} : Due(q, y)' <=> Due(q, y) \/ y = x
  <2>1. From(q)' = From(q) /\ Got(q)' = Got(q) /\ reader'[q] = reader[q]
    BY <1>2 DEF From, Got
  <2>2. \A y \in Nat \ {0} : (\E o \in Streams : drain'[r][o] = y)
                               <=> (\E o \in Streams : drain[r][o] = y) \/ y = x
    BY <1>1, <1>2 DEF NoLine
  <2> QED
    BY <1>2, <2>1, <2>2 DEF Due
<1> SUFFICES ASSUME reader[q].follow, reader[q].pc \in Late \cup {"sending"},
                    reader[q].missed = {}, NEW o \in Streams,
                    NEW a \in Kept(r, o)', NEW b \in Kept(r, o)', a < b, Due(q, a)'
             PROVE  Due(q, b)'
  BY <1>2 DEF Joined
<1>7. x \in Nat \ {0} /\ a # x
  BY <1>1, <1>3, <1>5
<1>8. CASE b = x
  BY <1>6, <1>7, <1>8
<1>9. CASE b # x
  <2>1. a \in Kept(r, o) /\ b \in Kept(r, o) /\ a \in Nat \ {0} /\ b \in Nat \ {0}
    BY <1>3, <1>5, <1>7, <1>9
  <2>2. Due(q, a)
    BY <1>6, <1>7, <2>1
  <2>3. Due(q, b)
    BY <2>1, <2>2 DEF ReaderOK, Joined
  <2> QED
    BY <1>6, <2>1, <2>3
<1> QED
  BY <1>8, <1>9

\* A line broadcast has not been received.
LEMMA JoinedBroadcast ==
  ASSUME Types, NEW q \in Readers, ReaderOK(q), NEW s \in Streams,
         reader[q].run \in Runs, Broadcast(reader[q].run, s)
  PROVE  Joined(q)'
<1> DEFINE r == reader[q].run
           x == drain[r][s]
           p == Append(channel[r], x)
<1>1. /\ x \in Lines /\ Lines \subseteq Nat \ {0} /\ channel[r] \in Seq(Lines)
      /\ reader' = reader /\ client' = client /\ pushed' = pushed /\ channel'[r] = p
      /\ drain'[r][s] = NoLine /\ \A o \in Streams \ {s} : drain'[r][o] = drain[r][o]
  <2>1. x \in Lines /\ reader' = reader /\ client' = client /\ pushed' = pushed
    BY DEF Broadcast
  <2>2. Lines \subseteq Nat \ {0} /\ channel[r] \in Seq(Lines)
    BY LinesAreNumbers
  <2>3. channel'[r] = p
    BY DEF Broadcast, Types
  <2>4. drain'[r][s] = NoLine /\ \A o \in Streams \ {s} : drain'[r][o] = drain[r][o]
    BY DEF Broadcast, Types
  <2> HIDE DEF x, p, r
  <2> QED
    BY <2>1, <2>2, <2>3, <2>4
<1>2. /\ DOMAIN p = 1..(Len(channel[r]) + 1)
      /\ DOMAIN channel[r] = 1..Len(channel[r]) /\ Len(channel[r]) \in Nat
      /\ p[Len(channel[r]) + 1] = x /\ \A i \in DOMAIN channel[r] : p[i] = channel[r][i]
  <2>1. Len(channel[r]) \in Nat /\ channel[r] \in Seq(Lines) /\ x \in Lines
    BY <1>1
  <2>2. \A c \in Seq(Lines), y \in Lines :
          /\ DOMAIN Append(c, y) = 1..(Len(c) + 1) /\ DOMAIN c = 1..Len(c)
          /\ Append(c, y)[Len(c) + 1] = y
          /\ \A i \in DOMAIN c : Append(c, y)[i] = c[i]
    BY Appended
  <2> QED
    BY <2>1, <2>2
<1>3. From(q)' = From(q) /\ Got(q)' = Got(q) /\ From(q) \in Nat
  BY <1>1 DEF From, Got, Types, Reader
<1> HIDE DEF p
<1> SUFFICES ASSUME reader[q].follow, reader[q].pc \in Late \cup {"sending"},
                    reader[q].missed = {}, NEW o \in Streams,
                    NEW a \in Kept(r, o), NEW b \in Kept(r, o), a < b, Due(q, a)'
             PROVE  Due(q, b)'
  BY <1>1 DEF Joined, Kept
<1>4. From(q) <= Len(channel[r])
  BY DEF ReaderOK, Placed
<1>5. \A y \in Nat \ {0} :
        (\E i \in DOMAIN p : i > From(q) /\ p[i] = y)
          <=> (\E i \in DOMAIN channel[r] : i > From(q) /\ channel[r][i] = y) \/ y = x
  <2>1. Len(channel[r]) + 1 > From(q)
    BY <1>2, <1>3, <1>4
  <2>2. \A i : i \in DOMAIN p <=> i \in DOMAIN channel[r] \/ i = Len(channel[r]) + 1
    BY <1>2, SMTT(30)
  <2> QED
    BY <1>2, <2>1, <2>2
<1>6. \A y \in Nat \ {0} : (\E e \in Streams : drain[r][e] = y)
                             <=> (\E e \in Streams : drain'[r][e] = y) \/ y = x
  BY <1>1 DEF NoLine
<1> HIDE DEF x
<1>7. \A y \in Nat \ {0} : Due(q, y)' <=> Due(q, y)
  <2> SUFFICES ASSUME NEW y \in Nat \ {0} PROVE Due(q, y)' <=> Due(q, y)
    OBVIOUS
  <2> DEFINE D == \/ y \in Got(q) \/ y \in Range(reader[q].out)
                  \/ \E m \in Range(reader[q].queue) : m.line = y
                  \/ reader[q].hold.line = y
             C == \E i \in DOMAIN channel[r] : i > From(q) /\ channel[r][i] = y
             P == \E i \in DOMAIN p : i > From(q) /\ p[i] = y
             H == \E e \in Streams : drain[r][e] = y
             N == \E e \in Streams : drain'[r][e] = y
  <2>1. Due(q, y) <=> D \/ C \/ H
    BY DEF Due
  <2>2. Due(q, y)' <=> D \/ P \/ N
    BY <1>1, <1>3 DEF Due
  <2>3. (P <=> C \/ y = x) /\ (H <=> N \/ y = x)
    BY <1>5, <1>6
  <2> HIDE DEF D, C, P, H, N
  <2> QED
    BY <2>1, <2>2, <2>3
<1>8. a \in Nat \ {0} /\ b \in Nat \ {0}
  BY LinesAreNumbers
<1>9. Due(q, a) => Due(q, b)
  BY DEF ReaderOK, Joined
<1> QED
  BY <1>7, <1>8, <1>9

\* The types after such a step.
LEMMA RunTypes ==
  ASSUME Types, NEW r \in Runs, NEW s \in Streams,
         Write(r, s) \/ Drain(r, s) \/ Broadcast(r, s) \/ DrainEnd(r, s)
  PROVE  Types'
<1>0. /\ pipe[r][s] \in Seq(Lines) /\ pushed[r][s] \in Seq(Lines)
      /\ buffer[r] \in Seq(Lines) /\ channel[r] \in Seq(Lines)
  BY LinesAreNumbers
<1>1. CASE Write(r, s)
  <2>1. written + 1 \in Lines /\ written' \in 0..MaxEvents
    BY <1>1 DEF Write, Types, Lines
  <2>2. Append(pipe[r][s], written + 1) \in Seq(Lines)
    BY <1>0, <2>1, Appended
  <2>3. pipe' \in [Runs -> [Streams -> Seq(Lines)]]
    BY <1>1, <2>2 DEF Write, Types
  <2> QED
    BY <1>1, <2>1, <2>3 DEF Write, Types, supervisorVars
<1>2. CASE Drain(r, s)
  <2> DEFINE x == Head(pipe[r][s])
             b == LastLines(Append(buffer[r], x), BufferCap)
  <2>1. x \in Lines /\ Tail(pipe[r][s]) \in Seq(Lines)
    BY <1>0, <1>2, Headed DEF Drain
  <2>2. Append(pushed[r][s], x) \in Seq(Lines) /\ Append(buffer[r], x) \in Seq(Lines)
    BY <1>0, <2>1, Appended
  <2>3. b \in Seq(Lines)
    BY <2>2, LastElements
  <2>4. /\ drain' = [drain EXCEPT ![r][s] = x]
        /\ pushed' = [pushed EXCEPT ![r][s] = Append(pushed[r][s], x)]
        /\ buffer' = [buffer EXCEPT ![r] = b]
        /\ pipe' = [pipe EXCEPT ![r][s] = Tail(pipe[r][s])]
        /\ UNCHANGED <<supervisorVars, written, channel, reader, client>>
    BY <1>2 DEF Drain, Types
  <2> HIDE DEF x, b
  <2>5. pipe' \in [Runs -> [Streams -> Seq(Lines)]]
    BY <2>1, <2>4 DEF Types
  <2>6. pushed' \in [Runs -> [Streams -> Seq(Lines)]]
    BY <2>2, <2>4 DEF Types
  <2>7. buffer' \in [Runs -> Seq(Lines)]
    BY <2>3, <2>4 DEF Types
  <2>8. drain' \in [Runs -> [Streams -> Lines \cup {NoLine, -1}]]
    BY <2>1, <2>4 DEF Types
  <2> QED
    BY <2>4, <2>5, <2>6, <2>7, <2>8 DEF Types, supervisorVars
<1>3. CASE Broadcast(r, s)
  <2>1. drain[r][s] \in Lines
    BY <1>3 DEF Broadcast
  <2>2. Append(channel[r], drain[r][s]) \in Seq(Lines)
    BY <1>0, <2>1, Appended
  <2>3. channel' \in [Runs -> Seq(Lines)]
    BY <1>3, <2>2 DEF Broadcast, Types
  <2>4. drain' \in [Runs -> [Streams -> Lines \cup {NoLine, -1}]]
    BY <1>3 DEF Broadcast, Types
  <2> QED
    BY <1>3, <2>3, <2>4 DEF Broadcast, Types, supervisorVars
<1>4. CASE DrainEnd(r, s)
  <2>1. drain' \in [Runs -> [Streams -> Lines \cup {NoLine, -1}]]
    BY <1>4 DEF DrainEnd, Types
  <2> QED
    BY <1>4, <2>1 DEF DrainEnd, Types, supervisorVars
<1> QED
  BY <1>1, <1>2, <1>3, <1>4

\* Such a step keeps the invariant.
LEMMA RunKeeps ==
  ASSUME LogsInv, NEW r \in Runs, NEW s \in Streams,
         Write(r, s) \/ Drain(r, s) \/ Broadcast(r, s) \/ DrainEnd(r, s)
  PROVE  LogsInv'
<1>1. Types /\ Types' /\ RunOK(r) /\ \A e \in Runs : RunOK(e)
  BY RunTypes DEF LogsInv
<1>2. /\ reader' = reader /\ client' = client /\ written' \in Nat /\ written <= written'
      /\ \A e \in Runs \ {r} :
           /\ pushed'[e] = pushed[e] /\ pipe'[e] = pipe[e] /\ drain'[e] = drain[e]
           /\ buffer'[e] = buffer[e] /\ channel'[e] = channel[e]
  <2>1. CASE Write(r, s)
    BY <1>1, <2>1 DEF Types, Write
  <2>2. CASE Drain(r, s)
    BY <1>1, <2>2 DEF Types, Drain
  <2>3. CASE Broadcast(r, s)
    BY <1>1, <2>3 DEF Types, Broadcast
  <2>4. CASE DrainEnd(r, s)
    BY <1>1, <2>4 DEF Types, DrainEnd
  <2> QED
    BY <2>1, <2>2, <2>3, <2>4
<1>3. ASSUME NEW e \in Runs PROVE RunOK(e)'
  <2>1. CASE e = r
    BY <1>1, <2>1, WriteKeepsRun, DrainKeepsRun, BroadcastKeepsRun, DrainEndKeepsRun
  <2>2. CASE e # r
    BY <1>1, <1>2, <2>2, RunUnchanged
  <2> QED
    BY <2>1, <2>2
<1>4. ASSUME NEW q \in Readers PROVE ReaderOK(q)'
  <2>1. ReaderOK(q) /\ (reader[q].follow => reader[q].run \in Runs)
    BY DEF LogsInv, ReaderOK, Placed
  <2>2. CASE ~reader[q].follow \/ reader[q].run # r
    <3>1. reader[q].follow =>
            /\ channel'[reader[q].run] = channel[reader[q].run]
            /\ pushed'[reader[q].run] = pushed[reader[q].run]
            /\ drain'[reader[q].run] = drain[reader[q].run]
      BY <1>2, <2>1, <2>2
    <3>2. Joined(q)'
      BY <1>1, <1>2, <2>1, <3>1, JoinedWaits
    <3>3. reader[q].follow => Len(channel[reader[q].run]) \in Nat
      <4>1. \A e \in Runs : Len(channel[e]) \in Nat
        BY <1>1 DEF Types
      <4> QED
        BY <2>1, <4>1
    <3> QED
      BY <1>1, <1>2, <2>1, <3>1, <3>2, <3>3, ReaderWaits
  <2>3. CASE reader[q].follow /\ reader[q].run = r
    <3>1. Joined(q)'
      <4>1. CASE Write(r, s) \/ DrainEnd(r, s)
        <5>1. /\ channel' = channel /\ pushed' = pushed
              /\ \A o \in Streams : \/ drain'[r][o] = drain[r][o]
                                    \/ drain[r][o] = NoLine /\ drain'[r][o] = -1
          <6>1. CASE Write(r, s)
            BY <6>1 DEF Write
          <6>2. CASE DrainEnd(r, s)
            BY <1>1, <6>2 DEF DrainEnd, Types
          <6> QED
            BY <4>1, <6>1, <6>2
        <5> QED
          BY <1>1, <1>2, <2>1, <2>3, <5>1, JoinedWaits
      <4>2. CASE Drain(r, s)
        BY <1>1, <2>1, <2>3, <4>2, JoinedDrain
      <4>3. CASE Broadcast(r, s)
        BY <1>1, <2>1, <2>3, <4>3, JoinedBroadcast
      <4> QED
        BY <4>1, <4>2, <4>3
    <3>2. Len(channel'[r]) \in Nat /\ Len(channel[r]) <= Len(channel'[r])
      <4>1. channel[r] \in Seq(Lines)
        BY <1>1, LinesAreNumbers
      <4>2. channel'[r] = channel[r] \/ channel'[r] = Append(channel[r], drain[r][s])
        BY <1>1 DEF Write, Drain, Broadcast, DrainEnd, Types
      <4>3. channel'[r] \in Seq(Lines)
        BY <1>1 DEF Types
      <4> QED
        BY <4>1, <4>2, <4>3
    <3>3. reader[q].closed => channel'[r] = channel[r] /\ drain'[r] = drain[r]
      <4>1. reader[q].closed => drain[r][s] = -1
        BY <2>1, <2>3 DEF ReaderOK, Placed
      <4> QED
        BY <1>1, <4>1 DEF Write, Drain, Broadcast, DrainEnd, NoLine, Lines
    <3> QED
      BY <1>1, <1>2, <2>1, <2>3, <3>1, <3>2, <3>3, ReaderWaits
  <2> QED
    BY <2>2, <2>3
<1> QED
  BY <1>1, <1>3, <1>4 DEF LogsInv

\* Steps that touch neither lines nor readers.
LEMMA SupervisorKeeps ==
  ASSUME LogsInv, Types', UNCHANGED <<drainVars, reader, client>>
  PROVE  LogsInv'
<1>0. Types /\ UNCHANGED <<written, pipe, drain, pushed, buffer, channel, reader, client>>
  BY DEF LogsInv, drainVars
<1>1. ASSUME NEW r \in Runs PROVE RunOK(r)'
  <2>1. RunOK(r) /\ written \in Nat
    BY <1>0 DEF LogsInv, Types
  <2> QED
    BY <1>0, <2>1, RunUnchanged
<1>2. ASSUME NEW q \in Readers PROVE ReaderOK(q)'
  <2>1. ReaderOK(q) /\ (reader[q].follow => reader[q].run \in Runs)
    BY DEF LogsInv, ReaderOK, Placed
  <2>2. Joined(q)'
    BY <1>0, <2>1, JoinedWaits
  <2>3. reader[q].follow => Len(channel[reader[q].run]) \in Nat
    <3>1. \A e \in Runs : Len(channel[e]) \in Nat
      BY <1>0 DEF Types
    <3> QED
      BY <2>1, <3>1
  <2> QED
    BY <1>0, <2>1, <2>2, <2>3, ReaderWaits
<1> QED
  BY <1>1, <1>2 DEF LogsInv

\* The supervisor's steps are such.
LEMMA SupervisorSteps ==
  ASSUME LogsInv,
         \/ EvictRetained
         \/ \E r \in Runs : Start(r) \/ Exit(r) \/ Stop(r) \/ Reap(r) \/ Retain(r)
  PROVE  LogsInv'
<1>1. Types
  BY DEF LogsInv
<1>2. UNCHANGED <<drainVars, reader, client>>
  BY DEF EvictRetained, Start, Exit, Stop, Reap, Retain
<1>3. Types'
  <2>1. UNCHANGED <<written, pipe, drain, pushed, buffer, channel, reader, client>>
    BY <1>2 DEF drainVars
  <2>2. phase' \in [Runs -> {"none", "running", "stopping", "reaping", "retired"}]
    BY <1>1 DEF Types, EvictRetained, Start, Exit, Stop, Reap, Retain
  <2>3. NoLog \in [run : Runs \cup {NoRun}, lines : Seq(Lines)]
    BY DEF NoLog
  <2>4. \A r \in Runs : [run |-> r, lines |-> buffer[r]]
                          \in [run : Runs \cup {NoRun}, lines : Seq(Lines)]
    BY <1>1 DEF Types
  <2>5. retained' \in [run : Runs \cup {NoRun}, lines : Seq(Lines)]
    BY <1>1, <2>3, <2>4 DEF Types, EvictRetained, Start, Exit, Stop, Reap, Retain
  <2> QED
    BY <1>1, <2>1, <2>2, <2>5 DEF Types
<1> QED
  BY <1>2, <1>3, SupervisorKeeps

-----------------------------------------------------------------------------
(* Steps of one reader.                                                    *)
Client == [expected : Nat, warned : BOOLEAN, got : Seq(Lines)]

\* One reader and its client move, the rest stays.
Alone(q) ==
  /\ reader' \in [Readers -> Reader] /\ client' \in [Readers -> Client]
  /\ \A u \in Readers \ {q} : reader'[u] = reader[u] /\ client'[u] = client[u]
  /\ UNCHANGED <<phase, retained, written, pipe, drain, pushed, buffer, channel>>

\* Then the invariant only has to be shown of that reader.
LEMMA ReaderMoves ==
  ASSUME LogsInv, NEW q \in Readers, Alone(q), ReaderOK(q)'
  PROVE  LogsInv'
<1>1. Types /\ Types'
  BY DEF LogsInv, Types, Alone, Client
<1>2. ASSUME NEW r \in Runs PROVE RunOK(r)'
  <2>1. RunOK(r) /\ written \in Nat
    BY <1>1 DEF LogsInv, Types
  <2> QED
    BY <1>1, <2>1, RunUnchanged DEF Alone
<1>3. ASSUME NEW u \in Readers PROVE ReaderOK(u)'
  <2>0. CASE u = q
    BY <2>0
  <2>1. CASE u # q
    <3>1. ReaderOK(u) /\ (reader[u].follow => reader[u].run \in Runs)
      BY DEF LogsInv, ReaderOK, Placed
    <3>2. reader'[u] = reader[u] /\ client'[u] = client[u]
      BY <2>1 DEF Alone
    <3>3. Joined(u)'
      BY <1>1, <3>1, <3>2, JoinedWaits DEF Alone
    <3>4. reader[u].follow => Len(channel[reader[u].run]) \in Nat
      <4>1. \A e \in Runs : Len(channel[e]) \in Nat
        BY <1>1 DEF Types
      <4> QED
        BY <3>1, <4>1
    <3> QED
      BY <1>1, <3>1, <3>2, <3>3, <3>4, ReaderWaits DEF Alone
  <2> QED
    BY <2>0, <2>1
<1> QED
  BY <1>1, <1>2, <1>3 DEF LogsInv

\* A step of a reader that sends or takes lines, and loses none, keeps what it
\* has and will get.
LEMMA JoinedMoves ==
  ASSUME Types, NEW q \in Readers, ReaderOK(q),
         reader[q].pc \in Late \cup {"sending"},
         reader'[q].follow = reader[q].follow, reader'[q].run = reader[q].run,
         reader'[q].missed = {} => reader[q].missed = {},
         pushed' = pushed,
         reader[q].follow =>
           \A y \in Nat \ {0} : Due(q, y)' <=> Due(q, y)
  PROVE  Joined(q)'
<1> SUFFICES ASSUME reader[q].follow, reader[q].missed = {}, NEW s \in Streams,
                    NEW a \in Kept(reader[q].run, s), NEW b \in Kept(reader[q].run, s),
                    a < b, Due(q, a)'
             PROVE  Due(q, b)'
  BY DEF Joined, Kept
<1>1. reader[q].run \in Runs
  BY DEF ReaderOK, Placed
<1>2. a \in Nat \ {0} /\ b \in Nat \ {0}
  BY <1>1, LinesAreNumbers
<1>3. Due(q, a) => Due(q, b)
  BY DEF ReaderOK, Joined
<1> QED
  BY <1>2, <1>3

\* Records.
LEMMA NoReaderType == NoReader \in Reader /\ NoClient \in Client /\ NoMsg \in Msg
<1>1. NoMsg \in Msg
  BY DEF NoMsg, Msg, NoLine
<1>2. <<>> \in Seq(Lines) /\ <<>> \in Seq(Msg)
  OBVIOUS
<1>3. NoClient \in Client
  BY <1>2 DEF NoClient, Client
<1>4. NoReader \in Reader
  BY <1>1, <1>2 DEF NoReader, Reader, NoRun
<1> QED
  BY <1>1, <1>3, <1>4

\* logs.request.
LEMMA OpenKeeps ==
  ASSUME LogsInv, NEW q \in Readers, NEW follow \in BOOLEAN, Open(q, follow)
  PROVE  LogsInv'
<1> DEFINE r == CHOOSE x \in Running : TRUE
           n == IF Running # {}
                THEN [NoReader EXCEPT !.pc = "subscribed", !.run = r, !.follow = follow,
                                      !.start = Len(channel[r])]
                ELSE [NoReader EXCEPT !.pc = IF Stopping # {} THEN "refused" ELSE "retained"]
<1>1. Types /\ ReaderOK(q) /\ reader[q].pc = "idle" /\ client[q] = NoClient
  BY DEF LogsInv, Open, ReaderOK, Fresh, Early
<1>2. reader' = [reader EXCEPT ![q] = n] /\ UNCHANGED <<supervisorVars, drainVars, client>>
  BY DEF Open
<1>3. Running # {} => r \in Runs /\ Len(channel[r]) \in Nat
  <2>1. Running # {} => r \in Running
    OBVIOUS
  <2>2. \A e \in Runs : Len(channel[e]) \in Nat
    BY <1>1 DEF Types
  <2> HIDE DEF r
  <2> QED
    BY <2>1, <2>2 DEF Running
<1> HIDE DEF r
<1>4. /\ n \in Reader /\ n.pc \in {"subscribed", "refused", "retained"}
      /\ n.queue = <<>> /\ n.hold = NoMsg /\ n.missed = {} /\ n.closed = FALSE
      /\ n.seq = 0 /\ n.out = <<>>
      /\ n.pc = "subscribed" => n.run \in Runs
      /\ n.follow => n.run \in Runs /\ n.start = Len(channel[n.run])
  <2>1. CASE Running # {}
    <3>1. n = [NoReader EXCEPT !.pc = "subscribed", !.run = r, !.follow = follow,
                               !.start = Len(channel[r])]
      BY <2>1
    <3> HIDE DEF n
    <3>2. /\ n \in Reader /\ n.pc = "subscribed" /\ n.run = r /\ n.start = Len(channel[r])
          /\ n.queue = <<>> /\ n.hold = NoMsg /\ n.missed = {} /\ n.closed = FALSE
          /\ n.seq = 0 /\ n.out = <<>>
      BY <1>3, <2>1, <3>1, NoReaderType DEF NoReader, Reader
    <3> QED
      BY <1>3, <2>1, <3>2
  <2>2. CASE Running = {}
    <3> DEFINE at == IF Stopping # {} THEN "refused" ELSE "retained"
    <3>1. n = [NoReader EXCEPT !.pc = at] /\ at \in {"refused", "retained"}
      BY <2>2
    <3> HIDE DEF n, at
    <3>2. /\ n \in Reader /\ n.pc = at /\ n.follow = FALSE
          /\ n.queue = <<>> /\ n.hold = NoMsg /\ n.missed = {} /\ n.closed = FALSE
          /\ n.seq = 0 /\ n.out = <<>>
      BY <3>1, NoReaderType DEF NoReader, Reader
    <3> QED
      BY <3>1, <3>2
  <2> QED
    BY <2>1, <2>2
<1> HIDE DEF n
<1>5. Alone(q) /\ reader'[q] = n /\ client'[q] = NoClient
  BY <1>1, <1>2, <1>4 DEF Alone, Types, Client, supervisorVars, drainVars
<1>6. ReaderOK(q)'
  <2>1. Fresh(q)'
    BY <1>4, <1>5 DEF Fresh, Late, Early, NoClient
  <2>2. Counted(q)' /\ Joined(q)'
    BY <1>4, <1>5 DEF Counted, Joined, Late
  <2>3. Placed(q)'
    <3>1. From(q)' = n.start
      BY <1>4, <1>5 DEF From, Late
    <3>2. n.follow => Len(channel[n.run]) \in Nat
      BY <1>1, <1>4 DEF Types
    <3> QED
      BY <1>2, <1>4, <1>5, <3>1, <3>2 DEF Placed, Late, drainVars
  <2> QED
    BY <2>1, <2>2, <2>3 DEF ReaderOK
<1> QED
  BY <1>5, <1>6, ReaderMoves

\* A part of the buffer's end has, with a line, the later ones of its stream.
LEMMA TailIsJoined ==
  ASSUME Types, NEW r \in Runs, RunOK(r), NEW s \in Streams,
         NEW a \in Kept(r, s), NEW b \in Kept(r, s), a < b,
         a \in Range(LastLines(buffer[r], TailLines))
  PROVE  b \in Range(LastLines(buffer[r], TailLines))
<1> DEFINE p == buffer[r]
           t == LastLines(p, TailLines)
<1>1. p \in Seq(Lines) /\ DOMAIN p = 1..Len(p) /\ Len(p) \in Nat /\ TailLines \in Nat
  BY LinesAreNumbers
<1>2. PICK k \in Nat : /\ k <= Len(p) /\ DOMAIN t = 1..(Len(p) - k)
                       /\ \A i \in 1..(Len(p) - k) : t[i] = p[i + k]
  <2>1. p \in Seq(Lines) /\ TailLines \in Nat
    BY <1>1
  <2>2. \E k \in Nat : /\ k <= Len(p) /\ LastLines(p, TailLines) \in Seq(Lines)
                       /\ DOMAIN LastLines(p, TailLines) = 1..(Len(p) - k)
                       /\ \A i \in 1..(Len(p) - k) : LastLines(p, TailLines)[i] = p[i + k]
    BY <2>1, LastElements, Zenon
  <2> QED
    BY <2>2
<1> HIDE DEF t
<1>3. PICK i \in DOMAIN t : t[i] = a
  BY DEF Range, t
<1>4. i + k \in DOMAIN p /\ p[i + k] = a /\ i \in Nat
  BY SMTT(30), <1>1, <1>2, <1>3
<1>5. a \in Nat /\ b \in Nat
  BY LinesAreNumbers
<1>6. PICK m \in DOMAIN p : m > i + k /\ p[m] = b
  BY <1>4, <1>5 DEF RunOK, Buffered, After
<1>7. m - k \in 1..(Len(p) - k) /\ (m - k) + k = m
  BY <1>1, <1>2, <1>4, <1>6, SMTT(30)
<1>8. m - k \in DOMAIN t /\ t[m - k] = b
  BY <1>2, <1>6, <1>7
<1> QED
  BY <1>8 DEF Range, t

\* What the channel and the drains hold from any place on has them too.
LEMMA ChannelIsJoined ==
  ASSUME Types, NEW r \in Runs, RunOK(r), NEW s \in Streams, NEW i \in DOMAIN channel[r],
         channel[r][i] \in Kept(r, s), NEW b \in Kept(r, s), channel[r][i] < b
  PROVE  After(channel[r], i, b) \/ drain[r][s] = b
<1>1. channel[r][i] \in Nat /\ b \in Nat
  BY LinesAreNumbers
<1> QED
  BY <1>1 DEF RunOK, Sent

\* A drain holds the last line of its stream that was appended.
LEMMA DrainIsLast ==
  ASSUME Types, NEW r \in Runs, RunOK(r), NEW s \in Streams, NEW o \in Streams,
         drain[r][o] \in Kept(r, s), NEW b \in Kept(r, s)
  PROVE  b <= drain[r][o]
<1>1. drain[r][o] \in Lines
  BY LinesAreNumbers
<1>2. drain[r][o] \in Kept(r, o) /\ \A e \in Kept(r, o) : e <= drain[r][o]
  BY <1>1 DEF RunOK, InHand
<1>3. o = s
  BY <1>2 DEF RunOK, Numbered
<1> QED
  BY <1>2, <1>3

\* The snapshot is taken: with what is broadcast after the subscription, it has
\* no hole.
LEMMA ReadBufferKeeps ==
  ASSUME LogsInv, NEW q \in Readers, ReadBuffer(q)
  PROVE  LogsInv'
<1> DEFINE r == reader[q].run
           t == LastLines(buffer[r], TailLines)
           n == [reader[q] EXCEPT !.pc = "sending", !.out = t]
<1>1. /\ Types /\ ReaderOK(q) /\ reader[q].pc = "subscribed" /\ r \in Runs
      /\ RunOK(r) /\ reader[q] \in Reader
  <2>1. Types /\ ReaderOK(q) /\ reader[q].pc = "subscribed"
    BY DEF LogsInv, ReadBuffer
  <2>2. r \in Runs /\ reader[q] \in Reader
    BY <2>1 DEF ReaderOK, Placed, Types
  <2> QED
    BY <2>1, <2>2 DEF LogsInv
<1>2. /\ reader' = [reader EXCEPT ![q] = n]
      /\ UNCHANGED <<supervisorVars, drainVars, client>>
  BY <1>1 DEF ReadBuffer, Types
<1>3. t \in Seq(Lines)
  <2>1. buffer[r] \in Seq(Lines) /\ TailLines \in Nat
    BY <1>1 DEF Types
  <2> QED
    BY <2>1, LastElements
<1> HIDE DEF t
<1>4. /\ n \in Reader /\ n.pc = "sending" /\ n.out = t /\ n.run = r
      /\ n.follow = reader[q].follow /\ n.start = reader[q].start
      /\ n.hold = reader[q].hold /\ n.queue = reader[q].queue
      /\ n.closed = reader[q].closed /\ n.seq = reader[q].seq
      /\ n.missed = reader[q].missed
  BY <1>1, <1>3 DEF Reader
<1> HIDE DEF n
<1>5. /\ Alone(q) /\ reader'[q] = n /\ client'[q] = client[q]
      /\ UNCHANGED <<buffer, channel, drain, pushed>>
  BY <1>1, <1>2, <1>4 DEF Alone, Types, Client, supervisorVars, drainVars
<1>6. /\ reader[q].queue = <<>> /\ reader[q].hold = NoMsg /\ client[q] = NoClient
      /\ reader[q].missed = {} /\ ~reader[q].closed
      /\ reader[q].seq = client[q].expected /\ ~client[q].warned
  BY <1>1 DEF ReaderOK, Fresh, Early, Late
<1>7. Fresh(q)' /\ Counted(q)'
  BY <1>4, <1>5, <1>6 DEF Fresh, Counted, Early, Late
<1>8. From(q)' = From(q) /\ Placed(q)'
  <2>1. From(q)' = From(q)
    BY <1>1, <1>4, <1>5 DEF From, Late
  <2> QED
    BY <1>1, <1>4, <1>5, <1>6, <2>1 DEF ReaderOK, Placed, Late
<1>9. Joined(q)'
  <2> SUFFICES ASSUME reader[q].follow, NEW s \in Streams,
                      NEW a \in Kept(r, s), NEW b \in Kept(r, s), a < b, Due(q, a)'
               PROVE  Due(q, b)'
    BY <1>4, <1>5 DEF Joined, Kept
  <2>0. a \in Nat \ {0} /\ b \in Nat \ {0}
    BY <1>1, LinesAreNumbers
  <2>1. CASE a \in Range(t)
    <3>1. b \in Range(t)
      BY <1>1, <2>1, TailIsJoined DEF t
    <3> QED
      BY <1>4, <1>5, <3>1 DEF Due
  <2>2. ASSUME NEW i \in DOMAIN channel[r], i > From(q), channel[r][i] = a
        PROVE  Due(q, b)'
    <3>1. After(channel[r], i, b) \/ drain[r][s] = b
      BY <1>1, <2>2, ChannelIsJoined
    <3>2. CASE After(channel[r], i, b)
      <4>1. PICK m \in DOMAIN channel[r] : m > i /\ channel[r][m] = b
        BY <3>2 DEF After
      <4>2. m \in Nat /\ i \in Nat /\ From(q) \in Nat
        <5>1. channel[r] \in Seq(Lines)
          BY <1>1, LinesAreNumbers
        <5>2. From(q) \in Nat
          BY <1>1 DEF From, Reader
        <5>3. DOMAIN channel[r] \subseteq Nat
          BY <5>1
        <5> QED
          BY <5>2, <5>3
      <4>3. m > From(q)
        BY <2>2, <4>1, <4>2
      <4> QED
        BY <1>4, <1>5, <1>8, <4>1, <4>3 DEF Due
    <3>3. CASE drain[r][s] = b
      BY <1>4, <1>5, <3>3 DEF Due
    <3> QED
      BY <3>1, <3>2, <3>3
  <2>3. ASSUME NEW o \in Streams, drain[r][o] = a PROVE FALSE
    BY <1>1, <2>0, <2>3, DrainIsLast
  <2>4. Got(q)' = {} /\ reader'[q].queue = <<>> /\ reader'[q].hold.line = 0
    BY <1>4, <1>5, <1>6, NothingIn DEF Got, NoClient, NoMsg, NoLine
  <2>5. \/ a \in Range(t) \/ \E i \in DOMAIN channel[r] : i > From(q) /\ channel[r][i] = a
        \/ \E o \in Streams : drain[r][o] = a
    BY <1>4, <1>5, <1>8, <2>0, <2>4, NothingIn DEF Due
  <2> QED
    BY <2>1, <2>2, <2>3, <2>5
<1> QED
  BY <1>5, <1>7, <1>8, <1>9, ReaderMoves DEF ReaderOK

\* The retained log is read; there is nothing to follow.
LEMMA ReadRetainedKeeps ==
  ASSUME LogsInv, NEW q \in Readers, ReadRetained(q)
  PROVE  LogsInv'
<1> DEFINE t == LastLines(retained.lines, TailLines)
           n == IF retained = NoLog THEN [NoReader EXCEPT !.pc = "refused"]
                ELSE [NoReader EXCEPT !.pc = "sending", !.run = retained.run, !.out = t]
<1>1. Types /\ client[q] = NoClient
  BY DEF LogsInv, ReadRetained, ReaderOK, Fresh, Early
<1>2. reader' = [reader EXCEPT ![q] = n] /\ UNCHANGED <<supervisorVars, drainVars, client>>
  BY DEF ReadRetained
<1>3. t \in Seq(Lines)
  <2>1. retained.lines \in Seq(Lines) /\ TailLines \in Nat
    BY <1>1 DEF Types
  <2> QED
    BY <2>1, LastElements
<1> HIDE DEF t
<1>4. /\ n \in Reader /\ n.pc \in {"refused", "sending"} /\ n.follow = FALSE
      /\ n.queue = <<>> /\ n.hold = NoMsg /\ n.missed = {} /\ n.closed = FALSE
      /\ n.seq = 0 /\ (n.pc = "refused" => n.out = <<>>)
  <2>1. CASE retained = NoLog
    <3>1. n = [NoReader EXCEPT !.pc = "refused"]
      BY <2>1
    <3> HIDE DEF n
    <3> QED
      BY <3>1, NoReaderType DEF NoReader, Reader
  <2>2. CASE retained # NoLog
    <3>1. n = [NoReader EXCEPT !.pc = "sending", !.run = retained.run, !.out = t]
      BY <2>2
    <3>2. retained.run \in Runs \cup {NoRun}
      BY <1>1 DEF Types
    <3> HIDE DEF n
    <3> QED
      BY <1>3, <3>1, <3>2, NoReaderType DEF NoReader, Reader
  <2> QED
    BY <2>1, <2>2
<1> HIDE DEF n
<1>5. Alone(q) /\ reader'[q] = n /\ client'[q] = NoClient
  BY <1>1, <1>2, <1>4 DEF Alone, Types, Client, supervisorVars, drainVars
<1>6. ReaderOK(q)'
  <2>1. Fresh(q)'
    BY <1>4, <1>5 DEF Fresh, Late, Early, NoClient
  <2>2. Counted(q)' /\ Joined(q)' /\ Placed(q)'
    BY <1>4, <1>5 DEF Counted, Joined, Placed, Late
  <2> QED
    BY <2>1, <2>2 DEF ReaderOK
<1> QED
  BY <1>5, <1>6, ReaderMoves

\* The handler sends a chunk of the snapshot.
LEMMA SendSnapshotKeeps ==
  ASSUME LogsInv, NEW q \in Readers, SendSnapshot(q)
  PROVE  LogsInv'
<1> DEFINE d == reader[q]
           x == Head(d.out)
           t == Tail(d.out)
           k == d.seq + 1
           n == [d EXCEPT !.out = t, !.seq = k]
           c == Receive(client[q], d.seq, <<x>>)
<1>1. /\ Types /\ ReaderOK(q) /\ d.pc = "sending" /\ d.out # <<>> /\ d \in Reader
      /\ d.out \in Seq(Lines) /\ d.seq \in Nat /\ client[q] \in Client
  BY DEF LogsInv, SendSnapshot, Types, Reader, Client
<1>2. /\ reader' = [reader EXCEPT ![q] = n] /\ client' = [client EXCEPT ![q] = c]
      /\ UNCHANGED <<supervisorVars, drainVars>>
  BY <1>1 DEF SendSnapshot, SendChunk, Types
<1>3. /\ x \in Lines /\ t \in Seq(Lines) /\ Range(d.out) = Range(t) \cup {x}
      /\ k \in Nat /\ k = d.seq + 1
  BY <1>1, Headed
<1> HIDE DEF x, t, k
<1>4. /\ n \in Reader /\ n.pc = "sending" /\ n.out = t /\ n.run = d.run
      /\ n.follow = d.follow /\ n.start = d.start /\ n.hold = d.hold /\ n.queue = d.queue
      /\ n.closed = d.closed /\ n.seq = k /\ n.missed = d.missed
  BY <1>1, <1>3 DEF Reader
<1>5. /\ c \in Client /\ c.expected = k
      /\ c.warned = (client[q].warned \/ d.seq # client[q].expected)
      /\ Range(c.got) = Range(client[q].got) \cup {x}
  <2> DEFINE g == client[q].got \o <<x>>
             w == client[q].warned \/ d.seq # client[q].expected
  <2>1. client[q].got \in Seq(Lines) /\ w \in BOOLEAN
    BY <1>1 DEF Client
  <2>2. g \in Seq(Lines) /\ Range(g) = Range(client[q].got) \cup {x}
    BY <1>3, <2>1, Concatenated
  <2>3. c = [expected |-> k, warned |-> w, got |-> g]
    BY DEF Receive, seq_gap, k
  <2> HIDE DEF g, w, c
  <2>4. c \in Client /\ c.expected = k /\ c.warned = w /\ c.got = g
    BY <1>3, <2>1, <2>2, <2>3 DEF Client
  <2> QED
    BY <2>2, <2>4 DEF w
<1> HIDE DEF n, c
<1>6. /\ Alone(q) /\ reader'[q] = n /\ client'[q] = c
      /\ UNCHANGED <<buffer, channel, drain, pushed>>
  BY <1>1, <1>2, <1>4, <1>5 DEF Alone, Types, Client, supervisorVars, drainVars
<1>7. /\ d.queue = <<>> /\ d.hold = NoMsg /\ d.missed = {} /\ ~d.closed
      /\ d.seq = client[q].expected /\ ~client[q].warned
  BY <1>1 DEF ReaderOK, Fresh, Late
<1>8. Fresh(q)' /\ Counted(q)'
  BY <1>4, <1>5, <1>6, <1>7 DEF Fresh, Counted, Early, Late
<1>9. From(q)' = From(q) /\ Placed(q)'
  <2>1. From(q)' = From(q)
    BY <1>1, <1>4, <1>6 DEF From, Late
  <2> QED
    BY <1>1, <1>4, <1>6, <1>7, <2>1 DEF ReaderOK, Placed, Late
<1>10. Joined(q)'
  <2>1. \A y : y \in (Got(q) \cup Range(reader[q].out))' <=> y \in Got(q) \cup Range(d.out)
    BY <1>3, <1>4, <1>5, <1>6 DEF Got
  <2>2. \A y : Due(q, y)' <=> Due(q, y)
    BY <1>4, <1>6, <1>9, <2>1 DEF Due
  <2> QED
    BY <1>1, <1>4, <1>6, <2>2, JoinedMoves
<1> QED
  BY <1>6, <1>8, <1>9, <1>10, ReaderMoves DEF ReaderOK

\* The terminal chunk and logs.end.
LEMMA EndFields ==
  ASSUME Types, NEW q \in Readers, SendEnd(q)
  PROVE  /\ Alone(q) /\ reader'[q].pc = "ended" /\ reader'[q].run = reader[q].run
         /\ reader'[q].follow = reader[q].follow /\ reader'[q].pos = reader[q].pos
         /\ reader'[q].out = reader[q].out
         /\ reader'[q].hold = reader[q].hold /\ reader'[q].queue = reader[q].queue
         /\ reader'[q].closed = reader[q].closed /\ reader'[q].missed = reader[q].missed
         /\ client'[q].warned = (client[q].warned \/ reader[q].seq # client[q].expected)
         /\ client'[q].got = client[q].got
         /\ UNCHANGED <<channel, drain, pushed>>
<1> DEFINE d == reader[q]
           k == d.seq + 1
           n == [d EXCEPT !.pc = "ended", !.seq = k]
           b == Receive(client[q], d.seq, <<>>)
           c == Receive(b, k, <<>>)
<1>1. d \in Reader /\ client[q] \in Client /\ d.seq \in Nat /\ k \in Nat
  BY SMTT(30) DEF Types, Reader, Client
<1>2. /\ reader' = [reader EXCEPT ![q] = n] /\ client' = [client EXCEPT ![q] = c]
      /\ UNCHANGED <<supervisorVars, drainVars>>
  BY <1>1 DEF SendEnd, Types
<1> HIDE DEF k
<1>3. /\ n \in Reader /\ n.pc = "ended" /\ n.out = d.out /\ n.run = d.run
      /\ n.follow = d.follow /\ n.pos = d.pos /\ n.hold = d.hold /\ n.queue = d.queue
      /\ n.closed = d.closed /\ n.missed = d.missed
  BY <1>1 DEF Reader
<1> DEFINE w == client[q].warned \/ d.seq # client[q].expected
<1>4. /\ b \in Client /\ b.expected = k /\ b.got = client[q].got /\ b.warned = w
  <2>1. client[q].got \in Seq(Lines) /\ client[q].got \o <<>> = client[q].got /\ w \in BOOLEAN
    BY <1>1 DEF Client
  <2>2. b = [expected |-> k, warned |-> w, got |-> client[q].got]
    BY <2>1 DEF Receive, seq_gap, k
  <2> HIDE DEF b, w
  <2> QED
    BY <1>1, <2>1, <2>2 DEF Client
<1> HIDE DEF b
<1>5. c \in Client /\ c.got = b.got /\ c.warned = (b.warned \/ k # b.expected)
  <2> DEFINE v == b.warned \/ k # b.expected
  <2>1. b.got \in Seq(Lines) /\ b.got \o <<>> = b.got /\ v \in BOOLEAN /\ k + 1 \in Nat
    BY <1>1, <1>4 DEF Client
  <2>2. c = [expected |-> k + 1, warned |-> v, got |-> b.got]
    BY <2>1 DEF Receive, seq_gap
  <2> HIDE DEF c, v
  <2>3. c \in Client /\ c.got = b.got /\ c.warned = v
    BY <2>1, <2>2 DEF Client
  <2> QED
    BY <2>3 DEF v
<1> HIDE DEF c, n
<1>6. c.warned = b.warned
  BY <1>4, <1>5 DEF Client
<1> QED
  BY <1>1, <1>2, <1>3, <1>4, <1>5, <1>6
     DEF Alone, Types, Client, supervisorVars, drainVars

\* The snapshot is sent: the receiver is where it was made.
LEMMA SnapshotSentKeeps ==
  ASSUME LogsInv, NEW q \in Readers, SnapshotSent(q)
  PROVE  LogsInv'
<1> DEFINE d == reader[q]
<1>1. /\ Types /\ ReaderOK(q) /\ d.pc = "sending" /\ d.out = <<>> /\ d \in Reader
      /\ client[q] \in Client
  BY DEF LogsInv, SnapshotSent, Types, Client
<1>2. /\ d.queue = <<>> /\ d.hold = NoMsg /\ d.missed = {} /\ d.closed = FALSE
      /\ d.seq = client[q].expected /\ client[q].warned = FALSE
  BY <1>1 DEF ReaderOK, Fresh, Late, Reader, Client
<1>3. CASE d.follow
  <2> DEFINE n == [d EXCEPT !.pc = "following", !.pos = d.start]
  <2>1. reader' = [reader EXCEPT ![q] = n] /\ UNCHANGED <<supervisorVars, drainVars, client>>
    BY <1>1, <1>3 DEF SnapshotSent, receiver_at, Types
  <2>2. /\ n \in Reader /\ n.pc = "following" /\ n.out = d.out /\ n.run = d.run
        /\ n.follow = d.follow /\ n.pos = d.start /\ n.hold = d.hold /\ n.queue = d.queue
        /\ n.closed = d.closed /\ n.seq = d.seq /\ n.missed = d.missed
    BY <1>1 DEF Reader
  <2> HIDE DEF n
  <2>3. /\ Alone(q) /\ reader'[q] = n /\ client'[q] = client[q]
        /\ UNCHANGED <<channel, drain, pushed>>
    BY <1>1, <2>1, <2>2 DEF Alone, Types, Client, supervisorVars, drainVars
  <2>4. From(q)' = From(q)
    BY <1>1, <2>2, <2>3 DEF From, Late
  <2>5. Fresh(q)'
    BY <2>2, <2>3 DEF Fresh, Late, Early
  <2>6. Counted(q)'
    <3>1. ~Told(q)' /\ client[q].expected \in Nat
      BY <1>1, <1>2, <2>2, <2>3, NothingIn DEF Told, NoMsg, Client
    <3> QED
      BY <1>2, <2>2, <2>3, <3>1, NothingIn DEF Counted
  <2>7. Placed(q)'
    BY <1>1, <1>2, <1>3, <2>2, <2>3, <2>4 DEF ReaderOK, Placed, Late
  <2>8. Joined(q)'
    <3>1. \A y : Due(q, y)' <=> Due(q, y)
      BY <2>2, <2>3, <2>4 DEF Due, Got
    <3> QED
      BY <1>1, <2>2, <2>3, <3>1, JoinedMoves
  <2> QED
    BY <2>3, <2>5, <2>6, <2>7, <2>8, ReaderMoves DEF ReaderOK
<1>4. CASE ~d.follow
  <2>1. SendEnd(q)
    BY <1>4 DEF SnapshotSent
  <2>2. /\ Alone(q) /\ reader'[q].pc = "ended" /\ ~reader'[q].follow
        /\ ~reader'[q].closed /\ reader'[q].missed = {} /\ ~client'[q].warned
    BY <1>1, <1>2, <1>4, <2>1, EndFields
  <2>3. ReaderOK(q)'
    BY <2>2 DEF ReaderOK, Fresh, Counted, Placed, Joined, Late, Early
  <2> QED
    BY <2>2, <2>3, ReaderMoves
<1> QED
  BY <1>3, <1>4

\* The stream of a follower ends: nothing is on the way any more.
LEMMA FollowEndKeeps ==
  ASSUME LogsInv, NEW q \in Readers, FollowEnd(q)
  PROVE  LogsInv'
<1> DEFINE d == reader[q]
<1>1. /\ Types /\ ReaderOK(q) /\ d.pc = "following" /\ d.queue = <<>>
      /\ d.closed /\ d.hold = NoMsg /\ SendEnd(q)
      /\ client[q].expected \in Nat /\ d.seq \in Nat
  BY DEF LogsInv, FollowEnd, queue_closed, Types, Reader
<1>2. /\ Alone(q) /\ reader'[q].pc = "ended" /\ reader'[q].run = d.run
      /\ reader'[q].follow = d.follow /\ reader'[q].pos = d.pos /\ reader'[q].out = d.out
      /\ reader'[q].hold = d.hold /\ reader'[q].queue = d.queue
      /\ reader'[q].closed = d.closed /\ reader'[q].missed = d.missed
      /\ client'[q].warned = (client[q].warned \/ d.seq # client[q].expected)
      /\ client'[q].got = client[q].got
      /\ UNCHANGED <<channel, drain, pushed>>
  BY <1>1, EndFields
<1>3. From(q)' = From(q) /\ Got(q)' = Got(q)
  BY <1>1, <1>2 DEF From, Late, Got
<1>4. Fresh(q)'
  BY <1>2 DEF Fresh, Late, Early
<1>5. Counted(q)'
  <2>1. Told(q) <=> client[q].warned \/ d.seq # client[q].expected
    BY <1>1, NothingIn DEF Told, NoMsg, ReaderOK, Counted
  <2>2. Told(q) <=> d.missed # {}
    BY <1>1 DEF ReaderOK, Counted
  <2> QED
    BY <1>2, <2>1, <2>2 DEF Counted
<1>6. Placed(q)'
  BY <1>1, <1>2, <1>3 DEF ReaderOK, Placed, Late
<1>7. Joined(q)'
  <2>1. \A y : Due(q, y)' <=> Due(q, y)
    BY <1>2, <1>3 DEF Due
  <2> QED
    BY <1>1, <1>2, <2>1, JoinedMoves DEF Late
<1> QED
  BY <1>2, <1>4, <1>5, <1>6, <1>7, ReaderMoves DEF ReaderOK

\* receiver.recv: a lag, a line, or the end of the channel.
LEMMA RecvKeeps ==
  ASSUME LogsInv, NEW q \in Readers, Recv(q)
  PROVE  LogsInv'
<1> DEFINE d == reader[q]
           r == d.run
           h == channel[r]
           behind == Len(h) - d.pos
<1>1. /\ Types /\ ReaderOK(q) /\ d \in Reader /\ d.pc = "following" /\ d.hold = NoMsg
      /\ ~d.closed /\ d.follow /\ r \in Runs /\ From(q) = d.pos /\ d.pos <= Len(h)
      /\ d.out = <<>>
  <2>1. Types /\ ReaderOK(q) /\ d.pc = "following" /\ d.hold = NoMsg /\ ~d.closed
    BY DEF LogsInv, Recv
  <2>2. d \in Reader /\ From(q) = d.pos
    BY <2>1 DEF Types, From, Late
  <2>3. d.follow /\ r \in Runs /\ From(q) <= Len(h) /\ d.out = <<>>
    BY <2>1 DEF ReaderOK, Placed, Late
  <2> QED
    BY <2>1, <2>2, <2>3
<1>2. PICK L \in Nat, P \in Nat : L = Len(h) /\ P = d.pos
  <2>1. h \in Seq(Lines) /\ d.pos \in Nat
    BY <1>1 DEF Types, Reader
  <2> QED
    BY <2>1
<1>2a. h \in Seq(Lines) /\ DOMAIN h = 1..L /\ P <= L /\ \A i \in 1..L : h[i] \in Lines
  <2>1. h \in Seq(Lines)
    BY <1>1 DEF Types
  <2>2. DOMAIN h = 1..L /\ \A i \in 1..L : h[i] \in Lines
    BY <1>2, <2>1
  <2> QED
    BY <1>1, <1>2, <2>1, <2>2
<1>3. /\ d.missed \subseteq Lines /\ client[q] \in Client /\ client[q].expected <= d.seq
      /\ (Told(q) <=> d.missed # {})
      /\ \A m \in Range(d.queue) : MsgOK(m)
  BY <1>1 DEF ReaderOK, Counted, Reader, Types, Client
<1>4. ASSUME NEW n \in Reader, reader' = [reader EXCEPT ![q] = n],
             UNCHANGED <<supervisorVars, drainVars, client>>
      PROVE  /\ Alone(q) /\ reader'[q] = n /\ client'[q] = client[q]
             /\ UNCHANGED <<channel, drain, pushed>>
  BY <1>1, <1>4 DEF Alone, Types, Client, supervisorVars, drainVars
<1>5. ASSUME behind > ChannelCap,
             reader' = [reader EXCEPT ![q].hold.lagged = behind - ChannelCap,
                                      ![q].pos = @ + behind - ChannelCap,
                                      ![q].missed = @ \cup
                                        {h[d.pos + i] : i \in 1..(behind - ChannelCap)}]
      PROVE  LogsInv'
  <2> DEFINE lag == behind - ChannelCap
             hold == [d.hold EXCEPT !.lagged = lag]
             pos == d.pos + behind - ChannelCap
             missed == d.missed \cup {h[d.pos + i] : i \in 1..lag}
             n == [d EXCEPT !.hold = hold, !.pos = pos, !.missed = missed]
  <2>1. /\ reader' = [reader EXCEPT ![q] = n]
        /\ UNCHANGED <<supervisorVars, drainVars, client>>
    BY <1>1, <1>5 DEF Recv, Types
  <2>2. /\ lag \in Nat /\ lag > 0 /\ pos \in Nat /\ pos <= Len(h) /\ 1 \in 1..lag
        /\ lag <= L - P
    <3>1. L - P > ChannelCap /\ lag = L - P - ChannelCap /\ pos = P + (L - P) - ChannelCap
      BY <1>2, <1>5
    <3>2. ChannelCap \in Nat /\ pos = L - ChannelCap
      BY <3>1
    <3>3. /\ L - P - ChannelCap \in Nat /\ L - P - ChannelCap > 0
          /\ L - P - ChannelCap <= L - P /\ 1 \in 1..(L - P - ChannelCap)
          /\ L - ChannelCap \in Nat /\ L - ChannelCap <= L
      BY <1>2a, <3>1, <3>2
    <3> HIDE DEF lag, pos
    <3> QED
      BY <1>2, <3>1, <3>2, <3>3
  <2>3. hold \in Msg /\ hold.line = NoLine /\ hold.lagged = lag
    BY <1>1, <2>2 DEF NoMsg, Msg
  <2>4. missed \subseteq Lines /\ missed # {}
    <3>1. \A i \in 1..lag : h[d.pos + i] \in Lines
      <4> HIDE DEF lag
      <4>1. \A i \in 1..lag : P + i \in 1..L
        BY <1>2a, <2>2
      <4> QED
        BY <1>2, <1>2a, <4>1
    <3>2. h[d.pos + 1] \in missed
      BY <2>2
    <3> QED
      BY <1>3, <3>1, <3>2
  <2> HIDE DEF lag, hold, pos, missed
  <2>5. /\ n \in Reader /\ n.pc = d.pc /\ n.run = r /\ n.follow = d.follow /\ n.pos = pos
        /\ n.out = d.out /\ n.hold = hold /\ n.queue = d.queue /\ n.closed = d.closed
        /\ n.seq = d.seq /\ n.missed = missed
    BY <1>1, <2>2, <2>3, <2>4 DEF Reader
  <2> HIDE DEF n
  <2>6. /\ Alone(q) /\ reader'[q] = n /\ client'[q] = client[q]
        /\ UNCHANGED <<channel, drain, pushed>>
    BY <1>4, <2>1, <2>5
  <2>7. Fresh(q)' /\ Joined(q)'
    BY <1>1, <2>4, <2>5, <2>6 DEF Fresh, Joined, Late, Early
  <2>8. Counted(q)'
    <3>1. Told(q)' /\ MsgOK(hold)
      BY <2>2, <2>3, <2>5, <2>6 DEF Told, MsgOK
    <3> QED
      BY <1>1, <1>3, <2>4, <2>5, <2>6, <3>1 DEF Counted
  <2>9. Placed(q)'
    <3>1. From(q)' = pos
      BY <1>1, <2>5, <2>6 DEF From, Late
    <3> QED
      BY <1>1, <2>2, <2>5, <2>6, <3>1 DEF Placed
  <2> QED
    BY <2>6, <2>7, <2>8, <2>9, ReaderMoves DEF ReaderOK
<1>6. ASSUME behind \in 1..ChannelCap,
             reader' = [reader EXCEPT ![q].hold.line = h[d.pos + 1], ![q].pos = @ + 1]
      PROVE  LogsInv'
  <2> DEFINE x == h[d.pos + 1]
             hold == [d.hold EXCEPT !.line = x]
             pos == d.pos + 1
             n == [d EXCEPT !.hold = hold, !.pos = pos]
  <2>1. /\ reader' = [reader EXCEPT ![q] = n]
        /\ UNCHANGED <<supervisorVars, drainVars, client>>
    BY <1>1, <1>6 DEF Recv, Types
  <2>2. /\ pos \in Nat /\ pos <= Len(h) /\ pos \in DOMAIN h /\ x \in Lines /\ x = h[pos]
        /\ pos = P + 1
    <3>1. pos = P + 1 /\ L - P >= 1 /\ x = h[pos]
      BY <1>2, <1>6
    <3>2. P + 1 \in 1..L
      BY <3>1
    <3>3. P + 1 \in Nat /\ P + 1 <= L /\ h[P + 1] \in Lines /\ P + 1 \in DOMAIN h
      BY <1>2a, <3>2
    <3> HIDE DEF pos, x
    <3> QED
      BY <1>2, <3>1, <3>3
  <2>3. hold \in Msg /\ hold.line = x /\ hold.lagged = 0
    BY SMTT(30), <1>1, <2>2 DEF NoMsg, Msg
  <2>4. x # NoLine /\ d.hold.lagged = 0 /\ d.hold.line = 0
    BY <1>1, <2>2 DEF Lines, NoLine, NoMsg
  <2>5. \A i \in DOMAIN h : i > d.pos <=> i = pos \/ i > pos
    <3>1. \A i \in 1..L : i > P <=> i = P + 1 \/ i > P + 1
      OBVIOUS
    <3> HIDE DEF pos
    <3> QED
      BY <1>2, <1>2a, <2>2, <3>1
  <2> HIDE DEF x, hold, pos
  <2>6. /\ n \in Reader /\ n.pc = d.pc /\ n.run = r /\ n.follow = d.follow /\ n.pos = pos
        /\ n.out = d.out /\ n.hold = hold /\ n.queue = d.queue /\ n.closed = d.closed
        /\ n.seq = d.seq /\ n.missed = d.missed
    BY <1>1, <2>2, <2>3 DEF Reader
  <2> HIDE DEF n
  <2>7. /\ Alone(q) /\ reader'[q] = n /\ client'[q] = client[q]
        /\ UNCHANGED <<channel, drain, pushed>>
    BY <1>4, <2>1, <2>6
  <2>8. Fresh(q)'
    BY <1>1, <2>6, <2>7 DEF Fresh, Late, Early
  <2>9. Counted(q)'
    <3>1. (Told(q)' <=> Told(q)) /\ MsgOK(hold)
      BY <2>3, <2>4, <2>6, <2>7 DEF Told, MsgOK
    <3> QED
      BY <1>1, <1>3, <2>6, <2>7, <3>1 DEF Counted
  <2>10. From(q)' = pos
    BY <1>1, <2>6, <2>7 DEF From, Late
  <2>11. Placed(q)'
    BY <1>1, <2>2, <2>6, <2>7, <2>10 DEF Placed
  <2>12. Joined(q)'
    <3>1. ASSUME NEW y \in Nat \ {0} PROVE Due(q, y)' <=> Due(q, y)
      <4>1. /\ \A i \in DOMAIN h : i > From(q)' <=> i > pos
            /\ \A i \in DOMAIN h : i > From(q) <=> i = pos \/ i > pos
        BY <1>1, <2>5, <2>10
      <4>2. (\E i \in DOMAIN h : i > From(q) /\ h[i] = y)
              <=> (\E i \in DOMAIN h : i > From(q)' /\ h[i] = y) \/ x = y
        BY <2>2, <4>1
      <4>3. d.hold.line # y /\ (n.hold.line = y <=> x = y)
        BY <2>3, <2>4, <2>6
      <4> DEFINE D == \/ y \in Got(q) \/ y \in Range(d.out)
                      \/ \E m \in Range(d.queue) : m.line = y
                      \/ \E e \in Streams : drain[r][e] = y
                 C == \E i \in DOMAIN h : i > From(q) /\ h[i] = y
                 N == \E i \in DOMAIN h : i > From(q)' /\ h[i] = y
      <4>4. Due(q, y) <=> D \/ C
        BY <4>3 DEF Due
      <4>5. Due(q, y)' <=> D \/ N \/ x = y
        BY <2>6, <2>7, <4>3 DEF Due, Got
      <4> HIDE DEF D
      <4> QED
        BY <4>2, <4>4, <4>5
    <3> QED
      BY <1>1, <2>6, <2>7, <3>1, JoinedMoves DEF Late
  <2> QED
    BY <2>7, <2>8, <2>9, <2>11, <2>12, ReaderMoves DEF ReaderOK
<1>7. ASSUME behind = 0, SenderDropped(r), reader' = [reader EXCEPT ![q].closed = TRUE]
      PROVE  LogsInv'
  <2> DEFINE n == [d EXCEPT !.closed = TRUE]
  <2>1. /\ reader' = [reader EXCEPT ![q] = n]
        /\ UNCHANGED <<supervisorVars, drainVars, client>>
    BY <1>1, <1>7 DEF Recv, Types
  <2>2. d.pos = Len(h) /\ \A s \in Streams : drain[r][s] = -1
    <3>1. L - P = 0
      BY <1>2, <1>7
    <3> QED
      BY <1>2, <1>7, <3>1 DEF SenderDropped
  <2>3. /\ n \in Reader /\ n.pc = d.pc /\ n.run = r /\ n.follow = d.follow /\ n.pos = d.pos
        /\ n.out = d.out /\ n.hold = d.hold /\ n.queue = d.queue
        /\ n.seq = d.seq /\ n.missed = d.missed
    BY <1>1 DEF Reader
  <2> HIDE DEF n
  <2>4. /\ Alone(q) /\ reader'[q] = n /\ client'[q] = client[q]
        /\ UNCHANGED <<channel, drain, pushed>>
    BY <1>4, <2>1, <2>3
  <2>5. Fresh(q)'
    BY <1>1, <2>3, <2>4 DEF Fresh, Late, Early
  <2>6. Counted(q)'
    <3>1. Told(q)' <=> Told(q)
      BY <2>3, <2>4 DEF Told
    <3> QED
      BY <1>1, <1>3, <2>3, <2>4, <3>1 DEF Counted
  <2>7. From(q)' = From(q)
    BY <1>1, <2>3, <2>4 DEF From, Late
  <2>8. Placed(q)'
    BY <1>1, <2>2, <2>3, <2>4, <2>7 DEF Placed
  <2>9. Joined(q)'
    <3>1. \A y : Due(q, y)' <=> Due(q, y)
      BY <2>3, <2>4, <2>7 DEF Due, Got
    <3> QED
      BY <1>1, <2>3, <2>4, <3>1, JoinedMoves DEF Late
  <2> QED
    BY <2>4, <2>5, <2>6, <2>8, <2>9, ReaderMoves DEF ReaderOK
<1> QED
  BY <1>5, <1>6, <1>7 DEF Recv

\* tx.send into the queue.
LEMMA EnqueueKeeps ==
  ASSUME LogsInv, NEW q \in Readers, Enqueue(q)
  PROVE  LogsInv'
<1> DEFINE d == reader[q]
           z == Append(d.queue, d.hold)
           n == [d EXCEPT !.queue = z, !.hold = NoMsg]
<1>1. /\ Types /\ ReaderOK(q) /\ d \in Reader /\ d.pc = "following" /\ d.hold # NoMsg
      /\ client[q] \in Client
  BY DEF LogsInv, Enqueue, Types, Client
<1>2. /\ reader' = [reader EXCEPT ![q] = n]
      /\ UNCHANGED <<supervisorVars, drainVars, client>>
  BY <1>1 DEF Enqueue, Types
<1>3. z \in Seq(Msg) /\ Range(z) = Range(d.queue) \cup {d.hold}
  <2>1. d.queue \in Seq(Msg) /\ d.hold \in Msg
    BY <1>1 DEF Reader
  <2> QED
    BY <2>1, Appended
<1> HIDE DEF z
<1>4. /\ n \in Reader /\ n.pc = d.pc /\ n.run = d.run /\ n.follow = d.follow
      /\ n.pos = d.pos /\ n.out = d.out /\ n.hold = NoMsg /\ n.queue = z
      /\ n.closed = d.closed /\ n.seq = d.seq /\ n.missed = d.missed
  BY <1>1, <1>3, NoReaderType DEF Reader
<1> HIDE DEF n
<1>5. /\ Alone(q) /\ reader'[q] = n /\ client'[q] = client[q]
      /\ UNCHANGED <<channel, drain, pushed>>
  BY <1>1, <1>2, <1>4 DEF Alone, Types, Client, supervisorVars, drainVars
<1>6. Fresh(q)'
  BY <1>1, <1>4, <1>5 DEF Fresh, Late, Early
<1>7. Counted(q)'
  <2>1. Told(q)' <=> Told(q)
    BY <1>3, <1>4, <1>5 DEF Told, NoMsg
  <2> QED
    BY <1>1, <1>3, <1>4, <1>5, <2>1 DEF ReaderOK, Counted
<1>8. From(q)' = From(q)
  BY <1>1, <1>4, <1>5 DEF From, Late
<1>9. Placed(q)'
  BY <1>1, <1>4, <1>5, <1>8 DEF ReaderOK, Placed
<1>10. Joined(q)'
  <2>1. ASSUME NEW y \in Nat \ {0} PROVE Due(q, y)' <=> Due(q, y)
    <3>1. /\ NoMsg.line # y
          /\ (\E m \in Range(z) : m.line = y)
               <=> (\E m \in Range(d.queue) : m.line = y) \/ d.hold.line = y
      BY <1>3 DEF NoMsg, NoLine
    <3> QED
      BY <1>4, <1>5, <1>8, <3>1 DEF Due, Got
  <2> QED
    BY <1>1, <1>4, <1>5, <2>1, JoinedMoves DEF Late
<1> QED
  BY <1>5, <1>6, <1>7, <1>9, <1>10, ReaderMoves DEF ReaderOK

\* The handler forwards a line, or counts a loss.
LEMMA ForwardKeeps ==
  ASSUME LogsInv, NEW q \in Readers, Forward(q)
  PROVE  LogsInv'
<1> DEFINE d == reader[q]
           m == Head(d.queue)
           z == Tail(d.queue)
<1>1. /\ Types /\ ReaderOK(q) /\ d \in Reader /\ d.pc = "following" /\ d.queue # <<>>
      /\ client[q] \in Client
  BY DEF LogsInv, Forward, Types, Client
<1>2. m \in Msg /\ z \in Seq(Msg) /\ Range(d.queue) = Range(z) \cup {m}
  <2>1. d.queue \in Seq(Msg)
    BY <1>1 DEF Reader
  <2> QED
    BY <1>1, <2>1, Headed
<1>3. /\ client[q].expected <= d.seq /\ (Told(q) <=> d.missed # {})
      /\ d.hold = NoMsg \/ MsgOK(d.hold)
      /\ MsgOK(m) /\ \A e \in Range(z) : MsgOK(e)
  BY <1>1, <1>2 DEF ReaderOK, Counted
<1>4. PICK K \in Nat, E \in Nat : K = d.seq /\ E = client[q].expected
  BY <1>1 DEF Reader, Client
<1>5. ASSUME NEW n \in Reader, NEW c \in Client, reader' = [reader EXCEPT ![q] = n],
             client' = [client EXCEPT ![q] = c],
             UNCHANGED <<supervisorVars, drainVars>>
      PROVE  /\ Alone(q) /\ reader'[q] = n /\ client'[q] = c
             /\ UNCHANGED <<channel, drain, pushed>>
  BY <1>1, <1>5 DEF Alone, Types, Client, supervisorVars, drainVars
<1>6. CASE m.line # NoLine
  <2> DEFINE k == d.seq + 1
             x == m.line
             n == [d EXCEPT !.queue = z, !.seq = k]
             c == Receive(client[q], d.seq, <<x>>)
             g == client[q].got \o <<x>>
             w == client[q].warned \/ d.seq # client[q].expected
  <2>1. /\ reader' = [reader EXCEPT ![q] = n] /\ client' = [client EXCEPT ![q] = c]
        /\ UNCHANGED <<supervisorVars, drainVars>>
    BY <1>1, <1>6 DEF Forward, SendChunk, Types
  <2>2. k \in Nat /\ k = K + 1 /\ x \in Lines
    <3>1. k = K + 1 /\ k \in Nat
      BY <1>4
    <3>2. x \in Lines
      <4> HIDE DEF m
      <4> QED
        BY <1>2, <1>6 DEF Msg
    <3> HIDE DEF k, x
    <3> QED
      BY <3>1, <3>2
  <2>3. client[q].got \in Seq(Lines) /\ w \in BOOLEAN
    BY <1>1 DEF Client
  <2>4. g \in Seq(Lines) /\ Range(g) = Range(client[q].got) \cup {x}
    BY <2>2, <2>3, Concatenated
  <2>5. c = [expected |-> k, warned |-> w, got |-> g]
    BY DEF Receive, seq_gap
  <2> HIDE DEF k, c, g, w, z, m
  <2>6. c \in Client /\ c.expected = k /\ c.warned = w /\ c.got = g
    BY <2>2, <2>3, <2>4, <2>5 DEF Client
  <2>7. /\ n \in Reader /\ n.pc = d.pc /\ n.run = d.run /\ n.follow = d.follow
        /\ n.pos = d.pos /\ n.out = d.out /\ n.hold = d.hold /\ n.queue = z
        /\ n.closed = d.closed /\ n.seq = k /\ n.missed = d.missed
    BY <1>1, <1>2, <2>2 DEF Reader
  <2> HIDE DEF n
  <2>8. /\ Alone(q) /\ reader'[q] = n /\ client'[q] = c
        /\ UNCHANGED <<channel, drain, pushed>>
    BY <1>5, <2>1, <2>6, <2>7
  <2>9. Fresh(q)'
    BY <1>1, <2>7, <2>8 DEF Fresh, Late, Early
  <2>10. Counted(q)'
    <3>1. m.lagged = 0
      BY <1>3, <1>6 DEF MsgOK
    <3>2. (\E e \in Range(d.queue) : e.lagged > 0) <=> (\E e \in Range(z) : e.lagged > 0)
      BY <1>2, <3>1
    <3>3. w <=> client[q].warned \/ d.seq > client[q].expected
      BY <1>3, <1>4 DEF w
    <3>4. ~(k > k)
      BY <2>2
    <3>5. Told(q)' <=> w \/ d.hold.lagged > 0 \/ \E e \in Range(z) : e.lagged > 0
      BY <2>6, <2>7, <2>8, <3>4 DEF Told
    <3>6. Told(q)' <=> Told(q)
      BY <3>2, <3>3, <3>5 DEF Told
    <3>7. c.expected <= n.seq
      BY <2>2, <2>6, <2>7
    <3> QED
      BY <1>1, <1>3, <2>7, <2>8, <3>6, <3>7 DEF Counted
  <2>11. From(q)' = From(q)
    BY <1>1, <2>7, <2>8 DEF From, Late
  <2>12. Placed(q)'
    BY <1>1, <2>7, <2>8, <2>11 DEF ReaderOK, Placed
  <2>13. Joined(q)'
    <3>1. ASSUME NEW y \in Nat \ {0} PROVE Due(q, y)' <=> Due(q, y)
      <4>1. (\E e \in Range(d.queue) : e.line = y)
              <=> (\E e \in Range(z) : e.line = y) \/ y = x
        BY <1>2
      <4>2. y \in Got(q)' <=> y \in Got(q) \/ y = x
        BY <2>4, <2>6, <2>8 DEF Got
      <4> QED
        BY <2>7, <2>8, <2>11, <4>1, <4>2 DEF Due
    <3> QED
      BY <1>1, <2>7, <2>8, <3>1, JoinedMoves DEF Late
  <2> QED
    BY <2>8, <2>9, <2>10, <2>12, <2>13, ReaderMoves DEF ReaderOK
<1>7. CASE m.line = NoLine
  <2> DEFINE k == d.seq + m.lagged
             n == [d EXCEPT !.queue = z, !.seq = k]
  <2>1. /\ reader' = [reader EXCEPT ![q] = n] /\ client' = client
        /\ UNCHANGED <<supervisorVars, drainVars>>
    BY <1>1, <1>7 DEF Forward, advance_seq_for_lagged, Types
  <2>2. m.lagged \in Nat /\ m.lagged > 0
    BY <1>2, <1>3, <1>7 DEF MsgOK, Msg
  <2>3. PICK G \in Nat : G = m.lagged /\ G > 0
    BY <2>2
  <2>4. k \in Nat /\ k = K + G
    BY <1>4, <2>3
  <2>5. client' = [client EXCEPT ![q] = client[q]]
    BY <1>1, <2>1 DEF Types
  <2> HIDE DEF k, z, m
  <2>6. /\ n \in Reader /\ n.pc = d.pc /\ n.run = d.run /\ n.follow = d.follow
        /\ n.pos = d.pos /\ n.out = d.out /\ n.hold = d.hold /\ n.queue = z
        /\ n.closed = d.closed /\ n.seq = k /\ n.missed = d.missed
    BY <1>1, <1>2, <2>4 DEF Reader
  <2> HIDE DEF n
  <2>7. /\ Alone(q) /\ reader'[q] = n /\ client'[q] = client[q]
        /\ UNCHANGED <<channel, drain, pushed>>
    BY <1>1, <1>5, <2>1, <2>5, <2>6
  <2>8. Fresh(q)'
    BY <1>1, <2>6, <2>7 DEF Fresh, Late, Early
  <2>9. Counted(q)'
    <3>1. E <= K
      BY <1>3, <1>4
    <3>2. K + G > E /\ E <= K + G
      BY <2>3, <3>1
    <3>3. k > client[q].expected /\ client[q].expected <= k
      BY <1>4, <2>4, <3>2
    <3>4. Told(q)'
      BY <2>6, <2>7, <3>3 DEF Told
    <3>5. Told(q)
      BY <1>2, <2>2 DEF Told
    <3> QED
      BY <1>1, <1>3, <2>6, <2>7, <3>3, <3>4, <3>5 DEF Counted
  <2>10. From(q)' = From(q)
    BY <1>1, <2>6, <2>7 DEF From, Late
  <2>11. Placed(q)'
    BY <1>1, <2>6, <2>7, <2>10 DEF ReaderOK, Placed
  <2>12. Joined(q)'
    <3>1. ASSUME NEW y \in Nat \ {0} PROVE Due(q, y)' <=> Due(q, y)
      <4>1. (\E e \in Range(d.queue) : e.line = y) <=> (\E e \in Range(z) : e.line = y)
        BY <1>2, <1>7 DEF NoLine
      <4> QED
        BY <2>6, <2>7, <2>10, <4>1 DEF Due, Got
    <3> QED
      BY <1>1, <2>6, <2>7, <3>1, JoinedMoves DEF Late
  <2> QED
    BY <2>7, <2>8, <2>9, <2>11, <2>12, ReaderMoves DEF ReaderOK
<1> QED
  BY <1>6, <1>7

\* The client goes away.
LEMMA CloseKeeps ==
  ASSUME LogsInv, NEW q \in Readers, Close(q)
  PROVE  LogsInv'
<1> DEFINE n == [NoReader EXCEPT !.pc = "refused"]
<1>1. /\ Types /\ reader' = [reader EXCEPT ![q] = n]
      /\ client' = [client EXCEPT ![q] = NoClient] /\ UNCHANGED <<supervisorVars, drainVars>>
  BY DEF LogsInv, Close
<1>2. /\ n \in Reader /\ n.pc = "refused" /\ n.follow = FALSE /\ n.queue = <<>>
      /\ n.hold = NoMsg /\ n.missed = {} /\ n.closed = FALSE /\ n.seq = 0 /\ n.out = <<>>
  BY NoReaderType DEF NoReader, Reader
<1> HIDE DEF n
<1>3. Alone(q) /\ reader'[q] = n /\ client'[q] = NoClient
  BY <1>1, <1>2, NoReaderType DEF Alone, Types, Client, supervisorVars, drainVars
<1>4. Fresh(q)'
  BY <1>2, <1>3 DEF Fresh, Late, Early, NoClient
<1>5. Counted(q)' /\ Joined(q)' /\ Placed(q)'
  BY <1>2, <1>3 DEF Counted, Joined, Placed, Late
<1> QED
  BY <1>3, <1>4, <1>5, ReaderMoves DEF ReaderOK

-----------------------------------------------------------------------------
(* Theorems.                                                               *)

\* The invariant holds initially ...
LEMMA LogsInit == Init => LogsInv
<1> SUFFICES ASSUME Init PROVE LogsInv
  OBVIOUS
<1>1. Types
  BY NoReaderType DEF Init, Types, Client, NoLog, NoRun, NoLine
<1>2. ASSUME NEW r \in Runs PROVE RunOK(r)
  <2>1. \A s \in Streams : pushed[r][s] = <<>> /\ pipe[r][s] = <<>> /\ drain[r][s] = 0
    BY DEF Init, NoLine
  <2>2. \A s \in Streams : Kept(r, s) = {} /\ Unread(r, s) = {}
    BY <2>1, NothingIn DEF Kept, Unread
  <2>3. Buffered(r) /\ Sent(r)
    BY <2>2 DEF Buffered, Sent
  <2> QED
    BY <2>1, <2>2, <2>3 DEF RunOK, Numbered, InHand, Increasing, Lines
<1>3. ASSUME NEW q \in Readers PROVE ReaderOK(q)
  <2>1. reader[q] = NoReader /\ client[q] = NoClient
    BY DEF Init
  <2> QED
    BY <2>1 DEF ReaderOK, Fresh, Counted, Placed, Joined, NoReader, NoClient, Late, Early
<1> QED
  BY <1>1, <1>2, <1>3 DEF LogsInv

\* ... and every step keeps it.
LEMMA LogsStep == LogsInv /\ [Next]_vars => LogsInv'
<1> SUFFICES ASSUME LogsInv, [Next]_vars PROVE LogsInv'
  OBVIOUS
<1>1. CASE UNCHANGED vars
  <2>1. Types' /\ UNCHANGED <<drainVars, reader, client>>
    BY <1>1 DEF vars, LogsInv, Types, drainVars
  <2> QED
    BY <2>1, SupervisorKeeps
<1>2. ASSUME NEW r \in Runs, NEW s \in Streams,
             Write(r, s) \/ Drain(r, s) \/ Broadcast(r, s) \/ DrainEnd(r, s)
      PROVE  LogsInv'
  BY <1>2, RunKeeps
<1>3. ASSUME NEW q \in Readers,
             ReaderStep(q) \/ Close(q) \/ \E follow \in BOOLEAN : Open(q, follow)
      PROVE  LogsInv'
  BY <1>3, ReadBufferKeeps, ReadRetainedKeeps, SendSnapshotKeeps, SnapshotSentKeeps,
     RecvKeeps, EnqueueKeeps, ForwardKeeps, FollowEndKeeps, CloseKeeps, OpenKeeps
     DEF ReaderStep
<1> QED
  BY <1>1, <1>2, <1>3, SupervisorSteps DEF Next

\* So it always holds.
LEMMA LogsAlways == Spec => []LogsInv
<1> QED
  BY LogsInit, LogsStep, PTL DEF Spec

\* When a stream of logs ends, the CLI has printed its warning exactly if the
\* broadcast channel overwrote a line before the forwarder received it, however
\* the lag falls among the chunks, for any capacities of channel and queue.
THEOREM WarningIsTrue == Spec => []WarnedIffLost
<1>1. LogsInv => WarnedIffLost
  BY DEF LogsInv, ReaderOK, Counted, WarnedIffLost
<1> QED
  BY <1>1, LogsAlways, PTL

\* A follower that was not warned has, with a line, every later line of the same
\* stream: the snapshot of the buffer and the events broadcast since the
\* subscription join without a hole, and the stream does not end before the
\* last line of the run.
THEOREM FollowersMissNothing == Spec => []NoHole
<1>1. LogsInv => NoHole
  <2> SUFFICES ASSUME LogsInv, NEW q \in Readers, reader[q].pc = "ended", reader[q].follow,
                      ~client[q].warned, NEW s \in Streams,
                      NEW i \in DOMAIN pushed[reader[q].run][s],
                      NEW j \in DOMAIN pushed[reader[q].run][s], i < j,
                      pushed[reader[q].run][s][i] \in Got(q)
               PROVE  pushed[reader[q].run][s][j] \in Got(q)
    BY DEF NoHole
  <2> DEFINE r == reader[q].run
             a == pushed[r][s][i]
             b == pushed[r][s][j]
  <2>1. Types /\ ReaderOK(q) /\ r \in Runs /\ RunOK(r)
    BY DEF LogsInv, ReaderOK, Placed
  <2>2. /\ reader[q].missed = {} /\ reader[q].out = <<>> /\ reader[q].queue = <<>>
        /\ reader[q].hold = NoMsg /\ From(q) = Len(channel[r])
        /\ \A o \in Streams : drain[r][o] = -1
    BY <2>1 DEF ReaderOK, Counted, Placed, Late
  <2>3. a \in Kept(r, s) /\ b \in Kept(r, s)
    BY DEF Kept, Range
  <2>4. a < b
    BY <2>1 DEF RunOK, Numbered, Increasing
  <2>5. Due(q, a)
    BY DEF Due
  <2> HIDE DEF a, b
  <2>6. Due(q, b)
    BY <2>1, <2>2, <2>3, <2>4, <2>5 DEF ReaderOK, Joined, Late
  <2>7. b \in Nat \ {0}
    BY <2>1, <2>3, LinesAreNumbers
  <2>8. ~ \E m \in DOMAIN channel[r] : m > From(q) /\ channel[r][m] = b
    <3>1. channel[r] \in Seq(Lines)
      BY <2>1, LinesAreNumbers
    <3>2. \A m \in DOMAIN channel[r] : ~(m > Len(channel[r]))
      BY <3>1
    <3> QED
      BY <2>2, <3>2
  <2>9. b \in Got(q)
    BY <2>2, <2>6, <2>7, <2>8, NothingIn DEF Due, NoMsg, NoLine
  <2> QED
    BY <2>9 DEF b
<1> QED
  BY <1>1, LogsAlways, PTL

-----------------------------------------------------------------------------
(***************************************************************************)
(* The retained logs.  RetainedIsLatest is about the time between two      *)
(* upserts.  RetainedInv has what holds at every file operation: a service *)
(* has at most one file that is not temporary, of the version last renamed *)
(* into place (OneFile); the index leads to such files, except for the one *)
(* that a rename has just replaced (Indexed); and the size of the indexed  *)
(* files is counted exactly (Measured), which is what lets evict_if_needed *)
(* stop.                                                                   *)
(***************************************************************************)
RetainedTypes ==
  /\ pc \in {"idle", "write", "rename", "index", "evict", "start", "down"}
  /\ IsFiniteSet(disk) /\ disk \subseteq Retained!File
  /\ latest \in [Names -> Nat] /\ clock \in Nat /\ stuck \in BOOLEAN
  /\ DOMAIN entries \subseteq Names /\ IsFiniteSet(DOMAIN entries)
  /\ entries \in [DOMAIN entries -> Retained!File]
  /\ \A s \in DOMAIN entries : entries[s].name = s /\ ~entries[s].tmp

\* The log being written: a temporary file, whole before it is renamed.
Written ==
  /\ pc \in {"write", "rename", "index"} => job \in Retained!File
  /\ pc = "write" => job.tmp
  /\ pc = "rename" => job.tmp /\ job.whole
  /\ pc = "index" => ~job.tmp /\ job.whole /\ job \in disk

OneFile ==
  /\ \A f, g \in disk : ~f.tmp /\ ~g.tmp /\ f.name = g.name => f = g
  /\ \A f \in disk : ~f.tmp => f.ver = latest[f.name]

Indexed ==
  \A s \in DOMAIN entries :
    (pc = "index" /\ s = job.name) \/ (entries[s] \in disk /\ entries[s].whole)

Measured == retained_bytes = Retained!Sizes(Range(entries))
Fits == pc \in {"idle", "write", "rename"} => retained_bytes <= Capacity \/ stuck

RetainedInv == RetainedTypes /\ Written /\ OneFile /\ Indexed /\ Measured /\ Fits

-----------------------------------------------------------------------------
(* The size of files.                                                      *)

\* The instance counts as this module does.
LEMMA SizesAre == \A F : Retained!Sizes(F) = Cardinality(Retained!BytesOf(F))
  BY DEF Retained!Sizes, Retained!Cardinality, Cardinality

\* The files of a finite set have a finite number of bytes.
LEMMA BytesFinite ==
  ASSUME NEW F, IsFiniteSet(F), F \subseteq Retained!File
  PROVE  IsFiniteSet(Retained!BytesOf(F)) /\ Retained!Sizes(F) \in Nat
<1> DEFINE of(f) == {f} \X (1..f.size)
           B == {of(f) : f \in F}
           m == [f \in F |-> of(f)]
<1>1. m \in Surjection(F, B)
  BY DEF Surjection
<1>2. IsFiniteSet(B)
  BY <1>1, FS_Surjection
<1>3. ASSUME NEW f \in F PROVE IsFiniteSet(of(f))
  <2>1. PICK n \in Nat : n = f.size
    BY RetainedAssumption DEF Retained!File
  <2>2. IsFiniteSet(1..n)
    BY FS_Interval
  <2>3. IsFiniteSet({f})
    BY FS_Singleton
  <2> QED
    BY <2>1, <2>2, <2>3, FS_Product
<1>4. \A T \in B : IsFiniteSet(T)
  BY <1>3
<1>5. IsFiniteSet(UNION B)
  BY <1>2, <1>4, FS_UNION
<1> QED
  BY <1>5, FS_CardinalityType, SizesAre DEF Retained!BytesOf

\* One more file adds its size.
LEMMA SizesAdd ==
  ASSUME NEW F, IsFiniteSet(F), F \subseteq Retained!File,
         NEW f \in Retained!File, f \notin F
  PROVE  Retained!Sizes(F \cup {f}) = Retained!Sizes(F) + f.size
<1> DEFINE own == {f} \X (1..f.size)
<1>1. PICK n \in Nat : n = f.size
  BY RetainedAssumption DEF Retained!File
<1>2. IsFiniteSet(1..n) /\ Cardinality(1..n) = n
  <2>1. PICK l \in Int, h \in Int : l = 1 /\ h = n
    OBVIOUS
  <2>2. IsFiniteSet(l..h) /\ Cardinality(l..h) = IF l > h THEN 0 ELSE h - l + 1
    BY FS_Interval
  <2> QED
    BY <2>1, <2>2
<1>3. IsFiniteSet({f}) /\ Cardinality({f}) = 1
  BY FS_Singleton
<1>4. IsFiniteSet(own) /\ Cardinality(own) = n
  <2>1. IsFiniteSet(own) /\ Cardinality(own) = Cardinality({f}) * Cardinality(1..n)
    BY <1>1, <1>2, <1>3, FS_Product
  <2> QED
    BY <1>2, <1>3, <2>1
<1>5. Retained!BytesOf(F \cup {f}) = Retained!BytesOf(F) \cup own
  BY DEF Retained!BytesOf
<1>6. Retained!BytesOf(F) \cap own = {}
  BY DEF Retained!BytesOf
<1>7. Cardinality(Retained!BytesOf(F) \cap own) = 0
  BY <1>6, FS_EmptySet
<1> HIDE DEF own
<1>8. IsFiniteSet(Retained!BytesOf(F)) /\ Cardinality(Retained!BytesOf(F)) \in Nat
  BY BytesFinite, SizesAre
<1>9. Cardinality(Retained!BytesOf(F) \cup own) =
        Cardinality(Retained!BytesOf(F)) + n - 0
  BY <1>4, <1>7, <1>8, FS_Union
<1>10. /\ Retained!Sizes(F) = Cardinality(Retained!BytesOf(F))
       /\ Retained!Sizes(F \cup {f}) = Cardinality(Retained!BytesOf(F) \cup own)
  BY <1>5, SizesAre
<1> QED
  BY <1>1, <1>8, <1>9, <1>10

\* No files have no bytes.
LEMMA SizesEmpty == Retained!Sizes({}) = 0
<1>1. Retained!BytesOf({}) = {}
  BY DEF Retained!BytesOf
<1> QED
  BY <1>1, FS_EmptySet, SizesAre

-----------------------------------------------------------------------------
(* The index.                                                              *)

\* The files of the index, and what is left of them without a service.
Others(s) == {entries[x] : x \in DOMAIN entries \ {s}}

\* The index is a map into a finite number of files.
LEMMA FilesFinite ==
  ASSUME RetainedTypes, NEW s
  PROVE  /\ IsFiniteSet(Range(entries)) /\ Range(entries) \subseteq Retained!File
         /\ IsFiniteSet(Others(s)) /\ Others(s) \subseteq Retained!File
         /\ \A f \in Others(s) : f.name # s
<1> DEFINE m == [x \in DOMAIN entries |-> entries[x]]
<1>1. m \in Surjection(DOMAIN entries, Range(entries))
  BY DEF Surjection, Range
<1>2. IsFiniteSet(Range(entries))
  BY <1>1, FS_Surjection DEF RetainedTypes
<1>3. Range(entries) \subseteq Retained!File /\ Others(s) \in SUBSET Range(entries)
  BY DEF RetainedTypes, Range, Others
<1>4. IsFiniteSet(Others(s))
  BY <1>2, <1>3, FS_Subset
<1>5. \A f \in Others(s) : f.name # s
  BY DEF RetainedTypes, Others
<1> QED
  BY <1>2, <1>3, <1>4, <1>5

\* What saturating_sub leaves of the size when a service is taken out.
LEMMA SizeWithout ==
  ASSUME RetainedTypes, Measured, NEW s \in Names
  PROVE  /\ s \in DOMAIN entries =>
              Retained!saturating_sub(retained_bytes, entries[s].size) = Retained!Sizes(Others(s))
         /\ s \notin DOMAIN entries => retained_bytes = Retained!Sizes(Others(s))
<1>1. CASE s \in DOMAIN entries
  <2>1. entries[s] \in Retained!File /\ entries[s].name = s
    BY <1>1 DEF RetainedTypes
  <2>2. Range(entries) = Others(s) \cup {entries[s]}
    BY <1>1 DEF Range, Others
  <2>3. entries[s] \notin Others(s)
    BY <2>1, FilesFinite
  <2>4. retained_bytes = Retained!Sizes(Others(s)) + entries[s].size
    BY <2>1, <2>2, <2>3, FilesFinite, SizesAdd DEF Measured
  <2>5. Retained!Sizes(Others(s)) \in Nat /\ entries[s].size \in Nat
    BY <2>1, FilesFinite, BytesFinite, RetainedAssumption DEF Retained!File
  <2> QED
    BY <1>1, <2>4, <2>5 DEF Retained!saturating_sub
<1>2. CASE s \notin DOMAIN entries
  <2>1. Range(entries) = Others(s)
    BY <1>2 DEF Range, Others
  <2> QED
    BY <1>2, <2>1 DEF Measured
<1> QED
  BY <1>1, <1>2

\* There is an oldest entry.
LEMMA OldestExists ==
  ASSUME RetainedTypes, DOMAIN entries # {}
  PROVE  Retained!Oldest \in DOMAIN entries
<1> DEFINE V == {entries[s].ver : s \in DOMAIN entries}
<1>1. V \subseteq Nat /\ V # {}
  BY RetainedAssumption DEF RetainedTypes, Retained!File
<1>2. PICK v \in V : \A w \in V : <<w, v>> \notin OpToRel(<, Nat)
  BY <1>1, NatLessThanWellFounded, WFMin
<1>3. ASSUME NEW w \in V PROVE v <= w
  <2>1. w \in Nat /\ v \in Nat
    BY <1>1
  <2>2. ~(w < v)
    BY <1>2, <2>1 DEF OpToRel
  <2> QED
    BY <2>1, <2>2
<1>4. \E s \in DOMAIN entries : \A x \in DOMAIN entries : entries[s].ver <= entries[x].ver
  BY <1>3
<1> QED
  BY <1>4 DEF Retained!Oldest

-----------------------------------------------------------------------------
(* The steps.                                                              *)

LEMMA RetainedStart == Retained!Init => RetainedInv
<1> SUFFICES ASSUME Retained!Init PROVE RetainedInv
  OBVIOUS
<1>1. entries = << >> /\ disk = {} /\ pc = "down" /\ retained_bytes = 0
  BY DEF Retained!Init
<1>2. DOMAIN entries = {} /\ Range(entries) = {}
  BY <1>1 DEF Range
<1>3. RetainedTypes
  <2>1. entries \in [{} -> Retained!File]
    BY <1>1
  <2>2. IsFiniteSet(disk) /\ IsFiniteSet(DOMAIN entries)
    BY <1>1, <1>2, FS_EmptySet
  <2>3. latest \in [Names -> Nat] /\ clock \in Nat /\ stuck \in BOOLEAN
    BY DEF Retained!Init
  <2> QED
    BY <1>1, <1>2, <2>1, <2>2, <2>3 DEF RetainedTypes
<1>4. Measured
  BY <1>1, <1>2, SizesEmpty DEF Measured
<1> QED
  BY <1>1, <1>2, <1>3, <1>4 DEF RetainedInv, Written, OneFile, Indexed, Fits

\* upsert creates an empty temporary file.
LEMMA UpsertStep ==
  ASSUME RetainedInv, NEW s \in Names, NEW size \in 1..MaxSize, Retained!Upsert(s, size)
  PROVE  RetainedInv'
<1> USE DEF RetainedInv
<1>1. /\ pc = "idle" /\ pc' = "write" /\ disk' = disk \cup {job'} /\ clock' = clock + 1
      /\ UNCHANGED <<entries, retained_bytes, latest, stuck>>
  BY DEF Retained!Upsert
<1>2. job' \in Retained!File /\ job'.tmp
  <2>1. clock + 1 \in 1..MaxUpserts
    BY RetainedAssumption DEF Retained!Upsert, RetainedTypes
  <2> QED
    BY <2>1 DEF Retained!Upsert, Retained!File
<1>3. IsFiniteSet(disk')
  BY <1>1, FS_AddElement DEF RetainedTypes
<1>4. RetainedTypes'
  BY <1>1, <1>2, <1>3 DEF RetainedTypes
<1>5. Written' /\ Fits'
  BY <1>1, <1>2 DEF Written, Fits
<1>6. OneFile'
  BY <1>1, <1>2 DEF OneFile
<1>7. Indexed' /\ Measured'
  BY <1>1 DEF Indexed, Measured
<1> QED
  BY <1>4, <1>5, <1>6, <1>7

\* fs::write fills it, or fails.
LEMMA WriteTmpStep ==
  ASSUME RetainedInv, Retained!WriteTmp
  PROVE  RetainedInv'
<1> USE DEF RetainedInv
<1>1. /\ pc = "write" /\ UNCHANGED <<entries, retained_bytes, latest, stuck, clock>>
      /\ job \in Retained!File /\ job.tmp
  BY DEF Retained!WriteTmp, Written
<1>2. CASE /\ job' = [job EXCEPT !.whole = TRUE] /\ pc' = "rename"
           /\ disk' = (disk \ {job}) \cup {job'}
  <2>1. job' \in Retained!File /\ job'.tmp /\ job'.whole
    BY <1>1, <1>2 DEF Retained!File
  <2>2. IsFiniteSet(disk')
    BY <1>2, FS_AddElement, FS_RemoveElement DEF RetainedTypes
  <2>3. RetainedTypes'
    BY <1>1, <1>2, <2>1, <2>2 DEF RetainedTypes
  <2>4. Written' /\ Fits' /\ OneFile'
    BY <1>1, <1>2, <2>1 DEF Written, Fits, OneFile
  <2>5. Indexed' /\ Measured'
    BY <1>1, <1>2 DEF Indexed, Measured, RetainedTypes
  <2> QED
    BY <2>3, <2>4, <2>5
<1>3. CASE pc' = "idle" /\ UNCHANGED <<job, disk>>
  <2>1. RetainedTypes' /\ Written' /\ Fits'
    BY <1>1, <1>3 DEF RetainedTypes, Written, Fits
  <2>2. OneFile' /\ Indexed' /\ Measured'
    BY <1>1, <1>3 DEF OneFile, Indexed, Measured
  <2> QED
    BY <2>1, <2>2
<1> QED
  BY <1>2, <1>3 DEF Retained!WriteTmp

\* fs::rename puts it in the place of the service's file; or fails, and the
\* temporary file is removed or not.
LEMMA RenameStep ==
  ASSUME RetainedInv, Retained!Rename
  PROVE  RetainedInv'
<1> USE DEF RetainedInv
<1>1. /\ pc = "rename" /\ UNCHANGED <<entries, retained_bytes, stuck, clock>>
      /\ job \in Retained!File /\ job.tmp /\ job.whole
  BY DEF Retained!Rename, Written
<1>2. CASE /\ job' = [job EXCEPT !.tmp = FALSE] /\ pc' = "index"
           /\ disk' = (disk \ (Retained!FileOf(job.name) \cup {job})) \cup {job'}
           /\ latest' = [latest EXCEPT ![job.name] = job.ver]
  <2>1. /\ job' \in Retained!File /\ ~job'.tmp /\ job'.whole
        /\ job'.name = job.name /\ job'.ver = job.ver /\ job.name \in Names
    BY <1>1, <1>2 DEF Retained!File
  <2>2. IsFiniteSet(disk')
    <3>1. IsFiniteSet(disk \ (Retained!FileOf(job.name) \cup {job}))
      BY FS_Difference DEF RetainedTypes
    <3> QED
      BY <1>2, <3>1, FS_AddElement
  <2>3. latest' \in [Names -> Nat]
    BY <1>1, <1>2, <2>1, RetainedAssumption DEF RetainedTypes, Retained!File
  <2>4. RetainedTypes'
    BY <1>1, <1>2, <2>1, <2>2, <2>3 DEF RetainedTypes
  <2>5. Written' /\ Fits'
    BY <1>2, <2>1 DEF Written, Fits
  <2>6. \A f \in disk' : ~f.tmp => f = job' \/ (f \in disk /\ f.name # job.name)
    BY <1>2 DEF Retained!FileOf
  <2>7. /\ latest'[job.name] = job.ver
        /\ \A f \in disk : f.name # job.name => latest'[f.name] = latest[f.name]
    BY <1>2, <2>1 DEF RetainedTypes, Retained!File
  <2>8. OneFile'
    BY <2>1, <2>6, <2>7 DEF OneFile
  <2>9. ASSUME NEW s \in DOMAIN entries, s # job.name
        PROVE  entries[s] \in disk' /\ entries[s].whole
    <3>1. entries[s] \in disk /\ entries[s].whole
      BY <1>1 DEF Indexed
    <3>2. entries[s] \notin Retained!FileOf(job.name) \cup {job}
      BY <1>1, <2>9 DEF Retained!FileOf, RetainedTypes
    <3> QED
      BY <1>2, <3>1, <3>2
  <2>10. Indexed' /\ Measured'
    BY <1>1, <1>2, <2>1, <2>9 DEF Indexed, Measured
  <2> QED
    BY <2>4, <2>5, <2>8, <2>10
<1>3. CASE disk' \in {disk, disk \ {job}} /\ pc' = "idle" /\ UNCHANGED <<job, latest>>
  <2>1. IsFiniteSet(disk') /\ disk' \subseteq disk
    BY <1>3, FS_RemoveElement DEF RetainedTypes
  <2>2. RetainedTypes' /\ Written' /\ Fits'
    BY <1>1, <1>3, <2>1 DEF RetainedTypes, Written, Fits
  <2>3. OneFile'
    BY <1>3, <2>1 DEF OneFile
  <2>4. Indexed' /\ Measured'
    BY <1>1, <1>3 DEF Indexed, Measured, RetainedTypes
  <2> QED
    BY <2>2, <2>3, <2>4
<1> QED
  BY <1>2, <1>3 DEF Retained!Rename

\* The index gets the new file, and the size of the old one is taken off.
LEMMA IndexStep ==
  ASSUME RetainedInv, Retained!Index
  PROVE  RetainedInv'
<1> USE DEF RetainedInv
<1>1. /\ pc = "index" /\ pc' = "evict" /\ UNCHANGED <<job, disk, latest, stuck, clock>>
      /\ job \in Retained!File /\ ~job.tmp /\ job.whole /\ job \in disk /\ job.name \in Names
  BY DEF Retained!Index, Written, Retained!File
<1>2. /\ DOMAIN entries' = DOMAIN entries \cup {job.name}
      /\ entries'[job.name] = job
      /\ \A s \in DOMAIN entries \ {job.name} : entries'[s] = entries[s]
      /\ entries' \in [DOMAIN entries' -> Retained!File]
  BY <1>1 DEF Retained!Index, RetainedTypes
<1>3. IsFiniteSet(DOMAIN entries')
  BY <1>2, FS_AddElement DEF RetainedTypes
<1>4. RetainedTypes'
  BY <1>1, <1>2, <1>3 DEF RetainedTypes
<1>5. Written' /\ Fits' /\ OneFile' /\ Indexed'
  BY <1>1, <1>2 DEF Written, Fits, OneFile, Indexed
<1>6. Measured'
  <2>1. Retained!without_previous(job.name) = Retained!Sizes(Others(job.name))
    BY <1>1, SizeWithout DEF Retained!without_previous
  <2>2. Range(entries') = Others(job.name) \cup {job}
    BY <1>2 DEF Range, Others
  <2>3. job \notin Others(job.name)
    BY FilesFinite
  <2>4. Retained!Sizes(Range(entries')) = Retained!Sizes(Others(job.name)) + job.size
    BY <1>1, <2>2, <2>3, FilesFinite, SizesAdd
  <2> QED
    BY <2>1, <2>4 DEF Measured, Retained!Index
<1> QED
  BY <1>4, <1>5, <1>6

\* evict_if_needed drops the oldest entry, and its file unless that fails.
LEMMA EvictStep ==
  ASSUME RetainedInv, Retained!Evict
  PROVE  RetainedInv'
<1> USE DEF RetainedInv
<1>1. PICK o \in DOMAIN entries : o = Retained!Oldest
  BY OldestExists DEF Retained!Evict
<1>2. /\ pc \in {"evict", "start"} /\ UNCHANGED <<job, latest, clock>>
      /\ entries' = [s \in DOMAIN entries \ {o} |-> entries[s]]
      /\ retained_bytes' = Retained!saturating_sub(retained_bytes, entries[o].size)
      /\ \/ disk' = disk \ {entries[o]} /\ UNCHANGED <<pc, stuck>>
         \/ disk' = disk /\ stuck' = TRUE /\ pc' \in {"down", "idle"}
  BY <1>1 DEF Retained!Evict
<1>3. /\ DOMAIN entries' = DOMAIN entries \ {o}
      /\ \A s \in DOMAIN entries \ {o} : entries'[s] = entries[s]
  BY <1>2
<1>4. IsFiniteSet(disk') /\ disk' \subseteq disk /\ stuck' \in BOOLEAN
  <2>1. IsFiniteSet(disk \ {entries[o]}) /\ IsFiniteSet(disk)
    BY FS_RemoveElement DEF RetainedTypes
  <2>2. stuck \in BOOLEAN
    BY DEF RetainedTypes
  <2> QED
    BY <1>2, <2>1, <2>2
<1>5. IsFiniteSet(DOMAIN entries') /\ entries' \in [DOMAIN entries' -> Retained!File]
  BY <1>2, <1>3, FS_RemoveElement DEF RetainedTypes
<1>6. RetainedTypes'
  BY <1>2, <1>3, <1>4, <1>5 DEF RetainedTypes
<1>7. Written' /\ Fits' /\ OneFile'
  BY <1>2, <1>4 DEF Written, Fits, OneFile
<1>8. Indexed'
  <2> SUFFICES ASSUME NEW s \in DOMAIN entries \ {o}
               PROVE  entries[s] \in disk' /\ entries[s].whole
    BY <1>3 DEF Indexed
  <2>1. entries[s] \in disk /\ entries[s].whole
    BY <1>2 DEF Indexed
  <2>2. entries[s] # entries[o]
    BY <1>1 DEF RetainedTypes
  <2> QED
    BY <1>2, <2>1, <2>2
<1>9. Measured'
  <2>1. Range(entries') = Others(o)
    BY <1>3 DEF Range, Others
  <2>2. o \in Names
    BY <1>1 DEF RetainedTypes
  <2> QED
    BY <1>1, <1>2, <2>1, <2>2, SizeWithout DEF Measured
<1> QED
  BY <1>6, <1>7, <1>8, <1>9

\* It stops when the files fit; and when none is left they do.
LEMMA EvictDoneStep ==
  ASSUME RetainedInv, Retained!EvictDone
  PROVE  RetainedInv'
<1> USE DEF RetainedInv
<1>1. /\ pc' = "idle" /\ pc # "index" /\ stuck' = FALSE
      /\ UNCHANGED <<job, disk, entries, retained_bytes, latest, clock>>
      /\ retained_bytes <= Capacity \/ DOMAIN entries = {}
  BY DEF Retained!EvictDone
<1>2. retained_bytes <= Capacity
  <2>1. CASE DOMAIN entries = {}
    <3>1. Range(entries) = {}
      BY <2>1 DEF Range
    <3>2. retained_bytes = 0
      BY <3>1, SizesEmpty DEF Measured
    <3> QED
      BY <3>2, RetainedAssumption
  <2> QED
    BY <1>1, <2>1
<1>3. RetainedTypes' /\ Written' /\ Fits'
  BY <1>1, <1>2 DEF RetainedTypes, Written, Fits
<1>4. OneFile' /\ Indexed' /\ Measured'
  BY <1>1 DEF OneFile, Indexed, Measured
<1> QED
  BY <1>3, <1>4

\* A crash loses the index and may tear files; it mixes none up.
LEMMA RetainedCrashStep ==
  ASSUME RetainedInv, NEW torn \in SUBSET disk, Retained!Crash(torn)
  PROVE  RetainedInv'
<1> USE DEF RetainedInv
<1> DEFINE tear(f) == [f EXCEPT !.whole = FALSE]
           R == {tear(f) : f \in torn}
           m == [f \in torn |-> tear(f)]
<1>1. /\ pc' = "down" /\ entries' = << >> /\ retained_bytes' = 0
      /\ disk' = (disk \ torn) \cup R /\ UNCHANGED <<job, latest, stuck, clock>>
  BY DEF Retained!Crash
<1>2. DOMAIN entries' = {} /\ Range(entries') = {} /\ entries' \in [{} -> Retained!File]
  BY <1>1 DEF Range
<1>3. \A f \in torn : /\ tear(f) \in Retained!File /\ tear(f).tmp = f.tmp
                      /\ tear(f).name = f.name /\ tear(f).ver = f.ver
  BY ZenonT(60) DEF RetainedTypes, Retained!File
<1>4. m \in Surjection(torn, R)
  BY DEF Surjection
<1>5. IsFiniteSet(R) /\ IsFiniteSet(disk \ torn)
  BY <1>4, FS_Subset, FS_Surjection, FS_Difference DEF RetainedTypes
<1>6. IsFiniteSet(disk') /\ disk' \subseteq Retained!File
  <2>1. IsFiniteSet((disk \ torn) \cup R)
    BY <1>5, FS_Union
  <2> QED
    BY <1>1, <1>3, <2>1 DEF RetainedTypes
<1>7. RetainedTypes'
  BY <1>1, <1>2, <1>6, FS_EmptySet DEF RetainedTypes
<1>8. ASSUME NEW f \in disk'
      PROVE  \E g \in disk : /\ f.tmp = g.tmp /\ f.name = g.name /\ f.ver = g.ver
                             /\ f = IF g \in torn THEN tear(g) ELSE g
  BY <1>1, <1>3
<1> HIDE DEF tear, R, m
<1>9. OneFile'
  <2>1. ASSUME NEW f \in disk', NEW g \in disk', ~f.tmp, ~g.tmp, f.name = g.name
        PROVE  f = g
    <3>1. PICK a \in disk : /\ f.tmp = a.tmp /\ f.name = a.name
                            /\ f = IF a \in torn THEN tear(a) ELSE a
      BY <1>8
    <3>2. PICK b \in disk : /\ g.tmp = b.tmp /\ g.name = b.name
                            /\ g = IF b \in torn THEN tear(b) ELSE b
      BY <1>8
    <3>3. a = b
      BY <2>1, <3>1, <3>2 DEF OneFile
    <3> QED
      BY <3>1, <3>2, <3>3
  <2>2. \A f \in disk' : ~f.tmp => f.ver = latest'[f.name]
    BY <1>1, <1>8 DEF OneFile
  <2> QED
    BY <2>1, <2>2 DEF OneFile
<1>10. Measured'
  BY <1>1, <1>2, SizesEmpty DEF Measured
<1> QED
  BY <1>1, <1>2, <1>7, <1>9, <1>10 DEF Written, Indexed, Fits

\* rebuild_index_from_disk: of the files that decode there is one per service.
LEMMA RestartStep ==
  ASSUME RetainedInv, Retained!Restart
  PROVE  RetainedInv'
<1> USE DEF RetainedInv
<1>1. /\ pc' = "start" /\ UNCHANGED <<job, latest, stuck, clock>>
      /\ disk' \subseteq disk /\ \A f \in disk' : ~f.tmp /\ f.whole
  BY DEF Retained!Restart, Retained!initialize_retained_dir
<1>2. PICK names : /\ names = {f.name : f \in disk'}
                   /\ entries' \in [names -> disk']
                   /\ \A s \in names : entries'[s].name = s
  BY DEF Retained!Restart
<1>3. IsFiniteSet(disk')
  BY <1>1, FS_Subset DEF RetainedTypes
<1>4. IsFiniteSet(names)
  <2> DEFINE m == [f \in disk' |-> f.name]
  <2>1. m \in Surjection(disk', names)
    BY <1>2 DEF Surjection
  <2> QED
    BY <1>3, <2>1, FS_Surjection
<1>5. names \subseteq Names /\ disk' \subseteq Retained!File /\ DOMAIN entries' = names
  BY <1>1, <1>2 DEF RetainedTypes, Retained!File
<1>6. RetainedTypes'
  BY <1>1, <1>2, <1>3, <1>4, <1>5 DEF RetainedTypes
<1>7. Written' /\ Fits' /\ OneFile'
  BY <1>1 DEF Written, Fits, OneFile
<1>8. Indexed'
  BY <1>1, <1>2, <1>5 DEF Indexed
<1>9. Measured'
  BY DEF Retained!Restart, Measured, Retained!Range, Range
<1> QED
  BY <1>6, <1>7, <1>8, <1>9

LEMMA RetainedStep == RetainedInv /\ [Retained!Next]_retainedVars => RetainedInv'
<1> SUFFICES ASSUME RetainedInv, [Retained!Next]_retainedVars PROVE RetainedInv'
  OBVIOUS
<1>1. CASE UNCHANGED retainedVars
  BY <1>1 DEF retainedVars, RetainedInv, RetainedTypes, Written, OneFile, Indexed, Measured, Fits
<1>2. CASE Retained!Next
  <2>1. CASE \E s \in Names, size \in 1..MaxSize : Retained!Upsert(s, size)
    BY <2>1, UpsertStep
  <2>2. CASE \E torn \in SUBSET disk : Retained!Crash(torn)
    BY <2>2, RetainedCrashStep
  <2> QED
    BY <1>2, <2>1, <2>2, WriteTmpStep, RenameStep, IndexStep, EvictStep, EvictDoneStep,
       RestartStep DEF Retained!Next
<1> QED
  BY <1>1, <1>2

\* Whatever failed or crashed in an upsert, an eviction or a start, what the
\* index of retained_file_store.rs serves between two upserts is the last log
\* that was renamed into place, whole; the index counts its files exactly, and
\* they fit the capacity unless a file could not be removed.
THEOREM RetainedServesLatest == MCSpec => []RetainedIsLatest
<1>1. MCInit => RetainedInv
  BY RetainedStart DEF MCInit
<1>2. /\ RetainedInv
      /\ [PipelineNext \/ BufferNext \/ RetainedNext]_<<subject, vars, bufferVars, retainedVars>>
      => RetainedInv'
  BY RetainedStep DEF PipelineNext, BufferNext, RetainedNext
<1>3. RetainedInv => RetainedIsLatest
  <2> SUFFICES ASSUME RetainedInv, pc = "idle"
               PROVE  /\ \A s \in DOMAIN entries :
                           /\ entries[s] \in disk /\ entries[s].whole
                           /\ entries[s].ver = latest[s]
                      /\ retained_bytes = Retained!Sizes(Range(entries))
                      /\ retained_bytes <= Capacity \/ stuck
    BY DEF RetainedIsLatest, Retained!RetainedIsLatest, Retained!Range, Range
  <2>1. \A s \in DOMAIN entries : entries[s] \in disk /\ entries[s].whole
    BY DEF RetainedInv, Indexed
  <2> QED
    BY <2>1 DEF RetainedInv, RetainedTypes, OneFile, Measured, Fits
<1> QED
  BY <1>1, <1>2, <1>3, PTL DEF MCSpec

-----------------------------------------------------------------------------
(***************************************************************************)
(* The buffer in bytes.  What a fold computes is shown by induction on the *)
(* length of what it has read, and that induction from the fact that a set *)
(* of naturals has a least element: FoldLeft is a recursive function on    *)
(* sets of positions, which exists because it does for the first k         *)
(* positions, for every k.                                                 *)
(***************************************************************************)
HIDE CapsAssumption

\* Induction up to n over a set of numbers.
LEMMA CountUp ==
  ASSUME NEW n \in Nat, NEW T, 0 \in T, \A k \in 0..n : k < n /\ k \in T => k + 1 \in T
  PROVE  \A k \in 0..n : k \in T
<1> SUFFICES ASSUME {k \in 0..n : k \notin T} # {} PROVE FALSE
  OBVIOUS
<1> DEFINE B == {k \in 0..n : k \notin T}
<1>1. B \subseteq Nat /\ B # {}
  OBVIOUS
<1>2. PICK m \in B : \A k \in B : <<k, m>> \notin OpToRel(<, Nat)
  BY <1>1, NatLessThanWellFounded, WFMin
<1>3. m \in Nat /\ m # 0 /\ m <= n /\ m \notin T
  BY <1>1
<1>4. m - 1 \in Nat /\ m - 1 < m /\ m - 1 \in 0..n
  BY <1>3
<1>5. m - 1 \notin B
  BY <1>2, <1>3, <1>4 DEF OpToRel
<1>6. m - 1 \in T
  BY <1>4, <1>5
<1>7. (m - 1) + 1 = m
  BY <1>3
<1> QED
  BY <1>3, <1>4, <1>6, <1>7

\* The greatest of some of the first k positions.
LEMMA MaxIsLast ==
  ASSUME NEW k \in Nat, NEW S \in SUBSET (1..(k + 1)), k + 1 \in S
  PROVE  Buffer!Max(S) = k + 1
<1>1. \A x \in S : x \in Nat /\ x <= k + 1
  OBVIOUS
<1>2. \A x \in S : (\A y \in S : x >= y) => x = k + 1
  BY <1>1
<1>3. \A y \in S : k + 1 >= y
  BY <1>1
<1> QED
  BY <1>2, <1>3 DEF Buffer!Max

\* A fold of a step F over n elements: the recursive function that FoldLeft
\* takes its value from.
IsFold(g, F, base, n) ==
  \A S \in SUBSET (1..n) :
    /\ S = {} => g[S] = base
    /\ S # {} => Buffer!Max(S) \in 1..n /\ g[S] = F[<<g[S \ {Buffer!Max(S)}], Buffer!Max(S)>>]

\* There is one.
LEMMA FoldExists ==
  ASSUME NEW n \in Nat, NEW V, NEW F \in [V \X (1..n) -> V], NEW base \in V
  PROVE  \E g \in [SUBSET (1..n) -> V] : IsFold(g, F, base, n)
<1> DEFINE T == {k \in 0..n : \E g \in [SUBSET (1..k) -> V] : IsFold(g, F, base, k)}
<1>1. 0 \in T
  <2> DEFINE g == [S \in SUBSET (1..0) |-> base]
  <2>1. \A S \in SUBSET (1..0) : S = {}
    OBVIOUS
  <2>2. g \in [SUBSET (1..0) -> V] /\ IsFold(g, F, base, 0)
    BY <2>1 DEF IsFold
  <2> HIDE DEF g
  <2>3. 0 \in 0..n
    OBVIOUS
  <2> QED
    BY <2>2, <2>3
<1>2. ASSUME NEW k \in 0..n, k < n, k \in T PROVE k + 1 \in T
  <2>1. PICK g \in [SUBSET (1..k) -> V] : IsFold(g, F, base, k)
    BY <1>2
  <2>2. k \in Nat /\ k + 1 \in 0..n /\ k + 1 \in 1..n
    BY <1>2
  <2> DEFINE h == [S \in SUBSET (1..(k + 1)) |->
                     IF k + 1 \in S THEN F[<<g[S \ {k + 1}], k + 1>>] ELSE g[S]]
  <2>3. ASSUME NEW S \in SUBSET (1..(k + 1))
        PROVE  /\ S \ {k + 1} \in SUBSET (1..k)
               /\ k + 1 \notin S => S \in SUBSET (1..k)
    <3>1. ASSUME NEW x \in S, x # k + 1 PROVE x \in 1..k
      BY <2>2, <3>1
    <3>2. S \ {k + 1} \in SUBSET (1..k)
      BY <3>1
    <3>3. k + 1 \notin S => S \in SUBSET (1..k)
      BY <3>1
    <3> QED
      BY <3>2, <3>3
  <2>4. h \in [SUBSET (1..(k + 1)) -> V]
    BY <2>2, <2>3
  <2>5. ASSUME NEW S \in SUBSET (1..(k + 1)), S # {}
        PROVE  /\ Buffer!Max(S) \in 1..(k + 1)
               /\ h[S] = F[<<h[S \ {Buffer!Max(S)}], Buffer!Max(S)>>]
    <3>1. CASE k + 1 \in S
      <4>1. Buffer!Max(S) = k + 1 /\ k + 1 \in 1..(k + 1)
        BY <2>2, <3>1, MaxIsLast
      <4>2. S \ {k + 1} \in SUBSET (1..(k + 1)) /\ k + 1 \notin S \ {k + 1}
        OBVIOUS
      <4>3. h[S \ {k + 1}] = g[S \ {k + 1}] /\ h[S] = F[<<g[S \ {k + 1}], k + 1>>]
        BY <3>1, <4>2
      <4> HIDE DEF h
      <4> QED
        BY <4>1, <4>3
    <3>2. CASE k + 1 \notin S
      <4>1. S \in SUBSET (1..k)
        BY <2>3, <3>2
      <4>2. /\ Buffer!Max(S) \in 1..k
            /\ g[S] = F[<<g[S \ {Buffer!Max(S)}], Buffer!Max(S)>>]
        BY <2>1, <2>5, <4>1 DEF IsFold
      <4>3. S \ {Buffer!Max(S)} \in SUBSET (1..(k + 1)) /\ k + 1 \notin S \ {Buffer!Max(S)}
        BY <3>2
      <4>4. h[S \ {Buffer!Max(S)}] = g[S \ {Buffer!Max(S)}] /\ h[S] = g[S]
        BY <3>2, <4>3
      <4>5. Buffer!Max(S) \in 1..(k + 1)
        BY <2>2, <4>2
      <4> HIDE DEF h
      <4> QED
        BY <4>2, <4>4, <4>5
    <3> QED
      BY <3>1, <3>2
  <2>6. h[{}] = base
    <3>1. {} \in SUBSET (1..k) /\ {} \in SUBSET (1..(k + 1)) /\ k + 1 \notin {}
      OBVIOUS
    <3>2. g[{}] = base
      BY <2>1, <3>1 DEF IsFold
    <3> QED
      BY <3>1, <3>2
  <2> HIDE DEF h
  <2>7. IsFold(h, F, base, k + 1)
    BY <2>5, <2>6 DEF IsFold
  <2> QED
    BY <2>2, <2>4, <2>7
<1>3. n \in T
  <2> HIDE DEF T
  <2> QED
    BY <1>1, <1>2, CountUp
<1> QED
  BY <1>3

\* The first k positions, and the last of them.
LEMMA Prefix ==
  ASSUME NEW n \in Nat, NEW k \in 1..n
  PROVE  /\ 1..k \in SUBSET (1..n) /\ 1..k # {} /\ k \in 0..n /\ k - 1 \in 0..n
         /\ Buffer!Max(1..k) = k /\ (1..k) \ {k} = 1..(k - 1)
<1>1. k - 1 \in Nat /\ (k - 1) + 1 = k /\ k \in 0..n /\ k - 1 \in 0..n
  OBVIOUS
<1>2. 1..k \in SUBSET (1..n) /\ 1..k # {} /\ k \in 1..k
  BY <1>1
<1>3. Buffer!Max(1..k) = k
  BY <1>1, <1>2, MaxIsLast
<1>4. (1..k) \ {k} = 1..(k - 1)
  BY <1>1
<1> QED
  BY <1>1, <1>2, <1>3, <1>4

-----------------------------------------------------------------------------
(* Strings of bytes.                                                       *)

Str == Seq(Buffer!Byte)

\* A string without its first n bytes.
LEMMA FromFields ==
  ASSUME NEW s \in Str, NEW n \in 0..Len(s)
  PROVE  /\ Buffer!From(s, n) \in Str /\ Len(Buffer!From(s, n)) = Len(s) - n
         /\ \A i \in 1..(Len(s) - n) : Buffer!From(s, n)[i] = s[i + n]
<1>1. PICK l \in Nat : l = Len(s) /\ \A i \in 1..l : s[i] \in Buffer!Byte
  BY DEF Str
<1>2. PICK a \in Int, b \in Int : a = n + 1 /\ b = l /\ \A i \in a..b : s[i] \in Buffer!Byte
  BY <1>1
<1>3. /\ SubSeq(s, a, b) \in Seq(Buffer!Byte)
      /\ Len(SubSeq(s, a, b)) = IF a <= b THEN b - a + 1 ELSE 0
      /\ \A i \in 1..(b - a + 1) : SubSeq(s, a, b)[i] = s[a + i - 1]
  BY <1>2, SubSeqProperties
<1>4. Buffer!From(s, n) = SubSeq(s, a, b)
  BY <1>1, <1>2 DEF Buffer!From
<1>5. Len(SubSeq(s, a, b)) = l - n
  BY <1>1, <1>2, <1>3
<1>6. ASSUME NEW i \in 1..(l - n) PROVE SubSeq(s, a, b)[i] = s[i + n]
  <2>1. i \in 1..(b - a + 1) /\ a + i - 1 = i + n
    BY <1>1, <1>2
  <2> QED
    BY <1>3, <2>1
<1> QED
  BY <1>1, <1>3, <1>4, <1>5, <1>6 DEF Str

\* Two strings with the same bytes.
LEMMA SameString ==
  ASSUME NEW s \in Str, NEW t \in Str, NEW n \in Nat, Len(s) = n, Len(t) = n,
         \A i \in 1..n : s[i] = t[i]
  PROVE  s = t
  BY SeqEqual DEF Str

LEMMA JoinFields ==
  ASSUME NEW s \in Str, NEW t \in Str, NEW a \in Nat, a = Len(s), NEW b \in Nat, b = Len(t)
  PROVE  /\ s \o t \in Str /\ Len(s \o t) = a + b
         /\ \A i \in 1..(a + b) : (s \o t)[i] = IF i <= a THEN s[i] ELSE t[i - a]
  BY ConcatProperties DEF Str

LEMMA LenIsNat ==
  ASSUME NEW s \in Str
  PROVE  Len(s) \in Nat
  BY DEF Str

LEMMA FromAll ==
  ASSUME NEW s \in Str
  PROVE  Buffer!From(s, 0) = s /\ Buffer!From(s, Len(s)) = <<>>
<1>1. PICK l \in Nat : l = Len(s)
  BY LenIsNat
<1>2. /\ Buffer!From(s, 0) \in Str /\ Len(Buffer!From(s, 0)) = l - 0
      /\ \A i \in 1..(l - 0) : Buffer!From(s, 0)[i] = s[i + 0]
  BY <1>1, FromFields
<1>3. Buffer!From(s, 0) = s
  BY <1>1, <1>2, SameString
<1>4. Buffer!From(s, l) \in Str /\ Len(Buffer!From(s, l)) = l - l
  BY <1>1, FromFields
<1> QED
  BY <1>1, <1>3, <1>4 DEF Str

\* What is cut from a string and another one is cut from the first as far as
\* that goes, then from the second.
LEMMA CutFirst ==
  ASSUME NEW s \in Str, NEW t \in Str, NEW n \in 0..Len(s)
  PROVE  Buffer!From(s \o t, n) = Buffer!From(s, n) \o t
<1>1. PICK a \in Nat, b \in Nat, m \in Nat : a = Len(s) /\ b = Len(t) /\ m = n /\ m <= a
  BY LenIsNat
<1>2. PICK w \in Str : /\ w = s \o t /\ Len(w) = a + b
                       /\ \A i \in 1..(a + b) : w[i] = IF i <= a THEN s[i] ELSE t[i - a]
  <2>1. /\ s \o t \in Str /\ Len(s \o t) = a + b
        /\ \A i \in 1..(a + b) : (s \o t)[i] = IF i <= a THEN s[i] ELSE t[i - a]
    BY <1>1, JoinFields
  <2> QED
    BY <2>1, Zenon
<1>3. m \in 0..Len(w) /\ m \in 0..Len(s)
  BY <1>1, <1>2
<1>4. /\ Buffer!From(w, m) \in Str /\ Len(Buffer!From(w, m)) = Len(w) - m
      /\ \A i \in 1..(Len(w) - m) : Buffer!From(w, m)[i] = w[i + m]
  BY <1>3, FromFields
<1>5. /\ Buffer!From(s, m) \in Str /\ Len(Buffer!From(s, m)) = Len(s) - m
      /\ \A i \in 1..(Len(s) - m) : Buffer!From(s, m)[i] = s[i + m]
  BY <1>3, FromFields
<1>6. PICK c \in Nat : c = a - m
  <2>1. a - m \in Nat
    BY <1>1
  <2> QED
    BY <2>1, Zenon
<1>7. PICK u \in Str : /\ u = Buffer!From(w, m) /\ Len(u) = c + b
                       /\ \A i \in 1..(c + b) : u[i] = w[i + m]
  <2>1. Len(w) - m = c + b
    BY <1>1, <1>2, <1>6
  <2> QED
    BY <1>4, <2>1
<1>8. PICK v \in Str : /\ v = Buffer!From(s, m) /\ Len(v) = c
                       /\ \A i \in 1..c : v[i] = s[i + m]
  BY <1>1, <1>5, <1>6
<1>9. PICK x \in Str : /\ x = v \o t /\ Len(x) = c + b
                       /\ \A i \in 1..(c + b) : x[i] = IF i <= c THEN v[i] ELSE t[i - c]
  <2>1. /\ v \o t \in Str /\ Len(v \o t) = c + b
        /\ \A i \in 1..(c + b) : (v \o t)[i] = IF i <= c THEN v[i] ELSE t[i - c]
    <3>1. v \in Str /\ t \in Str /\ c \in Nat /\ c = Len(v) /\ b \in Nat /\ b = Len(t)
      BY <1>1, <1>6, <1>8
    <3> QED
      BY <3>1, JoinFields
  <2> QED
    BY <2>1, Zenon
<1>10. ASSUME NEW i \in 1..(c + b) PROVE u[i] = x[i]
  <2>1. i + m \in 1..(a + b)
    BY <1>1, <1>6
  <2>2. u[i] = IF i + m <= a THEN s[i + m] ELSE t[i + m - a]
    <3>1. u[i] = w[i + m]
      BY <1>7
    <3>2. w[i + m] = IF i + m <= a THEN s[i + m] ELSE t[i + m - a]
      BY <1>2, <2>1
    <3> QED
      BY <3>1, <3>2
  <2>3. CASE i <= c
    <3>1. i \in 1..c /\ i + m <= a
      BY <1>1, <1>6, <2>3
    <3> QED
      BY <1>8, <1>9, <2>2, <2>3, <3>1
  <2>4. CASE ~(i <= c)
    <3>1. ~(i + m <= a) /\ i + m - a = i - c
      BY <1>1, <1>6, <2>4
    <3> QED
      BY <1>9, <2>2, <2>4, <3>1
  <2> QED
    BY <2>3, <2>4
<1>11. u = x
  <2>1. c + b \in Nat
    BY <1>1, <1>6
  <2> QED
    BY <1>7, <1>9, <1>10, <2>1, SameString
<1> QED
  BY <1>1, <1>2, <1>7, <1>8, <1>9, <1>11

LEMMA CutSecond ==
  ASSUME NEW s \in Str, NEW t \in Str, NEW n \in 0..Len(t)
  PROVE  Buffer!From(s \o t, Len(s) + n) = Buffer!From(t, n)
<1>1. PICK a \in Nat, b \in Nat, m \in Nat : a = Len(s) /\ b = Len(t) /\ m = n /\ m <= b
  BY LenIsNat
<1>2. PICK w \in Str : /\ w = s \o t /\ Len(w) = a + b
                       /\ \A i \in 1..(a + b) : w[i] = IF i <= a THEN s[i] ELSE t[i - a]
  <2>1. /\ s \o t \in Str /\ Len(s \o t) = a + b
        /\ \A i \in 1..(a + b) : (s \o t)[i] = IF i <= a THEN s[i] ELSE t[i - a]
    BY <1>1, JoinFields
  <2> QED
    BY <2>1, Zenon
<1>3. PICK c \in Nat, d \in Nat : c = a + m /\ d = b - m
  <2>1. a + m \in Nat /\ b - m \in Nat
    BY <1>1
  <2> QED
    BY <2>1, Zenon
<1>4. c \in 0..Len(w) /\ m \in 0..Len(t)
  BY <1>1, <1>2, <1>3
<1>5. /\ Buffer!From(w, c) \in Str /\ Len(Buffer!From(w, c)) = Len(w) - c
      /\ \A i \in 1..(Len(w) - c) : Buffer!From(w, c)[i] = w[i + c]
  BY <1>4, FromFields
<1>6. /\ Buffer!From(t, m) \in Str /\ Len(Buffer!From(t, m)) = Len(t) - m
      /\ \A i \in 1..(Len(t) - m) : Buffer!From(t, m)[i] = t[i + m]
  BY <1>4, FromFields
<1>7. PICK u \in Str : u = Buffer!From(w, c) /\ Len(u) = d /\ \A i \in 1..d : u[i] = w[i + c]
  <2>1. Len(w) - c = d
    BY <1>1, <1>2, <1>3
  <2> QED
    BY <1>5, <2>1
<1>8. PICK v \in Str : v = Buffer!From(t, m) /\ Len(v) = d /\ \A i \in 1..d : v[i] = t[i + m]
  BY <1>1, <1>3, <1>6
<1>9. ASSUME NEW i \in 1..d PROVE u[i] = v[i]
  <2>1. i + c \in 1..(a + b) /\ ~(i + c <= a) /\ i + c - a = i + m
    BY <1>1, <1>3
  <2>2. w[i + c] = t[i + c - a]
    BY <1>2, <2>1
  <2> QED
    BY <1>7, <1>8, <2>1, <2>2
<1>10. u = v
  BY <1>7, <1>8, <1>9, SameString
<1> QED
  BY <1>1, <1>2, <1>3, <1>7, <1>8, <1>10

-----------------------------------------------------------------------------
(* The bytes of a list of events.                                          *)

\* They are joined one event after the other.
Joins(f, evs, n) == f[0] = <<>> /\ \A k \in 1..n : f[k] = f[k - 1] \o evs[k]
JoinRun(f, evs, n) ==
  /\ Joins(f, evs, n)
  /\ \A k \in 0..n : f[k] \in Str
  /\ Buffer!Bytes(evs) = f[n]

LEMMA JoinsInOrder ==
  ASSUME NEW n \in Nat, NEW evs \in Seq(Str), Len(evs) = n
  PROVE  \E f : JoinRun(f, evs, n)
<1> DEFINE F == [p \in Str \X (1..n) |-> p[1] \o evs[p[2]]]
<1>1. \A k \in 1..n : evs[k] \in Str
  OBVIOUS
<1>2. F \in [Str \X (1..n) -> Str]
  BY <1>1, ConcatProperties DEF Str
<1>3. <<>> \in Str
  BY DEF Str
<1>4. PICK h \in [SUBSET (1..n) -> Str] : IsFold(h, F, <<>>, n)
  <2> HIDE DEF F
  <2> QED
    BY <1>2, <1>3, FoldExists
<1>5. h[{}] = <<>>
  <2>1. {} \in SUBSET (1..n)
    OBVIOUS
  <2> QED
    BY <1>4, <2>1 DEF IsFold
<1>6. ASSUME NEW k \in 1..n PROVE h[1..k] = h[1..(k - 1)] \o evs[k] /\ h[1..k] \in Str
  <2>1. /\ 1..k \in SUBSET (1..n) /\ 1..k # {}
        /\ Buffer!Max(1..k) = k /\ (1..k) \ {k} = 1..(k - 1)
    BY Prefix
  <2>2. h[1..k] = F[<<h[(1..k) \ {Buffer!Max(1..k)}], Buffer!Max(1..k)>>]
    BY <1>4, <2>1 DEF IsFold
  <2>3. 1..(k - 1) \in SUBSET (1..n)
    BY <2>1
  <2>4. h[1..(k - 1)] \in Str /\ h[1..k] \in Str
    BY <2>1, <2>3
  <2>5. h[1..k] = F[<<h[1..(k - 1)], k>>]
    BY <2>1, <2>2
  <2> QED
    BY <2>4, <2>5
<1>7. CASE n = 0
  <2>1. evs = <<>> /\ Buffer!Bytes(evs) = <<>>
    BY <1>7 DEF Buffer!Bytes, Buffer!FlattenSeq
  <2> DEFINE f == [k \in {0} |-> <<>>]
  <2>2. JoinRun(f, evs, 0)
    BY <1>3, <2>1 DEF JoinRun, Joins
  <2> HIDE DEF f
  <2> QED
    BY <1>7, <2>2
<1>8. CASE n # 0
  <2> DEFINE Body(g, i) == IF i = 1 THEN evs[i] ELSE g[i - 1] \o evs[i]
             g0 == [i \in 1..n |-> h[1..i]]
  <2>1. Buffer!Bytes(evs) = (CHOOSE g : g = [i \in 1..n |-> Body(g, i)])[n]
    BY <1>8 DEF Buffer!Bytes, Buffer!FlattenSeq
  <2>2. ASSUME NEW i \in 1..n PROVE g0[i] = Body(g0, i)
    <3>1. CASE i = 1
      <4>1. 1..(i - 1) = {} /\ evs[i] \in Str
        BY <1>1, <3>1
      <4>2. <<>> \o evs[i] = evs[i]
        BY <4>1, ConcatEmptySeq DEF Str
      <4> QED
        BY <1>5, <1>6, <3>1, <4>1, <4>2
    <3>2. CASE i # 1
      <4>1. i - 1 \in 1..n
        BY <3>2
      <4> QED
        BY <1>6, <3>2, <4>1
    <3> QED
      BY <3>1, <3>2
  <2> HIDE DEF Body
  <2>3. PICK it : it = [i \in 1..n |-> Body(it, i)] /\ Buffer!Bytes(evs) = it[n]
    <3>1. g0 = [i \in 1..n |-> Body(g0, i)]
      BY <2>2
    <3> QED
      BY <2>1, <3>1
  <2>4. \A i \in 1..n : it[i] = Body(it, i)
    BY <2>3
  <2> USE DEF Body
  <2> DEFINE f == [k \in 0..n |-> IF k = 0 THEN <<>> ELSE it[k]]
  <2>5. f[0] = <<>> /\ f[n] = it[n]
    BY <1>8
  <2>6. ASSUME NEW k \in 1..n PROVE f[k] = f[k - 1] \o evs[k]
    <3>1. CASE k = 1
      <4>1. evs[k] \in Str /\ k - 1 = 0 /\ f[k] = it[k]
        BY <1>1, <3>1
      <4>2. <<>> \o evs[k] = evs[k]
        BY <4>1, ConcatEmptySeq DEF Str
      <4> HIDE DEF f
      <4> QED
        BY <2>4, <2>5, <3>1, <4>1, <4>2
    <3>2. CASE k # 1
      <4>1. k - 1 \in 1..n /\ k - 1 # 0 /\ k # 0 /\ k \in 0..n /\ k - 1 \in 0..n
        BY <3>2
      <4>2. f[k] = it[k] /\ f[k - 1] = it[k - 1]
        BY <4>1
      <4> HIDE DEF f
      <4> QED
        BY <2>4, <3>2, <4>2
    <3> QED
      BY <3>1, <3>2
  <2> HIDE DEF f
  <2> DEFINE T == {k \in 0..n : f[k] \in Str}
  <2>7. 0 \in T
    <3>1. 0 \in 0..n
      OBVIOUS
    <3> QED
      BY <1>3, <2>5, <3>1
  <2>8. ASSUME NEW k \in 0..n, k < n, k \in T PROVE k + 1 \in T
    <3>1. k + 1 \in 1..n /\ k + 1 \in 0..n /\ (k + 1) - 1 = k
      BY <2>8
    <3>2. f[k + 1] = f[k] \o evs[k + 1] /\ evs[k + 1] \in Str /\ f[k] \in Str
      BY <1>1, <2>6, <2>8, <3>1
    <3>3. f[k + 1] \in Str
      BY <3>2, ConcatProperties DEF Str
    <3> QED
      BY <3>1, <3>3
  <2> HIDE DEF T
  <2>9. \A k \in 0..n : k \in T
    BY <2>7, <2>8, CountUp
  <2>10. JoinRun(f, evs, n)
    BY <2>3, <2>5, <2>6, <2>9 DEF JoinRun, Joins, T
  <2> QED
    BY <2>10
<1> QED
  BY <1>7, <1>8

\* There is one way to join them.
LEMMA JoinsAlike ==
  ASSUME NEW n \in Nat, NEW a, NEW f, Joins(f, a, n), NEW g, Joins(g, a, n)
  PROVE  f[n] = g[n]
<1> DEFINE T == {k \in 0..n : f[k] = g[k]}
<1>1. 0 \in T
  BY DEF Joins
<1>2. ASSUME NEW k \in 0..n, k < n, k \in T PROVE k + 1 \in T
  <2>1. k + 1 \in 1..n /\ k + 1 \in 0..n /\ (k + 1) - 1 = k
    BY <1>2
  <2>2. f[k + 1] = f[k] \o a[k + 1] /\ g[k + 1] = g[k] \o a[k + 1]
    BY <2>1 DEF Joins
  <2> QED
    BY <1>2, <2>1, <2>2
<1> HIDE DEF T
<1>3. \A k \in 0..n : k \in T
  BY <1>1, <1>2, CountUp
<1>4. n \in 0..n
  OBVIOUS
<1> QED
  BY <1>3, <1>4 DEF T

\* An event is appended, and its bytes.
LEMMA BytesOfAppend ==
  ASSUME NEW evs \in Seq(Str), NEW e \in Str
  PROVE  /\ Buffer!Bytes(evs) \in Str
         /\ Buffer!Bytes(Append(evs, e)) = Buffer!Bytes(evs) \o e
<1>1. PICK n \in Nat : n = Len(evs)
  OBVIOUS
<1>2. PICK q \in Seq(Str) : /\ q = Append(evs, e) /\ Len(q) = n + 1 /\ q[n + 1] = e
                            /\ \A k \in 1..n : q[k] = evs[k]
  <2>1. /\ Append(evs, e) \in Seq(Str) /\ Len(Append(evs, e)) = n + 1
        /\ Append(evs, e)[n + 1] = e /\ \A k \in 1..n : Append(evs, e)[k] = evs[k]
    BY <1>1, AppendProperties
  <2> QED
    BY <2>1, Zenon
<1>3. PICK f : JoinRun(f, evs, n)
  BY <1>1, JoinsInOrder
<1>4. n + 1 \in Nat /\ n + 1 \in 1..(n + 1) /\ (n + 1) - 1 = n
  BY <1>1
<1>5. PICK g : JoinRun(g, q, n + 1)
  BY <1>2, <1>4, JoinsInOrder
<1>6. \A k \in 1..n : k \in 1..(n + 1)
  BY <1>1
<1>7. f[n] = g[n]
  <2>1. Joins(f, evs, n)
    BY <1>3 DEF JoinRun
  <2>2. Joins(g, evs, n)
    BY <1>2, <1>5, <1>6 DEF JoinRun, Joins
  <2> QED
    BY <2>1, <2>2, JoinsAlike
<1>8. g[n + 1] = g[n] \o e
  BY <1>2, <1>4, <1>5 DEF JoinRun, Joins
<1>9. n \in 0..n
  BY <1>1
<1> QED
  BY <1>2, <1>3, <1>5, <1>7, <1>8, <1>9 DEF JoinRun, Joins

-----------------------------------------------------------------------------
(* The three passes: over the events to evict, over the bytes to find the  *)
(* lines, and over the events to cut them.  A step of each keeps its type, *)
(* and each takes its steps one by one.                                    *)

Evicting == [left : Nat, kept : Seq(Str)]
Seeing == [index : Nat, count : Nat, recent : Seq(Nat)]
Slicing == [offset : Nat, remaining : Nat, out : Seq(Str)]

LEMMA EvictType ==
  ASSUME NEW a \in Evicting, NEW e \in Str
  PROVE  Buffer!EvictEvent(a, e) \in Evicting
<1>1. PICK l \in Nat, n \in Nat, q \in Seq(Str) : l = a.left /\ n = Len(e) /\ q = a.kept
  BY LenIsNat DEF Evicting
<1>2. a = [left |-> l, kept |-> q]
  BY <1>1 DEF Evicting
<1>3. CASE l = 0
  BY <1>2, <1>3 DEF Evicting, Buffer!EvictEvent
<1>4. CASE l # 0 /\ n <= l
  BY <1>1, <1>2, <1>4 DEF Evicting, Buffer!EvictEvent
<1>5. CASE l # 0 /\ ~(n <= l)
  <2>1. Buffer!From(e, l) \in Str
    <3>1. l \in 0..Len(e)
      BY <1>1, <1>5
    <3> QED
      BY <3>1, FromFields
  <2>2. <<Buffer!From(e, l)>> \in Seq(Str)
    BY <2>1
  <2>3. q \o <<Buffer!From(e, l)>> \in Seq(Str)
    BY <2>2, ConcatProperties
  <2>4. Buffer!EvictEvent(a, e) = [left |-> 0, kept |-> q \o <<Buffer!From(e, l)>>]
    BY <1>1, <1>2, <1>5 DEF Buffer!EvictEvent, Buffer!trimmed
  <2> QED
    BY <2>3, <2>4 DEF Evicting
<1> QED
  BY <1>3, <1>4, <1>5

LEMMA SeeType ==
  ASSUME NEW total \in Nat, NEW limit \in Nat, NEW a \in Seeing, NEW b \in Buffer!Byte
  PROVE  Buffer!SeeByte(a, b, total, limit) \in Seeing
<1>1. PICK i \in Nat, c \in Nat, q \in Seq(Nat) :
        i = a.index /\ c = a.count /\ q = a.recent
  BY DEF Seeing
<1>2. i + 1 \in Nat /\ c + 1 \in Nat /\ Append(q, i + 1) \in Seq(Nat)
  BY <1>1
<1>3. ASSUME NEW starts \in Seq(Nat)
      PROVE  (IF Len(starts) > limit THEN Tail(starts) ELSE starts) \in Seq(Nat)
  <2>1. CASE Len(starts) > limit
    <3>1. starts # <<>>
      BY <2>1
    <3>2. Tail(starts) \in Seq(Nat)
      BY <3>1, HeadTailProperties
    <3> QED
      BY <2>1, <3>2
  <2>2. CASE ~(Len(starts) > limit)
    BY <2>2
  <2> QED
    BY <2>1, <2>2
<1> QED
  BY <1>1, <1>2, <1>3 DEF Seeing, Buffer!SeeByte

LEMMA SliceType ==
  ASSUME NEW a \in Slicing, NEW e \in Str
  PROVE  Buffer!SliceEvent(a, e) \in Slicing
<1>1. PICK o \in Nat, r \in Nat, q \in Seq(Str), n \in Nat :
        o = a.offset /\ r = a.remaining /\ q = a.out /\ n = Len(e)
  BY LenIsNat DEF Slicing
<1>2. a = [offset |-> o, remaining |-> r, out |-> q]
  BY <1>1 DEF Slicing
<1>3. CASE r = 0
  BY <1>1, <1>3 DEF Slicing, Buffer!SliceEvent
<1>4. CASE r # 0 /\ o >= n
  BY <1>1, <1>2, <1>4 DEF Slicing, Buffer!SliceEvent
<1>5. CASE r # 0 /\ ~(o >= n)
  <2>1. o \in 0..Len(e)
    BY <1>1, <1>5
  <2>2. PICK rest \in Str : rest = Buffer!From(e, o)
    BY <2>1, FromFields
  <2>3. PICK take \in Nat : /\ take = IF Len(rest) < r THEN Len(rest) ELSE r
                            /\ take <= Len(rest) /\ take <= r
    BY <1>1, <2>2, LenIsNat
  <2>4. PICK x \in Int, y \in Int : x = 1 /\ y = take /\ \A i \in x..y : rest[i] \in Buffer!Byte
    BY <2>2, <2>3 DEF Str
  <2>5. SubSeq(rest, x, y) \in Seq(Buffer!Byte)
    BY <2>4, SubSeqProperties
  <2>6. SubSeq(rest, 1, take) \in Str
    BY <2>4, <2>5 DEF Str
  <2>7. Append(q, SubSeq(rest, 1, take)) \in Seq(Str) /\ r - take \in Nat
    BY <1>1, <2>3, <2>6
  <2>8. Buffer!SliceEvent(a, e) = [offset |-> 0, remaining |-> r - take,
                                   out |-> Append(q, SubSeq(rest, 1, take))]
    BY <1>1, <1>5, <2>2, <2>3 DEF Buffer!SliceEvent
  <2> QED
    BY <2>7, <2>8 DEF Slicing
<1> QED
  BY <1>3, <1>4, <1>5

Evicted(s, x) == Buffer!FoldLeft(Buffer!EvictEvent, [left |-> x, kept |-> <<>>], s)
EvictRun(f, s, n, x) ==
  /\ f[0] = [left |-> x, kept |-> <<>>]
  /\ \A k \in 1..n : f[k] = Buffer!EvictEvent(f[k - 1], s[k])
  /\ \A k \in 0..n : f[k] \in Evicting
  /\ Evicted(s, x) = f[n]
Seen(s, total, limit) ==
  Buffer!FoldLeft(LAMBDA a, b : Buffer!SeeByte(a, b, total, limit),
                  [index |-> 0, count |-> 1, recent |-> <<0>>], s)
SeeRun(f, s, n, total, limit) ==
  /\ f[0] = [index |-> 0, count |-> 1, recent |-> <<0>>]
  /\ \A k \in 1..n : f[k] = Buffer!SeeByte(f[k - 1], s[k], total, limit)
  /\ \A k \in 0..n : f[k] \in Seeing
  /\ Seen(s, total, limit) = f[n]
Sliced(s, x, r) ==
  Buffer!FoldLeft(Buffer!SliceEvent, [offset |-> x, remaining |-> r, out |-> <<>>], s)
SliceRun(f, s, n, x, r) ==
  /\ f[0] = [offset |-> x, remaining |-> r, out |-> <<>>]
  /\ \A k \in 1..n : f[k] = Buffer!SliceEvent(f[k - 1], s[k])
  /\ \A k \in 0..n : f[k] \in Slicing
  /\ Sliced(s, x, r) = f[n]

LEMMA EvictsInOrder ==
  ASSUME NEW n \in Nat, NEW s, DOMAIN s = 1..n, \A k \in 1..n : s[k] \in Str,
         NEW x \in Nat
  PROVE  \E f : EvictRun(f, s, n, x)
<1> DEFINE base == [left |-> x, kept |-> <<>>]
           Body(g, S) == IF S = {} THEN base
                         ELSE Buffer!EvictEvent(g[S \ {Buffer!Max(S)}], s[Buffer!Max(S)])
           F == [p \in Evicting \X (1..n) |-> Buffer!EvictEvent(p[1], s[p[2]])]
<1>1. Evicted(s, x) = (CHOOSE g : g = [S \in SUBSET (DOMAIN s) |-> Body(g, S)])[DOMAIN s]
  BY DEF Evicted, Buffer!FoldLeft, Buffer!MapThenFoldSet
<1>2. F \in [Evicting \X (1..n) -> Evicting]
  BY EvictType
<1>3. base \in Evicting
  BY DEF Evicting
<1> HIDE DEF base
<1>4. PICK h \in [SUBSET (1..n) -> Evicting] : IsFold(h, F, base, n)
  <2> HIDE DEF F
  <2> QED
    BY <1>2, <1>3, FoldExists
<1>5. ASSUME NEW S \in SUBSET (1..n) PROVE h[S] = Body(h, S)
  <2>1. S \ {Buffer!Max(S)} \in SUBSET (1..n)
    OBVIOUS
  <2>2. S # {} => Buffer!Max(S) \in 1..n /\ h[S] = F[<<h[S \ {Buffer!Max(S)}], Buffer!Max(S)>>]
    BY <1>4 DEF IsFold
  <2>3. S = {} => h[S] = base
    BY <1>4 DEF IsFold
  <2>4. h[S \ {Buffer!Max(S)}] \in Evicting
    BY <2>1
  <2> QED
    BY <2>2, <2>3, <2>4
<1> HIDE DEF Body
<1>6. PICK it : /\ it = [S \in SUBSET (1..n) |-> Body(it, S)]
                /\ Evicted(s, x) = it[1..n]
  <2>1. h = [S \in SUBSET (DOMAIN s) |-> Body(h, S)]
    BY <1>5
  <2> QED
    BY <1>1, <2>1
<1>7. \A S \in SUBSET (1..n) : it[S] = Body(it, S)
  BY <1>6
<1> USE DEF Body
<1> DEFINE f == [k \in 0..n |-> it[1..k]]
<1>8. f[0] = base /\ f[n] = it[1..n]
  <2>1. it[{}] = base
    <3>1. {} \in SUBSET (1..n)
      OBVIOUS
    <3> QED
      BY <1>7, <3>1
  <2>2. 1..0 = {} /\ 0 \in 0..n /\ n \in 0..n
    OBVIOUS
  <2> QED
    BY <2>1, <2>2
<1>9. ASSUME NEW k \in 1..n PROVE f[k] = Buffer!EvictEvent(f[k - 1], s[k])
  <2>1. /\ 1..k \in SUBSET (1..n) /\ 1..k # {} /\ k \in 0..n /\ k - 1 \in 0..n
        /\ Buffer!Max(1..k) = k /\ (1..k) \ {k} = 1..(k - 1)
    BY Prefix
  <2>2. it[1..k] = Body(it, 1..k)
    BY <1>7, <2>1
  <2>3. f[k] = it[1..k] /\ f[k - 1] = it[1..(k - 1)]
    BY <2>1
  <2> HIDE DEF f
  <2> QED
    BY <2>1, <2>2, <2>3
<1> HIDE DEF f
<1> DEFINE T == {k \in 0..n : f[k] \in Evicting}
<1>10. 0 \in T
  <2>1. 0 \in 0..n
    OBVIOUS
  <2> QED
    BY <1>3, <1>8, <2>1
<1>11. ASSUME NEW k \in 0..n, k < n, k \in T PROVE k + 1 \in T
  <2>1. k + 1 \in 1..n /\ k + 1 \in 0..n /\ (k + 1) - 1 = k
    BY <1>11
  <2>2. f[k] \in Evicting /\ s[k + 1] \in Str
    BY <1>11, <2>1
  <2>3. f[k + 1] = Buffer!EvictEvent(f[k], s[k + 1])
    BY <1>9, <2>1
  <2>4. f[k + 1] \in Evicting
    BY <2>2, <2>3, EvictType
  <2> QED
    BY <2>1, <2>4
<1> HIDE DEF T
<1>12. \A k \in 0..n : k \in T
  BY <1>10, <1>11, CountUp
<1> QED
  BY <1>6, <1>8, <1>9, <1>12 DEF EvictRun, base, T

LEMMA SeesInOrder ==
  ASSUME NEW n \in Nat, NEW s, DOMAIN s = 1..n, \A k \in 1..n : s[k] \in Buffer!Byte,
         NEW total \in Nat, NEW limit \in Nat
  PROVE  \E f : SeeRun(f, s, n, total, limit)
<1> DEFINE base == [index |-> 0, count |-> 1, recent |-> <<0>>]
           Body(g, S) == IF S = {} THEN base
                         ELSE Buffer!SeeByte(g[S \ {Buffer!Max(S)}], s[Buffer!Max(S)], total, limit)
           F == [p \in Seeing \X (1..n) |-> Buffer!SeeByte(p[1], s[p[2]], total, limit)]
<1>1. Seen(s, total, limit) = (CHOOSE g : g = [S \in SUBSET (DOMAIN s) |-> Body(g, S)])[DOMAIN s]
  BY DEF Seen, Buffer!FoldLeft, Buffer!MapThenFoldSet
<1>2. F \in [Seeing \X (1..n) -> Seeing]
  BY SeeType
<1>3. base \in Seeing
  BY DEF Seeing
<1> HIDE DEF base
<1>4. PICK h \in [SUBSET (1..n) -> Seeing] : IsFold(h, F, base, n)
  <2> HIDE DEF F
  <2> QED
    BY <1>2, <1>3, FoldExists
<1>5. ASSUME NEW S \in SUBSET (1..n) PROVE h[S] = Body(h, S)
  <2>1. S \ {Buffer!Max(S)} \in SUBSET (1..n)
    OBVIOUS
  <2>2. S # {} => Buffer!Max(S) \in 1..n /\ h[S] = F[<<h[S \ {Buffer!Max(S)}], Buffer!Max(S)>>]
    BY <1>4 DEF IsFold
  <2>3. S = {} => h[S] = base
    BY <1>4 DEF IsFold
  <2>4. h[S \ {Buffer!Max(S)}] \in Seeing
    BY <2>1
  <2> QED
    BY <2>2, <2>3, <2>4
<1> HIDE DEF Body
<1>6. PICK it : /\ it = [S \in SUBSET (1..n) |-> Body(it, S)]
                /\ Seen(s, total, limit) = it[1..n]
  <2>1. h = [S \in SUBSET (DOMAIN s) |-> Body(h, S)]
    BY <1>5
  <2> QED
    BY <1>1, <2>1
<1>7. \A S \in SUBSET (1..n) : it[S] = Body(it, S)
  BY <1>6
<1> USE DEF Body
<1> DEFINE f == [k \in 0..n |-> it[1..k]]
<1>8. f[0] = base /\ f[n] = it[1..n]
  <2>1. it[{}] = base
    <3>1. {} \in SUBSET (1..n)
      OBVIOUS
    <3> QED
      BY <1>7, <3>1
  <2>2. 1..0 = {} /\ 0 \in 0..n /\ n \in 0..n
    OBVIOUS
  <2> QED
    BY <2>1, <2>2
<1>9. ASSUME NEW k \in 1..n PROVE f[k] = Buffer!SeeByte(f[k - 1], s[k], total, limit)
  <2>1. /\ 1..k \in SUBSET (1..n) /\ 1..k # {} /\ k \in 0..n /\ k - 1 \in 0..n
        /\ Buffer!Max(1..k) = k /\ (1..k) \ {k} = 1..(k - 1)
    BY Prefix
  <2>2. it[1..k] = Body(it, 1..k)
    BY <1>7, <2>1
  <2>3. f[k] = it[1..k] /\ f[k - 1] = it[1..(k - 1)]
    BY <2>1
  <2> HIDE DEF f
  <2> QED
    BY <2>1, <2>2, <2>3
<1> HIDE DEF f
<1> DEFINE T == {k \in 0..n : f[k] \in Seeing}
<1>10. 0 \in T
  <2>1. 0 \in 0..n
    OBVIOUS
  <2> QED
    BY <1>3, <1>8, <2>1
<1>11. ASSUME NEW k \in 0..n, k < n, k \in T PROVE k + 1 \in T
  <2>1. k + 1 \in 1..n /\ k + 1 \in 0..n /\ (k + 1) - 1 = k
    BY <1>11
  <2>2. f[k] \in Seeing /\ s[k + 1] \in Buffer!Byte
    BY <1>11, <2>1
  <2>3. f[k + 1] = Buffer!SeeByte(f[k], s[k + 1], total, limit)
    BY <1>9, <2>1
  <2>4. f[k + 1] \in Seeing
    BY <2>2, <2>3, SeeType
  <2> QED
    BY <2>1, <2>4
<1> HIDE DEF T
<1>12. \A k \in 0..n : k \in T
  BY <1>10, <1>11, CountUp
<1> QED
  BY <1>6, <1>8, <1>9, <1>12 DEF SeeRun, base, T

LEMMA SlicesInOrder ==
  ASSUME NEW n \in Nat, NEW s, DOMAIN s = 1..n, \A k \in 1..n : s[k] \in Str,
         NEW x \in Nat, NEW r \in Nat
  PROVE  \E f : SliceRun(f, s, n, x, r)
<1> DEFINE base == [offset |-> x, remaining |-> r, out |-> <<>>]
           Body(g, S) == IF S = {} THEN base
                         ELSE Buffer!SliceEvent(g[S \ {Buffer!Max(S)}], s[Buffer!Max(S)])
           F == [p \in Slicing \X (1..n) |-> Buffer!SliceEvent(p[1], s[p[2]])]
<1>1. Sliced(s, x, r) = (CHOOSE g : g = [S \in SUBSET (DOMAIN s) |-> Body(g, S)])[DOMAIN s]
  BY DEF Sliced, Buffer!FoldLeft, Buffer!MapThenFoldSet
<1>2. F \in [Slicing \X (1..n) -> Slicing]
  BY SliceType
<1>3. base \in Slicing
  BY DEF Slicing
<1> HIDE DEF base
<1>4. PICK h \in [SUBSET (1..n) -> Slicing] : IsFold(h, F, base, n)
  <2> HIDE DEF F
  <2> QED
    BY <1>2, <1>3, FoldExists
<1>5. ASSUME NEW S \in SUBSET (1..n) PROVE h[S] = Body(h, S)
  <2>1. S \ {Buffer!Max(S)} \in SUBSET (1..n)
    OBVIOUS
  <2>2. S # {} => Buffer!Max(S) \in 1..n /\ h[S] = F[<<h[S \ {Buffer!Max(S)}], Buffer!Max(S)>>]
    BY <1>4 DEF IsFold
  <2>3. S = {} => h[S] = base
    BY <1>4 DEF IsFold
  <2>4. h[S \ {Buffer!Max(S)}] \in Slicing
    BY <2>1
  <2> QED
    BY <2>2, <2>3, <2>4
<1> HIDE DEF Body
<1>6. PICK it : /\ it = [S \in SUBSET (1..n) |-> Body(it, S)]
                /\ Sliced(s, x, r) = it[1..n]
  <2>1. h = [S \in SUBSET (DOMAIN s) |-> Body(h, S)]
    BY <1>5
  <2> QED
    BY <1>1, <2>1
<1>7. \A S \in SUBSET (1..n) : it[S] = Body(it, S)
  BY <1>6
<1> USE DEF Body
<1> DEFINE f == [k \in 0..n |-> it[1..k]]
<1>8. f[0] = base /\ f[n] = it[1..n]
  <2>1. it[{}] = base
    <3>1. {} \in SUBSET (1..n)
      OBVIOUS
    <3> QED
      BY <1>7, <3>1
  <2>2. 1..0 = {} /\ 0 \in 0..n /\ n \in 0..n
    OBVIOUS
  <2> QED
    BY <2>1, <2>2
<1>9. ASSUME NEW k \in 1..n PROVE f[k] = Buffer!SliceEvent(f[k - 1], s[k])
  <2>1. /\ 1..k \in SUBSET (1..n) /\ 1..k # {} /\ k \in 0..n /\ k - 1 \in 0..n
        /\ Buffer!Max(1..k) = k /\ (1..k) \ {k} = 1..(k - 1)
    BY Prefix
  <2>2. it[1..k] = Body(it, 1..k)
    BY <1>7, <2>1
  <2>3. f[k] = it[1..k] /\ f[k - 1] = it[1..(k - 1)]
    BY <2>1
  <2> HIDE DEF f
  <2> QED
    BY <2>1, <2>2, <2>3
<1> HIDE DEF f
<1> DEFINE T == {k \in 0..n : f[k] \in Slicing}
<1>10. 0 \in T
  <2>1. 0 \in 0..n
    OBVIOUS
  <2> QED
    BY <1>3, <1>8, <2>1
<1>11. ASSUME NEW k \in 0..n, k < n, k \in T PROVE k + 1 \in T
  <2>1. k + 1 \in 1..n /\ k + 1 \in 0..n /\ (k + 1) - 1 = k
    BY <1>11
  <2>2. f[k] \in Slicing /\ s[k + 1] \in Str
    BY <1>11, <2>1
  <2>3. f[k + 1] = Buffer!SliceEvent(f[k], s[k + 1])
    BY <1>9, <2>1
  <2>4. f[k + 1] \in Slicing
    BY <2>2, <2>3, SliceType
  <2> QED
    BY <2>1, <2>4
<1> HIDE DEF T
<1>12. \A k \in 0..n : k \in T
  BY <1>10, <1>11, CountUp
<1> QED
  BY <1>6, <1>8, <1>9, <1>12 DEF SliceRun, base, T

-----------------------------------------------------------------------------
(* evict_front_bytes and push.                                             *)

Event == Str \ {<<>>}

LEMMA EventFields ==
  /\ Event \subseteq Str /\ Seq(Event) \subseteq Seq(Str)
  /\ \A e \in Event : Len(e) \in Nat /\ Len(e) > 0
<1>1. Event \subseteq Str
  BY DEF Event
<1>2. Seq(Event) \subseteq Seq(Str)
  BY <1>1
<1>3. \A e \in Event : Len(e) \in Nat /\ Len(e) > 0
  BY DEF Event, Str
<1> QED
  BY <1>1, <1>2, <1>3

\* After k events, what was to be evicted has gone from their bytes.
Evicts(f, j, x, k) ==
  LET gone == IF x <= Len(j[k]) THEN x ELSE Len(j[k])
  IN  /\ f[k].left = x - gone /\ f[k].kept \in Seq(Event)
      /\ Buffer!Bytes(f[k].kept) = Buffer!From(j[k], gone)

LEMMA EvictingOne ==
  ASSUME NEW n \in Nat, NEW evs, \A k \in 1..n : evs[k] \in Event, NEW x \in Nat,
         NEW f, EvictRun(f, evs, n, x), NEW j, JoinRun(j, evs, n),
         NEW k \in 0..n, k < n, Evicts(f, j, x, k)
  PROVE  Evicts(f, j, x, k + 1)
<1>1. k + 1 \in 1..n /\ (k + 1) - 1 = k /\ k + 1 \in 0..n
  OBVIOUS
<1>2. PICK e \in Event : e = evs[k + 1]
  BY <1>1
<1>3. PICK s \in Str, t \in Str : s = j[k] /\ t = j[k + 1] /\ t = s \o e
  <2>1. j[k] \in Str /\ j[k + 1] \in Str /\ j[k + 1] = j[k] \o e
    BY <1>1, <1>2 DEF JoinRun, Joins
  <2> QED
    BY <2>1
<1>4. e \in Str
  BY EventFields
<1>5. PICK a \in Nat, b \in Nat : a = Len(s) /\ b = Len(e) /\ b > 0
  BY <1>4, LenIsNat, EventFields
<1>6. Len(t) = a + b
  BY <1>3, <1>4, <1>5, JoinFields
<1>7. PICK l, q : l = f[k].left /\ q = f[k].kept
  OBVIOUS
<1>8. /\ l = x - (IF x <= a THEN x ELSE a) /\ q \in Seq(Event) /\ q \in Seq(Str)
      /\ Buffer!Bytes(q) = Buffer!From(s, IF x <= a THEN x ELSE a)
  BY <1>3, <1>5, <1>7, EventFields DEF Evicts
<1>9. f[k] = [left |-> l, kept |-> q]
  BY <1>7 DEF EvictRun, Evicting
<1>10. f[k + 1] = Buffer!EvictEvent(f[k], e)
  BY <1>1, <1>2 DEF EvictRun
<1>11. CASE x <= a
  <2>1. l = 0 /\ x <= a + b /\ x \in 0..Len(s)
    BY <1>5, <1>8, <1>11
  <2>2. f[k + 1].left = 0 /\ f[k + 1].kept = Append(q, e)
    BY <1>9, <1>10, <2>1 DEF Buffer!EvictEvent
  <2>3. Buffer!Bytes(Append(q, e)) = Buffer!From(s, x) \o e
    BY <1>4, <1>8, <1>11, BytesOfAppend
  <2>4. Buffer!From(t, x) = Buffer!From(s, x) \o e
    BY <1>3, <1>4, <2>1, CutFirst
  <2>5. Append(q, e) \in Seq(Event)
    BY <1>8
  <2> QED
    BY <1>3, <1>6, <2>1, <2>2, <2>3, <2>4, <2>5 DEF Evicts
<1>12. CASE ~(x <= a) /\ x - a >= b
  <2>1. l = x - a /\ l # 0 /\ b <= l /\ (x <= a + b => x = a + b)
    BY <1>5, <1>8, <1>12
  <2>2. f[k + 1].left = l - b /\ f[k + 1].kept = q
    BY <1>5, <1>9, <1>10, <2>1 DEF Buffer!EvictEvent
  <2>3. Buffer!Bytes(q) = <<>>
    BY <1>3, <1>5, <1>8, <1>12, FromAll
  <2>4. Buffer!From(t, Len(t)) = <<>>
    BY <1>3, FromAll
  <2>5. l - b = x - (a + b)
    BY <1>5, <2>1
  <2> QED
    BY <1>3, <1>6, <1>8, <2>1, <2>2, <2>3, <2>4, <2>5 DEF Evicts
<1>13. CASE ~(x <= a) /\ ~(x - a >= b)
  <2>1. /\ l = x - a /\ l # 0 /\ ~(b <= l) /\ x <= a + b /\ x - x = 0
        /\ l \in 0..Len(e) /\ x = Len(s) + l
    BY <1>5, <1>8, <1>13
  <2>2. f[k + 1].left = 0 /\ f[k + 1].kept = q \o <<Buffer!From(e, l)>>
    <3>1. f[k + 1] = [left |-> 0, kept |-> q \o Buffer!trimmed(e, l)]
      BY <1>5, <1>7, <1>10, <2>1 DEF Buffer!EvictEvent
    <3> QED
      BY <3>1 DEF Buffer!trimmed
  <2>3. Buffer!From(e, l) \in Str /\ Len(Buffer!From(e, l)) = Len(e) - l
    BY <1>4, <2>1, FromFields
  <2>4. PICK r \in Event : r = Buffer!From(e, l)
    <3>1. Len(Buffer!From(e, l)) # 0
      BY <1>5, <2>1, <2>3
    <3>2. Buffer!From(e, l) # <<>>
      BY <3>1
    <3> QED
      BY <2>3, <3>2 DEF Event
  <2>5. Append(q, r) = q \o <<r>> /\ Append(q, r) \in Seq(Event)
    BY <1>8, AppendIsConcat
  <2>6. r \in Str
    BY EventFields
  <2>7. Buffer!Bytes(Append(q, r)) = Buffer!Bytes(q) \o r
    BY <1>8, <2>6, BytesOfAppend
  <2>8. Buffer!Bytes(q) = <<>>
    BY <1>3, <1>5, <1>8, <1>13, FromAll
  <2>9. <<>> \o r = r
    BY <2>6, ConcatEmptySeq DEF Str
  <2>10. Buffer!From(t, x) = r
    <3>1. Buffer!From(s \o e, Len(s) + l) = Buffer!From(e, l)
      BY <1>4, <2>1, CutSecond
    <3> QED
      BY <1>3, <2>1, <2>4, <3>1
  <2> QED
    BY <1>3, <1>6, <2>1, <2>2, <2>4, <2>5, <2>7, <2>8, <2>9, <2>10 DEF Evicts
<1> QED
  BY <1>11, <1>12, <1>13

\* The first x bytes are evicted, wherever they end.
LEMMA EvictionCuts ==
  ASSUME NEW evs \in Seq(Event), NEW x \in Nat, x <= Len(Buffer!Bytes(evs))
  PROVE  /\ Buffer!evict_front_bytes(evs, x) \in Seq(Event)
         /\ Buffer!Bytes(Buffer!evict_front_bytes(evs, x)) = Buffer!From(Buffer!Bytes(evs), x)
<1>1. PICK n \in Nat : n = Len(evs) /\ DOMAIN evs = 1..n /\ \A k \in 1..n : evs[k] \in Event
  OBVIOUS
<1>2. evs \in Seq(Str) /\ \A k \in 1..n : evs[k] \in Str
  BY <1>1, EventFields
<1>3. PICK j : JoinRun(j, evs, n)
  BY <1>1, <1>2, JoinsInOrder
<1>4. PICK f : EvictRun(f, evs, n, x)
  BY <1>1, <1>2, EvictsInOrder
<1> DEFINE T == {k \in 0..n : Evicts(f, j, x, k)}
<1>5. 0 \in T
  <2>1. f[0].left = x /\ f[0].kept = <<>> /\ j[0] = <<>> /\ Len(<<>>) = 0
    BY <1>3, <1>4 DEF EvictRun, JoinRun, Joins
  <2>2. <<>> \in Str /\ <<>> \in Seq(Event) /\ Buffer!Bytes(<<>>) = <<>>
    BY DEF Str, Buffer!Bytes, Buffer!FlattenSeq
  <2>3. Buffer!From(<<>>, 0) = <<>> /\ x - 0 = x
    BY <2>2, FromAll
  <2>4. (IF x <= 0 THEN x ELSE 0) = 0
    OBVIOUS
  <2>5. Evicts(f, j, x, 0)
    BY <2>1, <2>2, <2>3, <2>4 DEF Evicts
  <2>6. 0 \in 0..n
    BY <1>1
  <2> QED
    BY <2>5, <2>6
<1>6. ASSUME NEW k \in 0..n, k < n, k \in T PROVE k + 1 \in T
  <2>1. k + 1 \in 0..n
    BY <1>1, <1>6
  <2>2. Evicts(f, j, x, k + 1)
    BY <1>1, <1>3, <1>4, <1>6, EvictingOne
  <2> QED
    BY <2>1, <2>2
<1> HIDE DEF T
<1>7. \A k \in 0..n : k \in T
  BY <1>1, <1>5, <1>6, CountUp
<1>8. n \in 0..n
  BY <1>1
<1>9. Evicts(f, j, x, n) /\ Buffer!Bytes(evs) = j[n]
  BY <1>3, <1>7, <1>8 DEF T, JoinRun
<1>10. Buffer!evict_front_bytes(evs, x) = f[n].kept
  <2>1. Buffer!evict_front_bytes(evs, x) = Evicted(evs, x).kept
    BY DEF Buffer!evict_front_bytes, Evicted
  <2> QED
    BY <1>4, <2>1 DEF EvictRun
<1> QED
  BY <1>9, <1>10 DEF Evicts

BufferInv ==
  /\ events \in Seq(Event) /\ newest \in Str /\ Buffer!Bytes(events) = newest
  /\ total_bytes = Len(newest) /\ Len(newest) <= MaxBytes

\* A read leaves the newest bytes in the buffer, whatever its length.
LEMMA PushKeepsNewest ==
  ASSUME BufferInv, Buffer!Next
  PROVE  BufferInv'
<1>1. PICK read \in Buffer!Reads : Buffer!Push(read)
  BY DEF Buffer!Next
<1>2. read \in Str /\ Len(read) \in Nat /\ Len(read) > 0
  BY <1>1, BufferAssumption DEF Buffer!Reads, Str
<1>3. PICK a \in Nat, b \in Nat, m \in Nat :
        /\ a = Len(newest) /\ b = Len(read) /\ m = MaxBytes /\ m > 0 /\ b > 0 /\ a <= m
        /\ total_bytes = a
  BY <1>2, BufferAssumption, LenIsNat DEF BufferInv
<1>4. PICK event \in Event, c \in Nat :
        /\ event = IF Len(read) > MaxBytes THEN Buffer!From(read, Len(read) - MaxBytes) ELSE read
        /\ c = Len(event) /\ c = (IF b > m THEN m ELSE b)
  <2>1. CASE b > m
    <3>1. b - m \in 0..Len(read) /\ b - (b - m) = m
      BY <1>3, <2>1
    <3>2. /\ Buffer!From(read, b - m) \in Str
          /\ Len(Buffer!From(read, b - m)) = Len(read) - (b - m)
      BY <1>2, <3>1, FromFields
    <3>3. Buffer!From(read, b - m) # <<>>
      BY <1>3, <3>1, <3>2
    <3> QED
      BY <1>3, <2>1, <3>1, <3>2, <3>3 DEF Event
  <2>2. CASE ~(b > m)
    <3>1. read # <<>>
      BY <1>2
    <3> QED
      BY <1>2, <1>3, <2>2, <3>1 DEF Event
  <2> QED
    BY <2>1, <2>2
<1>5. PICK over \in Nat : over = (IF a + c > m THEN a + c - m ELSE 0) /\ over <= a + c
  <2>1. CASE a + c > m
    <3>1. a + c - m \in Nat /\ a + c - m <= a + c
      BY <1>3, <1>4, <2>1
    <3> QED
      BY <2>1, <3>1, Zenon
  <2>2. CASE ~(a + c > m)
    <3>1. 0 \in Nat /\ 0 <= a + c
      BY <1>3, <1>4
    <3> QED
      BY <2>2, <3>1, Zenon
  <2> QED
    BY <2>1, <2>2
<1>6. /\ events' = Buffer!evict_front_bytes(Append(events, event), over)
      /\ total_bytes' = a + c - over
      /\ newest' = IF Len(newest \o read) > MaxBytes
                   THEN Buffer!From(newest \o read, Len(newest \o read) - MaxBytes)
                   ELSE newest \o read
  <2>1. LET total == total_bytes + Len(event)
            spill == IF total > MaxBytes THEN total - MaxBytes ELSE 0
        IN  /\ events' = Buffer!evict_front_bytes(Append(events, event), spill)
            /\ total_bytes' = total - spill
    BY <1>1, <1>4 DEF Buffer!Push
  <2>2. total_bytes + Len(event) = a + c /\ m = MaxBytes
    BY <1>3, <1>4
  <2>3. newest' = IF Len(newest \o read) > MaxBytes
                  THEN Buffer!From(newest \o read, Len(newest \o read) - MaxBytes)
                  ELSE newest \o read
    BY <1>1 DEF Buffer!Push
  <2> QED
    BY <1>5, <2>1, <2>2, <2>3
<1>7. newest \in Str /\ events \in Seq(Event) /\ events \in Seq(Str) /\ event \in Str
      /\ Buffer!Bytes(events) = newest
  BY EventFields DEF BufferInv
<1>8. PICK q \in Seq(Event) : q = Append(events, event) /\ Buffer!Bytes(q) = newest \o event
  <2>1. Append(events, event) \in Seq(Event)
    BY <1>7
  <2>2. Buffer!Bytes(Append(events, event)) = newest \o event
    BY <1>7, BytesOfAppend
  <2> QED
    BY <2>1, <2>2
<1>9. newest \o event \in Str /\ Len(newest \o event) = a + c
  BY <1>3, <1>4, <1>7, JoinFields
<1>10. /\ events' \in Seq(Event)
       /\ Buffer!Bytes(events') = Buffer!From(newest \o event, over)
  <2>1. over <= Len(Buffer!Bytes(q))
    BY <1>5, <1>8, <1>9
  <2>2. /\ Buffer!evict_front_bytes(q, over) \in Seq(Event)
        /\ Buffer!Bytes(Buffer!evict_front_bytes(q, over)) = Buffer!From(Buffer!Bytes(q), over)
    BY <2>1, EvictionCuts
  <2> QED
    BY <1>6, <1>8, <2>2
<1>11. newest \o read \in Str /\ Len(newest \o read) = a + b
  BY <1>2, <1>3, <1>7, JoinFields
<1>12. newest' = Buffer!From(newest \o event, over)
  <2>1. CASE b > m
    <3>1. /\ c = m /\ over = a /\ a + b > m /\ a + b - m = a + (b - m)
          /\ b - m \in 0..Len(read) /\ a = Len(newest) + 0 /\ 0 \in 0..Len(event)
      BY <1>3, <1>4, <1>5, <2>1
    <3>2. newest' = Buffer!From(newest \o read, Len(newest) + (b - m))
      BY <1>3, <1>6, <1>11, <3>1
    <3>3. newest' = Buffer!From(read, b - m)
      BY <1>2, <1>7, <3>1, <3>2, CutSecond
    <3>4. event = Buffer!From(read, b - m)
      BY <1>3, <1>4, <2>1
    <3>5. Buffer!From(newest \o event, Len(newest) + 0) = Buffer!From(event, 0)
      BY <1>7, <3>1, CutSecond
    <3>6. Buffer!From(event, 0) = event
      BY <1>7, FromAll
    <3> QED
      BY <3>1, <3>3, <3>4, <3>5, <3>6
  <2>2. CASE ~(b > m)
    <3>1. c = b /\ event = read
      BY <1>3, <1>4, <2>2
    <3>2. CASE a + b > m
      BY <1>3, <1>5, <1>6, <1>11, <3>1, <3>2
    <3>3. CASE ~(a + b > m)
      <4>1. over = 0 /\ newest' = newest \o event
        BY <1>3, <1>5, <1>6, <1>11, <3>1, <3>3
      <4> QED
        BY <1>9, <4>1, FromAll
    <3> QED
      BY <3>2, <3>3
  <2> QED
    BY <2>1, <2>2
<1>13. newest' \in Str /\ Len(newest') = a + c - over
  <2>1. PICK w \in Str : w = newest \o event /\ Len(w) = a + c
    BY <1>9
  <2>2. over \in 0..Len(w)
    BY <1>5, <2>1
  <2>3. Buffer!From(w, over) \in Str /\ Len(Buffer!From(w, over)) = Len(w) - over
    BY <2>1, <2>2, FromFields
  <2> QED
    BY <1>12, <2>1, <2>3
<1>14. a + c - over <= MaxBytes
  BY <1>3, <1>4, <1>5
<1>15. /\ events' \in Seq(Event) /\ newest' \in Str /\ Buffer!Bytes(events') = newest'
       /\ total_bytes' = Len(newest') /\ Len(newest') <= MaxBytes
  BY <1>6, <1>10, <1>12, <1>13, <1>14
<1> QED
  BY <1>15 DEF BufferInv, Event, Str, Buffer!Byte, Buffer!Bytes, Buffer!FlattenSeq

-----------------------------------------------------------------------------
(* slice_events_from_offset.                                               *)

\* The bytes of more events are no fewer.
LEMMA JoinGrows ==
  ASSUME NEW n \in Nat, NEW evs, \A k \in 1..n : evs[k] \in Str, NEW j, JoinRun(j, evs, n)
  PROVE  \A k \in 0..n : Len(j[k]) \in Nat /\ Len(j[k]) <= Len(j[n])
<1> DEFINE T == {m \in 0..n : \A k \in 0..m : Len(j[k]) <= Len(j[m])}
<1>1. \A k \in 0..n : j[k] \in Str /\ Len(j[k]) \in Nat
  BY LenIsNat DEF JoinRun
<1>2. 0 \in T
  <2>1. 0 \in 0..n /\ \A k \in 0..0 : k = 0
    OBVIOUS
  <2>2. Len(j[0]) \in Nat
    BY <1>1, <2>1
  <2>3. Len(j[0]) <= Len(j[0])
    BY <2>2
  <2> QED
    BY <2>1, <2>3
<1>3. ASSUME NEW m \in 0..n, m < n, m \in T PROVE m + 1 \in T
  <2>1. m + 1 \in 1..n /\ m + 1 \in 0..n /\ (m + 1) - 1 = m /\ m \in Nat
    BY <1>3
  <2>2. j[m + 1] = j[m] \o evs[m + 1]
    BY <2>1 DEF JoinRun, Joins
  <2>3. PICK a \in Nat, b \in Nat : a = Len(j[m]) /\ b = Len(evs[m + 1])
    BY <1>1, <2>1, LenIsNat
  <2>4. Len(j[m + 1]) = a + b
    BY <1>1, <2>1, <2>2, <2>3, JoinFields
  <2>5. ASSUME NEW k \in 0..(m + 1) PROVE Len(j[k]) <= Len(j[m + 1])
    <3>1. CASE k = m + 1
      <4>1. Len(j[k]) = a + b
        BY <2>4, <3>1
      <4> QED
        BY <2>3, <2>4, <4>1
    <3>2. CASE k # m + 1
      <4>1. k \in 0..m /\ k \in 0..n
        BY <2>1, <3>2
      <4>2. Len(j[k]) <= Len(j[m]) /\ Len(j[k]) \in Nat
        BY <1>1, <1>3, <4>1
      <4>3. PICK c \in Nat : c = Len(j[k])
        BY <4>2
      <4>4. c <= a
        BY <2>3, <4>2, <4>3
      <4>5. c <= a + b
        BY <4>4
      <4> QED
        BY <2>4, <4>3, <4>5
    <3> QED
      BY <3>1, <3>2
  <2> QED
    BY <2>1, <2>5
<1> HIDE DEF T
<1>4. \A m \in 0..n : m \in T
  BY <1>2, <1>3, CountUp
<1>5. n \in 0..n
  OBVIOUS
<1>6. n \in T
  BY <1>4, <1>5
<1> QED
  BY <1>1, <1>6 DEF T

\* After k events, what was to be skipped has gone from their bytes, and the
\* rest of them has been taken.
Slices(f, j, x, total, k) ==
  LET p == Len(j[k])
      skipped == IF x <= p THEN x ELSE p
  IN  /\ f[k].out \in Seq(Str) /\ Buffer!Bytes(f[k].out) = Buffer!From(j[k], skipped)
      /\ f[k].remaining = (total - x) - (p - skipped)
      /\ f[k].remaining # 0 => f[k].offset = x - skipped

LEMMA SliceStep ==
  ASSUME NEW n \in Nat, NEW evs, \A k \in 1..n : evs[k] \in Event,
         NEW x \in Nat, NEW total \in Nat, x <= total,
         NEW f, SliceRun(f, evs, n, x, total - x), NEW j, JoinRun(j, evs, n), total = Len(j[n]),
         NEW k \in 0..n, k < n, Slices(f, j, x, total, k)
  PROVE  Slices(f, j, x, total, k + 1)
<1>1. k + 1 \in 1..n /\ (k + 1) - 1 = k /\ k + 1 \in 0..n
  OBVIOUS
<1>2. PICK e \in Event : e = evs[k + 1]
  BY <1>1
<1>3. PICK s \in Str, t \in Str : s = j[k] /\ t = j[k + 1] /\ t = s \o e
  <2>1. j[k] \in Str /\ j[k + 1] \in Str /\ j[k + 1] = j[k] \o e
    BY <1>1, <1>2 DEF JoinRun, Joins
  <2> QED
    BY <2>1
<1>4. e \in Str
  BY EventFields
<1>5. PICK p \in Nat, b \in Nat : p = Len(s) /\ b = Len(e) /\ b > 0
  BY <1>4, LenIsNat, EventFields
<1>6. Len(t) = p + b
  BY <1>3, <1>4, <1>5, JoinFields
<1>7. p + b <= total
  <2>1. \A i \in 1..n : evs[i] \in Str
    BY EventFields
  <2>2. \A i \in 0..n : Len(j[i]) <= Len(j[n])
    BY <2>1, JoinGrows
  <2> QED
    BY <1>1, <1>3, <1>6, <2>2
<1>8. PICK o \in Nat, r \in Nat, q \in Seq(Str), y \in Nat :
        /\ f[k] = [offset |-> o, remaining |-> r, out |-> q]
        /\ y = (IF x <= p THEN x ELSE p)
  <2>1. f[k] \in Slicing
    BY DEF SliceRun
  <2>2. PICK o \in Nat, r \in Nat, q \in Seq(Str) :
          f[k] = [offset |-> o, remaining |-> r, out |-> q]
    BY <2>1 DEF Slicing
  <2>3. (IF x <= p THEN x ELSE p) \in Nat
    BY <1>5
  <2> QED
    BY <2>2, <2>3, Zenon
<1>9. /\ Buffer!Bytes(q) = Buffer!From(s, y)
      /\ r = (total - x) - (p - y) /\ (r # 0 => o = x - y)
  <2>1. /\ f[k].out = q /\ f[k].remaining = r /\ f[k].offset = o /\ Len(j[k]) = p
        /\ (IF x <= Len(j[k]) THEN x ELSE Len(j[k])) = y
    BY <1>3, <1>5, <1>8
  <2> QED
    BY <1>3, <2>1 DEF Slices
<1>sums. /\ b > 0 /\ p + b <= total
         /\ r = (total - x) - (p - y) /\ (r # 0 => o = x - y)
         /\ (x <= p /\ y = x) \/ (p < x /\ y = p)
  <2>1. (x <= p /\ y = x) \/ (p < x /\ y = p)
    <3>1. y = (IF x <= p THEN x ELSE p)
      BY <1>8
    <3> QED
      BY <3>1
  <2> QED
    BY <1>5, <1>7, <1>9, <2>1
<1>10. ASSUME NEW z, z = (IF x <= p + b THEN x ELSE p + b), NEW q2 \in Seq(Str), NEW r2, NEW o2,
              f[k + 1] = [offset |-> o2, remaining |-> r2, out |-> q2],
              Buffer!Bytes(q2) = Buffer!From(t, z), r2 = (total - x) - ((p + b) - z),
              r2 # 0 => o2 = x - z
       PROVE  Slices(f, j, x, total, k + 1)
  <2>1. /\ f[k + 1].out = q2 /\ f[k + 1].remaining = r2 /\ f[k + 1].offset = o2
        /\ Len(j[k + 1]) = p + b
    BY <1>3, <1>6, <1>10
  <2> QED
    BY <1>3, <1>10, <2>1 DEF Slices
<1>11. f[k + 1] = Buffer!SliceEvent(f[k], e)
  BY <1>1, <1>2 DEF SliceRun
<1>12. Buffer!From(s, p) = <<>> /\ Buffer!From(t, p + b) = <<>>
  BY <1>3, <1>5, <1>6, FromAll
<1>13. CASE r = 0
  <2>1. x = total /\ p + b <= x /\ y = p /\ (IF x <= p + b THEN x ELSE p + b) = p + b
    BY <1>sums, <1>13
  <2>2. f[k + 1] = [offset |-> o, remaining |-> r, out |-> q]
    BY <1>8, <1>11, <1>13 DEF Buffer!SliceEvent
  <2>3. Buffer!Bytes(q) = Buffer!From(t, p + b)
    BY <1>9, <1>12, <2>1
  <2>4. r = (total - x) - ((p + b) - (p + b))
    BY <1>13, <2>1
  <2>5. q \in Seq(Str)
    BY <1>8
  <2> QED
    BY <1>13, <1>10, <2>1, <2>2, <2>3, <2>4, <2>5
<1>14. CASE r # 0 /\ o >= b
  <2>1. p + b <= x /\ y = p /\ (IF x <= p + b THEN x ELSE p + b) = p + b
    BY <1>sums, <1>14
  <2>2. f[k + 1] = [offset |-> o - b, remaining |-> r, out |-> q]
    BY SMTT(30), <1>5, <1>8, <1>11, <1>14 DEF Buffer!SliceEvent
  <2>3. Buffer!Bytes(q) = Buffer!From(t, p + b)
    BY <1>9, <1>12, <2>1
  <2>4. r = (total - x) - ((p + b) - (p + b)) /\ o - b = x - (p + b)
    BY <1>sums, <1>14, <2>1
  <2>5. q \in Seq(Str)
    BY <1>8
  <2> QED
    BY <1>10, <2>1, <2>2, <2>3, <2>4, <2>5
<1>15. CASE r # 0 /\ ~(o >= b)
  <2>1. /\ o \in 0..b /\ b - o \in Nat /\ b - o <= r
        /\ (IF x <= p + b THEN x ELSE p + b) = x
    BY <1>sums, <1>15
  <2>2. PICK rest \in Str : rest = Buffer!From(e, o) /\ Len(rest) = b - o
    <3>1. o \in 0..Len(e)
      BY <1>5, <2>1
    <3>2. Buffer!From(e, o) \in Str /\ Len(Buffer!From(e, o)) = Len(e) - o
      BY <1>4, <3>1, FromFields
    <3> QED
      BY <1>5, <3>2
  <2>3. PICK take \in Nat : /\ take = (IF Len(rest) < r THEN Len(rest) ELSE r)
                            /\ take = b - o /\ take = Len(rest)
    <3>1. PICK d \in Nat : d = b - o
      BY <2>1
    <3>2. (IF d < r THEN d ELSE r) = d
      BY <2>1, <3>1
    <3> QED
      BY <2>2, <3>1, <3>2
  <2>4. SubSeq(rest, 1, take) = rest
    BY <2>2, <2>3, SubSeqFull DEF Str
  <2>5. f[k + 1] = [offset |-> 0, remaining |-> r - take, out |-> Append(q, rest)]
    <3>1. f[k].offset = o /\ f[k].remaining = r /\ f[k].out = q
      BY <1>8
    <3>2. Buffer!SliceEvent(f[k], e) =
            [offset |-> 0, remaining |-> r - take, out |-> Append(q, SubSeq(rest, 1, take))]
      BY <1>5, <1>15, <2>2, <2>3, <3>1 DEF Buffer!SliceEvent
    <3> QED
      BY <1>11, <2>4, <3>2
  <2>6. q \in Seq(Str) /\ rest \in Str
    BY <1>8, <2>2
  <2>7. Buffer!Bytes(Append(q, rest)) = Buffer!Bytes(q) \o rest
    BY <2>6, BytesOfAppend
  <2>8. r - take = (total - x) - ((p + b) - x) /\ 0 = x - x
    <3>1. take = b - o
      BY <2>3
    <3>2. r = (total - x) - (p - y) /\ o = x - y
      BY <1>sums, <1>15
    <3> QED
      BY <3>1, <3>2
  <2>9. Buffer!Bytes(q) \o rest = Buffer!From(t, x)
    <3>1. CASE x <= p
      <4>1. o = 0 /\ x \in 0..Len(s) /\ y = x
        <5>1. o = 0 /\ x \in 0..p /\ y = x
          BY <1>sums, <1>15, <3>1
        <5> QED
          BY <1>5, <5>1
      <4>2. rest = e
        BY <1>4, <2>2, <4>1, FromAll
      <4>3. Buffer!From(s \o e, x) = Buffer!From(s, x) \o e
        BY <1>4, <4>1, CutFirst
      <4> QED
        BY <1>3, <1>9, <4>1, <4>2, <4>3
    <3>2. CASE ~(x <= p)
      <4>1. x = Len(s) + o /\ y = p /\ o \in 0..Len(e)
        <5>1. x = p + o /\ y = p
          BY <1>sums, <1>15, <3>2
        <5> QED
          BY <1>5, <2>1, <5>1
      <4>2. Buffer!From(s \o e, Len(s) + o) = Buffer!From(e, o)
        BY <1>4, <4>1, CutSecond
      <4>3. <<>> \o rest = rest
        BY <2>2, ConcatEmptySeq DEF Str
      <4>4. Buffer!From(t, x) = rest
        BY <1>3, <2>2, <4>1, <4>2
      <4> QED
        BY <1>9, <1>12, <4>1, <4>3, <4>4
    <3> QED
      BY <3>1, <3>2
  <2>10. Append(q, rest) \in Seq(Str) /\ Buffer!Bytes(Append(q, rest)) = Buffer!From(t, x)
    BY <2>6, <2>7, <2>9
  <2> QED
    BY <1>10, <2>1, <2>5, <2>8, <2>10
<1> QED
  BY <1>13, <1>14, <1>15

LEMMA SliceCuts ==
  ASSUME NEW evs \in Seq(Event), NEW total \in Nat, total = Len(Buffer!Bytes(evs)),
         NEW x \in 0..total
  PROVE  Buffer!Bytes(Buffer!slice_events(evs, x, total - x)) = Buffer!From(Buffer!Bytes(evs), x)
<1>1. PICK n \in Nat : n = Len(evs) /\ DOMAIN evs = 1..n /\ \A k \in 1..n : evs[k] \in Event
  OBVIOUS
<1>2. evs \in Seq(Str) /\ \A k \in 1..n : evs[k] \in Str
  BY <1>1, EventFields
<1>3. x \in Nat /\ x <= total /\ total - x \in Nat
  OBVIOUS
<1>4. PICK j : JoinRun(j, evs, n)
  BY <1>1, <1>2, JoinsInOrder
<1>5. PICK f : SliceRun(f, evs, n, x, total - x)
  BY <1>1, <1>2, <1>3, SlicesInOrder
<1>6. total = Len(j[n]) /\ Buffer!Bytes(evs) = j[n]
  BY <1>4 DEF JoinRun
<1> DEFINE T == {k \in 0..n : Slices(f, j, x, total, k)}
<1>7. 0 \in T
  <2>1. /\ f[0].offset = x /\ f[0].remaining = total - x /\ f[0].out = <<>>
        /\ j[0] = <<>> /\ Len(<<>>) = 0
    BY <1>4, <1>5 DEF SliceRun, JoinRun, Joins
  <2>2. <<>> \in Str /\ <<>> \in Seq(Str) /\ Buffer!Bytes(<<>>) = <<>>
    BY DEF Str, Buffer!Bytes, Buffer!FlattenSeq
  <2>3. Buffer!From(<<>>, 0) = <<>> /\ x - 0 = x /\ (total - x) - (0 - 0) = total - x
    BY <1>3, <2>2, FromAll
  <2>4. (IF x <= 0 THEN x ELSE 0) = 0
    BY <1>3
  <2>5. Slices(f, j, x, total, 0)
    BY <2>1, <2>2, <2>3, <2>4 DEF Slices
  <2>6. 0 \in 0..n
    BY <1>1
  <2> QED
    BY <2>5, <2>6
<1>8. ASSUME NEW k \in 0..n, k < n, k \in T PROVE k + 1 \in T
  <2>1. k + 1 \in 0..n
    BY <1>1, <1>8
  <2>2. Slices(f, j, x, total, k + 1)
    BY <1>1, <1>3, <1>4, <1>5, <1>6, <1>8, SliceStep
  <2> QED
    BY <2>1, <2>2
<1> HIDE DEF T
<1>9. \A k \in 0..n : k \in T
  BY <1>1, <1>7, <1>8, CountUp
<1>10. n \in 0..n
  BY <1>1
<1>11. Slices(f, j, x, total, n)
  BY <1>9, <1>10 DEF T
<1>12. Buffer!slice_events(evs, x, total - x) = f[n].out
  <2>1. Buffer!slice_events(evs, x, total - x) = Sliced(evs, x, total - x).out
    BY DEF Buffer!slice_events, Sliced
  <2> QED
    BY <1>5, <2>1 DEF SliceRun
<1> QED
  BY <1>3, <1>6, <1>11, <1>12 DEF Slices

-----------------------------------------------------------------------------
(* compute_tail_start_offset_by_lines.                                     *)

\* Where the lines of the first k bytes begin; the newest of such places, in
\* order.
Starts(s, k, total) == {0} \cup {i \in 1..k : s[i] = "\n" /\ i < total}
Newest(q, L) ==
  /\ L \subseteq Nat /\ q \in Seq(Nat) /\ Len(q) > 0
  /\ \A i, j \in 1..Len(q) : i < j => q[i] < q[j]
  /\ \A i \in 1..Len(q) : q[i] \in L
  /\ \A y \in L : (\E i \in 1..Len(q) : q[i] = y) \/ y < q[1]

LEMMA NewestAppend ==
  ASSUME NEW q, NEW L, Newest(q, L), NEW x \in Nat, \A y \in L : y \in Nat /\ y < x
  PROVE  Newest(Append(q, x), L \cup {x}) /\ Len(Append(q, x)) = Len(q) + 1
<1>1. PICK l \in Nat : l = Len(q)
  BY DEF Newest
<1>2. l > 0 /\ q \in Seq(Nat)
  BY <1>1 DEF Newest
<1>3. /\ \A i, j \in 1..l : i < j => q[i] < q[j]
      /\ \A i \in 1..l : q[i] \in L
      /\ \A y \in L : (\E i \in 1..l : q[i] = y) \/ y < q[1]
  BY <1>1 DEF Newest
<1>4. PICK p \in Seq(Nat) : /\ p = Append(q, x) /\ Len(p) = l + 1
                            /\ p[l + 1] = x /\ \A i \in 1..l : p[i] = q[i]
  <2>1. /\ Append(q, x) \in Seq(Nat) /\ Len(Append(q, x)) = l + 1
        /\ Append(q, x)[l + 1] = x /\ \A i \in 1..l : Append(q, x)[i] = q[i]
    BY <1>1, <1>2, AppendProperties
  <2> QED
    BY <2>1, Zenon
<1>5. ASSUME NEW i \in 1..(l + 1), NEW j \in 1..(l + 1), i < j PROVE p[i] < p[j]
  <2>1. i \in 1..l
    BY <1>5
  <2>2. CASE j = l + 1
    <3>1. p[j] = x /\ p[i] = q[i] /\ q[i] \in L
      BY <1>3, <1>4, <2>1, <2>2
    <3> QED
      BY <3>1
  <2>3. CASE j # l + 1
    <3>1. j \in 1..l
      BY <2>3
    <3>2. p[i] = q[i] /\ p[j] = q[j]
      BY <1>4, <2>1, <3>1
    <3> QED
      BY <1>3, <1>5, <2>1, <3>1, <3>2
  <2> QED
    BY <2>2, <2>3
<1>6. ASSUME NEW i \in 1..(l + 1) PROVE p[i] \in L \cup {x}
  <2>1. i \in 1..l \/ i = l + 1
    OBVIOUS
  <2> QED
    BY <1>3, <1>4, <2>1
<1>7. 1 \in 1..l /\ l + 1 \in 1..(l + 1) /\ \A i \in 1..l : i \in 1..(l + 1)
  BY <1>2
<1>8. p[1] = q[1]
  BY <1>4, <1>7
<1>9. ASSUME NEW y \in L \cup {x} PROVE (\E i \in 1..(l + 1) : p[i] = y) \/ y < p[1]
  <2>1. CASE y \in L
    BY <1>3, <1>4, <1>7, <1>8, <2>1
  <2>2. CASE y = x
    BY <1>4, <1>7, <2>2
  <2> QED
    BY <2>1, <2>2
<1>10. l + 1 > 0
  OBVIOUS
<1> QED
  BY <1>1, <1>4, <1>5, <1>6, <1>9, <1>10 DEF Newest

LEMMA NewestTail ==
  ASSUME NEW q, NEW L, Newest(q, L), Len(q) > 1
  PROVE  Newest(Tail(q), L) /\ Len(Tail(q)) = Len(q) - 1
<1>1. PICK l \in Nat : l = Len(q)
  BY DEF Newest
<1>2. l > 1 /\ q \in Seq(Nat) /\ q # <<>>
  BY <1>1 DEF Newest
<1>3. /\ \A i, j \in 1..l : i < j => q[i] < q[j]
      /\ \A i \in 1..l : q[i] \in L
      /\ \A y \in L : (\E i \in 1..l : q[i] = y) \/ y < q[1]
  BY <1>1 DEF Newest
<1>4. PICK m \in Nat : m = l - 1 /\ m > 0
  <2>1. l - 1 \in Nat /\ l - 1 > 0
    BY <1>2
  <2> QED
    BY <2>1, Zenon
<1>5. PICK p \in Seq(Nat) : p = Tail(q) /\ Len(p) = m /\ \A i \in 1..m : p[i] = q[i + 1]
  <2>1. /\ Tail(q) \in Seq(Nat) /\ Len(Tail(q)) = Len(q) - 1
        /\ \A i \in 1..Len(Tail(q)) : Tail(q)[i] = q[i + 1]
    BY <1>2, HeadTailProperties
  <2> QED
    BY <1>1, <1>4, <2>1
<1>6. \A i \in 1..m : i + 1 \in 1..l
  BY <1>4
<1>7. ASSUME NEW i \in 1..m, NEW j \in 1..m, i < j PROVE p[i] < p[j]
  <2>1. i + 1 < j + 1
    BY <1>7
  <2> QED
    BY <1>3, <1>5, <1>6, <2>1
<1>8. \A i \in 1..m : p[i] \in L
  BY <1>3, <1>5, <1>6
<1>9. ASSUME NEW y \in L PROVE (\E i \in 1..m : p[i] = y) \/ y < p[1]
  <2>1. 1 \in 1..l /\ 2 \in 1..l /\ 1 \in 1..m /\ 1 + 1 = 2
    BY <1>2, <1>4
  <2>2. p[1] = q[2] /\ q[1] < q[2]
    BY <1>3, <1>5, <2>1
  <2>3. q[1] \in Nat /\ q[2] \in Nat
    BY <1>1, <1>2, <2>1
  <2>4. CASE \E i \in 1..l : q[i] = y
    <3>1. PICK i \in 1..l : q[i] = y
      BY <2>4
    <3>2. CASE i = 1
      BY <2>2, <3>1, <3>2
    <3>3. CASE i # 1
      <4>1. i - 1 \in 1..m /\ (i - 1) + 1 = i
        BY <1>4, <3>3
      <4> QED
        BY <1>5, <3>1, <4>1
    <3> QED
      BY <3>2, <3>3
  <2>5. CASE y < q[1]
    <3>1. y \in Nat
      BY DEF Newest
    <3> QED
      BY <2>2, <2>3, <2>5, <3>1
  <2> QED
    BY <1>3, <2>4, <2>5
<1> QED
  BY <1>1, <1>4, <1>5, <1>7, <1>8, <1>9 DEF Newest

\* The instance counts as this module does.
LEMMA SameCount == \A S : Buffer!Cardinality(S) = Cardinality(S)
  BY DEF Buffer!Cardinality, Cardinality

LEMMA CountUpTo ==
  ASSUME NEW k \in Nat
  PROVE  IsFiniteSet(0..k) /\ Cardinality(0..k) = k + 1
<1>1. PICK l \in Int, h \in Int : l = 0 /\ h = k
  OBVIOUS
<1>2. IsFiniteSet(l..h) /\ Cardinality(l..h) = IF l > h THEN 0 ELSE h - l + 1
  BY FS_Interval
<1> QED
  BY <1>1, <1>2

\* The places found so far are among the bytes seen; one byte adds at most one.
LEMMA StartsGrow ==
  ASSUME NEW s, NEW total \in Nat, NEW k \in Nat
  PROVE  /\ Starts(s, k, total) \subseteq 0..k /\ IsFiniteSet(Starts(s, k, total))
         /\ Cardinality(Starts(s, k, total)) \in Nat
         /\ Starts(s, k + 1, total) =
              IF s[k + 1] = "\n" /\ k + 1 < total
              THEN Starts(s, k, total) \cup {k + 1} ELSE Starts(s, k, total)
<1>1. Starts(s, k, total) \subseteq 0..k
  BY DEF Starts
<1>2. IsFiniteSet(Starts(s, k, total)) /\ Cardinality(Starts(s, k, total)) \in Nat
  BY <1>1, CountUpTo, FS_Subset, FS_CardinalityType
<1>3. \A i : i \in 1..(k + 1) <=> i \in 1..k \/ i = k + 1
  OBVIOUS
<1> QED
  BY <1>1, <1>2, <1>3 DEF Starts

\* After k bytes, the scan knows how many lines began and where the last did.
Sees(f, s, total, limit, k) ==
  LET count == Cardinality(Starts(s, k, total))
  IN  /\ f[k].index = k /\ f[k].count = count
      /\ Newest(f[k].recent, Starts(s, k, total))
      /\ Len(f[k].recent) = IF count <= limit THEN count ELSE limit

LEMMA SeeStep ==
  ASSUME NEW s, NEW total \in Nat, NEW limit \in Nat, limit > 0, NEW n \in Nat,
         NEW f, SeeRun(f, s, n, total, limit),
         NEW k \in 0..n, k < n, Sees(f, s, total, limit, k)
  PROVE  Sees(f, s, total, limit, k + 1)
<1>1. k \in Nat /\ k + 1 \in 1..n /\ (k + 1) - 1 = k
  OBVIOUS
<1>2. PICK L, M : L = Starts(s, k, total) /\ M = Starts(s, k + 1, total)
  OBVIOUS
<1>3. /\ L \subseteq 0..k /\ IsFiniteSet(L)
      /\ M = IF s[k + 1] = "\n" /\ k + 1 < total THEN L \cup {k + 1} ELSE L
  BY <1>1, <1>2, StartsGrow
<1>4. PICK c \in Nat : c = Cardinality(L)
  BY <1>1, <1>2, StartsGrow
<1>5. PICK q : q = f[k].recent /\ Newest(q, L)
  BY <1>2 DEF Sees
<1>6. PICK l \in Nat : l = Len(q) /\ q \in Seq(Nat)
  BY <1>5 DEF Newest
<1>7. f[k].index = k /\ f[k].count = c /\ l = IF c <= limit THEN c ELSE limit
  BY <1>2, <1>4, <1>5, <1>6 DEF Sees
<1>8. f[k + 1] = Buffer!SeeByte(f[k], s[k + 1], total, limit)
  BY <1>1 DEF SeeRun
<1>9. ASSUME NEW c2, c2 = Cardinality(M), f[k + 1].index = k + 1, f[k + 1].count = c2,
             Newest(f[k + 1].recent, M),
             Len(f[k + 1].recent) = IF c2 <= limit THEN c2 ELSE limit
      PROVE  Sees(f, s, total, limit, k + 1)
  BY <1>2, <1>9 DEF Sees
<1>10. CASE s[k + 1] = "\n" /\ k + 1 < total
  <2>1. M = L \cup {k + 1} /\ k + 1 \notin L /\ \A y \in L : y \in Nat /\ y < k + 1
    BY <1>1, <1>3, <1>10
  <2>2. Cardinality(M) = c + 1
    BY <1>3, <1>4, <2>1, FS_AddElement
  <2>3. PICK p : p = Append(q, k + 1) /\ Newest(p, M) /\ Len(p) = l + 1
    <3>1. k + 1 \in Nat
      BY <1>1
    <3>2. Newest(Append(q, k + 1), L \cup {k + 1}) /\ Len(Append(q, k + 1)) = Len(q) + 1
      BY <1>5, <2>1, <3>1, NewestAppend
    <3> QED
      BY <1>6, <2>1, <3>2
  <2>4. /\ f[k + 1].index = k + 1 /\ f[k + 1].count = c + 1
        /\ f[k + 1].recent = IF Len(p) > limit THEN Tail(p) ELSE p
    BY <1>5, <1>7, <1>8, <1>10, <2>3 DEF Buffer!SeeByte, Buffer!begins_line
  <2>5. CASE l + 1 > limit
    <3>1. Len(p) > limit /\ Len(p) > 1
      BY <2>3, <2>5
    <3>2. Newest(Tail(p), M) /\ Len(Tail(p)) = Len(p) - 1
      BY <2>3, <3>1, NewestTail
    <3>3. (l + 1) - 1 = IF c + 1 <= limit THEN c + 1 ELSE limit
      BY <1>7, <2>5
    <3> QED
      BY <1>9, <2>2, <2>3, <2>4, <3>1, <3>2, <3>3
  <2>6. CASE ~(l + 1 > limit)
    <3>1. ~(Len(p) > limit)
      BY <2>3, <2>6
    <3>2. l + 1 = IF c + 1 <= limit THEN c + 1 ELSE limit
      BY <1>7, <2>6
    <3> QED
      BY <1>9, <2>2, <2>3, <2>4, <3>1, <3>2
  <2> QED
    BY <2>5, <2>6
<1>11. CASE ~(s[k + 1] = "\n" /\ k + 1 < total)
  <2>1. M = L
    BY <1>3, <1>11
  <2>2. /\ f[k + 1].index = k + 1 /\ f[k + 1].count = c
        /\ f[k + 1].recent = IF Len(q) > limit THEN Tail(q) ELSE q
    BY <1>5, <1>7, <1>8, <1>11 DEF Buffer!SeeByte, Buffer!begins_line
  <2>3. ~(l > limit)
    BY <1>7
  <2>4. f[k + 1].recent = q
    BY <1>6, <2>2, <2>3
  <2> QED
    BY <1>4, <1>5, <1>6, <1>7, <1>9, <2>1, <2>2, <2>4
<1> QED
  BY <1>10, <1>11

LEMMA SeesAll ==
  ASSUME NEW s \in Str, NEW total \in Nat, NEW limit \in Nat, limit > 0, NEW n \in Nat,
         n = Len(s), NEW f, SeeRun(f, s, n, total, limit)
  PROVE  Sees(f, s, total, limit, n)
<1> DEFINE T == {k \in 0..n : Sees(f, s, total, limit, k)}
<1>1. 0 \in T
  <2>1. f[0].index = 0 /\ f[0].count = 1 /\ f[0].recent = <<0>>
    BY DEF SeeRun
  <2>2. Starts(s, 0, total) = {0}
    BY DEF Starts
  <2>3. Cardinality({0}) = 1
    BY FS_Singleton
  <2>4. Len(<<0>>) = 1 /\ <<0>> \in Seq(Nat) /\ <<0>>[1] = 0
    OBVIOUS
  <2>5. Newest(<<0>>, {0})
    BY <2>4 DEF Newest
  <2>6. 1 = IF 1 <= limit THEN 1 ELSE limit
    OBVIOUS
  <2>7. Sees(f, s, total, limit, 0)
    BY <2>1, <2>2, <2>3, <2>4, <2>5, <2>6 DEF Sees
  <2>8. 0 \in 0..n
    OBVIOUS
  <2> QED
    BY <2>7, <2>8
<1>2. ASSUME NEW k \in 0..n, k < n, k \in T PROVE k + 1 \in T
  <2>1. k + 1 \in 0..n
    BY <1>2
  <2>2. Sees(f, s, total, limit, k + 1)
    BY <1>2, SeeStep
  <2> QED
    BY <2>1, <2>2
<1> HIDE DEF T
<1>3. \A k \in 0..n : k \in T
  BY <1>1, <1>2, CountUp
<1>4. n \in 0..n
  OBVIOUS
<1> QED
  BY <1>3, <1>4 DEF T

\* The newest places number as many as are not before the first of them.
LEMMA NewestCount ==
  ASSUME NEW q, NEW L, Newest(q, L), IsFiniteSet(L), NEW z \in L
  PROVE  /\ q[1] \in L
         /\ Cardinality({y \in L : y >= q[1]}) = Len(q)
         /\ z < q[1] => Cardinality({y \in L : y >= z}) > Len(q)
<1>1. PICK l \in Nat : l = Len(q) /\ l > 0 /\ 1 \in 1..l
  BY DEF Newest
<1>2. /\ \A i, j \in 1..l : i < j => q[i] < q[j]
      /\ \A i \in 1..l : q[i] \in L /\ q[i] \in Nat
      /\ \A y \in L : (\E i \in 1..l : q[i] = y) \/ y < q[1]
      /\ \A y \in L : y \in Nat
  BY <1>1 DEF Newest
<1>3. PICK D \in SUBSET L : D = {y \in L : y >= q[1]}
  OBVIOUS
<1>4. ASSUME NEW i \in 1..l PROVE q[i] \in D
  <2>1. i = 1 \/ q[1] < q[i]
    BY <1>1, <1>2
  <2> QED
    BY <1>1, <1>2, <1>3, <2>1
<1>5. ASSUME NEW y \in D PROVE \E i \in 1..l : q[i] = y
  <2>1. y \in L /\ y >= q[1] /\ y \in Nat /\ q[1] \in Nat
    BY <1>1, <1>2, <1>3
  <2>2. ~(y < q[1])
    BY <2>1
  <2> QED
    BY <1>2, <2>1, <2>2
<1>6. \A i, j \in 1..l : q[i] = q[j] => i = j
  <2> SUFFICES ASSUME NEW i \in 1..l, NEW j \in 1..l, q[i] = q[j], i # j PROVE FALSE
    OBVIOUS
  <2>1. i < j \/ j < i
    OBVIOUS
  <2>2. q[i] < q[j] \/ q[j] < q[i]
    BY <1>2, <2>1
  <2> QED
    BY <1>2, <2>2
<1> DEFINE at == [i \in 1..l |-> q[i]]
<1>7. at \in [1..l -> D] /\ \A i \in 1..l : at[i] = q[i]
  BY <1>4
<1> HIDE DEF at
<1>8. at \in Bijection(1..l, D)
  BY <1>5, <1>6, <1>7 DEF Bijection, Injection, Surjection, IsInjective
<1>9. IsFiniteSet(1..l) /\ Cardinality(1..l) = l
  <2>1. PICK a \in Int, h \in Int : a = 1 /\ h = l
    OBVIOUS
  <2>2. IsFiniteSet(a..h) /\ Cardinality(a..h) = IF a > h THEN 0 ELSE h - a + 1
    BY FS_Interval
  <2> QED
    BY <1>1, <2>1, <2>2
<1>10. IsFiniteSet(D) /\ Cardinality(D) = l
  <2>1. ExistsBijection(1..l, D)
    BY <1>8 DEF ExistsBijection
  <2> QED
    BY <1>9, <2>1, FS_Bijection
<1>11. ASSUME z < q[1] PROVE Cardinality({y \in L : y >= z}) > l
  <2>1. PICK E \in SUBSET L : E = {y \in L : y >= z}
    OBVIOUS
  <2>2. z \in Nat /\ q[1] \in Nat
    BY <1>1, <1>2
  <2>3. z \in E /\ z \notin D /\ D \in SUBSET E
    <3>1. z >= z /\ ~(z >= q[1])
      BY <1>11, <2>2
    <3>2. ASSUME NEW y \in D PROVE y \in E
      <4>1. y \in L /\ y \in Nat /\ y >= q[1]
        BY <1>2, <1>3
      <4>2. y >= z
        BY <1>11, <2>2, <4>1
      <4> QED
        BY <2>1, <4>1, <4>2
    <3> QED
      BY <1>3, <2>1, <3>1, <3>2
  <2>4. IsFiniteSet(E)
    BY FS_Subset
  <2>5. Cardinality(E) \in Nat /\ Cardinality(D) <= Cardinality(E)
        /\ (Cardinality(E) = Cardinality(D) => E = D)
    BY <2>3, <2>4, FS_Subset, FS_CardinalityType
  <2>6. Cardinality(E) > l
    BY <1>10, <2>3, <2>5
  <2> QED
    BY <2>1, <2>6
<1> QED
  BY <1>1, <1>2, <1>3, <1>10, <1>11

\* Where the last n lines begin is the least place with no more than n from it.
LEMMA LeastPlace ==
  ASSUME NEW first, NEW p \in first, \A y \in first : y \in Nat /\ p <= y
  PROVE  (CHOOSE y \in first : \A z \in first : y <= z) = p
<1> DEFINE c == CHOOSE y \in first : \A z \in first : y <= z
<1>1. c \in first /\ \A z \in first : c <= z
  OBVIOUS
<1>2. c <= p /\ p <= c /\ c \in Nat /\ p \in Nat
  BY <1>1
<1> HIDE DEF c
<1>3. c = p
  BY <1>2
<1> QED
  BY <1>3 DEF c

LineOf(s, n) ==
  LET starts == Buffer!LineStarts(s)
      first == {p \in starts : Buffer!Cardinality({q \in starts : q >= p}) <= n}
  IN  CHOOSE p \in first : \A q \in first : p <= q

LEMMA TailStart ==
  ASSUME NEW evs, NEW total, NEW n
  PROVE  Buffer!compute_tail_start_offset(evs, total, n) =
           LET limit == IF n < total + 1 THEN n ELSE total + 1
               scan == Seen(Buffer!Bytes(evs), total, limit)
           IN  IF n = 0 \/ total = 0 THEN total
               ELSE IF scan.count <= n THEN 0 ELSE Head(scan.recent)
  BY DEF Buffer!compute_tail_start_offset, Seen

LEMMA TailStartsAtLine ==
  ASSUME NEW evs, NEW s \in Str, s = Buffer!Bytes(evs), NEW total \in Nat, total = Len(s),
         NEW n \in Nat, n > 0, total > 0
  PROVE  LET start == Buffer!compute_tail_start_offset(evs, total, n)
         IN  start \in 0..total /\ start = LineOf(s, n)
<1> DEFINE L == Buffer!LineStarts(s)
           first == {p \in L : Buffer!Cardinality({y \in L : y >= p}) <= n}
           start == Buffer!compute_tail_start_offset(evs, total, n)
<1>1. PICK limit \in Nat : limit = (IF n < total + 1 THEN n ELSE total + 1) /\ limit > 0
  <2>1. (IF n < total + 1 THEN n ELSE total + 1) \in Nat
        /\ (IF n < total + 1 THEN n ELSE total + 1) > 0
    OBVIOUS
  <2> QED
    BY <2>1, Zenon
<1>2. DOMAIN s = 1..total /\ \A k \in 1..total : s[k] \in Buffer!Byte
  BY DEF Str
<1>3. PICK f : SeeRun(f, s, total, total, limit)
  BY <1>1, <1>2, SeesInOrder
<1>4. Sees(f, s, total, limit, total)
  BY <1>1, <1>3, SeesAll
<1>5. L = Starts(s, total, total)
  BY DEF Starts, Buffer!LineStarts
<1>6. L \subseteq 0..(total - 1) /\ 0 \in L /\ \A y \in L : y \in Nat
  BY DEF Buffer!LineStarts
<1>7. PICK c \in Nat : c = Cardinality(L) /\ c <= total /\ IsFiniteSet(L)
  <2>1. PICK h \in Nat : h = total - 1
    BY Zenon, SMT
  <2>2. IsFiniteSet(0..h) /\ Cardinality(0..h) = h + 1
    BY CountUpTo
  <2>3. L \in SUBSET (0..h)
    BY <1>6, <2>1
  <2>4. IsFiniteSet(L) /\ Cardinality(L) <= Cardinality(0..h)
    BY <2>2, <2>3, FS_Subset
  <2>5. Cardinality(L) \in Nat
    BY <2>4, FS_CardinalityType
  <2>6. Cardinality(L) <= total
    BY <2>1, <2>2, <2>4, <2>5
  <2> QED
    BY <2>4, <2>5, <2>6
<1>8. PICK q : q = f[total].recent /\ Newest(q, L)
  BY <1>4, <1>5 DEF Sees
<1>9. f[total].count = c /\ Len(q) = IF c <= limit THEN c ELSE limit
  BY <1>4, <1>5, <1>7, <1>8 DEF Sees
<1>10. start = IF c <= n THEN 0 ELSE q[1]
  <2>1. start = IF Seen(s, total, limit).count <= n THEN 0 ELSE Head(Seen(s, total, limit).recent)
    BY <1>1, TailStart
  <2>2. Seen(s, total, limit) = f[total]
    BY <1>3 DEF SeeRun
  <2>3. Head(q) = q[1]
    OBVIOUS
  <2> QED
    BY <1>8, <1>9, <2>1, <2>2, <2>3
<1> HIDE DEF L, start
<1>11. first = {p \in L : Cardinality({y \in L : y >= p}) <= n}
  BY SameCount
<1>12. start \in first /\ \A y \in first : y \in Nat /\ start <= y
  <2>1. \A y \in first : y \in L /\ y \in Nat
    BY <1>6
  <2>2. CASE c <= n
    <3>1. start = 0
      BY <1>10, <2>2
    <3>2. {y \in L : y >= 0} = L
      <4>1. \A y \in L : y >= 0
        BY <1>6
      <4> QED
        BY <4>1
    <3>3. 0 \in first
      BY <1>6, <1>7, <1>11, <2>2, <3>2
    <3> HIDE DEF first
    <3> QED
      BY <2>1, <3>1, <3>3
  <2>3. CASE ~(c <= n)
    <3>1. n < total + 1 /\ c > n /\ n <= c
      BY <1>7, <2>3
    <3>2. limit = n
      BY <1>1, <3>1
    <3>3. Len(q) = n
      BY <1>9, <3>1, <3>2
    <3>4. start = q[1]
      BY <1>10, <2>3
    <3>5. q[1] \in L /\ Cardinality({y \in L : y >= q[1]}) = n
      BY <1>6, <1>7, <1>8, <3>3, NewestCount
    <3>6. q[1] \in first
      <4>1. Cardinality({y \in L : y >= q[1]}) <= n
        BY <3>5
      <4> QED
        BY <1>11, <3>5, <4>1
    <3>7. ASSUME NEW y \in first PROVE q[1] <= y
      <4>1. y \in L /\ Cardinality({z \in L : z >= y}) <= n
        BY <1>11
      <4>2. y \in Nat /\ q[1] \in Nat
        BY <1>6, <3>5, <4>1
      <4>3. IsFiniteSet({z \in L : z >= y}) /\ Cardinality({z \in L : z >= y}) \in Nat
        <5>1. PICK E \in SUBSET L : E = {z \in L : z >= y}
          OBVIOUS
        <5>2. IsFiniteSet(E)
          BY <1>7, FS_Subset
        <5> QED
          BY <5>1, <5>2, FS_CardinalityType
      <4>4. ~(y < q[1])
        <5> SUFFICES ASSUME y < q[1] PROVE FALSE
          OBVIOUS
        <5>1. Cardinality({z \in L : z >= y}) > n
          BY <1>7, <1>8, <3>3, <4>1, NewestCount
        <5> QED
          BY <4>1, <4>3, <5>1
      <4> QED
        BY <4>2, <4>4
    <3> HIDE DEF first
    <3> QED
      BY <2>1, <3>4, <3>6, <3>7
  <2> QED
    BY <2>2, <2>3
<1>13. start \in 0..total
  <2>1. start \in L
    BY <1>12
  <2> QED
    BY <1>6, <2>1
<1>14. start = CHOOSE p \in first : \A y \in first : p <= y
  <2> HIDE DEF first
  <2> QED
    BY <1>12, LeastPlace
<1>15. start = LineOf(s, n)
  BY <1>14 DEF LineOf, L
<1> QED
  BY <1>13, <1>15 DEF start

LEMMA BufferInvTails == BufferInv => TailIsNewestLines
<1> SUFFICES ASSUME BufferInv PROVE TailIsNewestLines
  OBVIOUS
<1>1. PICK s \in Str, total \in Nat :
        s = newest /\ s = Buffer!Bytes(events) /\ total = Len(s) /\ total = total_bytes
  BY LenIsNat DEF BufferInv
<1>2. events \in Seq(Event)
  BY DEF BufferInv
<1>3. Buffer!KeepsNewestBytes
  <2>1. <<>> \notin Buffer!Range(events)
    BY <1>2 DEF Buffer!Range, Event
  <2> QED
    BY <1>1, <2>1 DEF Buffer!KeepsNewestBytes
<1>4. ASSUME NEW x \in 0..total
      PROVE  Buffer!Bytes(Buffer!slice_events(events, x, total - x)) = Buffer!From(s, x)
  BY <1>1, <1>2, SliceCuts
<1>5. ASSUME NEW n \in 0..(MaxBytes + 1)
      PROVE  Buffer!Bytes(Buffer!tail_snapshot(n)) =
               IF n = 0 \/ newest = <<>> THEN <<>>
               ELSE LET starts == Buffer!LineStarts(newest)
                        first == {p \in starts :
                                    Buffer!Cardinality({q \in starts : q >= p}) <= n}
                    IN  Buffer!From(newest, CHOOSE p \in first : \A q \in first : p <= q)
  <2>1. PICK start : start = Buffer!compute_tail_start_offset(events, total, n)
    OBVIOUS
  <2>2. Buffer!tail_snapshot(n) = Buffer!slice_events(events, start, total - start)
    BY <1>1, <2>1 DEF Buffer!tail_snapshot
  <2>3. CASE n = 0 \/ newest = <<>>
    <3>1. n = 0 \/ total = 0
      <4>1. newest = <<>> => Len(newest) = 0
        OBVIOUS
      <4> QED
        BY <1>1, <2>3, <4>1
    <3>2. start = total /\ total \in 0..total
      BY <2>1, <3>1, TailStart
    <3>3. Buffer!From(s, total) = <<>>
      BY <1>1, FromAll
    <3> QED
      BY <1>4, <2>2, <2>3, <3>2, <3>3
  <2>4. CASE ~(n = 0 \/ newest = <<>>)
    <3>1. n \in Nat /\ n > 0
      BY <2>4, BufferAssumption
    <3>2. total > 0
      <4>1. s \in Seq(Buffer!Byte) /\ s # <<>>
        BY <1>1, <2>4 DEF Str
      <4>2. Len(s) # 0
        BY <4>1
      <4> QED
        BY <1>1, <4>2
    <3>3. start \in 0..total /\ start = LineOf(s, n)
      BY <1>1, <2>1, <3>1, <3>2, TailStartsAtLine
    <3>4. Buffer!Bytes(Buffer!tail_snapshot(n)) = Buffer!From(s, start)
      BY <1>4, <2>2, <3>3
    <3> QED
      BY <1>1, <2>4, <3>3, <3>4 DEF LineOf
  <2> QED
    BY <2>3, <2>4
<1>6. Buffer!TailIsLastLines
  BY <1>5 DEF Buffer!TailIsLastLines
<1> QED
  BY <1>3, <1>6 DEF TailIsNewestLines

\* However the reads of the drains cut a service's output, its buffer holds
\* exactly the newest bytes, at most runner_log_buffer_bytes of them, and
\* --tail n gets the last n lines of those, for every n up to one more than
\* there can be.
THEOREM TailsAreNewest == MCSpec => []TailIsNewestLines
<1>1. MCInit => BufferInv
  <2>1. <<>> \in Seq(Event) /\ <<>> \in Str /\ Len(<<>>) = 0 /\ Buffer!Bytes(<<>>) = <<>>
    BY DEF Str, Buffer!Bytes, Buffer!FlattenSeq
  <2>2. 0 <= MaxBytes
    BY BufferAssumption
  <2> QED
    BY <2>1, <2>2 DEF MCInit, Buffer!Init, BufferInv
<1>2. BufferInv /\ [PipelineNext \/ BufferNext \/ RetainedNext]_
                     <<subject, vars, bufferVars, retainedVars>> => BufferInv'
  <2> SUFFICES ASSUME BufferInv,
                      \/ PipelineNext \/ BufferNext \/ RetainedNext
                      \/ UNCHANGED <<subject, vars, bufferVars, retainedVars>>
               PROVE  BufferInv'
    OBVIOUS
  <2>1. CASE Buffer!Next
    BY <2>1, PushKeepsNewest
  <2>2. CASE UNCHANGED bufferVars
    BY <2>2 DEF bufferVars, BufferInv, Event, Str, Buffer!Byte, Buffer!Bytes, Buffer!FlattenSeq
  <2> QED
    BY <2>1, <2>2 DEF PipelineNext, BufferNext, RetainedNext
<1> QED
  BY <1>1, <1>2, BufferInvTails, PTL DEF MCSpec
=============================================================================
