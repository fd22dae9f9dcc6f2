---------------------------- MODULE OdlInitProofs ----------------------------
(***************************************************************************)
(* Proofs about OdlInit, for every set of failures: both ranks end on the  *)
(* same path, and bring-up leaves nothing behind that the rounds could     *)
(* take for theirs.                                                        *)
(*                                                                         *)
(* A rank that has failed or died no longer shows how far it got.  What is *)
(* known of it is what its peer, if that goes on, can still find: tokens   *)
(* on the socket and messages on the stream.                               *)
(***************************************************************************)
EXTENDS OdlInit, SequenceTheorems, TLAPS

Early == {"open", "listen", "accept", "connect", "write1", "read1", "check", "ping"}
Through == {"thread", "ready", "sent", "nothread"}   \* the second barrier
Past == {"write2", "read2"} \cup Through             \* the self-test
Late == {"read2"} \cup Through                       \* wrote its second token
States == Early \cup {"pong"} \cup Past \cup {"failed", "dead"}

Messages == {<< >>, <<"ping">>, <<"round">>, <<"ping", "round">>}
Pinged(m)  == m \in {<<"ping">>, <<"ping", "round">>}
Rounded(m) == m \in {<<"round">>, <<"ping", "round">>}

\* Tokens that a rank has written, and that it has read, by its position.
Written(s) ==
  CASE s \in Late -> 2
    [] s \in {"read1", "check", "ping", "pong", "write2"} -> 1
    [] OTHER -> 0
Read(s) ==
  CASE s \in Through -> 2
    [] s \in {"check", "ping", "pong", "write2", "read2"} -> 1
    [] OTHER -> 0

\* Tokens that a rank at s has written at most.  It fails after its second only
\* because its peer, at u, is dead.
AtMost(s, u) ==
  CASE s = "dead" -> 2
    [] s = "failed" -> IF u = "dead" THEN 2 ELSE 1
    [] OTHER -> Written(s)

\* What is true of a rank at s and its peer at u with n tokens and the messages
\* m from the one to the other.  The tokens add up.
Counted(s, u, n) ==
  /\ n + Read(u) <= AtMost(s, u)
  /\ s \notin {"failed", "dead"} /\ u \notin {"failed", "dead"} => n + Read(u) = Written(s)

\* One ping, then at most one round, and neither before its time.
Streamed(s, u, m) ==
  /\ m \in Messages
  /\ s \in Early => m = << >>
  /\ Rounded(m) => s \in {"sent", "dead"} /\ u \in Late \cup {"failed", "dead"}
  /\ u \in Past => s \notin Early /\ ~Pinged(m)

\* A rank gets through the second barrier only with its peer.
Together(s, u) == s \in Through => u \in Late \cup {"dead"}

Agree(s, u, n, m) == Counted(s, u, n) /\ Streamed(s, u, m) /\ Together(s, u)

Flags ==
  /\ opened \in [Ranks -> BOOLEAN]
  /\ listening \in BOOLEAN /\ connected \in BOOLEAN /\ differ \in BOOLEAN

Shape ==
  /\ pc \in [Ranks -> States]
  /\ tcp \in [Ranks -> Nat] /\ stream \in [Ranks -> Messages]
  /\ Flags

IInv == Shape /\ \A r \in Ranks : Agree(pc[r], pc[Peer(r)], tcp[r], stream[r])

-----------------------------------------------------------------------------
(* Both directions between a rank at s and its peer at u *)

Both(s, u, n, m, k, l) == Agree(s, u, n, m) /\ Agree(u, s, k, l)

LEMMA Positions ==
  ASSUME NEW s \in States
  PROVE  Written(s) \in Nat /\ Read(s) \in Nat /\ \A u : AtMost(s, u) \in 0..2
BY DEF Written, Read, AtMost

\* The rank goes on from s to t, or fails or dies, with nothing sent or received.
Quiet(s, t, u) ==
  \/ s \in {"open", "listen", "accept", "connect"}
       /\ t \in {"listen", "accept", "connect", "write1"}
  \/ s = "check" /\ t = "ping"
  \/ s = "thread" /\ t \in {"ready", "nothread"}
  \/ s \in Early \cup {"pong"} /\ t = "failed"
  \/ s \in {"write2", "read2"} /\ u = "dead" /\ t = "failed"
  \/ t = "dead"

LEMMA Moves ==
  ASSUME NEW s \in States, NEW t \in States, NEW u \in States, NEW n \in Nat, NEW k \in Nat,
         NEW m \in Messages, NEW l \in Messages, Both(s, u, n, m, k, l), Quiet(s, t, u)
  PROVE  Both(t, u, n, m, k, l)
<1> USE DEF Quiet, Both, Agree, Early, Through, Past, Late, States
<1>1. Counted(t, u, n) /\ Counted(u, t, k)
  BY DEF Counted, AtMost, Written, Read
<1>2. Streamed(t, u, m) /\ Streamed(u, t, l)
  BY DEF Streamed
<1>3. Together(t, u) /\ Together(u, t)
  BY DEF Together
<1> QED
  BY <1>1, <1>2, <1>3

LEMMA Writes ==
  ASSUME NEW s \in States, NEW t \in States, NEW u \in States, NEW n \in Nat, NEW k \in Nat,
         NEW m \in Messages, NEW l \in Messages, Both(s, u, n, m, k, l),
         <<s, t>> \in {<<"write1", "read1">>, <<"write2", "read2">>}
  PROVE  Both(t, u, n + 1, m, k, l)
<1> USE DEF Both, Agree, Early, Through, Past, Late, States
<1>1. Counted(t, u, n + 1) /\ Counted(u, t, k)
  BY DEF Counted, AtMost, Written, Read
<1>2. Streamed(t, u, m) /\ Streamed(u, t, l)
  BY DEF Streamed
<1>3. Together(t, u) /\ Together(u, t)
  BY DEF Together
<1> QED
  BY <1>1, <1>2, <1>3

\* The second token is there only if the peer has come as far.
LEMMA Reads ==
  ASSUME NEW s \in States, NEW t \in States, NEW u \in States, NEW n \in Nat, NEW k \in Nat,
         NEW m \in Messages, NEW l \in Messages, Both(s, u, n, m, k, l), k > 0,
         <<s, t>> \in {<<"read1", "check">>, <<"read2", "thread">>}
  PROVE  Both(t, u, n, m, k - 1, l)
<1> USE DEF Both, Agree, Early, Through, Past, Late, States
<1>1. Counted(t, u, n) /\ Counted(u, t, k - 1)
  BY DEF Counted, AtMost, Written, Read
<1>2. Streamed(t, u, m) /\ Streamed(u, t, l)
  BY DEF Streamed
<1>3. Together(t, u) /\ Together(u, t)
  BY DEF Together, Counted, AtMost, Written, Read
<1> QED
  BY <1>1, <1>2, <1>3

\* The messages, told apart by their lengths and members.
LEMMA Tuples ==
  /\ Append(<< >>, "ping") = <<"ping">>
  /\ Append(<< >>, "round") = <<"round">>
  /\ Append(<<"ping">>, "round") = <<"ping", "round">>
  /\ Tail(<<"ping">>) = << >> /\ Tail(<<"round">>) = << >>
  /\ Tail(<<"ping", "round">>) = <<"round">>
  /\ <<"round">> # <<"ping">> /\ <<"round">> # <<"ping", "round">>
  /\ <<"ping">> # <<"ping", "round">>
  /\ << >> \notin {<<"ping">>, <<"round">>, <<"ping", "round">>}
<1>1. Append(<< >>, "ping") = <<"ping">>
  OBVIOUS
<1>2. Append(<< >>, "round") = <<"round">>
  OBVIOUS
<1>3. Append(<<"ping">>, "round") = <<"ping", "round">>
  <2> DEFINE S == {"ping", "round"}
             a == Append(<<"ping">>, "round")
             b == <<"ping", "round">>
  <2>1. a \in Seq(S) /\ b \in Seq(S) /\ Len(a) = 2 /\ Len(b) = 2
    OBVIOUS
  <2>2. a[1] = b[1] /\ a[2] = b[2]
    OBVIOUS
  <2>3. \A i \in 1..Len(a) : a[i] = b[i]
    BY <2>1, <2>2
  <2> HIDE DEF S, a, b
  <2>4. a = b
    BY <2>1, <2>3, SeqEqual
  <2> QED
    BY <2>4 DEF a, b
<1>4. Tail(<<"ping">>) = << >>
  OBVIOUS
<1>5. Tail(<<"round">>) = << >>
  OBVIOUS
<1>6. Tail(<<"ping", "round">>) = <<"round">>
  OBVIOUS
<1>7. <<"round">> # <<"ping">>
  OBVIOUS
<1>8. <<"round">> # <<"ping", "round">>
  OBVIOUS
<1>9. <<"ping">> # <<"ping", "round">>
  OBVIOUS
<1>10. << >> \notin {<<"ping">>, <<"round">>, <<"ping", "round">>}
  OBVIOUS
<1> QED
  BY <1>1, <1>2, <1>3, <1>4, <1>5, <1>6, <1>7, <1>8, <1>9, <1>10

\* A ping, and later a round, goes out, or is dropped.
LEMMA Sends ==
  ASSUME NEW s \in States, NEW t \in States, NEW u \in States, NEW n \in Nat, NEW k \in Nat,
         NEW m \in Messages, NEW l \in Messages, NEW x, Both(s, u, n, m, k, l),
         <<s, t, x>> \in {<<"ping", "pong", "ping">>, <<"ready", "sent", "round">>}
  PROVE  Both(t, u, n, m, k, l) /\ Both(t, u, n, Append(m, x), k, l)
<1> USE DEF Both, Agree, Early, Through, Past, Late, States
<1>1. Counted(t, u, n) /\ Counted(u, t, k)
  BY DEF Counted, AtMost, Written, Read
<1>2. Streamed(t, u, m) /\ Streamed(u, t, l)
  BY DEF Streamed
<1>3. Together(t, u) /\ Together(u, t)
  BY DEF Together
<1>4. Streamed(t, u, Append(m, x))
  <2>1. CASE s = "ping" /\ t = "pong" /\ x = "ping"
    <3>1. m = << >> /\ u \notin Past
      BY <2>1 DEF Streamed
    <3>2. Append(m, x) = <<"ping">>
      BY <2>1, <3>1, Tuples
    <3>3. Append(m, x) \in Messages /\ ~Rounded(Append(m, x))
      BY <3>2, Tuples DEF Messages, Rounded
    <3> QED
      BY <2>1, <3>1, <3>3 DEF Streamed
  <2>2. CASE s = "ready" /\ t = "sent" /\ x = "round"
    <3>1. m \in {<< >>, <<"ping">>}
      BY <2>2 DEF Streamed, Messages, Rounded
    <3>2. Append(m, x) \in {<<"round">>, <<"ping", "round">>}
      BY <2>2, <3>1, Tuples
    <3>3. Pinged(Append(m, x)) => Pinged(m)
      BY <2>2, <3>1, Tuples DEF Pinged
    <3>4. u \in Late \cup {"dead"}
      BY <2>2 DEF Together
    <3>5. ~(t \in Early) /\ ~(s \in Early)
      BY <2>2
    <3>6. Append(m, x) \in Messages
      BY <3>2 DEF Messages
    <3>7. u \in Past => ~Pinged(m)
      BY DEF Streamed
    <3> QED
      BY <2>2, <3>3, <3>4, <3>5, <3>6, <3>7 DEF Streamed
  <2> QED
    BY <2>1, <2>2
<1>5. Both(t, u, n, m, k, l)
  BY <1>1, <1>2, <1>3
<1>6. Both(t, u, n, Append(m, x), k, l)
  BY <1>1, <1>2, <1>3, <1>4
<1> QED
  BY <1>5, <1>6

\* The next message goes, lost or received.
LEMMA Goes ==
  ASSUME NEW s \in States, NEW u \in States, NEW m \in Messages, m # << >>, Streamed(s, u, m)
  PROVE  Streamed(s, u, Tail(m)) /\ (Rounded(Tail(m)) => Rounded(m)) /\ ~Pinged(Tail(m))
<1>1. Tail(m) = (IF m = <<"ping", "round">> THEN <<"round">> ELSE << >>)
  BY Tuples DEF Messages
<1>3. Tail(m) \in Messages /\ ~Pinged(Tail(m))
  BY <1>1, Tuples DEF Messages, Pinged
<1>4. Rounded(Tail(m)) => Rounded(m)
  BY <1>1, Tuples DEF Rounded
<1>5. s \notin Early
  BY DEF Streamed
<1> QED
  BY <1>3, <1>4, <1>5 DEF Streamed

\* The self-test takes the peer's ping; a rank that goes on knows that the peer
\* sent it.
LEMMA Tests ==
  ASSUME NEW s \in States, NEW t \in States, NEW u \in States, NEW n \in Nat, NEW k \in Nat,
         NEW m \in Messages, NEW l \in Messages, Both(s, u, n, m, k, l),
         s = "pong", l # << >>, t \in {"write2", "failed"}
  PROVE  Both(t, u, n, m, k, Tail(l))
<1> USE DEF Both, Agree, Early, Through, Past, Late, States
<1>1. Counted(t, u, n) /\ Counted(u, t, k)
  BY DEF Counted, AtMost, Written, Read
<1>2. Streamed(t, u, m)
  BY DEF Streamed
<1>3. Together(t, u) /\ Together(u, t)
  BY DEF Together
<1>4. Streamed(u, s, Tail(l)) /\ ~Pinged(Tail(l)) /\ (Rounded(Tail(l)) => Rounded(l))
  BY Goes
<1>5. u \notin Early /\ ~Rounded(l)
  BY DEF Streamed
<1>6. Streamed(u, t, Tail(l))
  BY <1>4, <1>5 DEF Streamed
<1> QED
  BY <1>1, <1>2, <1>3, <1>6

-----------------------------------------------------------------------------
(* The steps *)

LEMMA TwoRanks ==
  ASSUME NEW r \in Ranks
  PROVE  /\ Peer(r) \in Ranks /\ Peer(r) # r /\ Peer(Peer(r)) = r
         /\ \A q \in Ranks : q = r \/ q = Peer(r)
BY DEF Ranks, Peer

\* A step of rank r that keeps both directions keeps the invariant.
LEMMA Stepped ==
  ASSUME NEW r \in Ranks, NEW t \in States, IInv, Flags',
         pc' = [pc EXCEPT ![r] = t],
         tcp' \in [Ranks -> Nat], stream' \in [Ranks -> Messages],
         Both(t, pc[Peer(r)], tcp'[r], stream'[r], tcp'[Peer(r)], stream'[Peer(r)])
  PROVE  IInv'
<1>1. pc' \in [Ranks -> States] /\ pc'[r] = t /\ pc'[Peer(r)] = pc[Peer(r)]
  BY TwoRanks DEF IInv, Shape
<1>2. Shape'
  BY <1>1 DEF Shape
<1>3. Agree(pc'[r], pc'[Peer(r)], tcp'[r], stream'[r])
  BY <1>1 DEF Both
<1>4. Agree(pc'[Peer(r)], pc'[Peer(Peer(r))], tcp'[Peer(r)], stream'[Peer(r)])
  BY <1>1, TwoRanks DEF Both
<1>5. \A q \in Ranks : Agree(pc'[q], pc'[Peer(q)], tcp'[q], stream'[q])
  BY <1>3, <1>4, TwoRanks
<1>6. IInv' <=> Shape' /\ \A q \in Ranks : Agree(pc'[q], pc'[Peer(q)], tcp'[q], stream'[q])
  BY DEF IInv, Agree, Counted, Streamed, Together, Peer
<1> QED
  BY <1>2, <1>5, <1>6

LEMMA BothWays ==
  ASSUME NEW r \in Ranks, IInv
  PROVE  /\ Both(pc[r], pc[Peer(r)], tcp[r], stream[r], tcp[Peer(r)], stream[Peer(r)])
         /\ pc[r] \in States /\ pc[Peer(r)] \in States
         /\ tcp[r] \in Nat /\ tcp[Peer(r)] \in Nat
         /\ stream[r] \in Messages /\ stream[Peer(r)] \in Messages
<1>1. Agree(pc[r], pc[Peer(r)], tcp[r], stream[r])
  BY DEF IInv
<1>2. Agree(pc[Peer(r)], pc[Peer(Peer(r))], tcp[Peer(r)], stream[Peer(r)])
  BY TwoRanks DEF IInv
<1> QED
  BY <1>1, <1>2, TwoRanks DEF IInv, Shape, Both

\* No message, no token.
LEMMA Quietly ==
  ASSUME NEW r \in Ranks, NEW t \in States, IInv, Flags',
         pc' = [pc EXCEPT ![r] = t], tcp' = tcp, stream' = stream,
         Quiet(pc[r], t, pc[Peer(r)])
  PROVE  IInv'
<1>1. Both(t, pc[Peer(r)], tcp[r], stream[r], tcp[Peer(r)], stream[Peer(r)])
  BY BothWays, Moves
<1>2. tcp \in [Ranks -> Nat] /\ stream \in [Ranks -> Messages]
  BY DEF IInv, Shape
<1> QED
  BY <1>1, <1>2, Stepped

\* The steps that only move the rank.
Alone(r) ==
  \/ Open(r) \/ OpenFails(r)
  \/ r = 1 /\ (Listen \/ Accept \/ AcceptFails)
  \/ r = 0 /\ (Connect \/ ConnectGivesUp)
  \/ BarrierFails(r) \/ CheckLimits(r) \/ SendPingFails(r) \/ RecvPongFails(r)
  \/ PongTimeout(r) \/ StartThread(r) \/ StartThreadFails(r) \/ Crash(r)

LEMMA MovesAlone ==
  ASSUME NEW r \in Ranks, IInv, Alone(r)
  PROVE  IInv'
<1> DEFINE To(t) == t \in States /\ pc' = [pc EXCEPT ![r] = t] /\ Quiet(pc[r], t, pc[Peer(r)])
<1>1. (\E t : To(t)) /\ tcp' = tcp /\ stream' = stream /\ differ' = differ
  <2> USE DEF Goto, States, Early, Past, Through
  <2>1. CASE Open(r)
    BY <2>1 DEF Open, Quiet
  <2>2. CASE OpenFails(r)
    BY <2>2 DEF OpenFails, Quiet
  <2>3. CASE r = 1 /\ Listen
    BY <2>3 DEF Listen, Quiet
  <2>4. CASE r = 1 /\ Accept
    BY <2>4 DEF Accept, Quiet
  <2>5. CASE r = 0 /\ Connect
    BY <2>5 DEF Connect, Quiet
  <2>6. CASE r = 0 /\ ConnectGivesUp
    BY <2>6 DEF ConnectGivesUp, Quiet
  <2>7. CASE BarrierFails(r)
    BY <2>7 DEF BarrierFails, Quiet
  <2>8. CASE CheckLimits(r)
    BY <2>8 DEF CheckLimits, Quiet
  <2>9. CASE SendPingFails(r)
    BY <2>9 DEF SendPingFails, Quiet
  <2>10. CASE PongTimeout(r)
    BY <2>10 DEF PongTimeout, Quiet
  <2>11. CASE StartThread(r)
    BY <2>11 DEF StartThread, Quiet
  <2>12. CASE StartThreadFails(r)
    BY <2>12 DEF StartThreadFails, Quiet
  <2>13. CASE Crash(r)
    BY <2>13 DEF Crash, Quiet
  <2>14. CASE r = 1 /\ AcceptFails
    BY <2>14 DEF AcceptFails, Quiet
  <2>15. CASE RecvPongFails(r)
    BY <2>15 DEF RecvPongFails, Quiet
  <2> QED
    BY <2>1, <2>2, <2>3, <2>4, <2>5, <2>6, <2>7, <2>8, <2>9, <2>10, <2>11, <2>12, <2>13,
       <2>14, <2>15
       DEF Alone
<1>2. Flags'
  <2>1. Flags
    BY DEF IInv, Shape
  <2>2. CASE UNCHANGED <<opened, listening, connected, differ>>
    BY <2>1, <2>2 DEF Flags
  <2>3. CASE Open(r)
    BY <2>1, <2>3 DEF Open, Flags
  <2>4. CASE r = 1 /\ Listen
    BY <2>1, <2>4 DEF Listen, Flags
  <2>5. CASE r = 1 /\ Accept
    BY <2>1, <2>5 DEF Accept, Flags
  <2>6. CASE r = 0 /\ Connect
    BY <2>1, <2>6 DEF Connect, Flags
  <2>7. CASE Crash(r)
    BY <2>1, <2>7 DEF Crash, Flags
  <2>8. CASE r = 1 /\ AcceptFails
    BY <2>1, <2>8 DEF AcceptFails, Flags
  <2> QED
    BY <2>2, <2>3, <2>4, <2>5, <2>6, <2>7, <2>8
       DEF Alone, OpenFails, ConnectGivesUp, BarrierFails, CheckLimits, SendPingFails,
           RecvPongFails, PongTimeout, StartThread, StartThreadFails
<1>3. PICK t : To(t)
  BY <1>1
<1> QED
  BY <1>1, <1>2, <1>3, Quietly

\* tcp_barrier: a token each way.
LEMMA WritesToken ==
  ASSUME NEW r \in Ranks, IInv, NEW from, NEW to,
         <<from, to>> \in {<<"write1", "read1">>, <<"write2", "read2">>},
         BarrierWrite(r, from, to)
  PROVE  IInv'
<1>1. /\ pc[r] = from /\ pc' = [pc EXCEPT ![r] = to] /\ to \in States
      /\ tcp' = [tcp EXCEPT ![r] = @ + 1] /\ stream' = stream
  BY DEF BarrierWrite, Goto, States, Early, Past
<1>2. Flags'
  BY DEF BarrierWrite, IInv, Shape, Flags
<1>3. tcp \in [Ranks -> Nat] /\ stream \in [Ranks -> Messages]
  BY DEF IInv, Shape
<1>4. tcp' \in [Ranks -> Nat] /\ tcp'[r] = tcp[r] + 1 /\ tcp'[Peer(r)] = tcp[Peer(r)]
  BY <1>1, <1>3, TwoRanks
<1>5. Both(to, pc[Peer(r)], tcp[r] + 1, stream[r], tcp[Peer(r)], stream[Peer(r)])
  BY <1>1, BothWays, Writes
<1> QED
  BY <1>1, <1>2, <1>3, <1>4, <1>5, Stepped

LEMMA ReadsToken ==
  ASSUME NEW r \in Ranks, IInv, NEW from, NEW to,
         <<from, to>> \in {<<"read1", "check">>, <<"read2", "thread">>},
         BarrierRead(r, from, to)
  PROVE  IInv'
<1>1. /\ pc[r] = from /\ pc' = [pc EXCEPT ![r] = to] /\ to \in States
      /\ tcp[Peer(r)] > 0
      /\ tcp' = [tcp EXCEPT ![Peer(r)] = @ - 1] /\ stream' = stream
  BY DEF BarrierRead, Goto, States, Early, Past, Through
<1>2. Flags'
  BY DEF BarrierRead, IInv, Shape, Flags
<1>3. tcp \in [Ranks -> Nat] /\ stream \in [Ranks -> Messages]
  BY DEF IInv, Shape
<1>4. tcp' \in [Ranks -> Nat] /\ tcp'[r] = tcp[r] /\ tcp'[Peer(r)] = tcp[Peer(r)] - 1
  BY <1>1, <1>3, TwoRanks
<1>5. Both(to, pc[Peer(r)], tcp[r], stream[r], tcp[Peer(r)] - 1, stream[Peer(r)])
  BY <1>1, BothWays, Reads
<1> QED
  BY <1>1, <1>2, <1>3, <1>4, <1>5, Stepped

\* A message that is delivered, or dropped at a closed stream.
LEMMA SendsMessage ==
  ASSUME NEW r \in Ranks, IInv, NEW from, NEW to, NEW x,
         <<from, to, x>> \in {<<"ping", "pong", "ping">>, <<"ready", "sent", "round">>},
         Goto(r, from, to), Deliver(r, x),
         UNCHANGED <<opened, listening, connected, tcp, differ>>
  PROVE  IInv'
<1>1. pc[r] = from /\ pc' = [pc EXCEPT ![r] = to] /\ to \in States
  BY DEF Goto, States, Past, Through
<1>2. Flags'
  BY DEF IInv, Shape, Flags
<1>3. tcp \in [Ranks -> Nat] /\ stream \in [Ranks -> Messages]
  BY DEF IInv, Shape
<1>4. PICK m : m \in {stream[r], Append(stream[r], x)} /\ stream' = [stream EXCEPT ![r] = m]
  BY DEF Deliver
<1>5. Both(to, pc[Peer(r)], tcp[r], m, tcp[Peer(r)], stream[Peer(r)])
  <2>1. /\ Both(to, pc[Peer(r)], tcp[r], stream[r], tcp[Peer(r)], stream[Peer(r)])
        /\ Both(to, pc[Peer(r)], tcp[r], Append(stream[r], x), tcp[Peer(r)],
                stream[Peer(r)])
    BY <1>1, BothWays, Sends
  <2> QED
    BY <1>4, <2>1
<1>6. m \in Messages
  BY <1>5 DEF Both, Agree, Streamed
<1>7. stream' \in [Ranks -> Messages] /\ stream'[r] = m /\ stream'[Peer(r)] = stream[Peer(r)]
  BY <1>3, <1>4, <1>6, TwoRanks
<1> QED
  BY <1>1, <1>2, <1>3, <1>5, <1>7, Stepped

LEMMA TestsPing ==
  ASSUME NEW r \in Ranks, IInv, RecvPong(r)
  PROVE  IInv'
<1> DEFINE l == stream[Peer(r)]
<1>0. PICK to \in {"write2", "failed"} : pc[r] = "pong" /\ pc' = [pc EXCEPT ![r] = to]
  BY DEF RecvPong, Goto
<1>1. /\ pc[r] = "pong" /\ pc' = [pc EXCEPT ![r] = to] /\ to \in States
      /\ l # << >> /\ tcp' = tcp /\ stream' = [stream EXCEPT ![Peer(r)] = Tail(l)]
  BY <1>0 DEF RecvPong, States, Past
<1>2. Flags'
  BY DEF RecvPong, IInv, Shape, Flags
<1>3. tcp \in [Ranks -> Nat] /\ stream \in [Ranks -> Messages]
  BY DEF IInv, Shape
<1>4. Both(to, pc[Peer(r)], tcp[r], stream[r], tcp[Peer(r)], Tail(l))
  BY <1>1, BothWays, Tests
<1>5. Tail(l) \in Messages
  BY <1>4 DEF Both, Agree, Streamed
<1>6. stream' \in [Ranks -> Messages] /\ stream'[r] = stream[r] /\ stream'[Peer(r)] = Tail(l)
  BY <1>1, <1>3, <1>5, TwoRanks
<1> QED
  BY <1>1, <1>2, <1>3, <1>4, <1>6, Stepped

LEMMA LosesMessage ==
  ASSUME NEW r \in Ranks, IInv, Lose(r)
  PROVE  IInv'
<1> DEFINE m == stream[r]
<1>1. /\ pc' = [pc EXCEPT ![r] = pc[r]] /\ tcp' = tcp /\ m # << >>
      /\ stream' = [stream EXCEPT ![r] = Tail(m)]
  BY DEF Lose, IInv, Shape
<1>2. Flags'
  BY DEF Lose, IInv, Shape, Flags
<1>3. tcp \in [Ranks -> Nat] /\ stream \in [Ranks -> Messages]
  BY DEF IInv, Shape
<1>4. Streamed(pc[r], pc[Peer(r)], Tail(m))
  BY <1>1, BothWays, Goes DEF Both, Agree
<1>5. Both(pc[r], pc[Peer(r)], tcp[r], Tail(m), tcp[Peer(r)], stream[Peer(r)])
  BY <1>4, BothWays DEF Both, Agree
<1>6. Tail(m) \in Messages
  BY <1>4 DEF Streamed
<1>7. stream' \in [Ranks -> Messages] /\ stream'[r] = Tail(m) /\ stream'[Peer(r)] = stream[Peer(r)]
  BY <1>1, <1>3, <1>6, TwoRanks
<1> QED
  BY <1>1, <1>2, <1>3, <1>5, <1>7, BothWays, Stepped

-----------------------------------------------------------------------------
(* The specification *)

LEMMA InitInv == Init => IInv
<1> SUFFICES ASSUME Init
             PROVE  IInv
  OBVIOUS
<1>1. Flags
  BY DEF Init, Flags
<1>2. << >> \in Messages /\ ~Pinged(<< >>) /\ ~Rounded(<< >>)
  BY Tuples DEF Messages, Pinged, Rounded
<1>3. Shape
  BY <1>1, <1>2 DEF Init, Shape, States, Early
<1>4. Agree("open", "open", 0, << >>)
  BY <1>2 DEF Agree, Counted, Streamed, Together, AtMost, Written, Read, Late, Past,
              Through, Early
<1>5. \A r \in Ranks : Agree(pc[r], pc[Peer(r)], tcp[r], stream[r])
  BY <1>4, TwoRanks DEF Init
<1> QED
  BY <1>3, <1>5 DEF IInv

LEMMA NextInv == IInv /\ [Next]_vars => IInv'
<1> SUFFICES ASSUME IInv, [Next]_vars
             PROVE  IInv'
  OBVIOUS
<1>1. CASE UNCHANGED vars
  BY <1>1 DEF vars, IInv, Shape, Flags, Agree, Counted, Streamed, Together
<1>2. ASSUME NEW r \in Ranks, Bringup(r) \/ SendRound(r) \/ Crash(r) \/ Lose(r)
      PROVE  IInv'
  <2>1. CASE Alone(r)
    BY <2>1, MovesAlone
  <2>2. CASE BarrierWrite(r, "write1", "read1") \/ BarrierWrite(r, "write2", "read2")
    BY <2>2, WritesToken
  <2>3. CASE BarrierRead(r, "read1", "check") \/ BarrierRead(r, "read2", "thread")
    BY <2>3, ReadsToken
  <2>4. CASE SendPing(r)
    BY <2>4, SendsMessage DEF SendPing
  <2>5. CASE SendRound(r)
    BY <2>5, SendsMessage DEF SendRound
  <2>6. CASE RecvPong(r)
    BY <2>6, TestsPing
  <2>7. CASE Lose(r)
    BY <2>7, LosesMessage
  <2> QED
    BY <1>2, <2>1, <2>2, <2>3, <2>4, <2>5, <2>6, <2>7 DEF Bringup, Alone
<1> QED
  BY <1>1, <1>2 DEF Next

LEMMA AlwaysIInv == Spec => []IInv
BY InitInv, NextInv, PTL DEF Spec

\* Positions, tokens and messages keep their types; a rank never has more than
\* its two barrier tokens unread.
LEMMA InvTypes == IInv => TypeOK
<1> SUFFICES ASSUME IInv
             PROVE  TypeOK
  OBVIOUS
<1>1. pc \in [Ranks -> {"open", "listen", "accept", "connect", "write1", "read1",
                       "check", "ping", "pong", "write2", "read2", "thread",
                       "ready", "sent", "failed", "nothread", "dead"}]
  BY DEF IInv, Shape, States, Early, Past, Through
<1>2. tcp \in [Ranks -> 0..2]
  <2>1. ASSUME NEW r \in Ranks
        PROVE  tcp[r] \in 0..2
    <3>1. tcp[r] + Read(pc[Peer(r)]) <= AtMost(pc[r], pc[Peer(r)])
      BY <2>1, BothWays DEF Both, Agree, Counted
    <3> QED
      BY <2>1, <3>1, BothWays, Positions
  <2> QED
    BY <2>1 DEF IInv, Shape
<1>3. Messages \subseteq Seq({"ping", "round"})
  BY DEF Messages
<1>4. stream \in [Ranks -> Seq({"ping", "round"})]
  BY <1>3 DEF IInv, Shape
<1>5. Flags
  BY DEF IInv, Shape
<1> QED
  BY <1>1, <1>2, <1>4, <1>5 DEF TypeOK, Flags

LEMMA Contained ==
  ASSUME NEW m \in Messages
  PROVE  /\ Contains(m, "ping") => Pinged(m)
         /\ Contains(m, "round") => Rounded(m)
BY DEF Messages, Contains, Pinged, Rounded

LEMMA InvAgree == IInv => RanksAgree
<1> SUFFICES ASSUME IInv
             PROVE  RanksAgree
  OBVIOUS
<1> USE DEF Both, Agree
<1>1. PhasesApart
  <2>1. ASSUME NEW r \in Ranks
        PROVE  /\ pc[r] = "pong" => ~Rounded(stream[Peer(r)])
               /\ pc[r] \in {"ready", "sent"} => ~Pinged(stream[Peer(r)])
    BY <2>1, BothWays DEF Streamed, Past, Late, Through
  <2> QED
    BY <2>1, BothWays, Contained DEF PhasesApart
<1>2. PathsAgree
  BY BothWays DEF PathsAgree, Together, Late, Through
<1>3. CleanStart
  <2>1. ASSUME NEW r \in Ranks, pc[r] \in {"thread", "ready"}, pc[Peer(r)] # "dead"
        PROVE  stream[r] = << >> /\ tcp[Peer(r)] = 0
    <3>1. pc[Peer(r)] \in Late
      BY <2>1, BothWays DEF Together, Through
    <3>2. ~Pinged(stream[r]) /\ ~Rounded(stream[r])
      BY <2>1, <3>1, BothWays DEF Streamed, Past, Late
    <3>3. stream[r] = << >>
      BY <2>1, <3>2, BothWays DEF Messages, Pinged, Rounded
    <3>4. Read(pc[r]) = 2 /\ AtMost(pc[Peer(r)], pc[r]) = 2
      BY <2>1, <3>1 DEF Read, AtMost, Written, Late, Through
    <3>5. tcp[Peer(r)] + Read(pc[r]) <= AtMost(pc[Peer(r)], pc[r])
      BY <2>1, BothWays DEF Counted
    <3> QED
      BY <2>1, <3>3, <3>4, <3>5, BothWays
  <2> QED
    BY <2>1 DEF CleanStart
<1> QED
  BY <1>1, <1>2, <1>3 DEF RanksAgree

\* Whatever fails, the positions of odl2_init, the barrier tokens and the stream
\* messages keep their types: no rank has more than its two tokens unread.
THEOREM TypeCorrect == Spec => []TypeOK
BY AlwaysIInv, InvTypes, PTL

\* Whatever fails, at any step of odl2_init and in any order: no rank tests
\* itself with a round or starts with a ping, none uses the link while its peer
\* has fallen back to RCCL, and one past the second barrier starts from an empty
\* stream.
THEOREM RanksAlwaysAgree == Spec => []RanksAgree
BY AlwaysIInv, InvAgree, PTL
=============================================================================
