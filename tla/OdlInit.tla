------------------------------- MODULE OdlInit ------------------------------
(***************************************************************************)
(* How two ranks bring up the all-reduce of OdlAr2: odl2_init in           *)
(* container/native/odl_ar2.hip, called once per process by the all_reduce *)
(* hook in cuda_communicator.py.                                           *)
(*                                                                         *)
(* Rank 1 listens and rank 0 connects; a barrier over that socket, one     *)
(* ping each way over the OdinLink stream, a second barrier, and the       *)
(* progress thread.  A rank where anything fails returns -1 and uses RCCL  *)
(* from then on, its sockets still open; a rank that succeeds sends rounds.*)
(* A barrier message is a token, a stream message "ping" or "round".       *)
(***************************************************************************)
EXTENDS Integers, Sequences, SequencesExt

CONSTANT Allowed   \* which of Events may happen

Events == {"initfail", "acceptfail", "giveup", "mismatch", "sendfail", "recvfail",
           "timeout", "loss", "threadfail", "crash"}

ASSUME AllowedAssumption == Allowed \subseteq Events

Ranks == {0, 1}
Peer(r) == 1 - r

VARIABLES
  pc,        \* pc[r]: position of rank r in odl2_init
  opened,    \* opened[r]: rank r's stream is open
  listening, \* rank 1's listening socket accepts connections
  connected, \* the rendezvous connection exists
  tcp,       \* tcp[r]: barrier messages r wrote and its peer has not read
  stream,    \* stream[r]: stream messages r sent and its peer has not read
  differ     \* the two libraries were built with different limits

vars == <<pc, opened, listening, connected, tcp, stream, differ>>

Init ==
  /\ pc = [r \in Ranks |-> "open"]
  /\ opened = [r \in Ranks |-> FALSE]
  /\ listening = FALSE
  /\ connected = FALSE
  /\ tcp = [r \in Ranks |-> 0]
  /\ stream = [r \in Ranks |-> << >>]
  /\ differ \in IF "mismatch" \in Allowed THEN BOOLEAN ELSE {FALSE}

Goto(r, from, to) == pc[r] = from /\ pc' = [pc EXCEPT ![r] = to]

\* Device, peer, stream, O_NONBLOCK and the pinned buffers.
Open(r) ==
  /\ Goto(r, "open", IF r = 1 THEN "listen" ELSE "connect")
  /\ opened' = [opened EXCEPT ![r] = TRUE]
  /\ UNCHANGED <<listening, connected, tcp, stream, differ>>

\* Any of them fails: the rank never shows up at the rendezvous.
OpenFails(r) ==
  /\ "initfail" \in Allowed
  /\ Goto(r, "open", "failed")
  /\ UNCHANGED <<opened, listening, connected, tcp, stream, differ>>

Listen ==
  /\ Goto(1, "listen", "accept")
  /\ listening' = TRUE
  /\ UNCHANGED <<opened, connected, tcp, stream, differ>>

\* The connection is made by the backlog, before rank 1 accepts it.
Connect ==
  /\ listening
  /\ Goto(0, "connect", "write1")
  /\ connected' = TRUE
  /\ UNCHANGED <<opened, listening, tcp, stream, differ>>

\* 600 refused attempts: rank 1 is slow, or will not listen any more.
ConnectGivesUp ==
  /\ "giveup" \in Allowed \/ pc[1] \in {"failed", "dead"}
  /\ ~listening
  /\ Goto(0, "connect", "failed")
  /\ UNCHANGED <<opened, listening, connected, tcp, stream, differ>>

\* accept() has no timeout.
Accept ==
  /\ connected
  /\ Goto(1, "accept", "write1")
  /\ listening' = FALSE
  /\ UNCHANGED <<opened, connected, tcp, stream, differ>>

\* bind, listen or accept fails; closing the listening socket also resets a
\* connection that is still in its backlog.
AcceptFails ==
  /\ "acceptfail" \in Allowed
  /\ pc[1] \in {"listen", "accept"}
  /\ pc' = [pc EXCEPT ![1] = "failed"]
  /\ listening' = FALSE /\ connected' = FALSE
  /\ UNCHANGED <<opened, tcp, stream, differ>>

\* Bug variant: the exchange starts with the read.
BarrierWrite_ReadsFirst(r, from, to) ==
  /\ tcp[Peer(r)] > 0
  /\ Goto(r, from, to)
  /\ tcp' = [tcp EXCEPT ![r] = @ + 1]
  /\ UNCHANGED <<opened, listening, connected, stream, differ>>

\* First half of tcp_barrier.  Writing to a dead peer may still succeed.
BarrierWrite(r, from, to) ==
  /\ Goto(r, from, to)
  /\ tcp' = [tcp EXCEPT ![r] = @ + 1]
  /\ UNCHANGED <<opened, listening, connected, stream, differ>>

\* Bug variant: the barrier does not wait for the peer's message.
BarrierRead_NoWait(r, from, to) ==
  /\ Goto(r, from, to)
  /\ tcp' = [tcp EXCEPT ![Peer(r)] = @ - 1]
  /\ UNCHANGED <<opened, listening, connected, stream, differ>>

\* Second half: the read blocks until the peer has written.
BarrierRead(r, from, to) ==
  /\ tcp[Peer(r)] > 0
  /\ Goto(r, from, to)
  /\ tcp' = [tcp EXCEPT ![Peer(r)] = @ - 1]
  /\ UNCHANGED <<opened, listening, connected, stream, differ>>

\* Bug variant: end of file is taken for "nothing yet".
BarrierFails_IgnoresEof(r) ==
  /\ pc[Peer(r)] = "dead" /\ tcp[Peer(r)] = 0
  /\ pc[r] \in {"write1", "write2"}
  /\ pc' = [pc EXCEPT ![r] = "failed"]
  /\ UNCHANGED <<opened, listening, connected, tcp, stream, differ>>

\* Only the death of the peer's process ends the read otherwise, or the reset of
\* a connection that was never accepted.
BarrierFails(r) ==
  /\ \/ pc[Peer(r)] = "dead" /\ tcp[Peer(r)] = 0
        /\ pc[r] \in {"write1", "read1", "write2", "read2"}
     \/ ~connected /\ pc[r] \in {"write1", "read1"}
  /\ pc' = [pc EXCEPT ![r] = "failed"]
  /\ UNCHANGED <<opened, listening, connected, tcp, stream, differ>>

\* The first barrier also compares magic, rank and limits.
CheckLimits(r) ==
  /\ Goto(r, "check", IF differ THEN "failed" ELSE "ping")
  /\ UNCHANGED <<opened, listening, connected, tcp, stream, differ>>

\* The driver drops what arrives for a stream that is not open.
Deliver(r, m) ==
  stream' = [stream EXCEPT ![r] = IF opened[Peer(r)] THEN Append(@, m) ELSE @]

SendPing(r) ==
  /\ Goto(r, "ping", "pong")
  /\ Deliver(r, "ping")
  /\ UNCHANGED <<opened, listening, connected, tcp, differ>>

SendPingFails(r) ==
  /\ "sendfail" \in Allowed
  /\ Goto(r, "ping", "failed")
  /\ UNCHANGED <<opened, listening, connected, tcp, stream, differ>>

\* The self-test takes the next message and compares it with the peer's ping,
\* which may have come damaged.
RecvPong(r) ==
  /\ stream[Peer(r)] # << >>
  /\ \/ Head(stream[Peer(r)]) = "ping" /\ Goto(r, "pong", "write2")
     \/ Head(stream[Peer(r)]) # "ping" /\ Goto(r, "pong", "failed")
     \/ "recvfail" \in Allowed /\ Goto(r, "pong", "failed")
  /\ stream' = [stream EXCEPT ![Peer(r)] = Tail(@)]
  /\ UNCHANGED <<opened, listening, connected, tcp, differ>>

\* stream_recv reports an error other than "nothing yet".
RecvPongFails(r) ==
  /\ "recvfail" \in Allowed
  /\ Goto(r, "pong", "failed")
  /\ UNCHANGED <<opened, listening, connected, tcp, stream, differ>>

\* Five seconds without a message from the peer, alive or dead.
PongTimeout(r) ==
  /\ "timeout" \in Allowed \/ pc[Peer(r)] = "dead"
  /\ stream[Peer(r)] = << >>
  /\ Goto(r, "pong", "failed")
  /\ UNCHANGED <<opened, listening, connected, tcp, stream, differ>>

StartThread(r) ==
  /\ Goto(r, "thread", "ready")
  /\ UNCHANGED <<opened, listening, connected, tcp, stream, differ>>

\* pthread_create fails: -1 as everywhere else, but after the last barrier.
StartThreadFails(r) ==
  /\ "threadfail" \in Allowed
  /\ Goto(r, "thread", "nothread")
  /\ UNCHANGED <<opened, listening, connected, tcp, stream, differ>>

\* The data phase; one round per rank is enough to meet the self-test.
SendRound(r) ==
  /\ Goto(r, "ready", "sent")
  /\ Deliver(r, "round")
  /\ UNCHANGED <<opened, listening, connected, tcp, differ>>

\* A process dies: the kernel closes its sockets and its stream.
Crash(r) ==
  /\ "crash" \in Allowed
  /\ pc[r] # "dead" /\ pc[Peer(r)] # "dead"
  /\ pc' = [pc EXCEPT ![r] = "dead"]
  /\ opened' = [opened EXCEPT ![r] = FALSE]
  /\ listening' = (listening /\ r # 1)
  /\ UNCHANGED <<connected, tcp, stream, differ>>

\* The link loses a message; the receiver's queue never shows it.
Lose(r) ==
  /\ "loss" \in Allowed
  /\ stream[r] # << >>
  /\ stream' = [stream EXCEPT ![r] = Tail(@)]
  /\ UNCHANGED <<pc, opened, listening, connected, tcp, differ>>

-----------------------------------------------------------------------------
Bringup(r) ==
  \/ Open(r) \/ OpenFails(r)
  \/ r = 1 /\ (Listen \/ Accept \/ AcceptFails)
  \/ r = 0 /\ (Connect \/ ConnectGivesUp)
  \/ BarrierWrite(r, "write1", "read1") \/ BarrierRead(r, "read1", "check")
  \/ BarrierWrite(r, "write2", "read2") \/ BarrierRead(r, "read2", "thread")
  \/ BarrierFails(r) \/ CheckLimits(r)
  \/ SendPing(r) \/ SendPingFails(r)
  \/ RecvPong(r) \/ RecvPongFails(r) \/ PongTimeout(r)
  \/ StartThread(r) \/ StartThreadFails(r)

Next == \E r \in Ranks : Bringup(r) \/ SendRound(r) \/ Crash(r) \/ Lose(r)

Spec == Init /\ [][Next]_vars

\* odl2_init runs on in every rank unless a call of it blocks.
Fairness == \A r \in Ranks : WF_vars(Bringup(r))
FairSpec == Spec /\ Fairness

-----------------------------------------------------------------------------
(* Properties *)

\* Every variable keeps its shape.
TypeOK ==
  /\ pc \in [Ranks -> {"open", "listen", "accept", "connect", "write1", "read1",
                       "check", "ping", "pong", "write2", "read2", "thread",
                       "ready", "sent", "failed", "nothread", "dead"}]
  /\ opened \in [Ranks -> BOOLEAN]
  /\ listening \in BOOLEAN /\ connected \in BOOLEAN /\ differ \in BOOLEAN
  /\ tcp \in [Ranks -> 0..2]
  /\ stream \in [Ranks -> Seq({"ping", "round"})]

\* No rank takes a round for the ping it tests with, nor a ping for its first
\* round.
PhasesApart ==
  \A r \in Ranks :
    /\ pc[r] = "pong" => ~Contains(stream[Peer(r)], "round")
    /\ pc[r] \in {"ready", "sent"} => ~Contains(stream[Peer(r)], "ping")

\* Both ranks end on the same path: all_reduce over the link on one and over
\* RCCL on the other would leave each waiting for a partner it does not have.
\* The one exception is a progress thread that cannot be created.
PathsAgree ==
  \A r \in Ranks : ~(pc[r] \in {"ready", "sent"} /\ pc[Peer(r)] = "failed")

\* "both self-tests done, stream queues empty -> data phase": a rank past the
\* second barrier has sent nothing its peer has still to receive, and read
\* everything its peer wrote.  This is where the rounds of OdlAr2 start from.
CleanStart ==
  \A r \in Ranks :
    pc[r] \in {"thread", "ready"} /\ pc[Peer(r)] # "dead" =>
      stream[r] = << >> /\ tcp[Peer(r)] = 0

\* The ranks agree on what the stream carries and on the path they end on.
RanksAgree == PhasesApart /\ PathsAgree /\ CleanStart

\* Unless a rank fails or dies, both get there: the two blocking exchanges
\* and the connection attempts cannot wait for each other.
BothReady ==
  [](\A r \in Ranks : pc[r] \notin {"failed", "nothread", "dead"})
    => <>(\A r \in Ranks : pc[r] \in {"ready", "sent"})

\* A rank past the rendezvous is released by the death of its peer.
SurvivorDecides ==
  \A r \in Ranks :
    (pc[Peer(r)] = "dead" /\ pc[r] # "accept")
      ~> (pc[r] \in {"ready", "sent", "failed", "nothread", "dead", "accept"})

\* Fail-open: a rank that falls back to RCCL finds its peer there in the end.
FallsBackTogether ==
  \A r \in Ranks : (pc[r] = "failed") ~> (pc[Peer(r)] \in {"failed", "dead"})
=============================================================================
