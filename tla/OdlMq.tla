-------------------------------- MODULE OdlMq -------------------------------
(***************************************************************************)
(* The remote plane of MessageQueue: one writer and one reader process,    *)
(* usually on the two boxes.  The reader subscribes to a zmq socket; the   *)
(* data may travel over an OdinLink stream instead (odl_mq.py), which the  *)
(* writer offers in the handle and the reader accepts by sending a hello   *)
(* before it subscribes (MessageQueue.__init__, create_from_handle and     *)
(* wait_until_ready in shm_broadcast.py).                                  *)
(*                                                                         *)
(* On the stream a message is a length frame followed by its bytes in      *)
(* frames of at most Chunk.  Bytes are named by their message and offset,  *)
(* and counted in units of the length frame, which has offset -1.          *)
(***************************************************************************)
EXTENDS Integers, Sequences, FiniteSetsExt

CONSTANTS
  MaxMsgs,   \* bound: messages the program sends
  Total,     \* Total[m]: length of the blob of message m
  Chunk,     \* _CHUNK
  Allowed    \* which of Events may happen

Events == {"samehost", "writerfail", "readerfail", "hellofail", "sendfail", "recvfail", "loss"}

Messages == 1..MaxMsgs

ASSUME MaxMsgsAssumption == MaxMsgs \in Nat
ASSUME TotalAssumption   == Total \in [Messages -> Nat \ {0}]
ASSUME ChunkAssumption   == Chunk \in Nat \ {0}
ASSUME AllowedAssumption == Allowed \subseteq Events

Lesser(a, b) == IF a < b THEN a ELSE b
LengthFrame(m) == [msg |-> m, lo |-> -1, n |-> 1]

\* Bug variant: a last chunk that is not full is never sent.
Frames_Floor(m) ==
  <<LengthFrame(m)>> \o
    [i \in 1..(Total[m] \div Chunk) |->
       [msg |-> m, lo |-> (i - 1) * Chunk, n |-> Chunk]]

\* Bug variant: the rest of the blob is sent as one frame, however long.
Frames_Oversize(m) ==
  <<LengthFrame(m)>> \o
    [i \in 1..((Total[m] + Chunk - 1) \div Chunk) |->
       [msg |-> m, lo |-> (i - 1) * Chunk, n |-> Total[m] - (i - 1) * Chunk]]

\* What send_multipart puts on the stream for message m.
Frames(m) ==
  <<LengthFrame(m)>> \o
    [i \in 1..((Total[m] + Chunk - 1) \div Chunk) |->
       [msg |-> m, lo |-> (i - 1) * Chunk,
        n |-> Lesser(Chunk, Total[m] - (i - 1) * Chunk)]]

Longest == Max({Total[m] : m \in Messages} \cup {0})

VARIABLES
  sameHost,  \* is_local_ip(writer_ip), evaluated by the reader
  wpc,       \* position of the writer
  offer,     \* odl_mq_hello is in the handle
  wplane,    \* the plane the writer sends on
  out,       \* frames of the current message still to be sent
  sent,      \* messages the program has enqueued
  rpc,       \* position of the reader
  rplane,    \* the plane the reader receives from
  want,      \* bytes _recv_exact still wants
  pieces,    \* what the current recv() has read
  got,       \* history: what recv() made of each message, 0 for garbage
  hello,     \* the reader's hello waits in the writer's stream
  sub,       \* the reader's subscription waits in the writer's zmq socket
  ready,     \* READY waits in the reader's zmq socket
  frames,    \* frames on the stream to the reader
  zq,        \* messages in the reader's zmq socket
  broken     \* history: something sent over the stream did not get through

writerVars == <<wpc, offer, wplane, out, sent>>
readerVars == <<rpc, rplane, want, pieces, got>>
netVars    == <<hello, sub, ready, frames, zq, broken>>
vars == <<sameHost, writerVars, readerVars, netVars>>

Init ==
  /\ sameHost \in IF "samehost" \in Allowed THEN BOOLEAN ELSE {FALSE}
  /\ wpc = "init" /\ offer = FALSE /\ wplane = "zmq" /\ out = << >> /\ sent = 0
  /\ rpc = "init" /\ rplane = "zmq" /\ want = 0 /\ pieces = << >> /\ got = << >>
  /\ hello = FALSE /\ sub = FALSE /\ ready = FALSE
  /\ frames = << >> /\ zq = << >> /\ broken = FALSE

-----------------------------------------------------------------------------
(* Bringing the queue up *)

\* MessageQueue.__init__ tries to open a stream and exports the handle.
Offer ==
  /\ wpc = "init"
  /\ offer' \in IF "writerfail" \in Allowed THEN BOOLEAN ELSE {TRUE}
  /\ wpc' = "subscription"
  /\ UNCHANGED <<sameHost, wplane, out, sent, readerVars, netVars>>

Accepts == offer /\ ~sameHost

\* create_from_handle: a reader on the other box opens its own stream and
\* says hello.
Create ==
  /\ rpc = "init" /\ wpc # "init"
  /\ rplane' = IF Accepts THEN "odl" ELSE "zmq"
  /\ hello' = Accepts
  /\ rpc' = "connect"
  /\ UNCHANGED <<sameHost, writerVars, want, pieces, got, sub, ready, frames, zq, broken>>

\* Nothing catches what Reader() raises.
CreateFails ==
  /\ "readerfail" \in Allowed
  /\ rpc = "init" /\ wpc # "init" /\ Accepts
  /\ rpc' = "raised"
  /\ UNCHANGED <<sameHost, writerVars, rplane, want, pieces, got, netVars>>

Subscribe ==
  /\ rpc = "connect"
  /\ sub' = TRUE
  /\ rpc' = "ready"
  /\ UNCHANGED <<sameHost, writerVars, rplane, want, pieces, got, hello, ready,
                 frames, zq, broken>>

\* wait_until_ready on the writer's side; READY says nothing of the plane.
RecvSubscription ==
  /\ wpc = "subscription" /\ sub
  /\ sub' = FALSE
  /\ wpc' = IF offer THEN "hello" ELSE "up"
  /\ ready' = ~offer
  /\ UNCHANGED <<sameHost, offer, wplane, out, sent, readerVars, hello, frames, zq, broken>>

WaitHello ==
  /\ wpc = "hello" /\ hello
  /\ hello' = FALSE /\ wplane' = "odl" /\ ready' = TRUE
  /\ wpc' = "up"
  /\ UNCHANGED <<sameHost, offer, out, sent, readerVars, sub, frames, zq, broken>>

\* The wait or the receive fails, or what came is no hello ("bad hello magic"):
\* nothing catches it, and the writer never says READY.
WaitHelloFails ==
  /\ "hellofail" \in Allowed
  /\ wpc = "hello"
  /\ wpc' = "raised"
  /\ UNCHANGED <<sameHost, offer, wplane, out, sent, readerVars, netVars>>

\* Bug variant: the wait is over before the hello has been looked for.
HelloTimeout_Early ==
  /\ wpc = "hello"
  /\ ready' = TRUE
  /\ wpc' = "up"
  /\ UNCHANGED <<sameHost, offer, wplane, out, sent, readerVars, hello, sub,
                 frames, zq, broken>>

\* Bug variant: the writer keeps its stream although nobody answered.
HelloTimeout_KeepsStream ==
  /\ wpc = "hello" /\ ~hello
  /\ ready' = TRUE /\ wplane' = "odl"
  /\ wpc' = "up"
  /\ UNCHANGED <<sameHost, offer, out, sent, readerVars, hello, sub, frames, zq, broken>>

\* Three seconds without a hello: "reader declined, using zmq".
HelloTimeout ==
  /\ wpc = "hello" /\ ~hello
  /\ ready' = TRUE
  /\ wpc' = "up"
  /\ UNCHANGED <<sameHost, offer, wplane, out, sent, readerVars, hello, sub,
                 frames, zq, broken>>

RecvReady ==
  /\ rpc = "ready" /\ ready
  /\ ready' = FALSE
  /\ rpc' = "idle"
  /\ UNCHANGED <<sameHost, writerVars, rplane, want, pieces, got, hello, sub,
                 frames, zq, broken>>

-----------------------------------------------------------------------------
(* Messages *)

\* enqueue: one zmq multipart message, or the frames of send_multipart.
Enqueue ==
  /\ wpc = "up" /\ sent < MaxMsgs
  /\ sent' = sent + 1
  /\ IF wplane = "odl"
       THEN /\ out' = Frames(sent + 1) /\ wpc' = "sending"
            /\ UNCHANGED zq
       ELSE zq' = Append(zq, sent + 1) /\ UNCHANGED <<out, wpc>>
  /\ UNCHANGED <<sameHost, offer, wplane, readerVars, hello, sub, ready, frames, broken>>

SendFrame ==
  /\ wpc = "sending"
  /\ frames' = Append(frames, Head(out))
  /\ out' = Tail(out)
  /\ wpc' = IF Len(out) = 1 THEN "up" ELSE "sending"
  /\ UNCHANGED <<sameHost, offer, wplane, sent, readerVars, hello, sub, ready, zq, broken>>

\* _send raises; the frames before it are on their way.
SendFails ==
  /\ "sendfail" \in Allowed
  /\ wpc = "sending"
  /\ out' = << >> /\ wpc' = "up" /\ broken' = TRUE
  /\ UNCHANGED <<sameHost, offer, wplane, sent, readerVars, hello, sub, ready,
                 frames, zq>>

\* The link loses a frame, or the hello.
Lose ==
  /\ "loss" \in Allowed
  /\ \/ frames # << >> /\ frames' = Tail(frames) /\ UNCHANGED hello
     \/ hello /\ hello' = FALSE /\ UNCHANGED frames
  /\ broken' = TRUE
  /\ UNCHANGED <<sameHost, writerVars, readerVars, sub, ready, zq>>

RecvZmq ==
  /\ rpc = "idle" /\ rplane = "zmq" /\ zq # << >>
  /\ got' = Append(got, Head(zq)) /\ zq' = Tail(zq)
  /\ UNCHANGED <<sameHost, writerVars, rpc, rplane, want, pieces, hello, sub,
                 ready, frames, broken>>

\* Reader.recv: once wait_rx has seen a frame its timeout is out of the game.
StartRecv ==
  /\ rpc = "idle" /\ rplane = "odl" /\ frames # << >>
  /\ rpc' = "length" /\ want' = 1 /\ pieces' = << >>
  /\ UNCHANGED <<sameHost, writerVars, rplane, got, netVars>>

\* One stream_recv of _recv_exact: of a frame longer than what is wanted the
\* rest is gone.
Piece == LET f == Head(frames)
             room == Lesser(Chunk, want)
         IN  [f EXCEPT !.n = Lesser(room, f.n)]

RecvPiece ==
  /\ frames # << >>
  /\ frames' = Tail(frames)
  /\ pieces' = Append(pieces, Piece)

\* The length frame, or whatever is taken for it, says how much will follow.
RecvLength ==
  /\ rpc = "length" /\ RecvPiece
  /\ want' \in IF Piece.lo = -1 THEN {Total[Piece.msg]} ELSE 1..Longest
  /\ rpc' = "body"
  /\ UNCHANGED <<sameHost, writerVars, rplane, got, hello, sub, ready, zq, broken>>

RecvBody ==
  /\ rpc = "body" /\ RecvPiece
  /\ want' = want - Piece.n
  /\ IF want' > 0
       THEN UNCHANGED <<rpc, got>>
       ELSE /\ rpc' = "idle"
            /\ \E m \in 0..MaxMsgs :
                 /\ IF m > 0 THEN pieces' = Frames(m)
                             ELSE \A k \in Messages : pieces' # Frames(k)
                 /\ got' = Append(got, m)
  /\ UNCHANGED <<sameHost, writerVars, rplane, hello, sub, ready, zq, broken>>

\* stream_recv fails, or gives a frame of no bytes: recv() raises.  What it had
\* read is gone, and so is the place in the stream once that is the length.
RecvFails ==
  /\ "recvfail" \in Allowed
  /\ rpc \in {"length", "body"}
  /\ rpc' = "idle"
  /\ broken' = (broken \/ rpc = "body")
  /\ UNCHANGED <<sameHost, writerVars, rplane, want, pieces, got, hello, sub, ready,
                 frames, zq>>

-----------------------------------------------------------------------------
Writer == \/ Offer \/ RecvSubscription \/ WaitHello \/ WaitHelloFails \/ HelloTimeout
          \/ SendFrame \/ SendFails
Reader == \/ Create \/ CreateFails \/ Subscribe \/ RecvReady
          \/ RecvZmq \/ StartRecv \/ RecvLength \/ RecvBody \/ RecvFails

Next == Writer \/ Reader \/ Enqueue \/ Lose

Spec == Init /\ [][Next]_vars

\* Both processes run on unless a call of theirs blocks; the program need not
\* enqueue anything.  A receive called again and again does not always fail.
Fairness == WF_vars(Writer) /\ WF_vars(Reader) /\ SF_vars(RecvLength)
FairSpec == Spec /\ Fairness

-----------------------------------------------------------------------------
(* Properties *)

\* Every variable keeps its shape.
Frame == [msg : Messages, lo : -1..Longest, n : 1..Chunk]
TypeOK ==
  /\ sameHost \in BOOLEAN /\ offer \in BOOLEAN
  /\ wpc \in {"init", "subscription", "hello", "up", "sending", "raised"}
  /\ rpc \in {"init", "connect", "ready", "idle", "length", "body", "raised"}
  /\ wplane \in {"odl", "zmq"} /\ rplane \in {"odl", "zmq"}
  /\ out \in Seq(Frame) /\ pieces \in Seq(Frame) /\ frames \in Seq(Frame)
  /\ sent \in 0..MaxMsgs /\ want \in 0..Longest
  /\ got \in Seq(0..MaxMsgs) /\ zq \in Seq(Messages)
  /\ hello \in BOOLEAN /\ sub \in BOOLEAN /\ ready \in BOOLEAN
  /\ broken \in BOOLEAN

\* A writer never sends on a stream nobody reads: same-host readers and
\* readers without a device are left on zmq, whatever fails or is lost.  And
\* both sides settle on one plane: the writer's wait_hello, "gated on the
\* subscription, always finds" the hello of a reader that accepted, provided
\* the link delivers it.
PlanesAgree ==
  /\ wplane = "odl" => rplane = "odl"
  /\ wpc \in {"up", "sending"} => wplane = rplane \/ broken

\* Messages arrive whole and in order, on either plane, until a frame is lost or
\* refused, or a receive fails inside a message: there is no resynchronisation
\* after that.
InOrder == broken \/ \A j \in 1..Len(got) : got[j] = j

\* Everything enqueued arrives, or something failed on the stream.
Delivered == (Len(got) < sent) ~> (Len(got) = sent \/ broken)

\* "The reader accepts by helloing our stream or declines by staying silent
\* (same-box / failure)": a reader whose endpoint fails comes up on zmq.
ReaderDeclines == (wpc # "init") ~> (rpc = "idle")
=============================================================================
