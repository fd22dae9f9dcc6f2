---------------------------- MODULE OdlMqProofs -----------------------------
(***************************************************************************)
(* Proofs about OdlMq, for every number and length of messages, every      *)
(* chunk size and every failure allowed: the handshake leaves both sides   *)
(* on one plane, and messages arrive whole and in order until something    *)
(* is lost or refused.                                                     *)
(***************************************************************************)
EXTENDS OdlMq, SequenceTheorems, WellFoundedInduction, TLAPS

(***************************************************************************)
(* Bringing the queue up                                                   *)
(***************************************************************************)

\* How far each side has come.
Opening == wpc \in {"init", "subscription", "hello", "raised"}
Closed  == rpc \in {"init", "raised"}

Steps ==
  /\ wpc \in {"init", "subscription", "hello", "up", "sending", "raised"}
  /\ rpc \in {"init", "connect", "ready", "idle", "length", "body", "raised"}
  /\ wplane \in {"odl", "zmq"} /\ rplane \in {"odl", "zmq"}
  /\ sameHost \in BOOLEAN /\ offer \in BOOLEAN /\ broken \in BOOLEAN
  /\ hello \in BOOLEAN /\ sub \in BOOLEAN /\ ready \in BOOLEAN

\* The writer waits for the subscription before it looks for the hello, and the
\* reader says hello before it subscribes: a hello that is not there then was
\* lost or will never come.
Handshake ==
  /\ Opening => wplane = "zmq"
  /\ wpc = "init" => rpc = "init"
  /\ wpc \in {"hello", "up", "sending", "raised"} => rpc \notin {"init", "raised", "connect"}
  /\ wpc = "hello" => offer
  /\ Closed => rplane = "zmq" /\ ~hello /\ ~sub
  /\ ~Closed => (rplane = "odl" <=> Accepts)
  /\ sub => wpc = "subscription" /\ rpc \notin {"init", "raised", "connect"}
  /\ hello => rplane = "odl"
  /\ wplane = "odl" => rplane = "odl"
  /\ Opening /\ rplane = "odl" => hello \/ broken
  /\ ~Opening => wplane = rplane \/ broken

(***************************************************************************)
(* Messages on their way                                                   *)
(***************************************************************************)

\* The message the reader comes to next, and the frame that follows frame f.
Coming == Len(got) + 1
EndOf(f) == f.lo + f.n
Chunks(m, lo) == [msg |-> m, lo |-> lo, n |-> Lesser(Chunk, Total[m] - lo)]
Succ(f) == IF EndOf(f) = Total[f.msg] THEN LengthFrame(f.msg + 1)
                                      ELSE Chunks(f.msg, EndOf(f))
Chained(q) == \A i \in 1..(Len(q) - 1) : q[i + 1] = Succ(q[i])

\* The frame the reader is to receive next, and the one the writer is to send.
Due == IF rpc = "body" THEN Succ(pieces[Len(pieces)]) ELSE LengthFrame(Coming)
Upcoming == IF out = << >> THEN LengthFrame(sent + 1) ELSE out[1]

AnyFrame == [msg : Messages, lo : Int, n : Int]
Shape ==
  /\ sent \in 0..MaxMsgs /\ got \in Seq(Int) /\ zq \in Seq(Int)
  /\ out \in Seq(AnyFrame) /\ frames \in Seq(AnyFrame) /\ pieces \in Seq(AnyFrame)
  /\ wpc = "sending" <=> out # << >>
  /\ wpc \in {"up", "sending"} \/ sent = 0

\* As long as the writer is on zmq the stream is empty.
OnZmq ==
  /\ out = << >> /\ frames = << >> /\ rpc \notin {"length", "body"}
  /\ Len(zq) = sent - Len(got)
  /\ \A i \in 1..Len(zq) : zq[i] = Len(got) + i

\* What the stream holds, from the reader's next frame to the writer's.
OnStream ==
  /\ zq = << >>
  /\ IF frames = << >> THEN Upcoming = Due
     ELSE /\ frames[1] = Due /\ Chained(frames)
          /\ Upcoming = Succ(frames[Len(frames)])
  /\ out # << >> => Chained(out) /\ Succ(out[Len(out)]) = LengthFrame(sent + 1)

\* What the reader has of the message it is in.
Received ==
  /\ rpc = "length" => want = 1 /\ pieces = << >>
  /\ rpc = "body" =>
       /\ Coming \in Messages
       /\ Len(pieces) \in 1..Len(Frames(Coming))
       /\ \A i \in 1..Len(pieces) : pieces[i] = Frames(Coming)[i]
       /\ want = Total[Coming] - EndOf(pieces[Len(pieces)]) /\ want > 0

Content ==
  /\ Shape
  /\ \A j \in 1..Len(got) : got[j] = j
  /\ wplane = "zmq" => OnZmq
  /\ wplane = "odl" => OnStream /\ Received

IInv == Steps /\ Handshake /\ (broken \/ Content)

-----------------------------------------------------------------------------
(* Frames *)

USE MaxMsgsAssumption, TotalAssumption, ChunkAssumption

\* How many chunks a blob of length t makes.
LEMMA Ceiling ==
  ASSUME NEW t \in Nat \ {0}, NEW k \in Nat \ {0}
  PROVE  /\ (t + k - 1) \div k \in Nat \ {0}
         /\ ((t + k - 1) \div k - 1) * k < t
         /\ t <= ((t + k - 1) \div k) * k
<1> DEFINE c == (t + k - 1) \div k
<1>1. c \in Int /\ c * k <= t + k - 1 /\ t + k - 1 < c * k + k
  OBVIOUS
<1>2. c > 0
  <2>1. ASSUME c <= 0 PROVE c * k <= 0
    BY <1>1, <2>1
  <2> QED
    BY <1>1, <2>1
<1>3. (c - 1) * k = c * k - k
  BY <1>1
<1> QED
  BY <1>1, <1>2, <1>3

LEMMA Headed ==
  ASSUME NEW S, NEW a, NEW q \in Seq(S)
  PROVE  /\ <<a>> \o q \in Seq(S \cup {a})
         /\ Len(<<a>> \o q) = Len(q) + 1 /\ (<<a>> \o q)[1] = a
         /\ \A i \in 1..Len(q) : (<<a>> \o q)[i + 1] = q[i]
<1> DEFINE B == S \cup {a}
<1>1. <<a>> \in Seq(B) /\ Len(<<a>>) = 1 /\ <<a>>[1] = a
  OBVIOUS
<1>2. q \in Seq(B) /\ Len(q) \in Nat
  OBVIOUS
<1> HIDE DEF B
<1>3. /\ <<a>> \o q \in Seq(B) /\ Len(<<a>> \o q) = 1 + Len(q)
      /\ \A i \in 1..(1 + Len(q)) :
           (<<a>> \o q)[i] = IF i <= 1 THEN <<a>>[i] ELSE q[i - 1]
  BY <1>1, <1>2, ConcatProperties
<1>4. ASSUME NEW i \in 1..Len(q) PROVE (<<a>> \o q)[i + 1] = q[i]
  <2>1. i + 1 \in 1..(1 + Len(q)) /\ ~(i + 1 <= 1) /\ (i + 1) - 1 = i
    BY <1>2
  <2> QED
    BY <1>3, <2>1
<1>5. 1 \in 1..(1 + Len(q))
  BY <1>2
<1> QED
  BY <1>1, <1>2, <1>3, <1>4, <1>5 DEF B

LEMMA FramesAre ==
  ASSUME NEW m \in Messages, NEW c, c = (Total[m] + Chunk - 1) \div Chunk
  PROVE  /\ c \in Nat \ {0} /\ Len(Frames(m)) = c + 1
         /\ (c - 1) * Chunk < Total[m] /\ Total[m] <= c * Chunk
         /\ Frames(m)[1] = LengthFrame(m) /\ \E S : Frames(m) \in Seq(S)
         /\ \A i \in 1..c : Frames(m)[i + 1] = Chunks(m, (i - 1) * Chunk)
<1> DEFINE body == [i \in 1..c |-> Chunks(m, (i - 1) * Chunk)]
<1>1. Total[m] \in Nat \ {0}
  OBVIOUS
<1>2. c \in Nat \ {0} /\ (c - 1) * Chunk < Total[m] /\ Total[m] <= c * Chunk
  BY <1>1, Ceiling
<1>3. Frames(m) = <<LengthFrame(m)>> \o body
  BY DEF Frames, Chunks
<1>4. body \in Seq({body[i] : i \in 1..c}) /\ Len(body) = c
  <2> HIDE DEF body
  <2>1. body \in [1..c -> {body[i] : i \in 1..c}]
    BY DEF body
  <2> QED
    BY SMTT(30), <1>2, <2>1, SeqDef
<1>5. /\ Len(Frames(m)) = c + 1 /\ Frames(m)[1] = LengthFrame(m)
      /\ \E S : Frames(m) \in Seq(S)
      /\ \A i \in 1..c : Frames(m)[i + 1] = body[i]
  <2> HIDE DEF body
  <2>1. PICK S : body \in Seq(S)
    BY <1>4
  <2>2. /\ <<LengthFrame(m)>> \o body \in Seq(S \cup {LengthFrame(m)})
        /\ Len(<<LengthFrame(m)>> \o body) = Len(body) + 1
        /\ (<<LengthFrame(m)>> \o body)[1] = LengthFrame(m)
        /\ \A i \in 1..Len(body) : (<<LengthFrame(m)>> \o body)[i + 1] = body[i]
    BY <2>1, Headed
  <2> QED
    BY <1>3, <1>4, <2>2
<1> QED
  BY <1>2, <1>5

\* The frames of a message follow each other without gap or overlap, and the
\* last one ends where the blob ends.
LEMMA FramesChain ==
  ASSUME NEW m \in Messages
  PROVE  /\ Frames(m) \in Seq(AnyFrame) /\ Len(Frames(m)) \in Nat /\ Len(Frames(m)) > 1
         /\ Frames(m)[1] = LengthFrame(m)
         /\ \A i \in 1..Len(Frames(m)) :
              /\ Frames(m)[i] \in AnyFrame /\ Frames(m)[i].msg = m
              /\ EndOf(Frames(m)[i]) \in Nat /\ EndOf(Frames(m)[i]) <= Total[m]
         /\ \A i \in 1..(Len(Frames(m)) - 1) :
              /\ EndOf(Frames(m)[i]) < Total[m]
              /\ Frames(m)[i + 1] = Chunks(m, EndOf(Frames(m)[i]))
              /\ Frames(m)[i + 1] = Succ(Frames(m)[i])
         /\ EndOf(Frames(m)[Len(Frames(m))]) = Total[m]
<1> DEFINE c == (Total[m] + Chunk - 1) \div Chunk
           F == Frames(m)
           T == Total[m]
<1>1. /\ c \in Nat \ {0} /\ Len(F) = c + 1
      /\ (c - 1) * Chunk < T /\ T <= c * Chunk
      /\ F[1] = LengthFrame(m) /\ \E S : F \in Seq(S)
      /\ \A i \in 1..c : F[i + 1] = Chunks(m, (i - 1) * Chunk)
  BY FramesAre
<1>2. T \in Nat \ {0} /\ Chunk \in Nat \ {0}
  OBVIOUS
<1> HIDE DEF c, F, T
<1>3. ASSUME NEW i \in 1..c
      PROVE  /\ (i - 1) * Chunk \in Nat /\ (i - 1) * Chunk < T
             /\ i < c => i * Chunk < T
             /\ i * Chunk = (i - 1) * Chunk + Chunk
  <2>1. \A a, b, k \in Nat : a <= b => a * k <= b * k
    OBVIOUS
  <2>2. i - 1 \in Nat /\ i \in Nat /\ c - 1 \in Nat /\ i - 1 <= c - 1
    BY <1>1
  <2>3. (i - 1) * Chunk <= (c - 1) * Chunk
    BY <1>2, <2>1, <2>2
  <2>4. i < c => i * Chunk <= (c - 1) * Chunk
    <3>1. i < c => i <= c - 1
      BY <1>1
    <3> QED
      BY <1>2, <2>1, <2>2, <3>1
  <2>5. i * Chunk = (i - 1) * Chunk + Chunk /\ (i - 1) * Chunk \in Nat /\ i * Chunk \in Nat
        /\ (c - 1) * Chunk \in Nat
    BY <1>2, <2>2
  <2> QED
    BY <1>1, <1>2, <2>3, <2>4, <2>5
<1>4. EndOf(F[1]) = 0 /\ F[1].msg = m /\ F[1] \in AnyFrame
  BY <1>1 DEF EndOf, LengthFrame, AnyFrame
<1>5. ASSUME NEW i \in 1..c
      PROVE  /\ F[i + 1] \in AnyFrame /\ F[i + 1].msg = m
             /\ EndOf(F[i + 1]) = Lesser(i * Chunk, T)
  <2>1. F[i + 1] = [msg |-> m, lo |-> (i - 1) * Chunk, n |-> Lesser(Chunk, T - (i - 1) * Chunk)]
    BY <1>1 DEF Chunks, T
  <2>2. \A l \in Nat : Lesser(Chunk, T - l) \in Int /\ l + Lesser(Chunk, T - l) = Lesser(l + Chunk, T)
    BY <1>2 DEF Lesser
  <2>3. (i - 1) * Chunk \in Nat /\ i * Chunk = (i - 1) * Chunk + Chunk
    BY <1>3
  <2> DEFINE l == (i - 1) * Chunk
  <2>4. Lesser(Chunk, T - l) \in Int /\ l + Lesser(Chunk, T - l) = Lesser(i * Chunk, T)
    BY <2>2, <2>3
  <2>5. l \in Int
    BY <2>3
  <2> HIDE DEF l
  <2> QED
    BY <2>1, <2>4, <2>5 DEF EndOf, AnyFrame, l
<1>6. /\ \A i \in 1..c : i < c => EndOf(F[i + 1]) = i * Chunk /\ i * Chunk < T
      /\ EndOf(F[c + 1]) = T
  <2>1. ASSUME NEW i \in 1..c, i < c PROVE EndOf(F[i + 1]) = i * Chunk /\ i * Chunk < T
    BY <1>2, <1>3, <1>5, <2>1 DEF Lesser
  <2>2. EndOf(F[c + 1]) = T
    <3>1. c \in 1..c /\ c * Chunk \in Nat
      BY <1>1, <1>2
    <3> QED
      BY <1>1, <1>2, <1>5, <3>1 DEF Lesser
  <2> QED
    BY <2>1, <2>2
<1>7. ASSUME NEW i \in 1..(c + 1)
      PROVE  F[i] \in AnyFrame /\ F[i].msg = m /\ EndOf(F[i]) \in Nat /\ EndOf(F[i]) <= T
  <2>1. CASE i = 1
    BY <1>2, <1>4, <2>1
  <2>2. CASE i # 1
    <3>1. i - 1 \in 1..c /\ i = (i - 1) + 1
      BY <1>1, <2>2
    <3>2. (i - 1) * Chunk \in Nat
      BY <1>2, <3>1
    <3>3. EndOf(F[i]) = Lesser((i - 1) * Chunk, T) /\ F[i] \in AnyFrame /\ F[i].msg = m
      BY <1>5, <3>1
    <3> QED
      BY <1>2, <3>2, <3>3 DEF Lesser
  <2> QED
    BY <2>1, <2>2
<1>8. ASSUME NEW i \in 1..c
      PROVE  EndOf(F[i]) < T /\ F[i + 1] = Chunks(m, EndOf(F[i]))
  <2>1. EndOf(F[i]) = (i - 1) * Chunk
    <3>1. CASE i = 1
      BY <1>2, <1>4, <3>1
    <3>2. CASE i # 1
      <4>1. i - 1 \in 1..c /\ i - 1 < c /\ i = (i - 1) + 1
        BY <1>1, <3>2
      <4> QED
        BY <1>6, <4>1
    <3> QED
      BY <3>1, <3>2
  <2> QED
    BY <1>1, <1>3, <2>1
<1>9. ASSUME NEW i \in 1..c PROVE F[i + 1] = Succ(F[i])
  <2>1. F[i].msg = m /\ EndOf(F[i]) \in Nat
    BY <1>1, <1>7
  <2> QED
    BY <1>2, <1>8, <2>1 DEF Succ, T
<1> QED
  <2>1. Len(F) - 1 = c /\ Len(F) \in Nat /\ Len(F) > 1
    BY <1>1
  <2>2. F \in Seq(AnyFrame)
    <3>1. DOMAIN F = 1..Len(F) /\ F = [i \in 1..Len(F) |-> F[i]]
      BY <1>1, LenProperties
    <3>2. F \in [1..Len(F) -> AnyFrame]
      BY <1>1, <1>7, <3>1
    <3> QED
      BY <2>1, <3>2, SeqDef
  <2> QED
    BY <1>1, <1>6, <1>7, <1>8, <1>9, <2>1, <2>2 DEF F, T

-----------------------------------------------------------------------------
(* The handshake, whatever fails *)

LEMMA HandshakeInit == Init => Steps /\ Handshake
BY DEF Init, Steps, Handshake, Opening, Closed

LEMMA HandshakeStep == Steps /\ Handshake /\ [Next]_vars => Steps' /\ Handshake'
<1> SUFFICES ASSUME Steps, Handshake, [Next]_vars PROVE Steps' /\ Handshake'
  OBVIOUS
<1> USE DEF Steps, Handshake, Opening, Closed, Accepts, writerVars, readerVars, netVars
<1>1. CASE Offer
  BY <1>1 DEF Offer
<1>2. CASE Create
  BY <1>2 DEF Create
<1>3. CASE CreateFails
  BY <1>3 DEF CreateFails
<1>4. CASE Subscribe
  BY <1>4 DEF Subscribe
<1>5. CASE RecvSubscription
  BY <1>5 DEF RecvSubscription
<1>6. CASE WaitHello
  BY <1>6 DEF WaitHello
<1>7. CASE HelloTimeout
  BY <1>7 DEF HelloTimeout
<1>8. CASE RecvReady
  BY <1>8 DEF RecvReady
<1>9. CASE Enqueue
  BY <1>9 DEF Enqueue
<1>10. CASE SendFrame
  BY <1>10 DEF SendFrame
<1>11. CASE SendFails
  BY <1>11 DEF SendFails
<1>12. CASE Lose
  <2>1. /\ broken' = TRUE /\ UNCHANGED <<sameHost, wpc, offer, wplane, rpc, rplane, sub, ready>>
        /\ hello' = hello \/ hello' = FALSE
    BY <1>12 DEF Lose
  <2>2. CASE hello' = hello
    BY <2>1, <2>2
  <2>3. CASE hello' = FALSE
    BY <2>1, <2>3
  <2> QED
    BY <2>1, <2>2, <2>3
<1>13. CASE RecvZmq
  BY <1>13 DEF RecvZmq
<1>14. CASE StartRecv
  BY <1>14 DEF StartRecv
<1>15. CASE RecvLength
  BY <1>15 DEF RecvLength
<1>16. CASE RecvBody
  BY <1>16 DEF RecvBody
<1>17. CASE UNCHANGED vars
  BY <1>17 DEF vars
<1>18. CASE WaitHelloFails
  BY <1>18 DEF WaitHelloFails
<1>19. CASE RecvFails
  BY <1>19 DEF RecvFails
<1> QED
  BY <1>1, <1>2, <1>3, <1>4, <1>5, <1>6, <1>7, <1>8, <1>9, <1>10, <1>11, <1>12, <1>13,
     <1>14, <1>15, <1>16, <1>17, <1>18, <1>19 DEF Next, Writer, Reader

\* The writer never sends on a stream that no reader opened, and once it has
\* answered the subscription both sides are on one plane, unless the hello was
\* lost: with any failure of either endpoint and on one box or two.
THEOREM OnePlane == Spec => []PlanesAgree
<1>1. Steps /\ Handshake => PlanesAgree
  BY DEF Steps, Handshake, Opening, PlanesAgree
<1> QED
  BY <1>1, HandshakeInit, HandshakeStep, PTL DEF Spec

-----------------------------------------------------------------------------
(* Messages, until something is lost *)

LEMMA Shapes ==
  ASSUME Shape
  PROVE  /\ sent \in Nat /\ Len(got) \in Nat /\ Len(zq) \in Nat /\ Coming \in Nat
         /\ Len(out) \in Nat /\ Len(frames) \in Nat /\ Len(pieces) \in Nat
         /\ out # << >> => /\ Len(out) > 0 /\ out[1] \in AnyFrame /\ Head(out) = out[1]
                           /\ Tail(out) \in Seq(AnyFrame)
         /\ frames # << >> => /\ Len(frames) > 0 /\ frames[1] \in AnyFrame
                              /\ Head(frames) = frames[1] /\ Tail(frames) \in Seq(AnyFrame)
BY DEF Shape, Coming

\* A step that leaves what is on its way alone.
LEMMA StillContent ==
  ASSUME Content, UNCHANGED <<out, sent, pieces, got, frames, zq, want, wplane>>,
         rpc' \in {"length", "body"} <=> rpc \in {"length", "body"},
         rpc \in {"length", "body"} => rpc' = rpc,
         wpc' = "sending" <=> wpc = "sending",
         wpc \in {"up", "sending"} => wpc' \in {"up", "sending"}
  PROVE  Content'
<1>1. Shape' /\ (\A j \in 1..Len(got) : got[j] = j)'
  BY DEF Content, Shape
<1>2. Due' = Due /\ Upcoming' = Upcoming
  BY DEF Due, Upcoming, Coming
<1>3. (wplane = "zmq" => OnZmq)'
  BY DEF Content, OnZmq
<1>4. (wplane = "odl" => OnStream)'
  BY <1>2 DEF Content, OnStream, Chained
<1>5. (wplane = "odl" => Received)'
  BY DEF Content, Received, Coming
<1> QED
  BY <1>1, <1>3, <1>4, <1>5 DEF Content

\* The stream is as empty as the zmq plane was when the writer moves over.
LEMMA WaitHelloContent == ASSUME Steps, Content, Handshake, WaitHello PROVE Content'
<1>1. /\ Shape /\ OnZmq /\ sent = 0 /\ wpc = "hello" /\ wpc' = "up" /\ wplane' = "odl"
      /\ UNCHANGED <<out, sent, pieces, got, frames, zq, want, rpc>>
  BY DEF WaitHello, Content, Handshake, Opening, Shape, readerVars
<1>2. Len(got) = 0 /\ Len(zq) = 0 /\ zq = << >>
  BY <1>1, Shapes DEF OnZmq, Shape
<1>3. Shape'
  BY <1>1 DEF Shape
<1>4. OnStream' /\ Received'
  BY <1>1, <1>2 DEF OnZmq, OnStream, Received, Upcoming, Due, Coming
<1> QED
  BY <1>1, <1>2, <1>3, <1>4 DEF Content

\* A message enters its plane behind all that went before it.
LEMMA EnqueueContent == ASSUME Steps, Content, Enqueue PROVE Content'
<1>1. /\ Shape /\ wpc = "up" /\ out = << >> /\ sent' = sent + 1 /\ sent + 1 \in Messages
      /\ UNCHANGED <<wplane, rpc, want, pieces, got, frames>>
      /\ sent + 1 \in 0..MaxMsgs
  BY DEF Content, Shape, Enqueue, readerVars, Messages
<1>2. CASE wplane = "odl"
  <2> DEFINE m == sent + 1
  <2>1. out' = Frames(m) /\ wpc' = "sending" /\ zq' = zq /\ OnStream /\ Received
    BY <1>2 DEF Content, Enqueue
  <2>2. /\ Frames(m) \in Seq(AnyFrame)
        /\ Len(Frames(m)) \in Nat /\ Len(Frames(m)) > 1 /\ Frames(m)[1] = LengthFrame(m)
        /\ \A i \in 1..Len(Frames(m)) : Frames(m)[i] \in AnyFrame
        /\ \A i \in 1..(Len(Frames(m)) - 1) : Frames(m)[i + 1] = Succ(Frames(m)[i])
        /\ EndOf(Frames(m)[Len(Frames(m))]) = Total[m]
        /\ Frames(m)[Len(Frames(m))].msg = m
    BY <1>1, FramesChain
  <2>3. Frames(m) \in Seq(AnyFrame) /\ Frames(m) # << >>
    BY <2>2
  <2>4. Shape'
    BY <1>1, <2>1, <2>3 DEF Shape
  <2>5. Chained(out)' /\ Succ(out[Len(out)])' = LengthFrame(sent' + 1)
    BY <1>1, <2>1, <2>2 DEF Chained, Succ
  <2>6. Upcoming' = Upcoming /\ Due' = Due
    BY <1>1, <2>1, <2>2, <2>3 DEF Upcoming, Due, Coming
  <2>7. OnStream'
    BY <1>1, <2>1, <2>5, <2>6 DEF OnStream, Chained
  <2>8. Received'
    BY <1>1, <2>1 DEF Received, Coming
  <2> QED
    BY <1>1, <1>2, <2>4, <2>7, <2>8 DEF Content
<1>3. CASE wplane = "zmq"
  <2>1. zq' = Append(zq, sent + 1) /\ UNCHANGED <<out, wpc>> /\ OnZmq
    BY <1>3 DEF Content, Enqueue
  <2>2. /\ sent \in Nat /\ Len(got) \in Nat /\ Len(zq) \in Nat
        /\ Len(zq') = Len(zq) + 1 /\ zq'[Len(zq) + 1] = sent + 1
        /\ \A i \in 1..Len(zq) : zq'[i] = zq[i]
    BY <1>1, <2>1, Shapes DEF Shape
  <2>3. zq' \in Seq(Int)
    BY <1>1, <2>1, <2>2 DEF Shape
  <2>4. Shape'
    BY <1>1, <2>1, <2>3 DEF Shape
  <2>5. ASSUME NEW i \in 1..Len(zq') PROVE zq'[i] = Len(got) + i
    <3>1. CASE i = Len(zq) + 1
      BY <2>1, <2>2, <3>1 DEF OnZmq
    <3>2. CASE i \in 1..Len(zq)
      BY <2>1, <2>2, <3>2 DEF OnZmq
    <3> QED
      BY <2>2, <3>1, <3>2
  <2>6. OnZmq'
    BY <1>1, <2>1, <2>2, <2>5 DEF OnZmq
  <2> QED
    BY <1>1, <1>3, <2>4, <2>6 DEF Content
<1> QED
  BY <1>2, <1>3 DEF Steps

\* A frame moves from the writer to the stream.
LEMMA SendFrameContent == ASSUME Steps, Content, SendFrame PROVE Content'
<1>1. /\ Shape /\ out # << >> /\ wplane = "odl" /\ OnStream /\ Received
      /\ frames' = Append(frames, Head(out)) /\ out' = Tail(out)
      /\ wpc' = (IF Len(out) = 1 THEN "up" ELSE "sending")
      /\ UNCHANGED <<wplane, sent, rpc, want, pieces, got, zq>>
  BY DEF Steps, Content, Shape, OnZmq, SendFrame, readerVars
<1>2. /\ Len(out) \in Nat /\ Len(out) > 0 /\ Head(out) = out[1] /\ out[1] \in AnyFrame
      /\ Tail(out) \in Seq(AnyFrame) /\ Len(frames) \in Nat
  BY <1>1, Shapes
<1>3. /\ frames' \in Seq(AnyFrame) /\ Len(frames') = Len(frames) + 1
      /\ frames'[Len(frames) + 1] = out[1]
      /\ \A i \in 1..Len(frames) : frames'[i] = frames[i]
  BY <1>1, <1>2 DEF Shape
<1>4. /\ Len(out') = Len(out) - 1
      /\ \A i \in 1..(Len(out) - 1) : out'[i] = out[i + 1]
      /\ out' \in Seq(AnyFrame)
  BY <1>1, <1>2, HeadTailProperties DEF Shape
<1>5. (out' = << >> <=> Len(out) = 1) /\ Shape'
  <2>1. out' = << >> <=> Len(out') = 0
    BY <1>4, EmptySeq
  <2>2. out' = << >> <=> Len(out) = 1
    BY <1>2, <1>4, <2>1
  <2> QED
    BY <1>1, <1>2, <1>3, <1>4, <2>2 DEF Shape
<1>6. Due' = Due /\ Upcoming = out[1]
  BY <1>1 DEF Due, Upcoming, Coming
<1>7. Upcoming' = Succ(out[1])
  <2>1. CASE Len(out) = 1
    <3>1. Upcoming' = LengthFrame(sent + 1)
      BY <1>1, <1>5, <2>1 DEF Upcoming
    <3>2. Succ(out[Len(out)]) = LengthFrame(sent + 1)
      BY <1>1 DEF OnStream
    <3> QED
      BY <2>1, <3>1, <3>2
  <2>2. CASE Len(out) # 1
    <3>1. 1 \in 1..(Len(out) - 1)
      <4>1. \A k \in Nat : k > 0 /\ k # 1 => 1 \in 1..(k - 1)
        OBVIOUS
      <4> QED
        BY <1>2, <2>2, <4>1
    <3>2. Upcoming' = out'[1] /\ out'[1] = out[1 + 1]
      BY <1>4, <1>5, <2>2, <3>1 DEF Upcoming
    <3>3. out[1 + 1] = Succ(out[1])
      BY <1>1, <3>1 DEF OnStream, Chained
    <3> QED
      BY <3>2, <3>3
  <2> QED
    BY <2>1, <2>2
<1>8. frames' # << >> /\ frames'[1] = Due /\ Upcoming' = Succ(frames'[Len(frames')])
  <2>1. frames'[1] = Due
    <3>1. CASE frames = << >>
      BY <1>1, <1>3, <1>6, <3>1 DEF OnStream
    <3>2. CASE frames # << >>
      BY <1>1, <1>3, <3>2, Shapes DEF OnStream
    <3> QED
      BY <3>1, <3>2
  <2> QED
    BY <1>2, <1>3, <1>7, <2>1
<1>9. Chained(frames)'
  <2>1. ASSUME NEW i \in 1..(Len(frames') - 1) PROVE frames'[i + 1] = Succ(frames'[i])
    <3>1. i \in 1..Len(frames) /\ frames # << >> /\ frames'[i] = frames[i]
      BY <1>2, <1>3
    <3>2. CASE i = Len(frames)
      BY <1>1, <1>3, <1>6, <3>1, <3>2 DEF OnStream
    <3>3. CASE i # Len(frames)
      <4>1. i \in 1..(Len(frames) - 1) /\ i + 1 \in 1..Len(frames)
        BY <1>2, <3>1, <3>3
      <4> QED
        BY <1>1, <1>3, <3>1, <4>1 DEF OnStream, Chained
    <3> QED
      BY <3>2, <3>3
  <2> QED
    BY <2>1 DEF Chained, Succ
<1>10. out' # << >> => Chained(out)' /\ Succ(out[Len(out)])' = LengthFrame(sent' + 1)
  <2> SUFFICES ASSUME Len(out) # 1
               PROVE  Chained(out)' /\ Succ(out[Len(out)])' = LengthFrame(sent' + 1)
    BY <1>5
  <2>1. ASSUME NEW i \in 1..(Len(out') - 1) PROVE out'[i + 1] = Succ(out'[i])
    <3>1. i \in 1..(Len(out) - 1) /\ i + 1 \in 1..(Len(out) - 1)
      BY <1>2, <1>4
    <3>2. out'[i] = out[i + 1] /\ out'[i + 1] = out[(i + 1) + 1]
      BY <1>4, <3>1
    <3>3. out[(i + 1) + 1] = Succ(out[i + 1])
      BY <1>1, <3>1 DEF OnStream, Chained
    <3> QED
      BY <3>2, <3>3
  <2>2. out'[Len(out')] = out[Len(out)]
    <3>1. Len(out) - 1 \in 1..(Len(out) - 1) /\ (Len(out) - 1) + 1 = Len(out)
      <4>1. \A k \in Nat : k > 0 /\ k # 1 => k - 1 \in 1..(k - 1) /\ (k - 1) + 1 = k
        OBVIOUS
      <4> QED
        BY <1>2, <4>1
    <3> QED
      BY <1>4, <3>1
  <2>3. Succ(out[Len(out)]) = LengthFrame(sent + 1)
    BY <1>1 DEF OnStream
  <2>4. Chained(out)'
    BY <2>1 DEF Chained, Succ
  <2> QED
    BY <1>1, <2>2, <2>3, <2>4 DEF Succ
<1>11. OnStream'
  BY <1>1, <1>6, <1>8, <1>9, <1>10 DEF OnStream
<1>12. Received'
  BY <1>1 DEF Received, Coming
<1> QED
  BY <1>1, <1>5, <1>11, <1>12 DEF Content

\* A reader on zmq takes the oldest message.
LEMMA RecvZmqContent == ASSUME Steps, Content, Handshake, RecvZmq PROVE Content'
<1>1. /\ Shape /\ wplane = "zmq" /\ OnZmq /\ zq # << >> /\ \A j \in 1..Len(got) : got[j] = j
      /\ got' = Append(got, Head(zq)) /\ zq' = Tail(zq)
      /\ UNCHANGED <<wpc, wplane, out, sent, rpc, want, pieces, frames>>
  BY DEF Steps, Handshake, Content, RecvZmq, writerVars
<1>2. zq \in Seq(Int) /\ got \in Seq(Int) /\ Len(got) \in Nat /\ Len(zq) \in Nat
  BY <1>1 DEF Shape
<1>3. /\ Head(zq) = zq[1] /\ Tail(zq) \in Seq(Int) /\ Len(Tail(zq)) = Len(zq) - 1
      /\ \A i \in 1..(Len(zq) - 1) : Tail(zq)[i] = zq[i + 1]
      /\ Len(zq) > 0
  BY <1>1, <1>2, HeadTailProperties
<1>4. zq[1] = Len(got) + 1
  <2>1. 1 \in 1..Len(zq)
    BY <1>2, <1>3
  <2> QED
    BY <1>1, <2>1 DEF OnZmq
<1>5. /\ got' \in Seq(Int) /\ Len(got') = Len(got) + 1 /\ got'[Len(got) + 1] = Len(got) + 1
      /\ \A j \in 1..Len(got) : got'[j] = got[j]
  BY <1>1, <1>2, <1>3, <1>4
<1>6. Shape'
  BY <1>1, <1>3, <1>5 DEF Shape
<1>7. ASSUME NEW j \in 1..Len(got') PROVE got'[j] = j
  <2>1. j \in 1..Len(got) \/ j = Len(got) + 1
    BY <1>2, <1>5
  <2> QED
    BY <1>1, <1>5, <2>1
<1>8. ASSUME NEW i \in 1..Len(zq') PROVE zq'[i] = Len(got') + i
  <2>1. i \in 1..(Len(zq) - 1) /\ i + 1 \in 1..Len(zq) /\ i \in Nat
    BY <1>1, <1>2, <1>3
  <2>2. zq'[i] = zq[i + 1] /\ zq[i + 1] = Len(got) + (i + 1)
    BY <1>1, <1>3, <2>1 DEF OnZmq
  <2> QED
    BY <1>2, <1>5, <2>1, <2>2
<1>9. OnZmq'
  <2>1. Len(zq') = sent' - Len(got')
    <3>1. sent \in Int /\ Len(zq) = sent - Len(got)
      BY <1>1, Shapes DEF OnZmq
    <3>2. Len(zq') = Len(zq) - 1 /\ sent' = sent /\ Len(got') = Len(got) + 1
      BY <1>1, <1>3, <1>5
    <3>3. \A x, y, z \in Int : x = y - z => x - 1 = y - (z + 1)
      OBVIOUS
    <3> QED
      BY <1>2, <3>1, <3>2, <3>3
  <2> QED
    BY <1>1, <1>8, <2>1 DEF OnZmq
<1> QED
  BY <1>1, <1>6, <1>7, <1>9 DEF Content

\* A frame leaves the stream and the one behind it is due.
LEMMA TakeFrame ==
  ASSUME Shape, OnStream, frames # << >>, frames' = Tail(frames), Due' = Succ(frames[1]),
         UNCHANGED <<out, sent, zq>>
  PROVE  OnStream' /\ frames' \in Seq(AnyFrame)
<1>1. /\ frames \in Seq(AnyFrame) /\ Len(frames) \in Nat /\ Len(frames) > 0
      /\ frames' \in Seq(AnyFrame) /\ Len(frames') = Len(frames) - 1
      /\ \A i \in 1..(Len(frames) - 1) : frames'[i] = frames[i + 1]
  BY HeadTailProperties DEF Shape
<1>2. Upcoming' = Upcoming /\ Upcoming = Succ(frames[Len(frames)]) /\ Chained(frames)
  BY DEF Upcoming, OnStream
<1>3. (out # << >> => Chained(out) /\ Succ(out[Len(out)]) = LengthFrame(sent + 1))'
  BY DEF OnStream, Chained
<1>4. CASE Len(frames) = 1
  <2>1. frames' = << >>
    BY <1>1, <1>4, EmptySeq
  <2>2. Upcoming' = Due'
    BY <1>2, <1>4
  <2> QED
    BY <1>1, <1>3, <2>1, <2>2 DEF OnStream
<1>5. CASE Len(frames) # 1
  <2>1. \A k \in Nat : k > 0 /\ k # 1 =>
          1 \in 1..(k - 1) /\ k - 1 \in 1..(k - 1) /\ (k - 1) + 1 = k /\ k - 1 # 0
    OBVIOUS
  <2>2. 1 \in 1..(Len(frames) - 1) /\ Len(frames) - 1 \in 1..(Len(frames) - 1)
        /\ (Len(frames) - 1) + 1 = Len(frames) /\ Len(frames) - 1 # 0
    BY <1>1, <1>5, <2>1
  <2>3. frames' # << >>
    BY <1>1, <2>2
  <2>4. frames'[1] = frames[1 + 1] /\ frames[1 + 1] = Succ(frames[1])
    BY <1>1, <1>2, <2>2 DEF Chained
  <2>5. frames'[Len(frames')] = frames[Len(frames)]
    BY <1>1, <2>2
  <2>6. ASSUME NEW i \in 1..(Len(frames') - 1) PROVE frames'[i + 1] = Succ(frames'[i])
    <3>1. i \in 1..(Len(frames) - 1) /\ i + 1 \in 1..(Len(frames) - 1)
      BY <1>1
    <3>2. frames'[i] = frames[i + 1] /\ frames'[i + 1] = frames[(i + 1) + 1]
      BY <1>1, <3>1
    <3>3. frames[(i + 1) + 1] = Succ(frames[i + 1])
      BY <1>2, <3>1 DEF Chained
    <3> QED
      BY <3>2, <3>3
  <2>7. Chained(frames)'
    BY <2>6 DEF Chained, Succ
  <2>8. Upcoming' = Succ(frames'[Len(frames')]) /\ frames'[1] = Due'
    BY <1>2, <2>4, <2>5
  <2> QED
    BY <1>1, <1>3, <2>3, <2>7, <2>8 DEF OnStream, Succ
<1> QED
  BY <1>4, <1>5

\* The next frame is the one that says how long the message is.
LEMMA RecvLengthContent == ASSUME Steps, Content, RecvLength PROVE Content'
<1>1. /\ Shape /\ wplane = "odl" /\ OnStream /\ Received /\ \A j \in 1..Len(got) : got[j] = j
      /\ rpc = "length" /\ frames # << >> /\ frames' = Tail(frames)
      /\ pieces' = Append(pieces, Piece)
      /\ want' \in (IF Piece.lo = -1 THEN {Total[Piece.msg]} ELSE 1..Longest)
      /\ rpc' = "body" /\ UNCHANGED <<wpc, wplane, out, sent, got, zq>>
  BY DEF Steps, Content, OnZmq, RecvLength, RecvPiece, writerVars
<1>2. want = 1 /\ pieces = << >>
  BY <1>1 DEF Received
<1>3. /\ frames[1] \in AnyFrame /\ Head(frames) = frames[1] /\ frames[1] = LengthFrame(Coming)
  BY <1>1, Shapes DEF OnStream, Due
<1>4. Coming \in Messages
  BY <1>3 DEF LengthFrame, AnyFrame
<1>5. Piece = LengthFrame(Coming)
  <2>1. Lesser(Lesser(Chunk, 1), 1) = 1
    BY DEF Lesser
  <2>2. [LengthFrame(Coming) EXCEPT !.n = 1] = LengthFrame(Coming)
    BY DEF LengthFrame
  <2>3. LengthFrame(Coming).n = 1
    BY DEF LengthFrame
  <2> QED
    BY <1>2, <1>3, <2>1, <2>2, <2>3 DEF Piece
<1>6. want' = Total[Coming] /\ pieces' = <<LengthFrame(Coming)>>
  BY <1>1, <1>2, <1>5 DEF LengthFrame
<1>7. Coming' = Coming /\ Len(pieces') = 1 /\ pieces'[1] = LengthFrame(Coming)
  BY <1>1, <1>6 DEF Coming
<1>8. OnStream' /\ frames' \in Seq(AnyFrame)
  <2>1. Due' = Succ(frames[1])
    BY <1>1, <1>3, <1>7 DEF Due, Succ
  <2> QED
    BY <1>1, <2>1, TakeFrame
<1>9. Shape'
  <2>1. pieces' \in Seq(AnyFrame)
    BY <1>3, <1>6
  <2> QED
    BY <1>1, <1>8, <2>1 DEF Shape
<1>10. Received'
  <2>1. /\ Len(Frames(Coming)) \in Nat /\ Len(Frames(Coming)) > 1
        /\ Frames(Coming)[1] = LengthFrame(Coming)
    BY <1>4, FramesChain
  <2>2. EndOf(LengthFrame(Coming)) = 0 /\ Total[Coming] \in Nat \ {0}
    BY <1>4 DEF EndOf, LengthFrame
  <2>3. want' = Total[Coming] - EndOf(pieces'[Len(pieces')]) /\ want' > 0
    BY <1>6, <1>7, <2>2
  <2>4. \A i \in 1..Len(pieces') : pieces'[i] = Frames(Coming)[i]
    BY <1>7, <2>1
  <2>5. Len(pieces') \in 1..Len(Frames(Coming))
    BY <1>7, <2>1
  <2> QED
    BY <1>1, <1>4, <1>7, <2>3, <2>4, <2>5 DEF Received, EndOf
<1> QED
  BY <1>1, <1>8, <1>9, <1>10 DEF Content

\* Only the frames of a message add up to it.
LEMMA FramesDiffer ==
  ASSUME NEW m \in Messages, NEW k \in Messages, Frames(m) = Frames(k)
  PROVE  m = k
<1>1. LengthFrame(m) = LengthFrame(k)
  BY FramesChain
<1> QED
  BY <1>1 DEF LengthFrame

\* One more chunk of the message the reader is in, or its last one.
LEMMA RecvBodyContent == ASSUME Steps, Content, RecvBody PROVE Content'
<1> DEFINE m == Coming
           l == Len(pieces)
           f == frames[1]
<1>1. /\ Shape /\ wplane = "odl" /\ OnStream /\ Received /\ \A j \in 1..Len(got) : got[j] = j
      /\ rpc = "body" /\ frames # << >> /\ frames' = Tail(frames)
      /\ pieces' = Append(pieces, Piece)
      /\ want' = want - Piece.n
      /\ UNCHANGED <<wpc, wplane, out, sent, zq>>
  BY DEF Steps, Content, OnZmq, RecvBody, RecvPiece, writerVars
<1>2. /\ m \in Messages /\ l \in 1..Len(Frames(m))
      /\ \A i \in 1..l : pieces[i] = Frames(m)[i]
      /\ want = Total[m] - EndOf(pieces[l]) /\ want > 0
  BY <1>1 DEF Received
<1>3. /\ Frames(m) \in Seq(AnyFrame) /\ Len(Frames(m)) \in Nat
      /\ \A i \in 1..Len(Frames(m)) :
           /\ Frames(m)[i] \in AnyFrame /\ Frames(m)[i].msg = m
           /\ EndOf(Frames(m)[i]) \in Nat /\ EndOf(Frames(m)[i]) <= Total[m]
      /\ \A i \in 1..(Len(Frames(m)) - 1) :
           /\ EndOf(Frames(m)[i]) < Total[m]
           /\ Frames(m)[i + 1] = Chunks(m, EndOf(Frames(m)[i]))
           /\ Frames(m)[i + 1] = Succ(Frames(m)[i])
      /\ EndOf(Frames(m)[Len(Frames(m))]) = Total[m]
  BY <1>2, FramesChain
<1>4. Total[m] \in Nat \ {0} /\ l \in Nat /\ l > 0 /\ pieces[l] = Frames(m)[l]
  BY <1>2, <1>3
<1>5. l < Len(Frames(m)) /\ l \in 1..(Len(Frames(m)) - 1) /\ l + 1 \in 1..Len(Frames(m))
  <2>1. l # Len(Frames(m))
    BY <1>2, <1>3, <1>4
  <2> QED
    BY <1>2, <1>3, <1>4, <2>1
<1>6. f = Frames(m)[l + 1] /\ Head(frames) = f /\ f \in AnyFrame
  <2>1. f = Succ(pieces[l])
    BY <1>1 DEF OnStream, Due
  <2> QED
    BY <1>1, <1>3, <1>4, <1>5, <2>1, Shapes
<1>7. f = Chunks(m, EndOf(pieces[l])) /\ f.n = Lesser(Chunk, want)
  <2>1. f = Chunks(m, EndOf(pieces[l]))
    BY <1>3, <1>4, <1>5, <1>6
  <2> QED
    BY <1>2, <2>1 DEF Chunks
<1>8. Piece = f
  <2>1. EndOf(pieces[l]) \in Nat /\ want \in Int
    BY <1>2, <1>3, <1>4
  <2>2. Lesser(Lesser(Chunk, want), Lesser(Chunk, want)) = Lesser(Chunk, want)
    BY <2>1 DEF Lesser
  <2>3. [f EXCEPT !.n = f.n] = f
    BY <1>6 DEF AnyFrame
  <2> QED
    BY <1>6, <1>7, <2>2, <2>3 DEF Piece
<1>9. want' = Total[m] - EndOf(f) /\ EndOf(f) \in Nat /\ EndOf(f) <= Total[m]
  <2>1. EndOf(f) = EndOf(pieces[l]) + f.n
    BY <1>7 DEF Chunks, EndOf
  <2>2. EndOf(pieces[l]) \in Nat /\ f.n \in Int /\ EndOf(f) \in Nat /\ EndOf(f) <= Total[m]
    <3>1. l \in 1..Len(Frames(m)) /\ l + 1 \in 1..Len(Frames(m))
      BY <1>2, <1>5
    <3>2. EndOf(pieces[l]) \in Nat
      BY <1>3, <1>4, <3>1
    <3>3. EndOf(f) \in Nat /\ EndOf(f) <= Total[m]
      BY <1>3, <1>6, <3>1
    <3>4. f.n \in Int
      BY <1>6 DEF AnyFrame
    <3> QED
      BY <3>2, <3>3, <3>4
  <2>3. want' = Total[m] - EndOf(pieces[l]) - f.n
    BY <1>1, <1>2, <1>8
  <2> HIDE DEF f, l, m
  <2> QED
    BY <1>4, <2>1, <2>2, <2>3
<1>10. /\ pieces' \in Seq(AnyFrame) /\ Len(pieces') = l + 1 /\ pieces'[l + 1] = f
       /\ \A i \in 1..(l + 1) : pieces'[i] = Frames(m)[i]
  <2>1. pieces \in Seq(AnyFrame) /\ pieces' = Append(pieces, f)
    BY <1>1, <1>8 DEF Shape
  <2>2. /\ pieces' \in Seq(AnyFrame) /\ Len(pieces') = l + 1 /\ pieces'[l + 1] = f
        /\ \A i \in 1..l : pieces'[i] = pieces[i]
    BY <1>6, <2>1, AppendProperties
  <2>3. \A i \in 1..(l + 1) : i \in 1..l \/ i = l + 1
    BY <1>4
  <2> QED
    BY <1>2, <1>6, <2>2, <2>3
<1>11. CASE want' > 0
  <2>1. rpc' = rpc /\ got' = got /\ m' = m
    BY <1>11 DEF RecvBody, Coming
  <2>2. Due' = Succ(f)
    BY <1>1, <1>10, <2>1 DEF Due, Succ
  <2>3. OnStream' /\ frames' \in Seq(AnyFrame)
    BY <1>1, <2>2, TakeFrame
  <2>4. Shape'
    BY <1>1, <1>10, <2>1, <2>3 DEF Shape
  <2>5. Received'
    <3>1. Len(pieces') \in 1..Len(Frames(m)) /\ pieces'[Len(pieces')] = f
      BY <1>5, <1>10
    <3>2. \A i \in 1..Len(pieces') : pieces'[i] = Frames(m)[i]
      BY <1>10
    <3> QED
      BY <1>1, <1>2, <1>9, <1>11, <2>1, <3>1, <3>2 DEF Received, EndOf
  <2> QED
    BY <1>1, <2>1, <2>3, <2>4, <2>5 DEF Content
<1>12. CASE ~(want' > 0)
  <2>1. EndOf(f) = Total[m]
    BY <1>4, <1>9, <1>12
  <2>2. l + 1 = Len(Frames(m))
    <3>1. ~(l + 1 \in 1..(Len(Frames(m)) - 1))
      BY <1>3, <1>4, <1>6, <2>1
    <3> QED
      BY <1>3, <1>4, <1>5, <3>1
  <2>3. pieces' = Frames(m)
    BY <1>3, <1>10, <2>2, SeqEqual
  <2>4. rpc' = "idle" /\ got' = Append(got, m)
    <3>1. rpc' = "idle" /\ \E k \in 0..MaxMsgs :
            /\ IF k > 0 THEN pieces' = Frames(k) ELSE \A j \in Messages : pieces' # Frames(j)
            /\ got' = Append(got, k)
      BY <1>12 DEF RecvBody
    <3>2. PICK k \in 0..MaxMsgs :
            /\ IF k > 0 THEN pieces' = Frames(k) ELSE \A j \in Messages : pieces' # Frames(j)
            /\ got' = Append(got, k)
      BY <3>1
    <3>3. k > 0 /\ k \in Messages
      BY <1>2, <2>3, <3>2 DEF Messages
    <3>4. k = m
      BY <1>2, <2>3, <3>2, <3>3, FramesDiffer
    <3> QED
      BY <3>1, <3>2, <3>4
  <2>5. got \in Seq(Int) /\ Len(got) \in Nat /\ m = Len(got) + 1 /\ m \in Int
    BY <1>1 DEF Shape, Coming
  <2>6. /\ got' \in Seq(Int) /\ Len(got') = Len(got) + 1 /\ got'[Len(got) + 1] = m
        /\ \A j \in 1..Len(got) : got'[j] = got[j]
    BY <2>4, <2>5, AppendProperties
  <2>7. ASSUME NEW j \in 1..Len(got') PROVE got'[j] = j
    <3>1. j \in 1..Len(got) \/ j = Len(got) + 1
      BY <2>5, <2>6
    <3> QED
      BY <1>1, <2>5, <2>6, <3>1
  <2>8. Due' = Succ(f)
    <3>1. Due' = LengthFrame(Len(got') + 1)
      BY <2>4 DEF Due, Coming
    <3>2. Succ(f) = LengthFrame(m + 1)
      BY <1>3, <1>5, <1>6, <2>1 DEF Succ
    <3> QED
      BY <2>5, <2>6, <3>1, <3>2
  <2>9. OnStream' /\ frames' \in Seq(AnyFrame)
    BY <1>1, <2>8, TakeFrame
  <2>10. Shape'
    BY <1>1, <1>10, <2>6, <2>9 DEF Shape
  <2>11. Received'
    BY <2>4 DEF Received
  <2> QED
    BY <1>1, <2>7, <2>9, <2>10, <2>11 DEF Content
<1> QED
  BY <1>11, <1>12

-----------------------------------------------------------------------------
(* The invariant *)

LEMMA InvInit == Init => IInv
<1> SUFFICES ASSUME Init PROVE IInv
  OBVIOUS
<1>1. /\ wpc = "init" /\ rpc = "init" /\ wplane = "zmq" /\ sent = 0
      /\ out = << >> /\ frames = << >> /\ pieces = << >> /\ got = << >> /\ zq = << >>
  BY DEF Init
<1>2. Len(got) = 0 /\ Len(zq) = 0
  BY <1>1
<1>3. Shape
  <2>1. /\ got \in Seq(Int) /\ zq \in Seq(Int)
        /\ out \in Seq(AnyFrame) /\ frames \in Seq(AnyFrame) /\ pieces \in Seq(AnyFrame)
    BY <1>1, EmptySeq
  <2>2. sent \in 0..MaxMsgs
    BY <1>1
  <2>3. wpc = "sending" <=> out # << >>
    BY <1>1
  <2> QED
    BY <1>1, <2>1, <2>2, <2>3 DEF Shape
<1>4. OnZmq
  <2>1. Len(zq) = sent - Len(got)
    <3>1. sent = 0
      BY <1>1
    <3> QED
      BY <1>2, <3>1
  <2>2. \A i : ~(i \in 1..Len(zq))
    BY <1>2
  <2>3. out = << >> /\ frames = << >> /\ rpc \notin {"length", "body"}
    BY <1>1
  <2> QED
    BY <2>1, <2>2, <2>3 DEF OnZmq
<1>5. Content
  BY <1>1, <1>2, <1>3, <1>4 DEF Content
<1> QED
  BY <1>5, HandshakeInit DEF IInv

LEMMA ContentStep ==
  ASSUME Steps, Handshake, Content, [Next]_vars, ~broken'
  PROVE  Content'
<1> USE DEF writerVars, readerVars, netVars
<1>1. CASE Offer \/ RecvSubscription \/ HelloTimeout \/ WaitHelloFails
  <2>1. /\ wpc \in {"init", "subscription", "hello"}
        /\ wpc' \in {"subscription", "hello", "up", "raised"}
        /\ UNCHANGED <<out, sent, pieces, got, frames, zq, want, wplane, rpc>>
    BY <1>1 DEF Offer, RecvSubscription, HelloTimeout, WaitHelloFails
  <2> QED
    BY <2>1, StillContent
<1>2. CASE Create \/ CreateFails \/ Subscribe \/ RecvReady
  <2>1. /\ rpc \in {"init", "connect", "ready"}
        /\ rpc' \in {"connect", "raised", "ready", "idle"}
        /\ UNCHANGED <<out, sent, pieces, got, frames, zq, want, wplane, wpc>>
    BY <1>2 DEF Create, CreateFails, Subscribe, RecvReady
  <2> QED
    BY <2>1, StillContent
<1>3. CASE WaitHello
  BY <1>3, WaitHelloContent
<1>4. CASE Enqueue
  BY <1>4, EnqueueContent
<1>5. CASE SendFrame
  BY <1>5, SendFrameContent
<1>6. CASE RecvZmq
  BY <1>6, RecvZmqContent
<1>7. CASE StartRecv
  <2>1. /\ rpc = "idle" /\ rpc' = "length" /\ want' = 1 /\ pieces' = << >> /\ frames # << >>
        /\ UNCHANGED <<wpc, wplane, out, sent, got, frames, zq>>
    BY <1>7 DEF StartRecv
  <2>2. wplane = "odl" /\ OnStream /\ Shape /\ \A j \in 1..Len(got) : got[j] = j
    BY <2>1 DEF Steps, Content, OnZmq
  <2>3. Shape'
    BY <2>1, <2>2 DEF Shape
  <2>4. Due' = Due /\ Upcoming' = Upcoming
    BY <2>1 DEF Due, Upcoming, Coming
  <2>5. OnStream'
    BY <2>1, <2>2, <2>4 DEF OnStream, Chained
  <2>6. Received'
    BY <2>1 DEF Received
  <2> QED
    BY <2>1, <2>2, <2>3, <2>5, <2>6 DEF Content
<1>8. CASE RecvLength
  BY <1>8, RecvLengthContent
<1>9. CASE RecvBody
  BY <1>9, RecvBodyContent
<1>10. CASE UNCHANGED vars
  BY <1>10, StillContent DEF vars
\* Nothing has been read yet where the stream is not broken.
<1>11. CASE RecvFails
  <2>1. /\ rpc = "length" /\ rpc' = "idle"
        /\ UNCHANGED <<wpc, wplane, out, sent, pieces, got, frames, zq, want>>
    BY <1>11 DEF RecvFails
  <2>2. wplane = "odl" /\ OnStream /\ Shape /\ \A j \in 1..Len(got) : got[j] = j
    BY <2>1 DEF Steps, Content, OnZmq
  <2>3. Shape'
    BY <2>1, <2>2 DEF Shape
  <2>4. Due' = Due /\ Upcoming' = Upcoming
    BY <2>1 DEF Due, Upcoming, Coming
  <2>5. OnStream'
    BY <2>1, <2>2, <2>4 DEF OnStream, Chained
  <2>6. Received'
    BY <2>1 DEF Received
  <2> QED
    BY <2>1, <2>2, <2>3, <2>5, <2>6 DEF Content
<1> QED
  BY <1>1, <1>2, <1>3, <1>4, <1>5, <1>6, <1>7, <1>8, <1>9, <1>10, <1>11
     DEF Next, Writer, Reader, SendFails, Lose

LEMMA InvStep == IInv /\ [Next]_vars => IInv'
<1> SUFFICES ASSUME IInv, [Next]_vars PROVE IInv'
  OBVIOUS
<1>1. Steps' /\ Handshake'
  BY HandshakeStep DEF IInv
<1>2. broken => broken'
  BY DEF Next, Writer, Reader, Offer, RecvSubscription, WaitHello, HelloTimeout, SendFrame,
         SendFails, Create, CreateFails, Subscribe, RecvReady, RecvZmq, StartRecv,
         RecvLength, RecvBody, RecvFails, WaitHelloFails, Enqueue, Lose, vars, netVars
<1>3. broken' \/ Content'
  BY <1>2, ContentStep DEF IInv
<1> QED
  BY <1>1, <1>3 DEF IInv

\* Messages of any length, cut into chunks of any size, sent on either plane and
\* put together again while others are already under way, arrive whole and in
\* order, unless a frame was lost or a send refused.
THEOREM WholeAndInOrder == Spec => []InOrder
<1>1. IInv => InOrder
  BY DEF IInv, Content, InOrder
<1> QED
  BY <1>1, InvInit, InvStep, PTL DEF Spec

-----------------------------------------------------------------------------
(* Types *)

LessThan == {p \in Nat \X Nat : p[1] < p[2]}

LEMMA Least ==
  ASSUME NEW S \in SUBSET Nat, S # {}
  PROVE  \E n \in S : \A m \in S : n <= m
<1>1. IsWellFoundedOn(LessThan, Nat)
  BY NatLessThanWellFounded DEF OpToRel, LessThan
<1>2. PICK n \in S : \A m \in S : <<m, n>> \notin LessThan
  BY <1>1, WFMin
<1>3. \A m \in S : ~(m < n)
  BY <1>2 DEF LessThan
<1> QED
  BY <1>3

\* The lengths of the messages have a bound: otherwise some message would be the
\* first that has none with those before it.
LEMMA Bounded == \E b \in Nat : \A m \in Messages : Total[m] <= b
<1> DEFINE Bound(n) == \E b \in Nat : \A m \in 1..n : Total[m] <= b
           S == {n \in 0..MaxMsgs : ~Bound(n)}
<1>1. MaxMsgs \in Nat /\ Messages = 1..MaxMsgs /\ \A m \in Messages : Total[m] \in Nat
  BY DEF Messages
<1>2. Bound(0)
  OBVIOUS
<1>3. ASSUME NEW n \in 1..MaxMsgs, Bound(n - 1) PROVE Bound(n)
  <2>1. PICK b \in Nat : \A m \in 1..(n - 1) : Total[m] <= b
    BY <1>3
  <2>2. Total[n] \in Nat /\ \A m \in 1..n : m = n \/ m \in 1..(n - 1)
    BY <1>1
  <2>3. CASE Total[n] <= b
    BY <2>1, <2>2, <2>3
  <2>4. CASE b < Total[n]
    <3>1. \A m \in 1..(n - 1) : Total[m] \in Nat
      BY <1>1
    <3>2. \A m \in 1..n : Total[m] <= Total[n]
      BY <2>1, <2>2, <2>4, <3>1
    <3> QED
      BY <2>2, <3>2
  <2> QED
    BY <2>2, <2>3, <2>4
<1> HIDE DEF Bound
<1>4. S = {}
  <2> SUFFICES ASSUME S # {} PROVE FALSE
    OBVIOUS
  <2>1. PICK n \in S : \A m \in S : n <= m
    <3>1. S \in SUBSET Nat
      BY <1>1
    <3> QED
      BY <3>1, Least
  <2>2. n \in 1..MaxMsgs /\ n - 1 \in 0..MaxMsgs /\ ~(n <= n - 1)
    BY <1>1, <1>2, <2>1
  <2> QED
    BY <1>3, <2>1, <2>2
<1>5. Bound(MaxMsgs)
  BY <1>1, <1>4
<1> QED
  BY <1>1, <1>5 DEF Bound

LEMMA LongestIs == Longest \in Nat /\ \A m \in Messages : Total[m] <= Longest
<1> DEFINE T == {Total[m] : m \in Messages} \cup {0}
<1>1. PICK b \in Nat : \A m \in Messages : Total[m] <= b
  BY Bounded
<1>2. T \subseteq 0..b /\ 0 \in T
  BY <1>1
<1> DEFINE S == {b - x : x \in T}
<1>3. S \in SUBSET Nat /\ S # {}
  BY <1>2
<1>4. PICK d \in S : \A e \in S : d <= e
  BY <1>3, Least
<1>5. PICK x \in T : d = b - x
  OBVIOUS
<1>6. \A y \in T : b - x <= b - y
  BY <1>4, <1>5
<1>7. \A y \in T : x >= y
  <2> SUFFICES ASSUME NEW y \in T PROVE x >= y
    OBVIOUS
  <2>1. x \in Nat /\ y \in Nat /\ b - x <= b - y
    BY <1>2, <1>6
  <2> HIDE DEF T
  <2> QED
    BY <2>1
<1>8. Longest \in T /\ \A y \in T : Longest >= y
  BY <1>7 DEF Longest, Max
<1> QED
  BY <1>2, <1>8

LEMMA FramesTyped ==
  ASSUME NEW m \in Messages
  PROVE  Frames(m) \in Seq(Frame) /\ Frames(m) # << >>
<1> DEFINE F == Frames(m)
           T == Total[m]
<1>1. /\ F \in Seq(AnyFrame) /\ Len(F) \in Nat /\ Len(F) > 1 /\ F[1] = LengthFrame(m)
      /\ \A i \in 1..Len(F) : EndOf(F[i]) \in Nat /\ EndOf(F[i]) <= T
      /\ \A i \in 1..(Len(F) - 1) :
           EndOf(F[i]) < T /\ F[i + 1] = Chunks(m, EndOf(F[i]))
  BY FramesChain
<1>2. T \in Nat /\ T <= Longest /\ Longest \in Nat /\ Chunk \in Nat \ {0}
  BY LongestIs
<1> HIDE DEF F, T
<1>3. LengthFrame(m) \in Frame
  <2>1. -1 \in -1..Longest /\ 1 \in 1..Chunk
    BY <1>2
  <2> QED
    BY <2>1 DEF LengthFrame, Frame
<1>4. ASSUME NEW e \in Nat, e < T PROVE Chunks(m, e) \in Frame
  <2>1. e \in -1..Longest /\ Lesser(Chunk, T - e) \in 1..Chunk
    BY <1>2, <1>4 DEF Lesser
  <2> QED
    BY <2>1 DEF Chunks, Frame, T
<1>5. ASSUME NEW i \in 1..Len(F) PROVE F[i] \in Frame
  <2>1. CASE i = 1
    BY <1>1, <1>3, <2>1
  <2>2. CASE i # 1
    <3>1. i - 1 \in 1..(Len(F) - 1) /\ i - 1 \in 1..Len(F) /\ i = (i - 1) + 1
      BY <1>1, <2>2
    <3>2. EndOf(F[i - 1]) \in Nat /\ EndOf(F[i - 1]) < T /\ F[i] = Chunks(m, EndOf(F[i - 1]))
      BY <1>1, <3>1
    <3> QED
      BY <1>4, <3>2
  <2> QED
    BY <2>1, <2>2
<1>6. F \in Seq(Frame)
  <2>1. DOMAIN F = 1..Len(F) /\ F = [i \in 1..Len(F) |-> F[i]]
    BY <1>1, LenProperties
  <2>2. F \in [1..Len(F) -> Frame]
    BY <1>5, <2>1
  <2> QED
    BY <1>1, <2>2, SeqDef
<1>7. F # << >>
  BY <1>1
<1> QED
  BY <1>6, <1>7 DEF F

\* The types, and why there is always a frame to send and a byte to want.
Typed ==
  /\ TypeOK
  /\ wpc = "sending" => out # << >>
  /\ rpc \in {"length", "body"} => want > 0

LEMMA TypedInit == Init => Typed
<1> SUFFICES ASSUME Init PROVE Typed
  OBVIOUS
<1>1. 0 \in 0..MaxMsgs /\ 0 \in 0..Longest
  BY LongestIs
<1>2. << >> \in Seq(Frame) /\ << >> \in Seq(0..MaxMsgs) /\ << >> \in Seq(Messages)
  OBVIOUS
<1>3. sameHost \in BOOLEAN
  BY DEF Init
<1> QED
  BY <1>1, <1>2, <1>3 DEF Init, Typed, TypeOK

LEMMA Shorter ==
  ASSUME NEW S, NEW q \in Seq(S), q # << >>
  PROVE  /\ Head(q) \in S /\ Tail(q) \in Seq(S) /\ Len(q) \in Nat \ {0}
         /\ Len(q) # 1 => Tail(q) # << >>
<1>1. Head(q) \in S /\ Tail(q) \in Seq(S) /\ Len(Tail(q)) = Len(q) - 1
  BY HeadTailProperties
<1>2. Len(q) \in Nat \ {0}
  BY EmptySeq, LenProperties
<1>3. Tail(q) = << >> => Len(Tail(q)) = 0
  BY EmptySeq
<1> QED
  BY <1>1, <1>2, <1>3

\* One stream_recv takes at least one byte and at most what is wanted.
LEMMA PieceTyped ==
  ASSUME TypeOK, frames # << >>, want > 0
  PROVE  Piece \in Frame /\ Piece.n > 0 /\ Piece.n <= want /\ Piece.n \in Nat
<1>1. Head(frames) \in Frame
  BY Shorter DEF TypeOK
<1>2. want \in Nat /\ Chunk \in Nat \ {0}
  BY LongestIs DEF TypeOK
<1> DEFINE f == Head(frames)
           k == Lesser(Lesser(Chunk, want), f.n)
<1>3. f.n \in 1..Chunk /\ f \in Frame
  BY <1>1 DEF Frame
<1> HIDE DEF f
<1>4. k \in 1..Chunk /\ k <= want
  BY <1>2, <1>3 DEF Lesser
<1>5. Piece = [f EXCEPT !.n = k]
  BY DEF Piece, f
<1> HIDE DEF k
<1>6. Piece \in Frame /\ Piece.n = k
  BY <1>3, <1>4, <1>5 DEF Frame
<1> QED
  BY <1>2, <1>4, <1>6

LEMMA TypedStep == Typed /\ [Next]_vars => Typed'
<1> SUFFICES ASSUME Typed, [Next]_vars PROVE Typed'
  OBVIOUS
<1> USE DEF writerVars, readerVars, netVars
<1>1. /\ TypeOK /\ (wpc = "sending" => out # << >>)
      /\ (rpc \in {"length", "body"} => want > 0)
      /\ Longest \in Nat /\ MaxMsgs \in Nat /\ want \in 0..Longest /\ sent \in 0..MaxMsgs
      /\ out \in Seq(Frame) /\ pieces \in Seq(Frame) /\ frames \in Seq(Frame)
      /\ got \in Seq(0..MaxMsgs) /\ zq \in Seq(Messages)
  BY LongestIs DEF Typed, TypeOK
<1>2. CASE Offer
  <2>1. offer' \in BOOLEAN
    BY <1>2 DEF Offer
  <2> QED
    BY <1>1, <1>2, <2>1 DEF Offer, Typed, TypeOK
<1>3. CASE \/ RecvSubscription \/ WaitHello \/ WaitHelloFails \/ HelloTimeout
             \/ Create \/ CreateFails \/ Subscribe
             \/ RecvReady
  <2>1. Accepts \in BOOLEAN /\ (~offer) \in BOOLEAN
    BY <1>1 DEF Accepts, TypeOK
  <2>2. UNCHANGED <<sameHost, offer, out, sent, want, pieces, got, frames, zq, broken>>
    BY <1>3 DEF RecvSubscription, WaitHello, WaitHelloFails, HelloTimeout, Create, CreateFails, Subscribe, RecvReady
  <2>3. CASE RecvSubscription \/ WaitHello \/ WaitHelloFails \/ HelloTimeout
    <3>1. /\ wpc' \in {"hello", "up", "raised"} /\ wplane' \in {"odl", wplane}
          /\ UNCHANGED <<rpc, rplane>>
          /\ hello' \in {FALSE, hello} /\ sub' \in {FALSE, sub}
          /\ ready' \in {TRUE, ~offer, ready}
      BY <2>3 DEF RecvSubscription, WaitHello, WaitHelloFails, HelloTimeout
    <3>2. hello \in BOOLEAN /\ sub \in BOOLEAN /\ ready \in BOOLEAN
      BY <1>1 DEF TypeOK
    <3>3. hello' \in BOOLEAN /\ sub' \in BOOLEAN /\ ready' \in BOOLEAN
      BY ONLY <2>1, <3>1, <3>2, Zenon
    <3> QED
      BY <1>1, <2>2, <3>1, <3>3 DEF Typed, TypeOK
  <2>4. CASE Create \/ CreateFails \/ Subscribe \/ RecvReady
    <3>1. /\ rpc' \in {"connect", "raised", "ready", "idle"} /\ rplane' \in {"odl", "zmq", rplane}
          /\ UNCHANGED <<wpc, wplane>>
          /\ hello' \in {Accepts, hello} /\ sub' \in {TRUE, sub} /\ ready' \in {FALSE, ready}
      BY <2>4 DEF Create, CreateFails, Subscribe, RecvReady
    <3>2. hello \in BOOLEAN /\ sub \in BOOLEAN /\ ready \in BOOLEAN
      BY <1>1 DEF TypeOK
    <3>3. hello' \in BOOLEAN /\ sub' \in BOOLEAN /\ ready' \in BOOLEAN
      BY ONLY <2>1, <3>1, <3>2, Zenon
    <3> QED
      BY <1>1, <2>2, <3>1, <3>3 DEF Typed, TypeOK
  <2> QED
    BY <1>3, <2>3, <2>4
<1>4. CASE SendFrame
  <2>1. Head(out) \in Frame /\ Tail(out) \in Seq(Frame) /\ (Len(out) # 1 => Tail(out) # << >>)
    BY <1>1, <1>4, Shorter DEF SendFrame
  <2>2. Append(frames, Head(out)) \in Seq(Frame)
    BY <1>1, <2>1
  <2> QED
    BY <1>1, <1>4, <2>1, <2>2 DEF SendFrame, Typed, TypeOK
<1>5. CASE SendFails
  <2>1. << >> \in Seq(Frame)
    OBVIOUS
  <2> QED
    BY <1>1, <1>5, <2>1 DEF SendFails, Typed, TypeOK
<1>6. CASE RecvZmq
  <2>1. Head(zq) \in Messages /\ Tail(zq) \in Seq(Messages)
    BY <1>1, <1>6, Shorter DEF RecvZmq
  <2>2. Append(got, Head(zq)) \in Seq(0..MaxMsgs)
    <3>1. Head(zq) \in 0..MaxMsgs
      BY <1>1, <2>1 DEF Messages
    <3> QED
      BY <1>1, <3>1
  <2> QED
    BY <1>1, <1>6, <2>1, <2>2 DEF RecvZmq, Typed, TypeOK
<1>7. CASE StartRecv
  <2>1. << >> \in Seq(Frame) /\ 1 \in 0..Longest
    <3>1. Head(frames) \in Frame
      BY <1>1, <1>7, Shorter DEF StartRecv
    <3>2. Head(frames).msg \in Messages
      BY <3>1 DEF Frame
    <3> DEFINE k == Total[Head(frames).msg]
    <3>3. k \in Nat \ {0} /\ k <= Longest
      BY <3>2, LongestIs, TotalAssumption
    <3> QED
      BY <1>1, <3>3
  <2> QED
    BY <1>1, <1>7, <2>1 DEF StartRecv, Typed, TypeOK
<1>8. CASE RecvLength
  <2>1. Piece \in Frame /\ Tail(frames) \in Seq(Frame)
    BY <1>1, <1>8, PieceTyped, Shorter DEF RecvLength, RecvPiece
  <2>2. Append(pieces, Piece) \in Seq(Frame)
    BY <1>1, <2>1
  <2>3. want' \in 1..Longest
    <3>1. Piece.msg \in Messages
      BY <2>1 DEF Frame
    <3>2. Total[Piece.msg] \in 1..Longest
      BY <1>1, <3>1, LongestIs
    <3> QED
      BY <1>8, <3>2 DEF RecvLength
  <2>4. want' \in 0..Longest /\ want' > 0
    BY <1>1, <2>3
  <2>5. frames' \in Seq(Frame) /\ pieces' \in Seq(Frame) /\ rpc' = "body"
    BY <1>8, <2>1, <2>2 DEF RecvLength, RecvPiece
  <2>6. UNCHANGED <<sameHost, wpc, offer, wplane, out, sent, rplane, got, hello, sub, ready, zq,
                    broken>>
    BY <1>8 DEF RecvLength
  <2> QED
    BY <1>1, <2>4, <2>5, <2>6 DEF Typed, TypeOK
<1>9. CASE RecvBody
  <2>1. /\ Piece \in Frame /\ Tail(frames) \in Seq(Frame) /\ Piece.n > 0 /\ Piece.n <= want
        /\ Piece.n \in Nat
    BY <1>1, <1>9, PieceTyped, Shorter DEF RecvBody, RecvPiece
  <2>2. Append(pieces, Piece) \in Seq(Frame)
    BY <1>1, <2>1
  <2>3. want' = want - Piece.n
    BY <1>9 DEF RecvBody
  <2> DEFINE k == Piece.n
  <2>4. want' \in 0..Longest
    <3> HIDE DEF k
    <3>1. want' = want - k /\ k \in Nat /\ k <= want
      BY <2>1, <2>3 DEF k
    <3> QED
      BY <1>1, <3>1
  <2>5. got' \in Seq(0..MaxMsgs) /\ rpc' \in {"body", "idle"} /\ (rpc' = "body" => want' > 0)
    <3>1. CASE want' > 0
      BY <1>1, <1>9, <3>1 DEF RecvBody
    <3>2. CASE ~(want' > 0)
      <4>1. PICK m \in 0..MaxMsgs : got' = Append(got, m)
        BY <1>9, <3>2 DEF RecvBody
      <4> QED
        BY <1>1, <1>9, <3>2, <4>1 DEF RecvBody
    <3> QED
      BY <3>1, <3>2
  <2>6. /\ UNCHANGED <<sameHost, writerVars, rplane, hello, sub, ready, zq, broken>>
        /\ frames' = Tail(frames) /\ pieces' = Append(pieces, Piece)
    BY <1>9 DEF RecvBody, RecvPiece
  <2> QED
    BY <1>1, <2>1, <2>2, <2>4, <2>5, <2>6 DEF Typed, TypeOK
<1>10. CASE Enqueue
  <2>1. sent + 1 \in 0..MaxMsgs /\ sent + 1 \in Messages
    BY <1>1, <1>10 DEF Enqueue, Messages
  <2>2. Frames(sent + 1) \in Seq(Frame) /\ Frames(sent + 1) # << >>
    BY <2>1, FramesTyped
  <2>3. Append(zq, sent + 1) \in Seq(Messages)
    BY <1>1, <2>1
  <2>4. UNCHANGED <<sameHost, offer, wplane, readerVars, hello, sub, ready, frames, broken>>
    BY <1>10 DEF Enqueue
  <2>5. /\ sent' \in 0..MaxMsgs /\ out' \in Seq(Frame) /\ zq' \in Seq(Messages)
        /\ wpc' \in {wpc, "sending"} /\ (wpc' = "sending" => out' # << >>)
    <3>1. CASE wplane = "odl"
      BY <1>1, <1>10, <2>1, <2>2, <3>1 DEF Enqueue
    <3>2. CASE wplane # "odl"
      BY <1>1, <1>10, <2>1, <2>3, <3>2 DEF Enqueue
    <3> QED
      BY <3>1, <3>2
  <2> QED
    BY <1>1, <2>4, <2>5 DEF Typed, TypeOK
<1>11. CASE Lose
  <2>1. frames' \in Seq(Frame)
    BY <1>1, <1>11, Shorter DEF Lose
  <2>2. hello' \in BOOLEAN
    BY <1>1, <1>11 DEF Lose, TypeOK
  <2> QED
    BY <1>1, <1>11, <2>1, <2>2 DEF Lose, Typed, TypeOK
<1>12. CASE UNCHANGED vars
  BY <1>1, <1>12 DEF vars, Typed, TypeOK
<1>13. CASE RecvFails
  <2>1. broken' \in BOOLEAN
    BY <1>13 DEF RecvFails
  <2> QED
    BY <1>1, <1>13, <2>1 DEF RecvFails, Typed, TypeOK
<1> QED
  BY <1>2, <1>3, <1>4, <1>5, <1>6, <1>7, <1>8, <1>9, <1>10, <1>11, <1>12, <1>13
     DEF Next, Writer, Reader

\* Every variable keeps its type; what the reader takes for a length never makes
\* it want less than nothing.
THEOREM TypeCorrect == Spec => []TypeOK
<1>1. Typed => TypeOK
  BY DEF Typed
<1> QED
  BY <1>1, TypedInit, TypedStep, PTL DEF Spec
=============================================================================
