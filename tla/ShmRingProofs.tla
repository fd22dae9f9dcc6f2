---------------------------- MODULE ShmRingProofs ----------------------------
(***************************************************************************)
(* Proofs about ShmRing, for every number of readers and blocks, every     *)
(* block size, every sequence of messages and every event allowed: the     *)
(* flags keep writer and readers apart, the socket beside the ring stays   *)
(* bounded, and the ring implements BroadcastQueue.                        *)
(***************************************************************************)
EXTENDS ShmRing, FiniteSetTheorems, SequenceTheorems, TLAPS

Published == Len(sent)
\* Blocks that reader r has given back; it may still wait for the message.
Marked(r) == IF rpc[r] = "overflow" THEN Len(got[r]) + 1 ELSE Len(got[r])

\* How many publications ago block b was the writer's, and which one that was.
Age(b) == IF b < widx THEN widx - b ELSE widx - b + MaxChunks
Pos(b) == Published + 1 - Age(b)
HasBlock == wpc \in {"fill", "filling", "clear"}
Filling(b) == b = widx /\ HasBlock

\* Messages go up, and the writer's is the next or the last one published.
WriterInv ==
  /\ \A j \in 1..Published : sent[j] <= msg
  /\ \A i, j \in 1..Published : i < j => sent[i] < sent[j]
  /\ wpc \in {"acquire", "fill", "filling", "clear"} =>
       msg > 0 /\ \A j \in 1..Published : sent[j] < msg
  /\ wpc \in {"push", "notify"} => Published > 0 /\ sent[Published] = msg
  /\ wpc = "push" => Overflows(msg)
  /\ wpc = "filling" => ~Overflows(msg)

\* A reader's current_idx is the block of the message it comes to next.
Placed(r) ==
  /\ Marked(r) <= Published
  /\ IF Marked(r) = Published THEN ridx[r] = widx ELSE Pos(ridx[r]) = Marked(r) + 1
  /\ rpc[r] \in {"read", "mark"} => Marked(r) < Published
  /\ rpc[r] = "check2" /\ ~seenFlag[r] /\ written[ridx[r]] => Marked(r) < Published

\* A block's flags say whether it holds a message and who has read it, except
\* while the writer has it: then everybody has.
Flagged(b) ==
  IF Filling(b)  THEN ~written[b] /\ \A r \in Readers : Marked(r) >= Pos(b)
  ELSE IF Pos(b) <= 0 THEN ~written[b]
  ELSE written[b] /\ \A r \in Readers : readFlag[b][r] <=> Marked(r) >= Pos(b)

\* A block that holds a message holds the bytes of that message.
Bytes ==
  /\ \A b \in Blocks : Pos(b) > 0 /\ ~Filling(b) => data[b] = Content(sent[Pos(b)])
  /\ wpc = "clear" => data[widx] = Content(msg)
  /\ \A r \in Readers : rpc[r] = "mark" => buf[r] = Content(sent[Marked(r) + 1])
  /\ \A r \in Readers : rpc[r] = "overflow" => Overflows(sent[Marked(r)])

\* Unless reader r gave up on one, its socket holds the overflow messages it has
\* not come to, in order.
Pushed(j) == Overflows(sent[j]) /\ ~(wpc = "push" /\ j = Published)
NoneExpired(r) == \A j \in 1..Len(got[r]) : got[r][j] # Expired
Queued(r) ==
  NoneExpired(r) =>
    /\ wpc = "push" => Len(got[r]) < Published
    /\ \A i, j \in 1..Len(sock[r]) : i < j => sock[r][i] < sock[r][j]
    /\ \A i \in 1..Len(sock[r]) :
         \E j \in Len(got[r]) + 1..Published : Pushed(j) /\ sock[r][i] = sent[j]
    /\ \A j \in Len(got[r]) + 1..Published :
         Pushed(j) => \E i \in 1..Len(sock[r]) : sock[r][i] = sent[j]

IInv ==
  /\ TypeOK /\ WriterInv
  /\ \A r \in Readers : Placed(r)
  /\ \A b \in Blocks : Flagged(b)
  /\ Bytes
  /\ \A r \in Readers : Queued(r)

-----------------------------------------------------------------------------
(* Types *)

USE MaxChunksAssumption, ChunkBytesAssumption, MaxMsgsAssumption, PickleAssumption,
    AllowedAssumption

\* current_idx goes round the ring.
LEMMA Wrap ==
  ASSUME NEW w \in Blocks
  PROVE  /\ (w + 1) % MaxChunks = (IF w + 1 = MaxChunks THEN 0 ELSE w + 1)
         /\ (w + 1) % MaxChunks \in Blocks
<1>1. w + 1 \in Nat /\ w + 1 <= MaxChunks
  BY DEF Blocks
<1>2. ASSUME NEW v \in Nat, v < MaxChunks PROVE v % MaxChunks = v
  BY <1>2
<1>3. MaxChunks % MaxChunks = 0
  OBVIOUS
<1>4. CASE w + 1 = MaxChunks
  BY <1>3, <1>4 DEF Blocks
<1>5. CASE w + 1 < MaxChunks
  BY <1>1, <1>2, <1>5 DEF Blocks
<1> QED
  BY <1>1, <1>4, <1>5

LEMMA Messaging ==
  /\ \A m \in Messages : Overflows(m) \in BOOLEAN
  /\ \A m \in Messages : Content(m) \in [over : BOOLEAN, msg : 0..MaxMsgs]
  /\ \A m \in Messages : ~Overflows(m) => FrameBytes(m) <= ChunkBytes
  /\ Torn \in [over : BOOLEAN, msg : 0..MaxMsgs]
<1>1. ASSUME NEW m \in Messages PROVE ~Overflows(m) => FrameBytes(m) <= ChunkBytes
  <2>1. Pickle[m].main \in Nat /\ Pickle[m].oob \in Nat /\ Pickle[m].parts \in Nat
    BY DEF Sizes
  <2> QED
    BY <2>1 DEF Overflows, Estimate, FrameBytes
<1>2. ASSUME NEW m \in Messages PROVE Overflows(m) \in BOOLEAN
  BY DEF Overflows
<1>3. ASSUME NEW m \in Messages PROVE Content(m) \in [over : BOOLEAN, msg : 0..MaxMsgs]
  BY DEF Content, Messages
<1>4. Torn \in [over : BOOLEAN, msg : 0..MaxMsgs]
  BY DEF Torn
<1> QED
  BY <1>1, <1>2, <1>3, <1>4

LEMMA TypeInit == Init => TypeOK
BY Messaging DEF Init, TypeOK, Blocks, Messages

\* Every step keeps the types.
LEMMA TypeStep ==
  ASSUME TypeOK, msg > 0 \/ wpc \in {"idle", "acquire", "notify"}, [Next]_vars
  PROVE  TypeOK'
<1> USE DEF ringVars, writerVars, readerVars
<1>1. CASE StartEnqueue
  BY <1>1 DEF TypeOK, StartEnqueue, Messages
<1>2. CASE Acquire \/ WriteTimeout
  BY <1>2 DEF TypeOK, Acquire, WriteTimeout
<1>3. CASE BeginFill \/ EndFill
  <2>1. msg \in Messages
    BY <1>3 DEF TypeOK, BeginFill, EndFill, Messages
  <2> DEFINE Cell == [over : BOOLEAN, msg : 0..MaxMsgs]
  <2>2. Content(msg) \in Cell /\ Torn \in Cell
    BY <2>1, Messaging
  <2>3. data' \in [Blocks -> Cell]
    <3> HIDE DEF Cell
    <3>1. data \in [Blocks -> Cell]
      BY DEF TypeOK, Cell
    <3> QED
      BY <1>3, <2>2, <3>1 DEF BeginFill, EndFill
  <2>4. wpc' \in {"filling", "clear"}
    BY <1>3 DEF BeginFill, EndFill
  <2> QED
    BY <1>3, <2>3, <2>4 DEF TypeOK, BeginFill, EndFill
<1>4. ASSUME NEW r \in Readers, ClearFlag(r) PROVE TypeOK'
  BY <1>4 DEF TypeOK, ClearFlag
<1>5. CASE Publish
  <2>1. msg \in Messages
    BY <1>5 DEF TypeOK, Publish, Messages
  <2>2. widx' \in Blocks
    BY <1>5, Wrap DEF TypeOK, Publish
  <2>3. sent' \in Seq(Messages)
    BY <1>5, <2>1 DEF TypeOK, Publish
  <2> QED
    BY <1>5, <2>1, <2>2, <2>3 DEF TypeOK, Publish
<1>6. CASE Push
  <2>1. msg \in Messages
    BY <1>6 DEF TypeOK, Push, Messages
  <2>2. sock' \in [Readers -> Seq(Messages)]
    BY <1>6, <2>1 DEF TypeOK, Push
  <2> QED
    BY <1>6, <2>2 DEF TypeOK, Push
<1>7. CASE Notify
  BY <1>7 DEF TypeOK, Notify
<1>8. ASSUME NEW r \in Readers, StartDequeue(r) \/ LoadReadFlag(r) \/ LoadWrittenFlag(r)
      PROVE  TypeOK'
  <2>1. CASE StartDequeue(r)
    BY <2>1 DEF TypeOK, StartDequeue
  <2>2. CASE LoadReadFlag(r)
    <3>1. readFlag[ridx[r]][r] \in BOOLEAN
      BY DEF TypeOK
    <3> QED
      BY <2>2, <3>1 DEF TypeOK, LoadReadFlag
  <2>3. CASE LoadWrittenFlag(r)
    BY <2>3 DEF TypeOK, LoadWrittenFlag
  <2> QED
    BY <1>8, <2>1, <2>2, <2>3
<1>9. ASSUME NEW r \in Readers, ReadTimeout(r) \/ Wait(r) \/ Poll(r) \/ AfterWait(r)
      PROVE  TypeOK'
  BY <1>9 DEF TypeOK, ReadTimeout, Wait, Poll, AfterWait
<1>10. ASSUME NEW r \in Readers, ReadBlock(r) \/ Shutdown(r) PROVE TypeOK'
  BY <1>10 DEF TypeOK, ReadBlock, Shutdown
<1>11. ASSUME NEW r \in Readers, MarkRead(r) PROVE TypeOK'
  <2>1. ridx' \in [Readers -> Blocks]
    BY <1>11, Wrap DEF TypeOK, MarkRead
  <2>2. readFlag' \in [Blocks -> [Readers -> BOOLEAN]]
    BY <1>11 DEF TypeOK, MarkRead
  <2>3. got' \in [Readers -> Seq(-1..MaxMsgs)]
    <3>1. buf[r].msg \in -1..MaxMsgs /\ 0 \in -1..MaxMsgs
      BY DEF TypeOK
    <3>2. got' = got \/ \E m \in -1..MaxMsgs : got' = [got EXCEPT ![r] = Append(@, m)]
      BY <1>11, <3>1 DEF MarkRead
    <3>3. ASSUME NEW m \in -1..MaxMsgs, got' = [got EXCEPT ![r] = Append(@, m)]
          PROVE  got' \in [Readers -> Seq(-1..MaxMsgs)]
      BY <3>3 DEF TypeOK
    <3>4. got' = got => got' \in [Readers -> Seq(-1..MaxMsgs)]
      BY DEF TypeOK
    <3> QED
      BY <3>2, <3>3, <3>4
  <2>4. rpc' \in [Readers -> {"idle", "check", "check2", "wait", "parked", "woken",
                              "read", "mark", "overflow", "cancelled"}]
    <3>1. rpc' = [rpc EXCEPT ![r] = "overflow"] \/ rpc' = [rpc EXCEPT ![r] = "idle"]
      BY <1>11 DEF MarkRead
    <3> QED
      BY <3>1 DEF TypeOK
  <2> QED
    BY <1>11, <2>1, <2>2, <2>3, <2>4 DEF TypeOK, MarkRead
<1>12. ASSUME NEW r \in Readers, RecvOverflow(r) PROVE TypeOK'
  <2>1. Head(sock[r]) \in -1..MaxMsgs /\ Tail(sock[r]) \in Seq(Messages)
    BY SMTT(30), <1>12 DEF TypeOK, RecvOverflow, Messages
  <2>2. \E m \in -1..MaxMsgs : got' = [got EXCEPT ![r] = Append(@, m)]
    BY <1>12, <2>1 DEF RecvOverflow
  <2>3. got' \in [Readers -> Seq(-1..MaxMsgs)]
    BY <2>2 DEF TypeOK
  <2> QED
    BY <1>12, <2>1, <2>3 DEF TypeOK, RecvOverflow
<1>13. ASSUME NEW r \in Readers, OverflowTimeout(r) PROVE TypeOK'
  BY <1>13 DEF TypeOK, OverflowTimeout, Expired
<1>14. CASE UNCHANGED vars
  BY <1>14 DEF TypeOK, vars
<1> QED
  BY <1>1, <1>2, <1>3, <1>4, <1>5, <1>6, <1>7, <1>8, <1>9, <1>10, <1>11, <1>12, <1>13,
     <1>14 DEF Next, Enqueue, Dequeue

-----------------------------------------------------------------------------
(* Positions on the ring *)

LEMMA Ring ==
  ASSUME TypeOK
  PROVE  /\ Published \in Nat /\ widx \in Blocks
         /\ \A r \in Readers : Marked(r) \in Nat /\ Len(got[r]) \in Nat /\ ridx[r] \in Blocks
         /\ \A b \in Blocks : b \in Nat /\ Age(b) \in 1..MaxChunks /\ Pos(b) \in Int
         /\ Pos(widx) = Published + 1 - MaxChunks
         /\ \A a, b \in Blocks : Pos(a) = Pos(b) => a = b
<1>1. Published \in Nat /\ widx \in Blocks
  BY DEF TypeOK, Published
<1>2. ASSUME NEW r \in Readers
      PROVE  Marked(r) \in Nat /\ Len(got[r]) \in Nat /\ ridx[r] \in Blocks
  BY DEF TypeOK, Marked
<1>3. ASSUME NEW b \in Blocks PROVE b \in Nat /\ Age(b) \in 1..MaxChunks /\ Pos(b) \in Int
  BY <1>1 DEF Blocks, Age, Pos
<1>4. Pos(widx) = Published + 1 - MaxChunks
  BY <1>1 DEF Blocks, Age, Pos
<1>5. ASSUME NEW a \in Blocks, NEW b \in Blocks, Pos(a) = Pos(b) PROVE a = b
  BY <1>1, <1>5 DEF Blocks, Age, Pos
<1> QED
  BY <1>1, <1>2, <1>3, <1>4, <1>5

LEMMA Values ==
  ASSUME TypeOK
  PROVE  /\ \A j \in 1..Published : sent[j] \in Messages /\ sent[j] \in Nat
         /\ \A r \in Readers :
              /\ sock[r] \in Seq(Messages) /\ Len(sock[r]) \in Nat
              /\ \A i \in 1..Len(sock[r]) : sock[r][i] \in Nat
              /\ got[r] \in Seq(Int) /\ Len(got[r]) \in Nat
<1>1. Messages \subseteq Nat /\ -1..MaxMsgs \subseteq Int
  BY DEF Messages
<1>2. sent \in Seq(Messages) /\ \A r \in Readers : sock[r] \in Seq(Messages)
  BY DEF TypeOK
<1>3. \A r \in Readers : got[r] \in Seq(-1..MaxMsgs)
  BY DEF TypeOK
<1>4. ASSUME NEW r \in Readers PROVE got[r] \in Seq(Int) /\ Len(got[r]) \in Nat
  <2>1. Len(got[r]) \in Nat /\ \A j \in 1..Len(got[r]) : got[r][j] \in -1..MaxMsgs
    BY <1>3
  <2>2. got[r] = [j \in 1..Len(got[r]) |-> got[r][j]]
    BY <1>3
  <2> QED
    BY <1>1, <2>1, <2>2, SeqDef
<1>5. ASSUME NEW q \in Seq(Messages)
      PROVE  Len(q) \in Nat /\ \A i \in 1..Len(q) : q[i] \in Messages /\ q[i] \in Nat
  <2>1. Len(q) \in Nat /\ \A i \in 1..Len(q) : q[i] \in Messages
    OBVIOUS
  <2> QED
    BY <1>1, <2>1
<1> QED
  BY <1>2, <1>4, <1>5 DEF Published

\* A reader that has something to come to is at a block that holds it, and the
\* writer is not there.
LEMMA ReaderBlock ==
  ASSUME IInv, NEW r \in Readers, Marked(r) < Published
  PROVE  /\ Pos(ridx[r]) = Marked(r) + 1 /\ ~Filling(ridx[r])
         /\ written[ridx[r]] /\ ~readFlag[ridx[r]][r]
         /\ data[ridx[r]] = Content(sent[Marked(r) + 1])
<1> DEFINE b == ridx[r]
<1>1. TypeOK /\ Placed(r) /\ b \in Blocks /\ Flagged(b) /\ Bytes
  BY Ring DEF IInv
<1>2. Marked(r) \in Nat /\ Published \in Nat /\ Pos(b) \in Int
  BY <1>1, Ring
<1>3. Pos(b) = Marked(r) + 1
  BY <1>1, <1>2 DEF Placed
<1>4. ~Filling(b)
  BY <1>1, <1>2, <1>3 DEF Flagged
<1> QED
  BY <1>1, <1>2, <1>3, <1>4 DEF Flagged, Bytes

-----------------------------------------------------------------------------
(* Steps that touch neither blocks nor indices *)

Still ==
  /\ UNCHANGED <<ringVars, widx, ridx, sent>>
  /\ \A r \in Readers : Marked(r)' = Marked(r)
  /\ \A r \in Readers : rpc'[r] = "overflow" => rpc[r] = "overflow"
  /\ HasBlock' = HasBlock
  /\ wpc' = "clear" => wpc = "clear" /\ msg' = msg

\* What a reader may rely on at its program counter.
Ready ==
  \A r \in Readers :
    /\ rpc'[r] \in {"read", "mark"} => Marked(r) < Published
    /\ rpc'[r] = "check2" /\ ~seenFlag'[r] /\ written[ridx[r]] => Marked(r) < Published
    /\ rpc'[r] = "mark" => buf'[r] = Content(sent[Marked(r) + 1])

LEMMA StillStep ==
  ASSUME IInv, TypeOK', WriterInv', Still, Ready, \A r \in Readers : Queued(r)'
  PROVE  IInv'
<1> USE DEF ringVars
<1>1. Published' = Published
  BY DEF Still, Published
<1>2. ASSUME NEW b PROVE Age(b)' = Age(b) /\ Pos(b)' = Pos(b) /\ Filling(b)' = Filling(b)
  BY <1>1 DEF Still, Age, Pos, Filling
<1>3. ASSUME NEW r \in Readers PROVE Placed(r)'
  <2>1. ridx'[r] = ridx[r] /\ Pos(ridx[r])' = Pos(ridx[r]) /\ widx' = widx /\ written' = written
    BY <1>2 DEF Still
  <2>2. Placed(r) /\ Marked(r)' = Marked(r)
    BY DEF IInv, Still
  <2> QED
    BY <1>1, <1>2, <2>1, <2>2 DEF Placed, Ready
<1>4. ASSUME NEW b \in Blocks PROVE Flagged(b)'
  <2>1. Flagged(b)
    BY DEF IInv
  <2> QED
    BY <1>2, <2>1 DEF Flagged, Still
<1>5. Bytes'
  <2>1. Bytes
    BY DEF IInv
  <2> QED
    BY <1>2, <2>1 DEF Bytes, Still, Ready
<1> QED
  BY <1>3, <1>4, <1>5 DEF IInv

\* A socket that is left alone.
LEMMA QueuedSame ==
  ASSUME NEW r \in Readers, Queued(r), got'[r] = got[r], sock'[r] = sock[r], sent' = sent,
         wpc' = "push" <=> wpc = "push"
  PROVE  Queued(r)'
<1>1. /\ Len(got'[r]) = Len(got[r]) /\ Len(sock'[r]) = Len(sock[r])
      /\ Published' = Published
      /\ NoneExpired(r)' <=> NoneExpired(r)
  BY DEF Published, NoneExpired
<1>2. ASSUME NEW j PROVE Pushed(j)' <=> Pushed(j)
  BY <1>1 DEF Pushed
<1> QED
  BY <1>1, <1>2 DEF Queued

\* Nor do they touch messages.
Calm ==
  /\ UNCHANGED <<ringVars, widx, ridx, sock, sent, got>>
  /\ \A r \in Readers : rpc'[r] = "overflow" <=> rpc[r] = "overflow"
  /\ wpc' = "push" <=> wpc = "push"
  /\ HasBlock' = HasBlock
  /\ wpc' = "clear" => wpc = "clear" /\ msg' = msg

LEMMA CalmStep ==
  ASSUME IInv, TypeOK', WriterInv', Calm, Ready
  PROVE  IInv'
<1>1. Still
  BY DEF Calm, Still, Marked
<1>2. ASSUME NEW r \in Readers PROVE Queued(r)'
  <2>1. Queued(r)
    BY DEF IInv
  <2> QED
    BY <2>1, QueuedSame DEF Calm
<1> QED
  BY <1>1, <1>2, StillStep

\* What the writer does between calls and what a reader does while it waits.
LEMMA CalmActions ==
  ASSUME IInv, TypeOK',
         \/ StartEnqueue \/ WriteTimeout \/ Notify
         \/ \E r \in Readers :
              \/ StartDequeue(r) \/ LoadReadFlag(r) \/ LoadWrittenFlag(r) \/ ReadTimeout(r)
              \/ Wait(r) \/ Poll(r) \/ AfterWait(r) \/ ReadBlock(r) \/ Shutdown(r)
  PROVE  IInv'
<1> USE DEF writerVars, readerVars
<1>1. /\ TypeOK /\ WriterInv /\ Bytes
      /\ \A r \in Readers : Placed(r) /\ Marked(r) \in Nat
      /\ Published \in Nat
  BY Ring DEF IInv
<1>2. CASE StartEnqueue
  <2>1. msg' = msg + 1 /\ wpc = "idle" /\ wpc' = "acquire" /\ sent' = sent
    BY <1>2 DEF StartEnqueue
  <2>2. \A j \in 1..Published : sent[j] \in Nat
    BY <1>1, Values
  <2>3. WriterInv'
    <3>1. msg \in Nat /\ Published' = Published
      BY <1>1, <2>1 DEF TypeOK, Published
    <3>2. \A j \in 1..Published : sent[j] < msg'
      BY <1>1, <2>1, <2>2, <3>1 DEF WriterInv
    <3> QED
      BY <1>1, <2>1, <2>2, <3>1, <3>2 DEF WriterInv
  <2>4. Calm
    BY <1>2 DEF StartEnqueue, Calm, HasBlock
  <2> QED
    BY <1>1, <1>2, <2>3, <2>4, CalmStep DEF StartEnqueue, Ready, Placed, Bytes
<1>3. CASE WriteTimeout \/ Notify
  <2>1. WriterInv'
    BY <1>1, <1>3 DEF WriterInv, WriteTimeout, Notify, Published
  <2>2. Calm
    BY <1>3 DEF WriteTimeout, Notify, Calm, HasBlock, ringVars
  <2>3. UNCHANGED <<rpc, seenFlag, buf>>
    BY <1>3 DEF WriteTimeout, Notify
  <2> QED
    BY <1>1, <2>1, <2>2, <2>3, CalmStep DEF Ready, Placed, Bytes
<1>4. ASSUME UNCHANGED <<writerVars, sent>> PROVE WriterInv'
  BY <1>1, <1>4 DEF WriterInv, Published
<1>5. ASSUME NEW r \in Readers,
             \/ StartDequeue(r) \/ ReadTimeout(r) \/ Wait(r) \/ Poll(r) \/ AfterWait(r)
             \/ Shutdown(r)
      PROVE  IInv'
  <2>1. UNCHANGED <<writerVars, sent, ringVars, ridx, sock, got, seenFlag, buf>>
    BY <1>5 DEF StartDequeue, ReadTimeout, Wait, Poll, AfterWait, Shutdown
  <2>2. \A q \in Readers :
          \/ rpc'[q] = rpc[q]
          \/ /\ rpc[q] # "overflow"
             /\ rpc'[q] \in {"idle", "check", "woken", "parked", "cancelled"}
    BY <1>1, <1>5 DEF TypeOK, StartDequeue, ReadTimeout, Wait, Poll, AfterWait, Shutdown
  <2>3. Calm
    BY <2>1, <2>2 DEF Calm, HasBlock
  <2>4. Ready
    BY <1>1, <2>1, <2>2 DEF Ready, Placed, Bytes
  <2> QED
    BY <1>4, <2>1, <2>3, <2>4, CalmStep
<1>6. ASSUME NEW r \in Readers, LoadReadFlag(r) PROVE IInv'
  <2>1. UNCHANGED <<writerVars, sent, ringVars, ridx, sock, got, buf>>
    BY <1>6 DEF LoadReadFlag
  <2>2. /\ rpc' = [rpc EXCEPT ![r] = "check2"] /\ rpc[r] = "check"
        /\ seenFlag' = [seenFlag EXCEPT ![r] = readFlag[ridx[r]][r]]
    BY <1>6 DEF LoadReadFlag
  <2>3. Calm
    BY <1>1, <2>1, <2>2 DEF TypeOK, Calm, HasBlock
  <2>4. ~readFlag[ridx[r]][r] /\ written[ridx[r]] => Marked(r) < Published
    <3>1. SUFFICES ASSUME Marked(r) = Published, written[ridx[r]]
                   PROVE  readFlag[ridx[r]][r]
      BY <1>1 DEF Placed
    <3>2. ridx[r] = widx /\ widx \in Blocks /\ Flagged(widx)
      BY <1>1, <3>1, Ring DEF Placed, IInv
    <3>3. Pos(widx) = Published + 1 - MaxChunks
      BY <1>1, Ring
    <3>4. Marked(r) >= Pos(widx)
      BY <1>1, <3>1, <3>3
    <3> QED
      BY <3>1, <3>2, <3>4 DEF Flagged
  <2>5. Ready
    BY <1>1, <2>1, <2>2, <2>4 DEF TypeOK, Ready, Placed, Bytes
  <2> QED
    BY <1>4, <2>1, <2>3, <2>5, CalmStep
<1>7. ASSUME NEW r \in Readers, LoadWrittenFlag(r) PROVE IInv'
  <2>1. UNCHANGED <<writerVars, sent, ringVars, ridx, sock, got, buf, seenFlag>>
    BY <1>7 DEF LoadWrittenFlag
  <2>2. /\ rpc[r] = "check2" /\ rpc'[r] \in {"read", "wait"}
        /\ \A q \in Readers : q # r => rpc'[q] = rpc[q]
        /\ rpc'[r] = "read" => written[ridx[r]] /\ ~seenFlag[r]
    BY <1>1, <1>7 DEF TypeOK, LoadWrittenFlag
  <2>3. Calm
    BY <1>1, <2>1, <2>2 DEF TypeOK, Calm, HasBlock
  <2>4. Ready
    BY <1>1, <2>1, <2>2 DEF Ready, Placed, Bytes
  <2> QED
    BY <1>4, <2>1, <2>3, <2>4, CalmStep
<1>8. ASSUME NEW r \in Readers, ReadBlock(r) PROVE IInv'
  <2>1. UNCHANGED <<writerVars, sent, ringVars, ridx, sock, got, seenFlag>>
    BY <1>8 DEF ReadBlock
  <2>2. /\ rpc[r] = "read" /\ rpc' = [rpc EXCEPT ![r] = "mark"]
        /\ buf' = [buf EXCEPT ![r] = data[ridx[r]]]
    BY <1>8 DEF ReadBlock
  <2>3. Calm
    BY <1>1, <2>1, <2>2 DEF TypeOK, Calm, HasBlock
  <2>4. Marked(r) < Published /\ data[ridx[r]] = Content(sent[Marked(r) + 1])
    BY <1>1, <2>2, ReaderBlock DEF Placed
  <2>5. Ready
    BY <1>1, <2>1, <2>2, <2>4 DEF TypeOK, Ready, Placed, Bytes
  <2> QED
    BY <1>4, <2>1, <2>3, <2>5, CalmStep
<1> QED
  BY <1>2, <1>3, <1>5, <1>6, <1>7, <1>8

-----------------------------------------------------------------------------
(* The writer *)

\* The writer has block widx, which every reader has given back, and changes
\* nothing else.
Hold ==
  /\ HasBlock' /\ wpc # "push"
  /\ ~written'[widx] /\ \A r \in Readers : Marked(r) >= Pos(widx)
  /\ UNCHANGED <<widx, readerVars, sock, sent, got>>
  /\ \A b \in Blocks : b # widx =>
       written'[b] = written[b] /\ readFlag'[b] = readFlag[b] /\ data'[b] = data[b]
  /\ wpc' = "clear" => data'[widx] = Content(msg')

LEMMA HoldStep ==
  ASSUME IInv, TypeOK', WriterInv', Hold
  PROVE  IInv'
<1> USE DEF readerVars
<1>1. Published' = Published /\ widx' = widx /\ widx \in Blocks
  BY Ring DEF Hold, Published, IInv
<1>2. ASSUME NEW r \in Readers PROVE Marked(r)' = Marked(r)
  BY DEF Hold, Marked
<1>3. ASSUME NEW b PROVE Age(b)' = Age(b) /\ Pos(b)' = Pos(b)
  BY <1>1 DEF Age, Pos
<1>4. ASSUME NEW b \in Blocks
      PROVE  (Filling(b)' <=> b = widx) /\ (Filling(b) => b = widx)
  BY <1>1 DEF Filling, Hold
<1>5. ASSUME NEW r \in Readers PROVE Placed(r)'
  <2>1. ridx[r] \in Blocks /\ Pos(ridx[r])' = Pos(ridx[r]) /\ Placed(r)
    BY <1>3, Ring DEF IInv, Hold
  <2>2. written'[ridx[r]] => written[ridx[r]]
    BY <2>1 DEF Hold
  <2> QED
    BY <1>1, <1>2, <2>1, <2>2 DEF Placed, Hold
<1>6. ASSUME NEW b \in Blocks PROVE Flagged(b)'
  <2>1. Flagged(b)
    BY DEF IInv
  <2>2. CASE b = widx
    BY <1>2, <1>3, <1>4, <2>2 DEF Flagged, Hold
  <2>3. CASE b # widx
    <3>1. ~Filling(b) /\ ~Filling(b)' /\ Pos(b)' = Pos(b)
      BY <1>3, <1>4, <2>3
    <3>2. written'[b] = written[b] /\ readFlag'[b] = readFlag[b]
      BY <2>3 DEF Hold
    <3> QED
      BY <1>2, <2>1, <3>1, <3>2 DEF Flagged
  <2> QED
    BY <2>2, <2>3
<1>7. Bytes'
  <2>1. Bytes
    BY DEF IInv
  <2>2. ASSUME NEW b \in Blocks, Pos(b)' > 0, ~Filling(b)'
        PROVE  data'[b] = Content(sent'[Pos(b)'])
    <3>1. Pos(b)' = Pos(b) /\ ~Filling(b) /\ data'[b] = data[b] /\ sent' = sent
      BY <1>3, <1>4, <2>2 DEF Hold
    <3> QED
      BY <2>1, <2>2, <3>1 DEF Bytes
  <2>3. wpc' = "clear" => data'[widx'] = Content(msg')
    BY <1>1 DEF Hold
  <2>4. UNCHANGED <<rpc, buf, sent>>
    BY DEF Hold
  <2> QED
    BY <1>2, <2>1, <2>2, <2>3, <2>4 DEF Bytes
<1>8. ASSUME NEW r \in Readers PROVE Queued(r)'
  <2>1. Queued(r) /\ wpc' # "push"
    BY DEF IInv, Hold, HasBlock
  <2> QED
    BY <1>1, <2>1 DEF Queued, Hold, NoneExpired, Pushed
<1> QED
  BY <1>5, <1>6, <1>7, <1>8 DEF IInv

LEMMA FillActions ==
  ASSUME IInv, TypeOK',
         Acquire \/ BeginFill \/ EndFill \/ \E r \in Readers : ClearFlag(r)
  PROVE  IInv'
<1> USE DEF readerVars, HasBlock
<1>1. /\ TypeOK /\ WriterInv /\ Bytes /\ widx \in Blocks /\ Flagged(widx)
      /\ \A r \in Readers : Marked(r) \in Nat
      /\ Pos(widx) \in Int
  BY Ring DEF IInv
<1>2. HasBlock => ~written[widx] /\ \A r \in Readers : Marked(r) >= Pos(widx)
  BY <1>1 DEF Flagged, Filling
<1>3. CASE Acquire
  <2>1. WriterInv'
    BY <1>1, <1>3 DEF WriterInv, Acquire, Published
  <2>2. ASSUME NEW r \in Readers PROVE Marked(r) >= Pos(widx)
    <3>1. ~Filling(widx)
      BY <1>3 DEF Acquire, Filling
    <3>2. CASE Pos(widx) <= 0
      BY <1>1, <3>2
    <3>3. CASE Pos(widx) > 0
      BY <1>1, <1>3, <3>1, <3>3 DEF Flagged, Acquire, Writable
    <3> QED
      BY <1>1, <3>2, <3>3
  <2>3. Hold
    BY <1>1, <1>3, <2>2 DEF TypeOK, Acquire, Hold
  <2> QED
    BY <2>1, <2>3, HoldStep
<1>4. CASE BeginFill \/ EndFill
  <2>1. WriterInv'
    BY <1>1, <1>4 DEF WriterInv, BeginFill, EndFill, Published
  <2>2. wpc \in {"fill", "filling"} /\ wpc' \in {"filling", "clear"} /\ written' = written
    BY <1>4 DEF BeginFill, EndFill
  <2>3. UNCHANGED <<readFlag, widx, msg, readerVars, sock, sent, got>>
    BY <1>4 DEF BeginFill, EndFill
  <2>4. /\ \A b \in Blocks : b # widx => data'[b] = data[b]
        /\ wpc' = "clear" => data'[widx] = Content(msg)
    BY <1>1, <1>4 DEF TypeOK, BeginFill, EndFill
  <2>5. Hold
    BY <1>2, <2>2, <2>3, <2>4 DEF Hold
  <2> QED
    BY <2>1, <2>5, HoldStep
<1>5. ASSUME NEW r \in Readers, ClearFlag(r) PROVE IInv'
  <2>1. WriterInv'
    BY <1>1, <1>5 DEF WriterInv, ClearFlag, Published, writerVars
  <2>2. wpc = "clear" /\ wpc' = "clear" /\ data[widx] = Content(msg)
    BY <1>1, <1>5 DEF ClearFlag, writerVars, Bytes
  <2>3. UNCHANGED <<written, data, widx, msg, readerVars, sock, sent, got>>
    BY <1>5 DEF ClearFlag, writerVars
  <2>4. \A b \in Blocks : b # widx => readFlag'[b] = readFlag[b]
    BY <1>1, <1>5 DEF TypeOK, ClearFlag
  <2>5. Hold
    BY <1>2, <2>2, <2>3, <2>4 DEF Hold
  <2> QED
    BY <2>1, <2>5, HoldStep
<1> QED
  BY <1>3, <1>4, <1>5

LEMMA PublishStep ==
  ASSUME IInv, TypeOK', Publish
  PROVE  IInv'
<1> DEFINE n == Published + 1
<1> USE DEF readerVars
<1>1. /\ TypeOK /\ WriterInv /\ Bytes /\ widx \in Blocks /\ Flagged(widx)
      /\ Published \in Nat /\ Pos(widx) \in Int
  BY Ring DEF IInv
<1>2. ASSUME NEW r \in Readers
      PROVE  Marked(r)' = Marked(r) /\ Marked(r) \in Nat /\ Marked(r) <= Published
             /\ Placed(r) /\ Queued(r) /\ ridx[r] \in Blocks /\ Len(got[r]) \in Nat
             /\ Len(got[r]) <= Marked(r)
  BY <1>1, Ring DEF Publish, Marked, IInv, Placed
<1>3. /\ wpc = "clear" /\ wpc' \in {"push", "notify"}
      /\ wpc' = "push" <=> Overflows(msg)
      /\ written' = [written EXCEPT ![widx] = TRUE]
      /\ \A r \in Readers : ~readFlag[widx][r]
      /\ sent' = Append(sent, msg)
      /\ UNCHANGED <<readFlag, data, msg, readerVars, sock, got>>
  BY <1>1 DEF Publish, TypeOK
<1>4. /\ Published' = n /\ sent'[n] = msg
      /\ \A j \in 1..Published : sent'[j] = sent[j]
  BY <1>1, <1>3 DEF Published, TypeOK
<1>5. widx' = IF widx + 1 = MaxChunks THEN 0 ELSE widx + 1
  BY <1>1, Wrap DEF Publish
<1>6. ASSUME NEW b \in Blocks, b # widx
      PROVE  Pos(b)' = Pos(b)
  BY <1>1, <1>4, <1>5, <1>6 DEF Pos, Age, Blocks
<1>7. Pos(widx) = n - MaxChunks /\ \A b \in Blocks : b = widx => Pos(b)' = n
  <2>1. Pos(widx) = n - MaxChunks
    BY <1>1, Ring
  <2>2. ASSUME NEW b \in Blocks, b = widx PROVE Pos(b)' = n
    BY <1>1, <1>4, <1>5, <2>2 DEF Pos, Age, Blocks
  <2> QED
    BY <2>1, <2>2
<1>8. ~HasBlock' /\ HasBlock /\ Filling(widx)
  BY <1>3 DEF HasBlock, Filling
<1>9. WriterInv'
  <2>1. msg \in Nat /\ \A j \in 1..Published : sent[j] < msg
    BY <1>1, <1>3 DEF WriterInv, TypeOK
  <2>2. \A j \in 1..Published' : j = n \/ j \in 1..Published
    BY <1>1, <1>4
  <2>3. \A j \in 1..Published' : sent'[j] <= msg'
    <3>1. sent'[n] = msg' /\ msg' = msg
      BY <1>3, <1>4
    <3>2. \A j \in 1..Published : sent'[j] < msg /\ sent'[j] \in Nat
      BY <1>1, <1>4, <2>1, Values
    <3> QED
      BY <2>1, <2>2, <3>1, <3>2
  <2>4. \A i, j \in 1..Published' : i < j => sent'[i] < sent'[j]
    BY <1>1, <1>4, <2>1, <2>2 DEF WriterInv
  <2> QED
    <3>1. Published' > 0 /\ sent'[Published'] = msg'
      BY <1>1, <1>3, <1>4
    <3> QED
      BY <1>3, <2>3, <2>4, <3>1 DEF WriterInv
<1>10. ASSUME NEW r \in Readers, Marked(r) < Published
       PROVE  ridx[r] # widx /\ Pos(ridx[r]) = Marked(r) + 1
  BY <1>8, <1>10, ReaderBlock DEF Filling
<1>11. ASSUME NEW r \in Readers PROVE Placed(r)'
  <2>1. Marked(r)' < Published'
    BY <1>1, <1>2, <1>4
  <2>2. Pos(ridx[r])' = Marked(r) + 1
    <3>1. CASE Marked(r) = Published
      BY <1>2, <1>3, <1>7, <3>1 DEF Placed
    <3>2. CASE Marked(r) < Published
      BY <1>2, <1>3, <1>6, <1>10, <3>2
    <3> QED
      BY <1>1, <1>2, <3>1, <3>2
  <2> QED
    BY <1>1, <1>2, <1>3, <1>4, <2>1, <2>2 DEF Placed
<1>12. ASSUME NEW b \in Blocks PROVE Flagged(b)'
  <2>1. Flagged(b) /\ ~Filling(b)' /\ Pos(b) \in Int
    BY <1>1, <1>8, Ring DEF IInv, Filling
  <2>2. CASE b = widx
    <3>1. Pos(b)' = n /\ written'[b] /\ \A r \in Readers : ~readFlag'[b][r]
      BY <1>1, <1>3, <1>7, <2>2 DEF TypeOK
    <3>2. \A r \in Readers : ~(Marked(r)' >= n)
      BY <1>1, <1>2
    <3> QED
      BY <1>1, <2>1, <3>1, <3>2 DEF Flagged
  <2>3. CASE b # widx
    <3>1. ~Filling(b) /\ Pos(b)' = Pos(b) /\ written'[b] = written[b]
      BY <1>1, <1>3, <1>6, <2>3 DEF Filling, TypeOK
    <3> QED
      BY <1>2, <1>3, <2>1, <3>1 DEF Flagged
  <2> QED
    BY <2>2, <2>3
<1>13. Bytes'
  <2>1. ASSUME NEW b \in Blocks, Pos(b)' > 0 PROVE data'[b] = Content(sent'[Pos(b)'])
    <3>1. CASE b = widx
      BY <1>1, <1>3, <1>4, <1>7, <3>1 DEF Bytes
    <3>2. CASE b # widx
      <4>1. Pos(b)' = Pos(b) /\ Pos(b) > 0 /\ ~Filling(b) /\ Pos(b) \in 1..Published
        BY <1>1, <1>6, <2>1, <3>2, Ring DEF Filling, Pos
      <4> QED
        BY <1>1, <1>3, <1>4, <4>1 DEF Bytes
    <3> QED
      BY <3>1, <3>2
  <2>2. ASSUME NEW r \in Readers
        PROVE  /\ rpc'[r] = "mark" => buf'[r] = Content(sent'[Marked(r)' + 1])
               /\ rpc'[r] = "overflow" => Overflows(sent'[Marked(r)'])
    <3>1. rpc[r] = "mark" => Marked(r) + 1 \in 1..Published
      BY <1>1, <1>2 DEF Placed
    <3>2. rpc[r] = "overflow" => Marked(r) \in 1..Published
      BY <1>1, <1>2 DEF Marked
    <3> QED
      BY <1>1, <1>2, <1>3, <1>4, <3>1, <3>2 DEF Bytes
  <2> QED
    BY <1>3, <2>1, <2>2 DEF Bytes
<1>14. ASSUME NEW r \in Readers PROVE Queued(r)'
  <2>1. SUFFICES ASSUME NoneExpired(r) PROVE Queued(r)'
    BY <1>3 DEF Queued, NoneExpired
  <2>2. ASSUME NEW j \in 1..Published PROVE Pushed(j)' <=> Pushed(j)
    <3>1. j # n /\ j # Published'
      BY <1>1, <1>4
    <3>2. sent'[j] = sent[j] /\ wpc # "push"
      BY <1>3, <1>4
    <3> QED
      BY <3>1, <3>2 DEF Pushed
  <2>3. ASSUME NEW j, j = n PROVE ~Pushed(j)'
    <3>1. sent'[j] = msg /\ j = Published'
      BY <1>4, <2>3
    <3> QED
      BY <1>3, <3>1 DEF Pushed
  <2>4. ASSUME NEW j \in Len(got[r]) + 1..n, Pushed(j)'
        PROVE  j \in Len(got[r]) + 1..Published
    BY <1>1, <1>2, <2>3, <2>4
  <2>5. \A j \in Len(got[r]) + 1..Published : j \in 1..Published /\ j \in Len(got[r]) + 1..n
    BY <1>1, <1>2
  <2>6. /\ \A i, j \in 1..Len(sock[r]) : i < j => sock[r][i] < sock[r][j]
        /\ \A i \in 1..Len(sock[r]) :
             \E j \in Len(got[r]) + 1..Published : Pushed(j) /\ sock[r][i] = sent[j]
        /\ \A j \in Len(got[r]) + 1..Published :
             Pushed(j) => \E i \in 1..Len(sock[r]) : sock[r][i] = sent[j]
    BY <1>2, <2>1 DEF Queued
  <2>7. \A i \in 1..Len(sock[r]) :
          \E j \in Len(got[r]) + 1..n : Pushed(j)' /\ sock[r][i] = sent'[j]
    BY <1>4, <2>2, <2>5, <2>6
  <2>8. \A j \in Len(got[r]) + 1..n :
          Pushed(j)' => \E i \in 1..Len(sock[r]) : sock[r][i] = sent'[j]
    BY <1>4, <2>2, <2>4, <2>5, <2>6
  <2>9. Len(got[r]) < n
    BY <1>1, <1>2
  <2>10. got'[r] = got[r] /\ sock'[r] = sock[r] /\ Published' = n
    BY <1>3, <1>4
  <2> HIDE DEF n
  <2>11. /\ \A i, j \in 1..Len(sock'[r]) : i < j => sock'[r][i] < sock'[r][j]
         /\ Len(got'[r]) < Published'
    BY <2>6, <2>9, <2>10
  <2>12. \A i \in 1..Len(sock'[r]) :
           \E j \in Len(got'[r]) + 1..Published' : Pushed(j)' /\ sock'[r][i] = sent'[j]
    BY <2>7, <2>10
  <2>13. \A j \in Len(got'[r]) + 1..Published' :
           Pushed(j)' => \E i \in 1..Len(sock'[r]) : sock'[r][i] = sent'[j]
    BY <2>8, <2>10
  <2> QED
    BY <2>11, <2>12, <2>13 DEF Queued
<1> QED
  BY <1>9, <1>11, <1>12, <1>13, <1>14 DEF IInv

\* The message that follows its block comes last in every socket.
LEMMA PushStep ==
  ASSUME IInv, TypeOK', Push
  PROVE  IInv'
<1> USE DEF ringVars, readerVars
<1>1. /\ TypeOK /\ WriterInv /\ Bytes /\ Published \in Nat
      /\ \A r \in Readers : Placed(r) /\ Queued(r)
  BY Ring DEF IInv
<1>2. /\ wpc = "push" /\ wpc' = "notify"
      /\ sock' = [r \in Readers |-> Append(sock[r], msg)]
      /\ UNCHANGED <<ringVars, msg, widx, readerVars, sent, got>>
  BY DEF Push
<1>3. Published' = Published /\ Published > 0 /\ sent[Published] = msg /\ Overflows(msg)
  BY <1>1, <1>2 DEF WriterInv, Published
<1>4. WriterInv'
  BY <1>1, <1>2, <1>3 DEF WriterInv
<1>5. Still /\ Ready
  BY <1>1, <1>2 DEF Still, Ready, Marked, HasBlock, Placed, Bytes
<1>6. ASSUME NEW r \in Readers PROVE Queued(r)'
  <2> DEFINE q == sock[r]
             k == Len(q) + 1
             from == Len(got[r]) + 1
  <2>1. SUFFICES ASSUME NoneExpired(r) PROVE Queued(r)'
    BY <1>2 DEF Queued, NoneExpired
  <2>2. /\ Len(q) \in Nat /\ sock'[r] = Append(q, msg) /\ Len(sock'[r]) = k
        /\ sock'[r][k] = msg /\ \A i \in 1..Len(q) : sock'[r][i] = q[i]
        /\ from \in Nat
    BY <1>1, <1>2 DEF TypeOK
  <2>3. from <= Published /\ Published \in from..Published
    BY <1>1, <1>2, <2>1, <2>2 DEF Queued
  <2>4. /\ \A i, j \in 1..Len(q) : i < j => q[i] < q[j]
        /\ \A i \in 1..Len(q) : \E j \in from..Published : Pushed(j) /\ q[i] = sent[j]
        /\ \A j \in from..Published : Pushed(j) => \E i \in 1..Len(q) : q[i] = sent[j]
    BY <1>1, <2>1 DEF Queued
  <2>5. ASSUME NEW j \in from..Published
        PROVE  Pushed(j)' <=> Pushed(j) \/ j = Published
    BY <1>2, <1>3 DEF Pushed
  <2>6. ASSUME NEW i \in 1..Len(q) PROVE q[i] < msg
    <3>1. PICK j \in from..Published : Pushed(j) /\ q[i] = sent[j]
      BY <2>4
    <3>2. j \in 1..Published /\ j < Published /\ Published \in 1..Published
      BY <1>1, <1>2, <1>3, <2>2, <3>1 DEF Pushed
    <3> QED
      BY <1>1, <1>3, <3>1, <3>2 DEF WriterInv
  <2>7. \A i \in 1..k : i = k \/ i \in 1..Len(q)
    BY <2>2
  <2>8. ASSUME NEW i \in 1..k, NEW j \in 1..k, i < j PROVE sock'[r][i] < sock'[r][j]
    <3>1. i \in 1..Len(q) /\ (j = k \/ j \in 1..Len(q))
      BY <2>2, <2>8
    <3> HIDE DEF k
    <3> QED
      BY <2>2, <2>4, <2>6, <2>8, <3>1
  <2>9. \A i \in 1..k : \E j \in from..Published : Pushed(j)' /\ sock'[r][i] = sent[j]
    BY <1>3, <2>2, <2>3, <2>4, <2>5, <2>7
  <2>10. \A j \in from..Published : Pushed(j)' => \E i \in 1..k : sock'[r][i] = sent[j]
    <3>1. k \in 1..k /\ \A i \in 1..Len(q) : i \in 1..k
      BY <2>2
    <3> QED
      BY <1>3, <2>2, <2>4, <2>5, <3>1
  <2>11. got'[r] = got[r] /\ sent' = sent /\ wpc' # "push"
    BY <1>2
  <2> HIDE DEF k
  <2> QED
    BY <1>3, <2>2, <2>8, <2>9, <2>10, <2>11 DEF Queued
<1> QED
  BY <1>4, <1>5, <1>6, StillStep

-----------------------------------------------------------------------------
(* The readers *)

\* A reader on its way to the socket finds the message of its block there first.
LEMMA HeadIsNext ==
  ASSUME IInv, NEW r \in Readers, rpc[r] = "overflow", sock[r] # << >>, NoneExpired(r)
  PROVE  /\ Pushed(Len(got[r]) + 1) /\ Len(got[r]) + 1 \in 1..Published
         /\ Head(sock[r]) = sent[Len(got[r]) + 1]
<1> DEFINE q == sock[r]
           n == Len(got[r]) + 1
<1>1. /\ TypeOK /\ WriterInv /\ Bytes /\ Placed(r) /\ Queued(r)
      /\ Published \in Nat
  BY Ring DEF IInv
<1>2. /\ n \in Nat /\ n > 0 /\ Len(q) \in Nat /\ Marked(r) = n
       /\ q \in Seq(Messages) /\ \A i \in 1..Len(q) : q[i] \in Nat
  BY <1>1, Values DEF Marked
<1>3. n <= Published /\ Overflows(sent[n])
  BY <1>1, <1>2 DEF Placed, Bytes
<1>4. /\ \A i, j \in 1..Len(q) : i < j => q[i] < q[j]
      /\ \A i \in 1..Len(q) : \E j \in n..Published : Pushed(j) /\ q[i] = sent[j]
      /\ \A j \in n..Published : Pushed(j) => \E i \in 1..Len(q) : q[i] = sent[j]
  BY <1>1 DEF Queued
<1>5. 1 \in 1..Len(q) /\ Head(q) = q[1]
  BY <1>2
<1>6. PICK first \in n..Published : Pushed(first) /\ q[1] = sent[first]
  BY <1>4, <1>5
<1>7. Pushed(n)
  BY <1>1, <1>3, <1>6, <1>2 DEF Pushed
<1>8. PICK i \in 1..Len(q) : q[i] = sent[n]
  <2>1. n \in n..Published
    BY <1>1, <1>2, <1>3
  <2> QED
    BY <1>4, <1>7, <2>1
<1>9. first \in 1..Published /\ n \in 1..Published /\ sent[first] \in Nat /\ sent[n] \in Nat
  BY <1>1, <1>3, <1>2, Values
<1>10. i = 1 \/ q[1] < q[i]
  BY <1>4, <1>5, <1>2
<1>11. first = n
  BY SMTT(30), <1>1, <1>6, <1>8, <1>9, <1>10, <1>2 DEF WriterInv
<1> QED
  BY <1>5, <1>6, <1>7, <1>9, <1>11

\* The message of a reader that ends its dequeue at the socket.
LEMMA SocketActions ==
  ASSUME IInv, TypeOK', NEW r \in Readers, RecvOverflow(r) \/ OverflowTimeout(r)
  PROVE  IInv'
<1> USE DEF ringVars, writerVars
<1>1. /\ TypeOK /\ WriterInv /\ Bytes /\ Published \in Nat
      /\ \A q \in Readers : Placed(q) /\ Queued(q) /\ Len(got[q]) \in Nat
  BY Ring, Values DEF IInv
<1>2. /\ rpc[r] = "overflow" /\ rpc' = [rpc EXCEPT ![r] = "idle"]
      /\ UNCHANGED <<ringVars, writerVars, ridx, seenFlag, buf, sent>>
      /\ \A q \in Readers : q # r => got'[q] = got[q] /\ sock'[q] = sock[q]
      /\ \E v : got' = [got EXCEPT ![r] = Append(@, v)]
  BY <1>1 DEF TypeOK, RecvOverflow, OverflowTimeout
<1>3. PICK v : got' = [got EXCEPT ![r] = Append(@, v)]
  BY <1>2
<1>4. /\ got'[r] = Append(got[r], v) /\ Len(got'[r]) = Len(got[r]) + 1
      /\ got'[r][Len(got[r]) + 1] = v
      /\ \A j \in 1..Len(got[r]) : got'[r][j] = got[r][j]
  BY <1>1, <1>3 DEF TypeOK
<1>5. WriterInv' /\ Published' = Published
  BY <1>1, <1>2 DEF WriterInv, Published
<1>6. ASSUME NEW q \in Readers PROVE Marked(q)' = Marked(q)
  BY <1>1, <1>2, <1>4 DEF Marked, TypeOK
<1>7. Still /\ Ready
  BY <1>1, <1>2, <1>6 DEF Still, Ready, HasBlock, Placed, Bytes, TypeOK
<1>8. ASSUME NEW q \in Readers, q # r PROVE Queued(q)'
  <2>1. got'[q] = got[q] /\ sock'[q] = sock[q] /\ sent' = sent /\ wpc' = wpc
    BY <1>2, <1>8
  <2> QED
    BY <1>1, <2>1, QueuedSame
<1>9. Queued(r)'
  <2> DEFINE s == sock[r]
             n == Len(got[r]) + 1
  <2>1. SUFFICES ASSUME NoneExpired(r)' PROVE Queued(r)'
    BY DEF Queued
  <2>2. n \in Nat /\ n > 0 /\ Len(got'[r]) = n
        /\ s \in Seq(Messages) /\ Len(s) \in Nat /\ \A i \in 1..Len(s) : s[i] \in Nat
    BY <1>1, <1>4, Values
  <2>3. NoneExpired(r) /\ v # Expired
    BY <1>1, <1>4, <2>1 DEF NoneExpired
  <2>4. RecvOverflow(r)
    <3>1. Expired \in Int /\ (OverflowTimeout(r) => got'[r] = Append(got[r], Expired))
      BY <1>1 DEF OverflowTimeout, TypeOK, Expired
    <3>2. OverflowTimeout(r) => got'[r][n] = Expired
      BY <1>1, <3>1 DEF TypeOK
    <3> QED
      BY <1>4, <2>3, <3>2
  <2>5. s # << >> /\ sock'[r] = Tail(s)
    BY <1>1, <2>4 DEF RecvOverflow, TypeOK
  <2>6. Pushed(n) /\ n \in 1..Published /\ Head(s) = sent[n]
    BY <1>2, <2>3, <2>5, HeadIsNext
  <2>7. /\ 1 \in 1..Len(s) /\ s[1] = sent[n]
        /\ Len(Tail(s)) = Len(s) - 1
        /\ \A i \in 1..(Len(s) - 1) : Tail(s)[i] = s[i + 1]
    BY <1>1, <2>2, <2>5, <2>6 DEF TypeOK
  <2>8. /\ wpc = "push" => n < Published + 1
        /\ \A i, j \in 1..Len(s) : i < j => s[i] < s[j]
        /\ \A i \in 1..Len(s) : \E j \in n..Published : Pushed(j) /\ s[i] = sent[j]
        /\ \A j \in n..Published : Pushed(j) => \E i \in 1..Len(s) : s[i] = sent[j]
    <3>1. n = Len(got[r]) + 1 /\ Queued(r)
      BY <1>1
    <3>2. wpc = "push" => Len(got[r]) < Published
      BY <2>3, <3>1 DEF Queued
    <3>3. wpc = "push" => n < Published + 1
      BY <1>1, <3>2
    <3> QED
      BY <2>3, <3>1, <3>3 DEF Queued
  <2>9. \A j \in 1..Published : Pushed(j)' <=> Pushed(j)
    BY <1>2, <1>5 DEF Pushed
  <2>10. \A j \in (n + 1)..Published : j \in 1..Published /\ j \in n..Published /\ j # n
    BY <1>1, <2>2
  <2>11. \A i, j \in 1..(Len(s) - 1) : i < j => Tail(s)[i] < Tail(s)[j]
    BY <2>2, <2>7, <2>8
  <2>12. ASSUME NEW i \in 1..(Len(s) - 1)
         PROVE  \E j \in (n + 1)..Published : Pushed(j)' /\ Tail(s)[i] = sent[j]
    <3>1. i + 1 \in 1..Len(s) /\ s[1] < s[i + 1]
      <4>1. i + 1 \in 1..Len(s) /\ 1 \in 1..Len(s) /\ 1 < i + 1
        BY <2>2, <2>7
      <4> QED
        BY <2>8, <4>1
    <3>2. PICK j \in n..Published : Pushed(j) /\ s[i + 1] = sent[j]
      BY <2>8, <3>1
    <3>3. j # n
      <4>1. s[1] \in Nat
        BY <1>1, <2>6, <2>7, Values
      <4> QED
        BY <2>7, <3>1, <3>2, <4>1
    <3>4. j \in (n + 1)..Published
      BY <1>1, <2>2, <3>3
    <3> QED
      BY <2>7, <2>9, <2>10, <3>2, <3>4
  <2>13. ASSUME NEW j \in (n + 1)..Published, Pushed(j)'
         PROVE  \E i \in 1..(Len(s) - 1) : Tail(s)[i] = sent[j]
    <3>1. j \in 1..Published /\ j \in n..Published /\ n < j /\ Pushed(j)
      BY <1>1, <2>2, <2>9, <2>10, <2>13
    <3>2. PICK i \in 1..Len(s) : s[i] = sent[j]
      BY <2>8, <3>1
    <3>3. i # 1
      BY <1>1, <2>6, <2>7, <3>1, <3>2, Values DEF WriterInv
    <3>4. i - 1 \in 1..(Len(s) - 1) /\ Tail(s)[i - 1] = s[(i - 1) + 1]
      BY <2>2, <2>7, <3>3
    <3>5. (i - 1) + 1 = i
      OBVIOUS
    <3> QED
      BY <3>2, <3>4, <3>5
  <2>14. wpc = "push" => n < Published
    BY <1>1, <2>6 DEF Pushed
  <2>15. Len(sock'[r]) = Len(s) - 1 /\ sent' = sent /\ wpc' = wpc
    BY <1>2, <2>5, <2>7
  <2> DEFINE t == Tail(s)
  <2>16. sock'[r] = t /\ Len(t) = Len(s) - 1
    BY <2>5, <2>7
  <2>17. /\ \A i, j \in 1..Len(t) : i < j => t[i] < t[j]
         /\ \A i \in 1..Len(t) : \E j \in (n + 1)..Published : Pushed(j)' /\ t[i] = sent[j]
         /\ \A j \in (n + 1)..Published : Pushed(j)' => \E i \in 1..Len(t) : t[i] = sent[j]
    BY <2>11, <2>12, <2>13, <2>16
  <2> HIDE DEF s, n, t
  <2> QED
    BY <1>5, <2>2, <2>14, <2>15, <2>16, <2>17 DEF Queued
<1> QED
  BY <1>5, <1>7, <1>8, <1>9, StillStep

\* The block after b is the writer's, or holds the next message.
LEMMA NextBlock ==
  ASSUME TypeOK, NEW b \in Blocks
  PROVE  /\ Pos(b) = Published => (b + 1) % MaxChunks = widx
         /\ Pos(b) # Published => Pos((b + 1) % MaxChunks) = Pos(b) + 1
<1> DEFINE c == (b + 1) % MaxChunks
<1>1. c \in Blocks /\ c = (IF b + 1 = MaxChunks THEN 0 ELSE b + 1)
  BY Wrap
<1>2. Published \in Nat /\ widx \in Blocks
  BY Ring
<1> HIDE DEF c
<1>3. Pos(b) = Published => c = widx
  BY <1>1, <1>2 DEF Pos, Age, Blocks
<1>4. Pos(b) # Published => Pos(c) = Pos(b) + 1
  BY <1>1, <1>2 DEF Pos, Age, Blocks
<1> QED
  BY <1>3, <1>4 DEF c

\* A reader gives its block back; of an inline message that ends the dequeue.
LEMMA MarkReadStep ==
  ASSUME IInv, TypeOK', NEW r \in Readers, MarkRead(r)
  PROVE  IInv'
<1> USE DEF writerVars
<1> DEFINE a == ridx[r]
           n == Marked(r) + 1
<1>1. /\ TypeOK /\ WriterInv /\ Bytes /\ Published \in Nat /\ widx \in Blocks
      /\ \A q \in Readers : Placed(q) /\ Queued(q) /\ ridx[q] \in Blocks
           /\ Marked(q) \in Nat /\ Len(got[q]) \in Nat
      /\ \A b \in Blocks : Flagged(b) /\ Pos(b) \in Int /\ Age(b) \in 1..MaxChunks
      /\ a \in Blocks
  BY Ring DEF IInv
<1>2. /\ rpc[r] = "mark" /\ Marked(r) < Published /\ Marked(r) = Len(got[r])
      /\ n \in 1..Published
  BY <1>1 DEF MarkRead, Placed, Marked
<1>3. /\ Pos(a) = n /\ ~Filling(a) /\ written[a]
      /\ buf[r] = Content(sent[n])
  BY <1>1, <1>2, ReaderBlock DEF Bytes
<1>4. /\ readFlag' = [readFlag EXCEPT ![a][r] = TRUE]
      /\ ridx' = [ridx EXCEPT ![r] = (@ + 1) % MaxChunks]
      /\ UNCHANGED <<written, data, wpc, msg, widx, seenFlag, buf, sock, sent>>
  BY DEF MarkRead
<1>5. ASSUME NEW q \in Readers, q # r
      PROVE  rpc'[q] = rpc[q] /\ got'[q] = got[q] /\ ridx'[q] = ridx[q]
  <2>1. rpc' = [rpc EXCEPT ![r] = "overflow"] \/ rpc' = [rpc EXCEPT ![r] = "idle"]
    BY DEF MarkRead
  <2>2. got' = got \/ \E v : got' = [got EXCEPT ![r] = Append(@, v)]
    BY DEF MarkRead
  <2>3. rpc'[q] = rpc[q]
    BY <1>1, <1>5, <2>1 DEF TypeOK
  <2>4. got'[q] = got[q]
    BY <1>1, <1>5, <2>2 DEF TypeOK
  <2>5. ridx'[q] = ridx[q]
    BY <1>1, <1>4, <1>5 DEF TypeOK
  <2> QED
    BY <2>3, <2>4, <2>5
<1>6. /\ sent[n] \in Messages
      /\ Overflows(sent[n]) => rpc'[r] = "overflow" /\ got' = got
      /\ ~Overflows(sent[n]) =>
           rpc'[r] = "idle" /\ \E v : got'[r] = Append(got[r], v)
  <2>1. sent[n] \in Messages /\ (buf[r].over <=> Overflows(sent[n]))
    BY <1>1, <1>2, <1>3, Values, Messaging DEF Content
  <2>2. buf[r].over => rpc' = [rpc EXCEPT ![r] = "overflow"] /\ got' = got
    BY DEF MarkRead
  <2>3. ~buf[r].over => /\ rpc' = [rpc EXCEPT ![r] = "idle"]
                        /\ \E v : got' = [got EXCEPT ![r] = Append(@, v)]
    BY DEF MarkRead
  <2>4. buf[r].over => rpc'[r] = "overflow"
    BY <1>1, <2>2 DEF TypeOK
  <2>5. ~buf[r].over => rpc'[r] = "idle"
    BY <1>1, <2>3 DEF TypeOK
  <2>6. ~buf[r].over => \E v : got'[r] = Append(got[r], v)
    BY <1>1, <2>3 DEF TypeOK
  <2> QED
    BY <2>1, <2>2, <2>4, <2>5, <2>6
<1>7. /\ Marked(r)' = n
      /\ \A q \in Readers : q # r => Marked(q)' = Marked(q)
      /\ ~Overflows(sent[n]) => Len(got'[r]) = n
  <2>1. ~Overflows(sent[n]) => Len(got'[r]) = Len(got[r]) + 1
    BY <1>1, <1>6, Values
  <2>2. Overflows(sent[n]) => got'[r] = got[r] /\ rpc'[r] = "overflow"
    BY <1>6
  <2>3. Marked(r)' = n
    BY <1>2, <1>6, <2>1, <2>2 DEF Marked
  <2> QED
    BY <1>2, <1>5, <2>1, <2>3 DEF Marked
<1>8. Published' = Published /\ widx' = widx
  BY <1>4 DEF Published
<1>9. ASSUME NEW b PROVE Age(b)' = Age(b) /\ Pos(b)' = Pos(b) /\ Filling(b)' = Filling(b)
  BY <1>4, <1>8 DEF Age, Pos, Filling, HasBlock
<1>10. WriterInv'
  BY <1>1, <1>4, <1>8 DEF WriterInv
<1>11. Placed(r)'
  <2> DEFINE c == (a + 1) % MaxChunks
  <2>1. ridx'[r] = c /\ rpc'[r] \in {"overflow", "idle"}
    BY <1>1, <1>4, <1>6 DEF TypeOK
  <2>2. (n = Published => c = widx) /\ (n # Published => Pos(c) = n + 1)
    BY <1>1, <1>3, NextBlock
  <2>3. Pos(ridx[r])' = Pos(c)
    BY <1>8, <2>1 DEF Age, Pos
  <2> HIDE DEF c, n
  <2>4. Marked(r)' = n /\ n <= Published
    BY <1>1, <1>2, <1>7
  <2> QED
    BY <1>8, <2>1, <2>2, <2>3, <2>4 DEF Placed
<1>12. ASSUME NEW q \in Readers, q # r PROVE Placed(q)'
  <2>1. /\ Placed(q) /\ Marked(q)' = Marked(q) /\ Pos(ridx[q])' = Pos(ridx[q])
        /\ rpc'[q] = rpc[q] /\ ridx'[q] = ridx[q]
    BY <1>1, <1>5, <1>7, <1>8, <1>12 DEF Age, Pos
  <2> QED
    BY <1>4, <1>8, <2>1 DEF Placed
<1>13. ASSUME NEW b \in Blocks PROVE Flagged(b)'
  <2>1. Flagged(b) /\ written'[b] = written[b] /\ Pos(b) \in Int
    BY <1>1, <1>4
  <2>2. ASSUME NEW q \in Readers
        PROVE  Marked(q)' \in Nat /\ Marked(q) \in Nat /\ Marked(q)' >= Marked(q)
    BY <1>1, <1>7
  <2>3. CASE b = a
    <3>1. \A q \in Readers : readFlag'[a][q] <=> (q = r \/ readFlag[a][q])
      BY <1>1, <1>4 DEF TypeOK
    <3>2. \A q \in Readers : readFlag[a][q] <=> Marked(q) >= n
      BY <1>1, <1>2, <1>3, <2>1, <2>3 DEF Flagged
    <3>3. \A q \in Readers : readFlag'[a][q] <=> Marked(q)' >= n
      BY <1>1, <1>7, <3>1, <3>2
    <3>4. Pos(b)' = n /\ ~Filling(b)' /\ n \in Nat /\ n > 0 /\ written'[b]
      BY <1>1, <1>2, <1>3, <1>9, <2>1, <2>3
    <3>5. \A q \in Readers : readFlag'[b][q] <=> Marked(q)' >= n
      BY <2>3, <3>3
    <3> HIDE DEF n, a
    <3> QED
      BY <3>4, <3>5 DEF Flagged
  <2>4. CASE b # a
    <3>1. readFlag'[b] = readFlag[b] /\ Pos(b) # n
      BY <1>1, <1>3, <1>4, <2>4, Ring DEF TypeOK
    <3>2. \A q \in Readers : Marked(q)' >= Pos(b) <=> Marked(q) >= Pos(b)
      BY <1>1, <1>7, <2>1, <3>1
    <3> QED
      BY <1>9, <2>1, <3>1, <3>2 DEF Flagged
  <2> QED
    BY <2>3, <2>4
<1>14. Bytes'
  <2>1. ASSUME NEW q \in Readers
        PROVE  /\ rpc'[q] = "mark" => buf'[q] = Content(sent'[Marked(q)' + 1])
               /\ rpc'[q] = "overflow" => Overflows(sent'[Marked(q)'])
    <3>1. CASE q = r
      BY <1>4, <1>6, <1>7, <3>1
    <3>2. CASE q # r
      BY <1>1, <1>4, <1>5, <1>7, <3>2 DEF Bytes
    <3> QED
      BY <3>1, <3>2
  <2> QED
    BY <1>1, <1>4, <1>9, <2>1 DEF Bytes
<1>15. ASSUME NEW q \in Readers, got'[q] = got[q] PROVE Queued(q)'
  BY <1>1, <1>4, <1>15, QueuedSame
<1>16. ASSUME ~Overflows(sent[n]) PROVE Queued(r)'
  <2> DEFINE s == sock[r]
  <2>1. SUFFICES ASSUME NoneExpired(r)' PROVE Queued(r)'
    BY DEF Queued
  <2>2. NoneExpired(r)
    <3>1. PICK v : got'[r] = Append(got[r], v)
      BY <1>6, <1>16
    <3>2. \A j \in 1..Len(got[r]) : j \in 1..Len(got'[r]) /\ got'[r][j] = got[r][j]
      BY <1>1, <3>1, Values
    <3> QED
      BY <2>1, <3>2 DEF NoneExpired
  <2>3. n = Len(got[r]) + 1 /\ n \in Nat /\ Len(got'[r]) = n
    BY <1>1, <1>2, <1>7, <1>16
  <2>4. /\ \A i, j \in 1..Len(s) : i < j => s[i] < s[j]
        /\ \A i \in 1..Len(s) : \E j \in n..Published : Pushed(j) /\ s[i] = sent[j]
        /\ \A j \in n..Published : Pushed(j) => \E i \in 1..Len(s) : s[i] = sent[j]
    BY ZenonT(60), <1>1, <2>2, <2>3 DEF Queued
  <2>5. \A j \in (n + 1)..Published : j \in n..Published
    BY <1>1, <2>3
  <2>6. ASSUME NEW j \in n..Published, Pushed(j) PROVE j \in (n + 1)..Published
    <3>1. j # n
      BY <1>16, <2>6 DEF Pushed
    <3> QED
      BY <1>1, <2>3, <3>1
  <2>7. ASSUME NEW j PROVE Pushed(j)' <=> Pushed(j)
    BY <1>4, <1>8 DEF Pushed
  <2>8. wpc = "push" => n < Published
    <3>1. wpc = "push" => Overflows(sent[Published])
      BY <1>1 DEF WriterInv
    <3>2. wpc = "push" => n # Published
      BY <1>16, <3>1
    <3> QED
      BY <1>1, <1>2, <3>2
  <2>9. /\ \A i \in 1..Len(s) : \E j \in (n + 1)..Published : Pushed(j)' /\ s[i] = sent[j]
        /\ \A j \in (n + 1)..Published : Pushed(j)' => \E i \in 1..Len(s) : s[i] = sent[j]
    BY <2>4, <2>5, <2>6, <2>7
  <2>10. sock'[r] = s /\ sent' = sent /\ wpc' = wpc
    BY <1>4
  <2> HIDE DEF n, s
  <2> QED
    BY <1>8, <2>3, <2>4, <2>8, <2>9, <2>10 DEF Queued
<1>17. ASSUME NEW q \in Readers PROVE Queued(q)'
  BY <1>5, <1>6, <1>15, <1>16
<1> QED
  BY <1>10, <1>11, <1>12, <1>13, <1>14, <1>17 DEF IInv

-----------------------------------------------------------------------------
(* The invariant *)

LEMMA InitInv == Init => IInv
<1> SUFFICES ASSUME Init PROVE IInv
  OBVIOUS
<1>1. TypeOK
  BY TypeInit
<1>2. /\ Published = 0 /\ widx = 0 /\ wpc = "idle"
      /\ \A r \in Readers : Marked(r) = 0 /\ ridx[r] = 0 /\ rpc[r] = "idle" /\ sock[r] = << >>
      /\ \A b \in Blocks : ~written[b] /\ b \in 0..(MaxChunks - 1)
  BY DEF Init, Published, Marked, Blocks
<1>3. \A b \in Blocks : Pos(b) <= 0 /\ ~Filling(b)
  BY <1>2 DEF Pos, Age, Filling, HasBlock
<1>4. WriterInv
  BY <1>2 DEF WriterInv
<1>5. ASSUME NEW r \in Readers PROVE Placed(r)
  <2>1. Marked(r) = 0 /\ Published = 0 /\ ridx[r] = widx /\ rpc[r] = "idle"
    BY <1>2
  <2> QED
    BY <2>1 DEF Placed
<1>6. \A b \in Blocks : Flagged(b)
  BY <1>2, <1>3 DEF Flagged
<1>7. Bytes
  BY <1>1, <1>2, <1>3, Ring DEF Bytes
<1>8. \A r \in Readers : Queued(r)
  BY <1>2 DEF Queued, Init
<1> QED
  BY <1>1, <1>4, <1>5, <1>6, <1>7, <1>8 DEF IInv

LEMMA UnchangedInv == ASSUME IInv, UNCHANGED vars PROVE IInv'
<1> USE DEF vars, ringVars, writerVars, readerVars
<1>1. TypeOK'
  BY DEF IInv, TypeOK
<1>2. WriterInv'
  BY DEF IInv, WriterInv, Published
<1>3. Calm /\ Ready
  BY DEF IInv, Calm, Ready, HasBlock, Placed, Bytes
<1> QED
  BY <1>1, <1>2, <1>3, CalmStep

LEMMA NextInv == IInv /\ [Next]_vars => IInv'
<1> SUFFICES ASSUME IInv, [Next]_vars PROVE IInv'
  OBVIOUS
<1>1. TypeOK'
  <2>1. TypeOK /\ WriterInv /\ Published \in Nat
    BY Ring DEF IInv
  <2>2. wpc = "push" => msg > 0
    <3>1. wpc = "push" => sent[Published] = msg /\ sent[Published] \in Messages
      BY <2>1, Values DEF WriterInv
    <3> QED
      BY <3>1 DEF Messages
  <2>3. msg > 0 \/ wpc \in {"idle", "acquire", "notify"}
    BY <2>1, <2>2 DEF WriterInv, TypeOK
  <2> QED
    BY <2>1, <2>3, TypeStep
<1>2. CASE UNCHANGED vars
  BY <1>2, UnchangedInv
<1>3. CASE Acquire \/ BeginFill \/ EndFill \/ \E r \in Readers : ClearFlag(r)
  BY <1>1, <1>3, FillActions
<1>4. CASE Publish
  BY <1>1, <1>4, PublishStep
<1>5. CASE Push
  BY <1>1, <1>5, PushStep
<1>6. ASSUME NEW r \in Readers, MarkRead(r) PROVE IInv'
  BY <1>1, <1>6, MarkReadStep
<1>7. ASSUME NEW r \in Readers, RecvOverflow(r) \/ OverflowTimeout(r) PROVE IInv'
  BY <1>1, <1>7, SocketActions
<1> QED
  BY <1>1, <1>2, <1>3, <1>4, <1>5, <1>6, <1>7, CalmActions DEF Next, Enqueue, Dequeue

LEMMA Invariant == Spec => []IInv
BY InitInv, NextInv, PTL DEF Spec

\* Every variable of the ring keeps its type, for any ring, any readers and any
\* of the events.
THEOREM TypeCorrect == Spec => []TypeOK
<1>1. IInv => TypeOK
  BY DEF IInv
<1> QED
  BY <1>1, Invariant, PTL

-----------------------------------------------------------------------------
(* Reads, writes and the socket *)

LEMMA NotTorn == IInv => NoTornRead
<1> SUFFICES ASSUME IInv, NEW r \in Readers, rpc[r] \in {"read", "mark"}, ridx[r] = widx
             PROVE  wpc \notin {"fill", "filling", "clear"}
  BY DEF NoTornRead
<1>1. Marked(r) < Published
  BY DEF IInv, Placed
<1> QED
  BY <1>1, ReaderBlock DEF Filling, HasBlock

LEMMA Fits == IInv => InlineFits
<1> SUFFICES ASSUME IInv, wpc = "filling" PROVE FrameBytes(msg) <= ChunkBytes
  BY DEF InlineFits
<1>1. msg \in Messages /\ ~Overflows(msg)
  BY DEF IInv, TypeOK, WriterInv, Messages
<1> QED
  BY <1>1, Messaging

LEMMA Pigeons ==
  ASSUME NEW len \in Nat, NEW lo \in Int, NEW hi \in Int,
         NEW f \in [1..len -> lo..hi],
         \A i, j \in 1..len : f[i] = f[j] => i = j
  PROVE  len <= (IF lo > hi THEN 0 ELSE hi - lo + 1)
<1>1. f \in Injection(1..len, lo..hi)
  BY DEF Injection, IsInjective
<1>2. IsFiniteSet(lo..hi) /\ Cardinality(lo..hi) = (IF lo > hi THEN 0 ELSE hi - lo + 1)
  BY FS_Interval
<1>3. Cardinality(1..len) <= Cardinality(lo..hi)
  BY <1>1, <1>2, FS_Injection
<1>4. Cardinality(1..len) = len
  <2>1. 1 \in Int /\ len \in Int
    OBVIOUS
  <2>2. Cardinality(1..len) = (IF 1 > len THEN 0 ELSE len - 1 + 1)
    BY <2>1, FS_Interval
  <2> QED
    BY <2>2
<1> QED
  BY <1>2, <1>3, <1>4

\* How far a reader may be behind.
LEMMA Behind ==
  ASSUME TypeOK, NEW r \in Readers, Placed(r)
  PROVE  /\ Marked(r) >= Published - MaxChunks
         /\ Marked(r) <= Len(got[r]) + 1
         /\ Published - Len(got[r]) <= MaxChunks + 1
<1>1. /\ Marked(r) \in Int /\ Published \in Int /\ Len(got[r]) \in Int
      /\ ridx[r] \in Blocks /\ Age(ridx[r]) \in 1..MaxChunks /\ MaxChunks \in Int
      /\ Pos(ridx[r]) = Published + 1 - Age(ridx[r])
  BY Ring DEF Pos
<1>2. Marked(r) >= Published - MaxChunks
  BY <1>1 DEF Placed
<1>3. Marked(r) <= Len(got[r]) + 1
  BY <1>1 DEF Marked
<1>4. \A m, p, g, k \in Int : m >= p - k /\ m <= g + 1 => p - g <= k + 1
  OBVIOUS
<1> HIDE DEF Published
<1>5. Published - Len(got[r]) <= MaxChunks + 1
  BY <1>1, <1>2, <1>3, <1>4
<1> QED
  BY <1>2, <1>3, <1>5

\* A socket never holds more messages than positions its reader has not come to.
LEMMA SocketShort ==
  ASSUME IInv, NEW r \in Readers, NoneExpired(r)
  PROVE  Len(sock[r]) <= MaxChunks + 1
<1> DEFINE q == sock[r]
           n == Len(got[r]) + 1
           at(i) == CHOOSE j \in n..Published : q[i] = sent[j]
           where == [i \in 1..Len(q) |-> at(i)]
<1>1. /\ TypeOK /\ WriterInv /\ Placed(r) /\ Queued(r) /\ Published \in Nat
      /\ Marked(r) \in Nat /\ Len(got[r]) \in Nat /\ Len(q) \in Nat
      /\ \A i \in 1..Len(q) : q[i] \in Nat
  BY Ring, Values DEF IInv
<1>2. \A i, j \in 1..Len(q) : i < j => q[i] < q[j]
  BY <1>1 DEF Queued
<1>3. \A i \in 1..Len(q) : \E j \in n..Published : q[i] = sent[j]
  BY <1>1 DEF Queued
<1>4. \A i \in 1..Len(q) : at(i) \in n..Published /\ q[i] = sent[at(i)]
  BY <1>3
<1>5. where \in [1..Len(q) -> n..Published]
  BY <1>4
<1>6. ASSUME NEW i \in 1..Len(q), NEW j \in 1..Len(q), where[i] = where[j] PROVE i = j
  <2>1. q[i] = q[j]
    BY <1>4, <1>6
  <2> QED
    BY <1>1, <1>2, <2>1
<1>7. /\ n \in Int /\ Published \in Int /\ Len(q) \in Nat /\ n = Len(got[r]) + 1
      /\ Len(got[r]) \in Int
  BY <1>1
<1>8. Len(q) <= (IF n > Published THEN 0 ELSE Published - n + 1)
  <2> HIDE DEF where, n, q
  <2> QED
    BY <1>5, <1>6, <1>7, Pigeons
<1>9. Published - Len(got[r]) <= MaxChunks + 1
  BY <1>1, Behind
<1>10. Len(q) <= MaxChunks + 1
  <2> HIDE DEF where, n, q
  <2>1. \A l, k, p, g, m \in Int :
          l <= (IF m > p THEN 0 ELSE p - m + 1) /\ m = g + 1 /\ p - g <= k + 1 /\ k >= 0
            => l <= k + 1
    OBVIOUS
  <2>2. Len(q) \in Int /\ MaxChunks \in Int /\ MaxChunks >= 0
    BY <1>7
  <2> QED
    BY <1>7, <1>8, <1>9, <2>1, <2>2
<1> QED
  BY <1>10

\* No block is written while a reader is at it or past its end, and the socket
\* of a reader that never gave up stays below its high water mark, whatever is
\* lost, late, undecodable or shut down.
THEOREM RingIsSound == Spec => []RingSound
<1>1. IInv => RingSound
  BY NotTorn, Fits, SocketShort DEF RingSound, SocketBounded, NoneExpired
<1> QED
  BY <1>1, Invariant, PTL

-----------------------------------------------------------------------------
(* The ring implements the broadcast queue *)

\* What the abstract queue takes the readers to have got.
Taken == [r \in Readers |->
            [j \in 1..Len(got[r]) |-> IF Unpromised(r, j) THEN 0 ELSE got[r][j]]]

\* The value reader r ends a dequeue with, as the abstract queue sees it.
Counted(r, v) ==
  IF (GaveUp(r, Len(got[r])) \/ v = Expired) /\ Overflows(sent[Len(got[r]) + 1])
    THEN 0 ELSE v

LEMMA SeqOf ==
  ASSUME NEW S, NEW n \in Nat, NEW f \in [1..n -> S]
  PROVE  f \in Seq(S) /\ Len(f) = n
BY SeqDef

LEMMA TakenType ==
  ASSUME TypeOK, NEW r \in Readers
  PROVE  Taken[r] \in Seq(Int) /\ Len(Taken[r]) = Len(got[r]) /\ Len(got[r]) \in Nat
<1>1. got[r] \in Seq(Int) /\ Len(got[r]) \in Nat
  BY Values
<1>2. \A j \in 1..Len(got[r]) : got[r][j] \in Int
  BY <1>1
<1>3. Taken[r] = [j \in 1..Len(got[r]) |-> IF Unpromised(r, j) THEN 0 ELSE got[r][j]]
  BY DEF Taken
<1>4. Taken[r] \in [1..Len(got[r]) -> Int]
  BY <1>2, <1>3
<1> HIDE DEF Taken
<1> QED
  BY <1>1, <1>4, SeqOf

LEMMA TakenStep ==
  ASSUME TypeOK, NEW r \in Readers, NEW v \in Int, got' = [got EXCEPT ![r] = Append(@, v)],
         sent' = sent
  PROVE  Taken' = [Taken EXCEPT ![r] = Append(@, Counted(r, v))]
<1>1. /\ got[r] \in Seq(Int) /\ Len(got[r]) \in Nat
      /\ got'[r] = Append(got[r], v)
      /\ \A q \in Readers : q # r => got'[q] = got[q]
  BY Values DEF TypeOK
<1>2. /\ Len(got'[r]) = Len(got[r]) + 1 /\ got'[r][Len(got[r]) + 1] = v
      /\ \A j \in 1..Len(got[r]) : got'[r][j] = got[r][j]
  BY <1>1
<1>3. ASSUME NEW q \in Readers, q # r
      PROVE  Taken'[q] = Taken[q]
  <2>1. got'[q] = got[q]
    BY <1>1, <1>3
  <2>2. \A j : Unpromised(q, j)' <=> Unpromised(q, j)
    BY <2>1 DEF Unpromised, GaveUp, Overflows, Estimate
  <2>3. Taken'[q] = [j \in 1..Len(got'[q]) |-> IF Unpromised(q, j)' THEN 0 ELSE got'[q][j]]
    BY DEF Taken
  <2>4. Taken[q] = [j \in 1..Len(got[q]) |-> IF Unpromised(q, j) THEN 0 ELSE got[q][j]]
    BY DEF Taken
  <2> QED
    BY <2>1, <2>2, <2>3, <2>4
<1>4. ASSUME NEW j \in 1..Len(got[r]) PROVE Unpromised(r, j)' <=> Unpromised(r, j)
  <2>1. GaveUp(r, j)' <=> GaveUp(r, j)
    BY <1>1, <1>2 DEF GaveUp
  <2> QED
    BY <2>1 DEF Unpromised, Overflows, Estimate
<1>5. \A j : j = Len(got[r]) + 1 =>
        (GaveUp(r, j)' <=> GaveUp(r, Len(got[r])) \/ v = Expired)
  <2>1. \A j : j = Len(got[r]) + 1 => 1..j = (1..Len(got[r])) \cup {j}
    BY <1>1
  <2> QED
    BY <1>2, <2>1 DEF GaveUp
<1>6. Taken'[r] = Append(Taken[r], Counted(r, v))
  <2>1. Taken[r] \in Seq(Int) /\ Len(Taken[r]) = Len(got[r])
    BY TakenType
  <2>2. Counted(r, v) \in Int
    BY DEF Counted
  <2>3. Taken'[r] = [j \in 1..Len(got[r]) + 1 |-> IF Unpromised(r, j)' THEN 0 ELSE got'[r][j]]
    BY <1>2 DEF Taken
  <2>4. \A j \in 1..Len(got[r]) : Taken'[r][j] = Taken[r][j]
    BY <1>1, <1>2, <1>4, <2>3 DEF Taken
  <2>5. Taken'[r][Len(got[r]) + 1] = Counted(r, v)
    BY <1>1, <1>2, <1>5, <2>3 DEF Counted, Unpromised, Overflows, Estimate
  <2> HIDE DEF Taken, Counted
  <2>6. /\ Append(Taken[r], Counted(r, v)) \in Seq(Int)
        /\ Len(Append(Taken[r], Counted(r, v))) = Len(got[r]) + 1
        /\ \A j \in 1..Len(got[r]) : Append(Taken[r], Counted(r, v))[j] = Taken[r][j]
        /\ Append(Taken[r], Counted(r, v))[Len(got[r]) + 1] = Counted(r, v)
    BY <2>1, <2>2, AppendProperties
  <2>7. \A j \in 1..Len(got[r]) + 1 :
          Taken'[r][j] = Append(Taken[r], Counted(r, v))[j]
    BY <1>1, <2>4, <2>5, <2>6
  <2>8. Len(got[r]) + 1 \in Nat
    BY <1>1
  <2>9. Taken'[r] \in Seq(Int) /\ Len(Taken'[r]) = Len(got[r]) + 1
    <3>1. \A j \in 1..Len(got[r]) + 1 : Append(Taken[r], Counted(r, v))[j] \in Int
      BY <2>6
    <3>2. Taken'[r] \in [1..Len(got[r]) + 1 -> Int]
      BY <2>3, <2>7, <3>1
    <3> QED
      BY ONLY <2>8, <3>2, SeqOf
  <2> QED
    BY <2>6, <2>7, <2>9, SeqEqual
<1> QED
  <2>1. Taken' = [q \in Readers |-> Taken'[q]] /\ Taken = [q \in Readers |-> Taken[q]]
    BY DEF Taken
  <2> HIDE DEF Taken, Counted
  <2> QED
    BY <1>3, <1>6, <2>1

\* A dequeue ends with the next message, with none, or with an overflow message
\* at a reader of which nothing is expected any more.
LEMMA RefineDequeue ==
  ASSUME IInv, NEW r \in Readers, NEW v \in Int, Len(got[r]) + 1 <= Published,
         \/ v \in {sent[Len(got[r]) + 1], 0}
         \/ /\ GaveUp(r, Len(got[r])) \/ v = Expired
            /\ Overflows(sent[Len(got[r]) + 1]),
         got' = [got EXCEPT ![r] = Append(@, v)], sent' = sent
  PROVE  Queue!Next
<1>1. TypeOK
  BY DEF IInv
<1>2. Taken' = [Taken EXCEPT ![r] = Append(@, Counted(r, v))] /\ Len(Taken[r]) = Len(got[r])
  BY <1>1, TakenStep, TakenType
<1>3. Counted(r, v) \in {sent[Len(Taken[r]) + 1], 0}
  BY <1>2 DEF Counted
<1>4. Queue!Dequeue(r)
  BY <1>2, <1>3 DEF Queue!Dequeue, Taken, Published
<1> QED
  BY <1>4 DEF Queue!Next

LEMMA RefineMarkRead ==
  ASSUME IInv, NEW r \in Readers, MarkRead(r)
  PROVE  [Queue!Next]_(Queue!vars)
<1>1. /\ TypeOK /\ Placed(r) /\ Bytes /\ rpc[r] = "mark" /\ sent' = sent
      /\ Published \in Nat /\ Len(got[r]) \in Nat
  BY Ring DEF IInv, MarkRead
<1>2. /\ Marked(r) = Len(got[r]) /\ Marked(r) < Published
      /\ buf[r] = Content(sent[Len(got[r]) + 1])
  BY <1>1 DEF Marked, Placed, Bytes
<1>3. Len(got[r]) + 1 \in 1..Published
  BY <1>1, <1>2
<1>4. CASE buf[r].over
  BY <1>1, <1>4 DEF MarkRead, Queue!vars, Unpromised, GaveUp, Overflows, Estimate
<1>5. CASE ~buf[r].over
  <2>1. buf[r].msg = sent[Len(got[r]) + 1]
    BY <1>2, <1>5 DEF Content
  <2>2. sent[Len(got[r]) + 1] \in Int /\ 0 \in Int
    BY <1>1, <1>3, Values
  <2>3. PICK v \in {sent[Len(got[r]) + 1], 0} : got' = [got EXCEPT ![r] = Append(@, v)]
    BY <1>5, <2>1 DEF MarkRead
  <2> QED
    <3>1. v \in Int /\ Len(got[r]) + 1 <= Published
      BY <1>1, <1>3, <2>2
    <3> QED
      BY <1>1, <2>3, <3>1, RefineDequeue
<1> QED
  BY <1>4, <1>5

LEMMA RefineSocket ==
  ASSUME IInv, NEW r \in Readers, RecvOverflow(r) \/ OverflowTimeout(r)
  PROVE  Queue!Next
<1>1. /\ TypeOK /\ Placed(r) /\ rpc[r] = "overflow" /\ sent' = sent
      /\ Published \in Nat /\ Len(got[r]) \in Nat /\ Bytes
  BY Ring DEF IInv, RecvOverflow, OverflowTimeout
<1>2. Len(got[r]) + 1 <= Published /\ Overflows(sent[Len(got[r]) + 1])
  BY <1>1 DEF Marked, Placed, Bytes
<1>3. CASE RecvOverflow(r)
  <2>1. sock[r] # << >> /\ Head(sock[r]) \in Int
    BY <1>1, <1>3, Values DEF RecvOverflow
  <2>2. PICK v \in {Head(sock[r]), 0} : got' = [got EXCEPT ![r] = Append(@, v)]
    BY <1>3 DEF RecvOverflow
  <2>3. GaveUp(r, Len(got[r])) \/ Head(sock[r]) = sent[Len(got[r]) + 1]
    BY <1>1, <2>1, HeadIsNext DEF NoneExpired, GaveUp
  <2> QED
    <3>1. v \in Int /\ (GaveUp(r, Len(got[r])) \/ v \in {sent[Len(got[r]) + 1], 0})
      BY <2>1, <2>3
    <3> QED
      BY <1>1, <1>2, <2>2, <3>1, RefineDequeue
<1>4. CASE OverflowTimeout(r)
  <2>1. got' = [got EXCEPT ![r] = Append(@, Expired)] /\ Expired \in Int
    BY <1>4 DEF OverflowTimeout, Expired
  <2> QED
    BY <1>1, <1>2, <2>1, RefineDequeue
<1> QED
  BY <1>3, <1>4

\* The block it publishes has been read by all, so no reader is further behind
\* than the ring is long.
LEMMA RefinePublish ==
  ASSUME IInv, Publish
  PROVE  Queue!Next
<1>1. /\ TypeOK /\ wpc = "clear" /\ msg \in Messages /\ got' = got /\ sent' = Append(sent, msg)
      /\ Published \in Nat /\ widx \in Blocks
  <2>1. TypeOK /\ WriterInv /\ wpc = "clear" /\ got' = got /\ sent' = Append(sent, msg)
    BY DEF IInv, Publish
  <2>2. msg \in Messages
    BY <2>1 DEF TypeOK, WriterInv, Messages
  <2> QED
    BY <2>1, <2>2, Ring
<1>2. Pos(widx) = Published + 1 - MaxChunks /\ Filling(widx) /\ Flagged(widx)
  BY <1>1, Ring DEF Filling, HasBlock, IInv
<1>3. ASSUME NEW r \in Readers PROVE Published - Len(got[r]) < MaxChunks + 1
  <2>1. Marked(r) >= Published + 1 - MaxChunks
    BY <1>2 DEF Flagged
  <2>2. Marked(r) \in Nat /\ Len(got[r]) \in Nat /\ Marked(r) <= Len(got[r]) + 1
    BY <1>1, Ring DEF Marked
  <2>3. \A m, p, g, k \in Int : m >= p + 1 - k /\ m <= g + 1 => p - g < k + 1
    OBVIOUS
  <2> HIDE DEF Published
  <2> QED
    BY <1>1, <2>1, <2>2, <2>3
<1>4. \A r \in Readers : Len(sent) - Len(Taken[r]) < MaxChunks + 1
  BY <1>1, <1>3, TakenType DEF Published
<1>5. Taken' = Taken
  <2>1. ASSUME NEW r \in Readers, NEW j \in 1..Len(got[r])
        PROVE  Unpromised(r, j)' <=> Unpromised(r, j)
    <3>1. j \in 1..Published
      <4>1. Marked(r) <= Published
        BY DEF IInv, Placed
      <4>2. /\ Marked(r) \in {Len(got[r]), Len(got[r]) + 1}
            /\ Len(got[r]) \in Nat /\ Published \in Nat
        BY <1>1, Ring DEF Marked
      <4> HIDE DEF Published
      <4> QED
        BY <4>1, <4>2
    <3>2. sent'[j] = sent[j]
      BY <1>1, <3>1 DEF Published, TypeOK
    <3> QED
      BY <1>1, <3>2 DEF Unpromised, GaveUp, Overflows, Estimate
  <2> QED
    BY <1>1, <2>1 DEF Taken
<1>6. Queue!Enqueue
  BY <1>1, <1>4, <1>5 DEF Queue!Enqueue, Taken
<1> QED
  BY <1>6 DEF Queue!Next

LEMMA RefineStep == IInv /\ [Next]_vars => [Queue!Next]_(Queue!vars)
<1> SUFFICES ASSUME IInv, [Next]_vars PROVE [Queue!Next]_(Queue!vars)
  OBVIOUS
<1> USE DEF ringVars, writerVars, readerVars
<1>1. ASSUME UNCHANGED <<sent, got>> PROVE UNCHANGED Queue!vars
  BY <1>1 DEF Queue!vars, Unpromised, GaveUp, Overflows, Estimate
<1>2. CASE UNCHANGED vars
  BY <1>1, <1>2 DEF vars
<1>3. CASE \/ StartEnqueue \/ Acquire \/ WriteTimeout \/ BeginFill \/ EndFill \/ Push \/ Notify
           \/ \E r \in Readers : ClearFlag(r)
  <2>1. UNCHANGED <<sent, got>>
    BY <1>3 DEF StartEnqueue, Acquire, WriteTimeout, BeginFill, EndFill, Push, Notify, ClearFlag
  <2> QED
    BY <1>1, <2>1
<1>4. CASE Publish
  BY <1>4, RefinePublish
<1>5. ASSUME NEW r \in Readers,
             \/ StartDequeue(r) \/ LoadReadFlag(r) \/ LoadWrittenFlag(r) \/ ReadTimeout(r)
             \/ Wait(r) \/ Poll(r) \/ AfterWait(r) \/ ReadBlock(r) \/ Shutdown(r)
      PROVE  UNCHANGED Queue!vars
  <2>1. UNCHANGED <<sent, got>>
    BY <1>5 DEF StartDequeue, LoadReadFlag, LoadWrittenFlag, ReadTimeout, Wait, Poll, AfterWait,
                ReadBlock, Shutdown
  <2> QED
    BY <1>1, <2>1
<1>6. ASSUME NEW r \in Readers, MarkRead(r) PROVE [Queue!Next]_(Queue!vars)
  BY <1>6, RefineMarkRead
<1>7. ASSUME NEW r \in Readers, RecvOverflow(r) \/ OverflowTimeout(r) PROVE Queue!Next
  BY <1>7, RefineSocket
<1> QED
  BY <1>2, <1>3, <1>4, <1>5, <1>6, <1>7 DEF Next, Enqueue, Dequeue

LEMMA RefineInit == Init => Queue!Init
<1> SUFFICES ASSUME Init PROVE Queue!Init
  OBVIOUS
<1>1. sent = << >> /\ \A r \in Readers : got[r] = << >>
  BY DEF Init
<1>2. Taken = [r \in Readers |-> << >>]
  BY <1>1 DEF Taken
<1> QED
  BY <1>1, <1>2 DEF Queue!Init, Taken

\* The flags, the blocks and the socket beside them together are the one queue
\* MessageQueue promises: what a reader dequeues is what was enqueued, in order,
\* and the writer runs ahead of no reader by more than the ring and the one
\* message on its way to the socket.  A reader that gives up waiting for an
\* overflow message is promised its inline messages only from then on.
THEOREM ImplementsQueue == Spec => QueueSpec
<1>1. Spec => []IInv
  BY Invariant
<1> QED
  BY <1>1, RefineInit, RefineStep, PTL DEF Spec, QueueSpec, Queue!Spec
=============================================================================
