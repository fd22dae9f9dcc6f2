---------------------------- MODULE OdlAr2Proofs ----------------------------
(***************************************************************************)
(* Proofs about OdlAr2, for every number of rounds, slot capacity and      *)
(* sequence of round sizes.                                                *)
(***************************************************************************)
EXTENDS OdlAr2, TLAPS

Posted(r)   == posted[r] - Sending(r)       \* rounds that left through stream_send
Landed(r)   == rcvd[r] + Publishing(r)      \* rounds copied into a receive slot
Rung(r)     == IF gpuPc[r] \in {"wait", "add"} THEN done[r] + 1 ELSE done[r]

\* Where each agent stands relative to its own counters.
Control(r) ==
  /\ hostPc[r] = "clear" => hostSeq[r] < Rounds
  /\ done[r] <= hostSeq[r]
  /\ gpuPc[r] # "copy" => done[r] < hostSeq[r]
  /\ doorbell[r].seq = Rung(r)
  /\ doorbell[r].seq > 0 => doorbell[r].n = len[doorbell[r].seq]
  /\ db[r].seq <= doorbell[r].seq
  /\ db[r].seq > 0 => db[r].n = len[db[r].seq]
  /\ posted[r] <= doorbell[r].seq
  /\ threadPc[r] = "post" => posted[r] < db[r].seq
  /\ threadPc[r] = "sending" => 0 < posted[r] /\ posted[r] <= db[r].seq

\* The peer has taken no more than was sent.
Conserved(r) == Landed(Peer(r)) + Len(link[r]) <= Posted(r)

ControlInv == TypeOK /\ \A r \in Ranks : Control(r) /\ Conserved(r)

-----------------------------------------------------------------------------
USE RoundsAssumption, MaxSizeAssumption, ShapesAssumption

LEMMA RankPeer == \A r \in Ranks : Peer(r) \in Ranks /\ Peer(Peer(r)) = r /\ Peer(r) # r
BY DEF Ranks, Peer

LEMMA SlotType == \A k \in Int : Slot(k) \in Slots
BY DEF Slot, Slots, NSlots

LEMMA OverlayType ==
  ASSUME NEW slot \in Payload, NEW data \in Payload, NEW n \in Int
  PROVE  Overlay(slot, n, data) \in Payload
BY DEF Overlay, Payload

LEMMA ControlInit == Init => ControlInv
<1> SUFFICES ASSUME Init PROVE ControlInv
  OBVIOUS
<1>1. Zeros \in Payload
  BY DEF Zeros, Payload, RoundNo
<1>2. TypeOK
  <2>1. << >> \in Seq(Message)
    OBVIOUS
  <2>2. 0 \in RoundNo
    BY DEF RoundNo
  <2>3. len \in Shapes /\ hostSeq \in [Ranks -> RoundNo] /\ done \in [Ranks -> RoundNo]
        /\ posted \in [Ranks -> RoundNo] /\ rcvd \in [Ranks -> RoundNo]
    BY <2>2 DEF Init
  <2>4. /\ hostPc \in [Ranks -> {"idle", "clear"}]
        /\ errSeen \in [Ranks -> BOOLEAN] /\ raised \in [Ranks -> BOOLEAN]
        /\ gpuPc \in [Ranks -> {"copy", "doorbell", "wait", "add"}]
        /\ kernelErr \in [Ranks -> BOOLEAN] /\ threadErr \in [Ranks -> BOOLEAN]
        /\ threadPc \in [Ranks -> {"load", "post", "sending", "recv", "publish", "exit"}]
        /\ exiting \in [Ranks -> BOOLEAN]
    BY DEF Init
  <2>5. /\ doorbell \in [Ranks -> [seq : RoundNo, n : 0..MaxSize]]
        /\ db \in [Ranks -> [seq : RoundNo, n : 0..MaxSize]]
    BY <2>2 DEF Init
  <2>6. /\ sendBuf \in [Ranks -> [Slots -> Payload]]
        /\ recvBuf \in [Ranks -> [Slots -> Payload]]
        /\ recvFlag \in [Ranks -> [Slots -> RoundNo]]
        /\ out \in [Ranks -> [1..Rounds -> Payload]]
    BY <1>1, <2>2 DEF Init
  <2>2a. link \in [Ranks -> Seq(Message)]
    BY <2>1 DEF Init
  <2> QED
    BY <2>3, <2>4, <2>5, <2>6, <2>2a DEF TypeOK
<1>3. ASSUME NEW r \in Ranks PROVE Control(r) /\ Conserved(r)
  BY RankPeer DEF Init, Control, Conserved, Landed, Posted, Rung, Publishing, Sending
<1> QED
  BY <1>2, <1>3 DEF ControlInv

LEMMA LenType == ASSUME TypeOK, NEW k \in 1..Rounds PROVE len[k] \in 1..MaxSize
BY DEF TypeOK

LEMMA Counters ==
  ASSUME TypeOK, NEW r \in Ranks
  PROVE  /\ hostSeq[r] \in 0..Rounds /\ done[r] \in 0..Rounds
         /\ posted[r] \in 0..Rounds /\ rcvd[r] \in 0..Rounds
         /\ doorbell[r].seq \in 0..Rounds /\ db[r].seq \in 0..Rounds
         /\ doorbell[r].n \in 0..MaxSize /\ db[r].n \in 0..MaxSize
         /\ Sending(r) \in 0..1 /\ Publishing(r) \in 0..1
         /\ link[r] \in Seq(Message) /\ Len(link[r]) \in Nat
BY DEF TypeOK, RoundNo, Sending, Publishing

LEMMA PostedLanded ==
  ASSUME TypeOK, NEW r \in Ranks
  PROVE  /\ Posted(r) \in Int /\ Posted(r) <= posted[r] /\ posted[r] <= Posted(r) + 1
         /\ Landed(r) \in Int /\ rcvd[r] <= Landed(r) /\ Landed(r) <= rcvd[r] + 1
BY Counters DEF Posted, Landed

LEMMA NextRound ==
  ASSUME ControlInv, NEW r \in Ranks, gpuPc[r] # "copy" \/ done[r] < hostSeq[r]
  PROVE  /\ done[r] + 1 \in 1..Rounds
         /\ Slot(done[r] + 1) \in Slots
         /\ len[done[r] + 1] \in 1..MaxSize
<1>1. done[r] < hostSeq[r]
  BY DEF ControlInv, Control
<1>2. done[r] + 1 \in 1..Rounds
  BY <1>1, Counters DEF ControlInv
<1> QED
  BY <1>2, SlotType, LenType DEF ControlInv

LEMMA ControlReadError ==
  ASSUME ControlInv, NEW q \in Ranks, ReadError(q) PROVE ControlInv'
<1>1. TypeOK'
  BY DEF ReadError, ControlInv, TypeOK, Control, gpuVars, threadVars, errVars
<1>2. ASSUME NEW r \in Ranks PROVE Control(r)'
  BY DEF ReadError, ControlInv, TypeOK, Control, Rung, gpuVars, threadVars, errVars
<1>3. ASSUME NEW r \in Ranks PROVE Conserved(r)'
  BY RankPeer DEF ReadError, ControlInv, TypeOK, Control, Conserved, Landed, Posted,
     Publishing, Sending, gpuVars, threadVars, errVars
<1> QED
  BY <1>1, <1>2, <1>3 DEF ControlInv

LEMMA ControlClearErrorAndEnqueue ==
  ASSUME ControlInv, NEW q \in Ranks, ClearErrorAndEnqueue(q) PROVE ControlInv'
<1>1. hostSeq[q] < Rounds /\ hostSeq[q] + 1 \in RoundNo
  BY Counters DEF ClearErrorAndEnqueue, ControlInv, Control, RoundNo
<1>2. /\ hostSeq' \in [Ranks -> RoundNo]
      /\ raised' \in [Ranks -> BOOLEAN]
      /\ hostSeq' = hostSeq \/ hostSeq' = [hostSeq EXCEPT ![q] = hostSeq[q] + 1]
  <2>1. CASE errSeen[q]
    BY <2>1 DEF ClearErrorAndEnqueue, ControlInv, TypeOK
  <2>2. CASE ~errSeen[q]
    <3>1. raised' = raised /\ hostSeq' = [hostSeq EXCEPT ![q] = hostSeq[q] + 1]
      BY <2>2 DEF ClearErrorAndEnqueue
    <3>2. hostSeq \in [Ranks -> RoundNo] /\ raised \in [Ranks -> BOOLEAN]
      BY DEF ControlInv, TypeOK
    <3> QED
      BY <1>1, <3>1, <3>2
  <2> QED
    BY <2>1, <2>2
<1>3. TypeOK'
  BY <1>2 DEF ClearErrorAndEnqueue, ControlInv, TypeOK, gpuVars, threadVars
<1>4. ASSUME NEW r \in Ranks PROVE hostSeq'[r] >= hostSeq[r]
  <2>1. hostSeq[r] \in Int /\ hostSeq \in [Ranks -> RoundNo]
    BY Counters DEF ControlInv, TypeOK
  <2> QED
    BY <1>2, <2>1
<1>5. ASSUME NEW r \in Ranks PROVE Control(r)'
  <2>1. hostPc'[r] = "clear" => hostSeq'[r] < Rounds
    BY <1>2 DEF ClearErrorAndEnqueue, ControlInv, TypeOK, Control
  <2>2. done[r] \in Nat /\ hostSeq'[r] \in Nat /\ hostSeq[r] \in Nat
    BY <1>2, Counters DEF ControlInv, RoundNo
  <2> QED
    BY <1>4, <2>1, <2>2 DEF ClearErrorAndEnqueue, ControlInv, Control, Rung,
       gpuVars, threadVars
<1>6. ASSUME NEW r \in Ranks PROVE Conserved(r)'
  BY RankPeer DEF ClearErrorAndEnqueue, ControlInv, Conserved, Landed, Posted,
     Publishing, Sending, threadVars
<1> QED
  BY <1>3, <1>5, <1>6 DEF ControlInv

LEMMA ControlShutdown ==
  ASSUME ControlInv, NEW q \in Ranks, Shutdown(q) PROVE ControlInv'
<1>1. TypeOK'
  BY DEF Shutdown, ControlInv, TypeOK, Control, hostVars, gpuVars, threadVars, errVars
<1>2. ASSUME NEW r \in Ranks PROVE Control(r)'
  BY DEF Shutdown, ControlInv, TypeOK, Control, Rung, hostVars, gpuVars, threadVars, errVars
<1>3. ASSUME NEW r \in Ranks PROVE Conserved(r)'
  BY RankPeer DEF Shutdown, ControlInv, TypeOK, Control, Conserved, Landed, Posted,
     Publishing, Sending, hostVars, gpuVars, threadVars, errVars
<1> QED
  BY <1>1, <1>2, <1>3 DEF ControlInv

LEMMA ControlCopy ==
  ASSUME ControlInv, NEW q \in Ranks, Copy(q) PROVE ControlInv'
<1> DEFINE k == done[q] + 1
<1>1. k \in 1..Rounds /\ Slot(k) \in Slots /\ len[k] \in Int
  BY NextRound DEF Copy
<1>2. RoundData(k) \in Payload /\ sendBuf[q][Slot(k)] \in Payload
  BY SMTT(20), <1>1 DEF RoundData, Payload, RoundNo, ControlInv, TypeOK
<1>3. Overlay(sendBuf[q][Slot(k)], len[k], RoundData(k)) \in Payload
  BY <1>1, <1>2, OverlayType
<1>4. TypeOK'
  BY <1>1, <1>3 DEF Copy, ControlInv, TypeOK, hostVars, threadVars, errVars
<1>5. ASSUME NEW r \in Ranks PROVE Control(r)'
  BY DEF Copy, ControlInv, TypeOK, Control, Rung, hostVars, threadVars, errVars, RoundNo
<1>6. ASSUME NEW r \in Ranks PROVE Conserved(r)'
  BY RankPeer DEF Copy, ControlInv, TypeOK, Control, Conserved, Landed, Posted,
     Publishing, Sending, threadVars
<1> QED
  BY <1>4, <1>5, <1>6 DEF ControlInv

LEMMA ControlRingDoorbell ==
  ASSUME ControlInv, NEW q \in Ranks, RingDoorbell(q) PROVE ControlInv'
<1> DEFINE k == done[q] + 1
<1>1. k \in 1..Rounds /\ len[k] \in 1..MaxSize
  BY NextRound DEF RingDoorbell
<1>2. k \in RoundNo
  BY <1>1 DEF RoundNo
<1>3. doorbell' \in [Ranks -> [seq : RoundNo, n : 0..MaxSize]]
  BY <1>1, <1>2 DEF RingDoorbell, ControlInv, TypeOK
<1>4. TypeOK'
  BY <1>3 DEF RingDoorbell, ControlInv, TypeOK, hostVars, threadVars, errVars
<1>5. ASSUME NEW r \in Ranks PROVE Control(r)'
  <2>1. CASE r = q
    <3>1. doorbell'[q] = [seq |-> k, n |-> len[k]] /\ gpuPc'[q] = "wait"
      BY DEF RingDoorbell, ControlInv, TypeOK
    <3>2. db[q].seq \in Nat /\ posted[q] \in Nat /\ done[q] \in Nat
      BY DEF ControlInv, TypeOK, RoundNo
    <3> QED
      BY <2>1, <3>1, <3>2 DEF RingDoorbell, ControlInv, Control, Rung, hostVars, threadVars
  <2>2. CASE r # q
    BY <2>2 DEF RingDoorbell, ControlInv, TypeOK, Control, Rung, hostVars, threadVars
  <2> QED
    BY <2>1, <2>2
<1>6. ASSUME NEW r \in Ranks PROVE Conserved(r)'
  BY RankPeer DEF RingDoorbell, ControlInv, TypeOK, Control, Conserved, Landed, Posted,
     Publishing, Sending, threadVars
<1> QED
  BY <1>4, <1>5, <1>6 DEF ControlInv

LEMMA ControlSeeFlag ==
  ASSUME ControlInv, NEW q \in Ranks, SeeFlag(q) PROVE ControlInv'
<1>1. TypeOK'
  BY DEF SeeFlag, ControlInv, TypeOK, Control, hostVars, threadVars, errVars
<1>2. ASSUME NEW r \in Ranks PROVE Control(r)'
  BY DEF SeeFlag, ControlInv, TypeOK, Control, Rung, hostVars, threadVars, errVars
<1>3. ASSUME NEW r \in Ranks PROVE Conserved(r)'
  BY RankPeer DEF SeeFlag, ControlInv, TypeOK, Control, Conserved, Landed, Posted,
     Publishing, Sending, hostVars, threadVars, errVars
<1> QED
  BY <1>1, <1>2, <1>3 DEF ControlInv

LEMMA ControlWaitTimeout ==
  ASSUME ControlInv, NEW q \in Ranks, WaitTimeout(q) PROVE ControlInv'
<1>1. TypeOK'
  BY DEF WaitTimeout, ControlInv, TypeOK, Control, hostVars, threadVars
<1>2. ASSUME NEW r \in Ranks PROVE Control(r)'
  BY DEF WaitTimeout, ControlInv, TypeOK, Control, Rung, hostVars, threadVars
<1>3. ASSUME NEW r \in Ranks PROVE Conserved(r)'
  BY RankPeer DEF WaitTimeout, ControlInv, TypeOK, Control, Conserved, Landed, Posted,
     Publishing, Sending, hostVars, threadVars
<1> QED
  BY <1>1, <1>2, <1>3 DEF ControlInv

LEMMA ControlAdd ==
  ASSUME ControlInv, NEW q \in Ranks, Add(q) PROVE ControlInv'
<1> DEFINE k == done[q] + 1
<1>1. k \in 1..Rounds /\ Slot(k) \in Slots /\ len[k] \in Int
  BY NextRound DEF Add
<1>2. Zeros \in Payload /\ recvBuf[q][Slot(k)] \in Payload
  BY <1>1 DEF Zeros, Payload, RoundNo, ControlInv, TypeOK
<1>3. Overlay(Zeros, len[k], recvBuf[q][Slot(k)]) \in Payload
  BY <1>1, <1>2, OverlayType
<1>4. out' \in [Ranks -> [1..Rounds -> Payload]] /\ done' \in [Ranks -> RoundNo]
  BY SMTT(20), <1>1, <1>3 DEF Add, ControlInv, TypeOK, RoundNo
<1>5. TypeOK'
  BY <1>4 DEF Add, ControlInv, TypeOK, hostVars, threadVars, errVars
<1>6. ASSUME NEW r \in Ranks PROVE Control(r)'
  <2>1. CASE r = q
    <3>1. done'[q] = k /\ gpuPc'[q] = "copy" /\ done[q] \in Nat /\ hostSeq[q] \in Nat
      BY DEF Add, ControlInv, TypeOK, RoundNo
    <3> QED
      BY <2>1, <3>1 DEF Add, ControlInv, Control, Rung, hostVars, threadVars
  <2>2. CASE r # q
    BY <2>2 DEF Add, ControlInv, TypeOK, Control, Rung, hostVars, threadVars
  <2> QED
    BY <2>1, <2>2
<1>7. ASSUME NEW r \in Ranks PROVE Conserved(r)'
  BY RankPeer DEF Add, ControlInv, TypeOK, Control, Conserved, Landed, Posted,
     Publishing, Sending, threadVars
<1> QED
  BY <1>5, <1>6, <1>7 DEF ControlInv

LEMMA ControlLoadDoorbell ==
  ASSUME ControlInv, NEW q \in Ranks, LoadDoorbell(q) PROVE ControlInv'
<1>1. TypeOK'
  BY DEF LoadDoorbell, ControlInv, TypeOK, hostVars, gpuVars, errVars
<1>2. ASSUME NEW r \in Ranks PROVE Control(r)'
  <2>1. CASE r = q
    <3>1. db'[q] = doorbell[q] /\ doorbell[q].seq \in Nat /\ posted[q] \in Nat
      BY DEF LoadDoorbell, ControlInv, TypeOK, RoundNo
    <3>2. /\ threadPc'[q] = "post" => posted[q] < doorbell[q].seq
          /\ threadPc'[q] # "sending"
      BY <3>1 DEF LoadDoorbell, ControlInv, TypeOK
    <3> QED
      BY <2>1, <3>1, <3>2 DEF LoadDoorbell, ControlInv, Control, Rung, hostVars, gpuVars
  <2>2. CASE r # q
    BY <2>2 DEF LoadDoorbell, ControlInv, TypeOK, Control, Rung, hostVars, gpuVars
  <2> QED
    BY <2>1, <2>2
<1>3. ASSUME NEW r \in Ranks PROVE Conserved(r)'
  BY RankPeer DEF LoadDoorbell, ControlInv, TypeOK, Control, Conserved, Landed, Posted,
     Publishing, Sending, hostVars, gpuVars, errVars
<1> QED
  BY <1>1, <1>2, <1>3 DEF ControlInv

LEMMA ControlStartPost ==
  ASSUME ControlInv, NEW q \in Ranks, StartPost(q) PROVE ControlInv'
<1>1. /\ posted[q] \in Nat /\ db[q].seq \in 0..Rounds /\ doorbell[q].seq \in Nat
      /\ posted[q] < db[q].seq /\ db[q].seq <= doorbell[q].seq
  BY Counters DEF StartPost, ControlInv, Control
<1>2. posted[q] + 1 \in RoundNo
  BY <1>1 DEF RoundNo
<1>3. /\ posted' \in [Ranks -> RoundNo]
      /\ posted'[q] = posted[q] + 1
      /\ threadPc[q] = "post" /\ threadPc'[q] = "sending"
  BY <1>2 DEF StartPost, ControlInv, TypeOK
<1>4. TypeOK'
  BY <1>3 DEF StartPost, ControlInv, TypeOK, hostVars, gpuVars, errVars
<1>5. ASSUME NEW r \in Ranks PROVE Control(r)'
  <2>1. CASE r = q
    BY <1>1, <1>3, <2>1 DEF StartPost, ControlInv, Control, Rung, hostVars, gpuVars
  <2>2. CASE r # q
    BY <2>2 DEF StartPost, ControlInv, TypeOK, Control, Rung, hostVars, gpuVars
  <2> QED
    BY <2>1, <2>2
<1>6. ASSUME NEW r \in Ranks PROVE Posted(r)' = Posted(r) /\ Landed(r)' = Landed(r)
  <2>1. CASE r = q
    <3>1. Posted(q) = posted[q] /\ Posted(q)' = (posted[q] + 1) - 1
      BY <1>1, <1>3 DEF Posted, Sending
    <3>2. Landed(q)' = Landed(q)
      BY <1>3 DEF StartPost, Landed, Publishing
    <3> QED
      BY <1>1, <2>1, <3>1, <3>2
  <2>2. CASE r # q
    BY <2>2 DEF StartPost, ControlInv, TypeOK, Posted, Landed, Sending, Publishing
  <2> QED
    BY <2>1, <2>2
<1>7. ASSUME NEW r \in Ranks PROVE Conserved(r)'
  BY <1>6, RankPeer DEF StartPost, ControlInv, Conserved
<1> QED
  BY <1>4, <1>5, <1>7 DEF ControlInv

LEMMA ControlPostRound ==
  ASSUME ControlInv, NEW q \in Ranks, PostRound(q) PROVE ControlInv'
<1> DEFINE body == Overlay(Zeros, db[q].n, sendBuf[q][Slot(posted[q])])
           m == [n |-> db[q].n, body |-> body]
<1>1. /\ posted[q] \in 1..Rounds /\ db[q].seq \in 1..Rounds /\ posted[q] <= db[q].seq
      /\ db[q].n = len[db[q].seq]
  BY Counters DEF PostRound, ControlInv, Control
<1>2. db[q].n \in Chunks
  BY <1>1, LenType DEF ControlInv, Chunks
<1>3. Zeros \in Payload /\ sendBuf[q][Slot(posted[q])] \in Payload
  <2>1. Slot(posted[q]) \in Slots
    BY <1>1, SlotType
  <2> QED
    BY <2>1 DEF Zeros, Payload, RoundNo, ControlInv, TypeOK
<1>4. m \in Message
  <2>1. db[q].n \in Int
    BY <1>2 DEF Chunks
  <2>2. body \in Payload
    BY <1>3, <2>1, OverlayType
  <2> QED
    BY <1>2, <2>2 DEF Message
<1>5. link'[q] = Append(link[q], m) /\ link'[Peer(q)] = link[Peer(q)]
  BY RankPeer DEF PostRound, ControlInv, TypeOK
<1>6. link' \in [Ranks -> Seq(Message)] /\ Len(link'[q]) = Len(link[q]) + 1
  BY <1>4, <1>5 DEF PostRound, ControlInv, TypeOK
<1>7. TypeOK'
  BY <1>6 DEF PostRound, ControlInv, TypeOK, hostVars, gpuVars, errVars
<1>8. /\ threadPc[q] = "sending"
      /\ threadPc'[q] = "post" => posted[q] < db[q].seq
      /\ threadPc'[q] \in {"post", "recv"}
      /\ threadPc'[Peer(q)] = threadPc[Peer(q)]
  BY RankPeer DEF PostRound, ControlInv, TypeOK
<1>9. ASSUME NEW r \in Ranks PROVE Control(r)'
  <2>1. CASE r = q
    BY <1>8, <2>1 DEF PostRound, ControlInv, Control, Rung, hostVars, gpuVars
  <2>2. CASE r # q
    BY <2>2 DEF PostRound, ControlInv, TypeOK, Control, Rung, hostVars, gpuVars
  <2> QED
    BY <2>1, <2>2
<1>10. /\ Landed(q)' = Landed(q) /\ Landed(Peer(q))' = Landed(Peer(q))
       /\ Posted(q)' = Posted(q) + 1 /\ Posted(Peer(q))' = Posted(Peer(q))
  BY <1>1, <1>8 DEF PostRound, Landed, Posted, Sending, Publishing
<1>11. Conserved(q)'
  <2>1. Conserved(q) /\ Landed(Peer(q)) \in Int /\ Posted(q) \in Int /\ Len(link[q]) \in Nat
    BY Counters, PostedLanded, RankPeer DEF ControlInv
  <2> QED
    BY <2>1, <1>6, <1>10 DEF Conserved
<1>12. Conserved(Peer(q))'
  BY <1>5, <1>10, RankPeer DEF ControlInv, Conserved
<1> QED
  BY <1>7, <1>9, <1>11, <1>12 DEF ControlInv, Ranks, Peer

LEMMA ControlPostRoundFails ==
  ASSUME ControlInv, NEW q \in Ranks, PostRoundFails(q) PROVE ControlInv'
<1>1. TypeOK'
  BY DEF PostRoundFails, ControlInv, TypeOK, hostVars, gpuVars
<1>2. ASSUME NEW r \in Ranks PROVE Control(r)'
  BY DEF PostRoundFails, ControlInv, TypeOK, Control, Rung, hostVars, gpuVars
<1>3. ASSUME NEW r \in Ranks
      PROVE  Posted(r)' \in {Posted(r), Posted(r) + 1} /\ Landed(r)' = Landed(r)
  <2>1. posted[r] \in Int
    BY Counters DEF ControlInv
  <2>2. CASE r = q
    <3>1. /\ threadPc[q] = "sending" /\ threadPc'[q] = "recv"
          /\ posted' = posted /\ rcvd' = rcvd
      BY DEF PostRoundFails, ControlInv, TypeOK
    <3>2. Posted(q) = posted[q] - 1 /\ Posted(q)' = posted[q] - 0
      BY <3>1 DEF Posted, Sending
    <3>3. Landed(q)' = Landed(q)
      BY <3>1 DEF Landed, Publishing
    <3> QED
      BY <2>1, <2>2, <3>2, <3>3
  <2>3. CASE r # q
    BY <2>3 DEF PostRoundFails, ControlInv, TypeOK, Posted, Landed, Sending, Publishing
  <2> QED
    BY <2>2, <2>3
<1>4. ASSUME NEW r \in Ranks PROVE Conserved(r)'
  <2>1. /\ Conserved(r) /\ Landed(Peer(r)) \in Int /\ Posted(r) \in Int
        /\ Len(link[r]) \in Nat
    BY Counters, PostedLanded, RankPeer DEF ControlInv
  <2> QED
    BY <1>3, <2>1, RankPeer DEF PostRoundFails, Conserved
<1> QED
  BY <1>1, <1>2, <1>4 DEF ControlInv

LEMMA ControlPollEmpty ==
  ASSUME ControlInv, NEW q \in Ranks, PollEmpty(q) PROVE ControlInv'
<1>1. TypeOK'
  BY DEF PollEmpty, ControlInv, TypeOK, Control, hostVars, gpuVars, errVars
<1>2. ASSUME NEW r \in Ranks PROVE Control(r)'
  BY DEF PollEmpty, ControlInv, TypeOK, Control, Rung, hostVars, gpuVars, errVars
<1>3. ASSUME NEW r \in Ranks PROVE Conserved(r)'
  BY RankPeer DEF PollEmpty, ControlInv, TypeOK, Control, Conserved, Landed, Posted,
     Publishing, Sending, hostVars, gpuVars, errVars
<1> QED
  BY <1>1, <1>2, <1>3 DEF ControlInv

LEMMA ControlPollCopy ==
  ASSUME ControlInv, NEW q \in Ranks, PollCopy(q) PROVE ControlInv'
<1> DEFINE p == Peer(q)
           k == rcvd[q] + 1
           m == Head(link[p])
<1>1. p \in Ranks /\ Peer(p) = q /\ p # q
  BY RankPeer
<1>2. link[p] \in Seq(Message) /\ link[p] # << >>
  BY <1>1 DEF PollCopy, ControlInv, TypeOK
<1>3. /\ m \in Message
      /\ Tail(link[p]) \in Seq(Message) /\ Len(Tail(link[p])) = Len(link[p]) - 1
  BY <1>2
<1>4. Slot(k) \in Slots
  <2>1. rcvd[q] \in Int
    BY Counters DEF ControlInv
  <2> QED
    BY <2>1, SlotType
<1>5. Overlay(recvBuf[q][Slot(k)], m.n, m.body) \in Payload
  <2>1. m.n \in Int /\ m.body \in Payload
    BY <1>3 DEF Message, Chunks
  <2>2. recvBuf[q][Slot(k)] \in Payload
    BY <1>4 DEF ControlInv, TypeOK
  <2> QED
    BY <2>1, <2>2, OverlayType
<1>6. link'[p] = Tail(link[p]) /\ link'[q] = link[q]
      /\ threadPc[q] = "recv" /\ threadPc'[q] = "publish" /\ threadPc'[p] = threadPc[p]
  BY <1>1 DEF PollCopy, ControlInv, TypeOK
<1>7. link' \in [Ranks -> Seq(Message)] /\ recvBuf' \in [Ranks -> [Slots -> Payload]]
  BY <1>1, <1>3, <1>4, <1>5 DEF PollCopy, ControlInv, TypeOK
<1>8. TypeOK'
  BY <1>7 DEF PollCopy, ControlInv, TypeOK, hostVars, gpuVars, errVars
<1>9. ASSUME NEW r \in Ranks PROVE Control(r)'
  BY DEF PollCopy, ControlInv, TypeOK, Control, Rung, hostVars, gpuVars
<1>10. /\ Landed(q)' = Landed(q) + 1 /\ Landed(p)' = Landed(p)
       /\ Posted(q)' = Posted(q) /\ Posted(p)' = Posted(p)
  BY <1>6, Counters DEF PollCopy, ControlInv, Landed, Posted, Sending, Publishing
<1>11. Conserved(p)'
  <2>1. Conserved(p) /\ Landed(q) \in Int /\ Posted(p) \in Int /\ Len(link[p]) \in Nat
    BY SMTT(20), <1>1, Counters DEF ControlInv, Landed, Posted
  <2> QED
    BY <2>1, <1>1, <1>3, <1>6, <1>10 DEF Conserved
<1>12. Conserved(q)'
  BY <1>6, <1>10, RankPeer DEF ControlInv, Conserved
<1> QED
  BY <1>1, <1>8, <1>9, <1>11, <1>12 DEF ControlInv, Ranks, Peer

LEMMA ControlPollPublish ==
  ASSUME ControlInv, NEW q \in Ranks, PollPublish(q) PROVE ControlInv'
<1> DEFINE p == Peer(q)
           k == rcvd[q] + 1
<1>1. p \in Ranks /\ Peer(p) = q /\ p # q
  BY RankPeer
<1>2. threadPc[q] = "publish" /\ Publishing(q) = 1
  BY DEF PollPublish, Publishing
<1>3. k \in RoundNo /\ Slot(k) \in Slots
  <2>1. k + Len(link[p]) <= Posted(p)
    BY <1>1, <1>2 DEF ControlInv, Conserved, Landed
  <2> QED
    <3>1. k \in 1..(Rounds + 1) /\ Len(link[p]) \in Nat /\ posted[p] \in 0..Rounds
          /\ Posted(p) \in Int /\ Posted(p) <= posted[p]
      BY SMTT(30), <1>1, Counters, PostedLanded DEF ControlInv
    <3> QED
      BY <2>1, <3>1, SlotType DEF RoundNo
<1>4. /\ rcvd' \in [Ranks -> RoundNo] /\ recvFlag' \in [Ranks -> [Slots -> RoundNo]]
      /\ rcvd'[q] = k /\ rcvd'[p] = rcvd[p]
      /\ threadPc'[q] = "load" /\ threadPc'[p] = threadPc[p]
  BY <1>1, <1>3 DEF PollPublish, ControlInv, TypeOK
<1>5. TypeOK'
  BY <1>4 DEF PollPublish, ControlInv, TypeOK, hostVars, gpuVars, errVars
<1>6. ASSUME NEW r \in Ranks PROVE Control(r)'
  BY DEF PollPublish, ControlInv, TypeOK, Control, Rung, hostVars, gpuVars
<1>7. /\ Landed(q)' = Landed(q) /\ Landed(p)' = Landed(p)
      /\ Posted(q)' = Posted(q) /\ Posted(p)' = Posted(p)
  BY <1>2, <1>4, Counters DEF PollPublish, ControlInv, Landed, Posted, Sending, Publishing
<1>8. Conserved(q)' /\ Conserved(p)'
  BY <1>1, <1>7 DEF PollPublish, ControlInv, Conserved
<1> QED
  BY <1>1, <1>5, <1>6, <1>8 DEF ControlInv, Ranks, Peer

LEMMA ControlPollFails ==
  ASSUME ControlInv, NEW q \in Ranks, PollFails(q) PROVE ControlInv'
<1>1. TypeOK'
  BY DEF PollFails, ControlInv, TypeOK, Control, hostVars, gpuVars
<1>2. ASSUME NEW r \in Ranks PROVE Control(r)'
  BY DEF PollFails, ControlInv, TypeOK, Control, Rung, hostVars, gpuVars
<1>3. ASSUME NEW r \in Ranks PROVE Conserved(r)'
  BY RankPeer DEF PollFails, ControlInv, TypeOK, Control, Conserved, Landed, Posted,
     Publishing, Sending, hostVars, gpuVars
<1> QED
  BY <1>1, <1>2, <1>3 DEF ControlInv

LEMMA ControlThreadExit ==
  ASSUME ControlInv, NEW q \in Ranks, ThreadExit(q) PROVE ControlInv'
<1>1. TypeOK'
  BY DEF ThreadExit, ControlInv, TypeOK, Control, hostVars, gpuVars, errVars
<1>2. ASSUME NEW r \in Ranks PROVE Control(r)'
  BY DEF ThreadExit, ControlInv, TypeOK, Control, Rung, hostVars, gpuVars, errVars
<1>3. ASSUME NEW r \in Ranks PROVE Conserved(r)'
  BY RankPeer DEF ThreadExit, ControlInv, TypeOK, Control, Conserved, Landed, Posted,
     Publishing, Sending, hostVars, gpuVars, errVars
<1> QED
  BY <1>1, <1>2, <1>3 DEF ControlInv

LEMMA ControlLose ==
  ASSUME ControlInv, NEW q \in Ranks, Lose(q) PROVE ControlInv'
<1>1. link[q] \in Seq(Message) /\ link[q] # << >>
  BY DEF Lose, ControlInv, TypeOK
<1>2. Tail(link[q]) \in Seq(Message) /\ Len(Tail(link[q])) = Len(link[q]) - 1
  BY <1>1
<1>3. link' \in [Ranks -> Seq(Message)] /\ link'[q] = Tail(link[q])
  BY <1>2 DEF Lose, ControlInv, TypeOK
<1>4. TypeOK'
  BY <1>3 DEF Lose, ControlInv, TypeOK, hostVars, gpuVars, threadVars, errVars
<1>5. ASSUME NEW r \in Ranks PROVE Control(r)'
  BY DEF Lose, ControlInv, TypeOK, Control, Rung, hostVars, gpuVars, threadVars
<1>6. ASSUME NEW r \in Ranks PROVE Conserved(r)'
  <2>1. /\ Conserved(r) /\ Landed(Peer(r)) \in Int /\ Posted(r) \in Int
        /\ Len(link[r]) \in Nat
    BY Counters, PostedLanded, RankPeer DEF ControlInv
  <2>2. Len(link'[r]) <= Len(link[r])
    BY <1>2, <1>3, <2>1 DEF Lose, ControlInv, TypeOK
  <2>3. Len(link'[r]) \in Nat
    BY <1>3
  <2>4. Landed(Peer(r))' = Landed(Peer(r)) /\ Posted(r)' = Posted(r)
    BY DEF Lose, threadVars, Landed, Posted, Sending, Publishing
  <2> QED
    BY <2>1, <2>2, <2>3, <2>4 DEF Conserved
<1> QED
  BY <1>4, <1>5, <1>6 DEF ControlInv

LEMMA ControlStutter == ASSUME ControlInv, UNCHANGED vars PROVE ControlInv'
BY DEF vars, hostVars, gpuVars, threadVars, errVars, ControlInv, TypeOK, Control, Conserved,
   Landed, Posted, Rung, Publishing, Sending

LEMMA ControlStep == ASSUME ControlInv, [Next]_vars PROVE ControlInv'
<1>1. ASSUME NEW q \in Ranks, Host(q) PROVE ControlInv'
  BY <1>1, ControlReadError, ControlClearErrorAndEnqueue, ControlShutdown DEF Host
<1>2. ASSUME NEW q \in Ranks, Gpu(q) PROVE ControlInv'
  BY <1>2, ControlCopy, ControlRingDoorbell, ControlSeeFlag, ControlWaitTimeout, ControlAdd
     DEF Gpu
<1>3. ASSUME NEW q \in Ranks, Thread(q) PROVE ControlInv'
  BY <1>3, ControlLoadDoorbell, ControlStartPost, ControlPostRound, ControlPostRoundFails,
     ControlPollEmpty, ControlPollCopy, ControlPollPublish, ControlPollFails,
     ControlThreadExit DEF Thread
<1> QED
  BY <1>1, <1>2, <1>3, ControlLose, ControlStutter DEF Next

\* The control invariant holds whatever fails: it never mentions the slots'
\* contents, only where host, GPU, thread and link stand relative to each other.
THEOREM ControlInvariant == Spec => []ControlInv
BY ControlInit, ControlStep, PTL DEF Spec

\* Every variable of the all-reduce keeps its type, under any faults.
THEOREM TypeCorrect == Spec => []TypeOK
<1>1. ControlInv => TypeOK
  BY DEF ControlInv
<1> QED
  BY <1>1, ControlInvariant, PTL

-----------------------------------------------------------------------------
(***************************************************************************)
(* Slot safety.  Without timeouts the GPU completes only rounds that have  *)
(* been published to it, which closes the chain of the comment on slot     *)
(* reuse: Landed(r) <= Posted(p) <= done[p] + 1 <= rcvd[p] + 1             *)
(*        <= Posted(r) + 1 <= done[r] + 2, where p is r's peer.            *)
(***************************************************************************)
Published(r) ==
  /\ \A s \in Slots : recvFlag[r][s] <= rcvd[r]
  /\ done[r] <= rcvd[r]
  /\ gpuPc[r] = "add" => done[r] < rcvd[r]

SlotInv == ControlInv /\ \A r \in Ranks : Published(r)

LEMMA PublishedInit == Init => SlotInv
<1>1. ASSUME Init, NEW r \in Ranks PROVE Published(r)
  BY <1>1 DEF Init, Published
<1> QED
  BY <1>1, ControlInit DEF SlotInv

\* The steps that neither finish a wait nor a round nor publish one.
LEMMA PublishedUntouched ==
  ASSUME ControlInv, NEW r \in Ranks, Published(r),
         recvFlag'[r] = recvFlag[r], rcvd'[r] = rcvd[r], done'[r] = done[r],
         gpuPc'[r] = "add" => gpuPc[r] = "add"
  PROVE  Published(r)'
BY DEF Published

LEMMA PublishedStep ==
  ASSUME SlotInv, [Next]_vars, \A r \in Ranks : "timeout" \notin Allowed[r] PROVE SlotInv'
<1>1. ControlInv /\ ControlInv'
  BY ControlStep DEF SlotInv
<1>2. ASSUME NEW q \in Ranks, SeeFlag(q), NEW r \in Ranks PROVE Published(r)'
  <2>1. CASE r = q
    <3>1. recvFlag[q][Slot(done[q] + 1)] <= rcvd[q]
      <4>1. done[q] \in Int
        BY Counters, <1>1 DEF ControlInv
      <4> QED
        BY <4>1, SlotType DEF SlotInv, Published
    <3>2. recvFlag[q][Slot(done[q] + 1)] >= done[q] + 1
      BY <1>2 DEF SeeFlag
    <3>3. recvFlag[q][Slot(done[q] + 1)] \in Int /\ done[q] \in Int /\ rcvd[q] \in Int
      <4>1. done[q] \in Int /\ rcvd[q] \in Int
        BY Counters, <1>1 DEF ControlInv
      <4>2. Slot(done[q] + 1) \in Slots
        BY <4>1, SlotType
      <4> QED
        BY <1>1, <4>1, <4>2 DEF ControlInv, TypeOK, RoundNo
    <3>4. done[q] < rcvd[q]
      BY <3>1, <3>2, <3>3
    <3> QED
      BY <1>2, <2>1, <3>4 DEF SeeFlag, SlotInv, Published, threadVars
  <2>2. CASE r # q
    BY <1>1, <1>2, <2>2 DEF SeeFlag, SlotInv, ControlInv, TypeOK, Published, threadVars
  <2> QED
    BY <2>1, <2>2
<1>3. ASSUME NEW q \in Ranks, Add(q), NEW r \in Ranks PROVE Published(r)'
  <2>1. CASE r = q
    <3>1. done'[q] = done[q] + 1 /\ gpuPc'[q] = "copy" /\ done[q] < rcvd[q]
      BY <1>1, <1>3 DEF Add, SlotInv, ControlInv, TypeOK, Published
    <3>2. done[q] \in Int /\ rcvd[q] \in Int
      BY Counters, <1>1 DEF ControlInv
    <3> QED
      BY <1>3, <2>1, <3>1, <3>2 DEF Add, SlotInv, Published, threadVars
  <2>2. CASE r # q
    BY <1>1, <1>3, <2>2 DEF Add, SlotInv, ControlInv, TypeOK, Published, threadVars
  <2> QED
    BY <2>1, <2>2
<1>4. ASSUME NEW q \in Ranks, PollPublish(q), NEW r \in Ranks PROVE Published(r)'
  <2>1. CASE r = q
    <3>1. /\ rcvd'[q] = rcvd[q] + 1 /\ rcvd[q] \in Int /\ done[q] \in Int
          /\ done' = done /\ gpuPc' = gpuPc
      BY Counters, <1>1, <1>4 DEF PollPublish, ControlInv, TypeOK, gpuVars
    <3>2. ASSUME NEW s \in Slots PROVE recvFlag'[q][s] <= rcvd[q] + 1
      <4>1. /\ recvFlag'[q][s] \in {rcvd[q] + 1, recvFlag[q][s]}
            /\ recvFlag[q][s] \in Int /\ recvFlag[q][s] <= rcvd[q]
        BY <1>1, <1>4 DEF PollPublish, SlotInv, Published, ControlInv, TypeOK, RoundNo
      <4> QED
        BY <3>1, <4>1
    <3> QED
      BY <2>1, <3>1, <3>2 DEF SlotInv, Published
  <2>2. CASE r # q
    BY <1>1, <1>4, <2>2 DEF PollPublish, SlotInv, ControlInv, TypeOK, Published, gpuVars
  <2> QED
    BY <2>1, <2>2
<1>5. ASSUME NEW q \in Ranks, Host(q), NEW r \in Ranks PROVE Published(r)'
  BY <1>1, <1>5, PublishedUntouched DEF Host, ReadError, ClearErrorAndEnqueue, Shutdown,
     SlotInv, gpuVars, threadVars
<1>6. ASSUME NEW q \in Ranks, Copy(q) \/ RingDoorbell(q), NEW r \in Ranks
      PROVE  Published(r)'
  BY SMTT(30), <1>1, <1>6, PublishedUntouched DEF Copy, RingDoorbell, SlotInv, ControlInv, TypeOK,
     threadVars
<1>7. ASSUME NEW q \in Ranks, Thread(q), ~PollPublish(q), NEW r \in Ranks
      PROVE  Published(r)'
  <2>1. recvFlag' = recvFlag /\ rcvd' = rcvd /\ done' = done /\ gpuPc' = gpuPc
    BY <1>7 DEF Thread, LoadDoorbell, StartPost, PostRound, PostRoundFails, PollEmpty,
       PollCopy, PollFails, ThreadExit, gpuVars
  <2> QED
    BY <1>1, <2>1, PublishedUntouched DEF SlotInv
<1>8. ASSUME NEW q \in Ranks, Lose(q), NEW r \in Ranks PROVE Published(r)'
  BY <1>1, <1>8, PublishedUntouched DEF Lose, SlotInv, gpuVars, threadVars
<1>9. ASSUME UNCHANGED vars, NEW r \in Ranks PROVE Published(r)'
  BY <1>1, <1>9, PublishedUntouched DEF vars, SlotInv, gpuVars, threadVars
<1>10. ASSUME NEW q \in Ranks PROVE ~WaitTimeout(q)
  BY DEF WaitTimeout
<1> QED
  BY <1>1, <1>2, <1>3, <1>4, <1>5, <1>6, <1>7, <1>8, <1>9, <1>10 DEF Next, Gpu, SlotInv

\* How far the four counters of the two ranks can be apart.
LEMMA PublishedInPace == SlotInv => \A r \in Ranks : InPace(r)
<1> SUFFICES ASSUME SlotInv, NEW r \in Ranks PROVE InPace(r)
  OBVIOUS
<1>1. TypeOK /\ Published(r)
  BY DEF SlotInv, ControlInv
<1> QED
  BY <1>1, Counters DEF Published, InPace

LEMMA Skew ==
  ASSUME ControlInv, NEW r \in Ranks, NEW p \in Ranks, p = Peer(r), InPace(p)
  PROVE  /\ Landed(r) <= Posted(p)
         /\ Posted(p) <= doorbell[p].seq
         /\ doorbell[p].seq <= done[p] + 1
         /\ done[p] <= rcvd[p]
         /\ rcvd[p] <= Landed(p)
<1>1. TypeOK /\ Control(p) /\ Conserved(p) /\ Peer(p) = r
  BY RankPeer DEF ControlInv
<1>2. Landed(r) <= Posted(p)
  <2>1. Landed(r) + Len(link[p]) <= Posted(p) /\ Len(link[p]) \in Nat
    BY <1>1, Counters DEF Conserved
  <2> QED
    BY <1>1, <2>1, PostedLanded
<1>3. Posted(p) <= doorbell[p].seq
  <2>1. posted[p] <= doorbell[p].seq /\ posted[p] \in Int /\ doorbell[p].seq \in Int
    BY <1>1, Counters DEF Control
  <2> QED
    BY <1>1, <2>1, PostedLanded
<1>4. doorbell[p].seq <= done[p] + 1
  BY <1>1, Counters DEF Control, Rung
<1>5. done[p] <= rcvd[p]
  BY <1>1, Counters DEF InPace
<1> QED
  BY <1>1, <1>2, <1>3, <1>4, <1>5, PostedLanded

LEMMA Spread ==
  ASSUME ControlInv, NEW r \in Ranks, \A q \in Ranks : InPace(q)
  PROVE  /\ Landed(r) <= Posted(Peer(r)) /\ Posted(Peer(r)) <= done[r] + 2
         /\ done[r] <= Posted(r) + 1
         /\ done[r] <= done[Peer(r)] + 1
<1> DEFINE p == Peer(r)
<1>1. TypeOK /\ p \in Ranks /\ r = Peer(p)
  BY RankPeer DEF ControlInv
<1>2. /\ Landed(r) \in Int /\ Landed(p) \in Int /\ Posted(r) \in Int /\ Posted(p) \in Int
      /\ done[r] \in Int /\ done[p] \in Int /\ rcvd[r] \in Int /\ rcvd[p] \in Int
      /\ doorbell[r].seq \in Int /\ doorbell[p].seq \in Int
  BY SMTT(20), <1>1, Counters, PostedLanded
<1>3. /\ Landed(r) <= Posted(p) /\ Posted(p) <= doorbell[p].seq
      /\ doorbell[p].seq <= done[p] + 1 /\ done[p] <= rcvd[p] /\ rcvd[p] <= Landed(p)
  BY <1>1, Skew
<1>4. /\ Landed(p) <= Posted(r) /\ Posted(r) <= doorbell[r].seq
      /\ doorbell[r].seq <= done[r] + 1 /\ done[r] <= rcvd[r] /\ rcvd[r] <= Landed(r)
  BY <1>1, Skew
<1>5. Posted(p) <= done[p] + 1 /\ done[r] <= done[p] + 1
  BY <1>2, <1>3, <1>4
<1>6. done[p] <= Posted(r) /\ done[p] <= done[r] + 1
  BY SMTT(30), <1>2, <1>3, <1>4
<1> QED
  BY <1>2, <1>3, <1>5, <1>6

LEMMA SafeInPace == ControlInv => SlotsSafeInPace
<1> SUFFICES ASSUME ControlInv, \A r \in Ranks : InPace(r)
             PROVE  RecvSlotSafe /\ SendSlotSafe /\ RanksInStep
  BY DEF SlotsSafeInPace
<1>1. ASSUME NEW r \in Ranks
      PROVE  /\ Landed(r) <= done[r] + 2
             /\ done[r] + 1 <= Posted(r) + 2
             /\ done[r] <= done[Peer(r)] + 1
  <2>1. TypeOK /\ Peer(r) \in Ranks
    BY RankPeer DEF ControlInv
  <2>2. /\ Landed(r) \in Int /\ Posted(r) \in Int /\ Posted(Peer(r)) \in Int
        /\ done[r] \in Int
    BY <2>1, Counters, PostedLanded
  <2> QED
    BY <2>2, Spread
<1> QED
  BY <1>1 DEF RecvSlotSafe, SendSlotSafe, RanksInStep, NSlots, Landed, Posted

\* Under any faults, timeouts included: once neither rank is ahead of what it
\* received, the slots are safe and the ranks are within a round of each other.
THEOREM SlotsSafeOnceInPace == Spec => []SlotsSafeInPace
BY ControlInvariant, SafeInPace, PTL

LEMMA SlotInvImplies == SlotInv => RecvSlotSafe /\ SendSlotSafe /\ RanksInStep
BY PublishedInPace, SafeInPace DEF SlotInv, SlotsSafeInPace

LEMMA SlotSpread ==
  ASSUME SlotInv, NEW r \in Ranks
  PROVE  /\ Landed(r) <= Posted(Peer(r)) /\ Posted(Peer(r)) <= done[r] + 2
         /\ done[r] <= Posted(r) + 1
         /\ done[r] <= done[Peer(r)] + 1
BY PublishedInPace, Spread DEF SlotInv

THEOREM SlotInvariant ==
  ASSUME \A r \in Ranks : "timeout" \notin Allowed[r] PROVE Spec => []SlotInv
BY PublishedInit, PublishedStep, PTL DEF Spec

\* As long as no GPU wait gives up, no receive slot is overwritten before its
\* round was added, no send slot is restaged before its round left through
\* stream_send, and the two ranks stay within one round of each other, whatever
\* messages the link loses and whatever sends fail.
THEOREM SlotsStaySafe ==
  ASSUME \A r \in Ranks : "timeout" \notin Allowed[r] PROVE Spec => []SlotsSafe
<1>1. SlotInv => SlotsSafe
  BY SlotInvImplies DEF SlotsSafe
<1> QED
  BY <1>1, SlotInvariant, PTL

-----------------------------------------------------------------------------
(***************************************************************************)
(* Contents.  When no wait gives up, no send fails and no message is lost, *)
(* the rounds between the copy kernel of one rank and the add of the other *)
(* are each in exactly one place, with their own data:                     *)
(*   done[r] < rounds in recvBuf[r] <= Landed(r)                           *)
(*           < rounds in link[p] <= Posted(p)                              *)
(*           < rounds in sendBuf[p] <= Staged(p).                          *)
(***************************************************************************)
NothingLost == \A r \in Ranks : Allowed[r] \cap {"timeout", "loss", "sendfail"} = {}

Holds(buf, k) == \A c \in 1..len[k] : buf[c] = k

\* A message of round k: its own data as far as it goes, and all of it unless
\* the round was replayed with the size of a smaller one.
Carries(m, k) ==
  /\ \A c \in 1..len[k] : c <= m.n => m.body[c] = k
  /\ OverSends(k) => len[k] <= m.n

Exact(r) == Landed(Peer(r)) + Len(link[r]) = Posted(r)
SendContent(r) ==
  \A k \in 1..Rounds : Posted(r) < k /\ k <= Staged(r) => Holds(sendBuf[r][Slot(k)], k)
LinkContent(r) ==
  \A i \in 1..Len(link[r]) : Carries(link[r][i], Landed(Peer(r)) + i)
RecvContent(r) ==
  \A k \in 1..Rounds : done[r] < k /\ k <= Landed(r) /\ OverSends(k)
                          => Holds(recvBuf[r][Slot(k)], k)
OutContent(r) ==
  \A k \in 1..Rounds : k <= done[r] /\ OverSends(k) => RightSum(r, k)

Content(r) == Exact(r) /\ SendContent(r) /\ LinkContent(r) /\ RecvContent(r) /\ OutContent(r)
ContentInv == SlotInv /\ \A r \in Ranks : Content(r)

LEMMA SlotsDiffer == \A k \in Int : Slot(k) # Slot(k + 1)
BY DEF Slot, NSlots

LEMMA StagedType ==
  ASSUME TypeOK, NEW r \in Ranks
  PROVE  Staged(r) \in Int /\ done[r] <= Staged(r) /\ Staged(r) <= done[r] + 1
BY Counters DEF Staged

LEMMA ContentInit == Init => ContentInv
<1> SUFFICES ASSUME Init PROVE ContentInv
  OBVIOUS
<1>1. SlotInv
  BY PublishedInit
<1>2. ASSUME NEW r \in Ranks PROVE Content(r)
  <2>1. /\ Landed(r) = 0 /\ Posted(r) = 0 /\ Landed(Peer(r)) = 0 /\ Staged(r) = 0
        /\ done[r] = 0 /\ link[r] = << >>
    BY RankPeer DEF Init, Landed, Posted, Staged, Publishing, Sending
  <2> QED
    BY <2>1 DEF Content, Exact, SendContent, LinkContent, RecvContent, OutContent
<1> QED
  BY <1>1, <1>2 DEF ContentInv

\* Steps that move no data and no boundary between the places it can be in.
Still ==
  /\ UNCHANGED <<len, sendBuf, recvBuf, out, link, done>>
  /\ \A r \in Ranks : /\ Posted(r)' = Posted(r)
                       /\ Landed(r)' = Landed(r)
                       /\ Staged(r)' = Staged(r)

LEMMA ContentStill ==
  ASSUME ContentInv, Still, NEW r \in Ranks PROVE Content(r)'
<1>1. Content(r) /\ Peer(r) \in Ranks
  BY RankPeer DEF ContentInv
<1>2. Exact(r)' /\ LinkContent(r)'
  BY <1>1 DEF Still, Content, Exact, LinkContent, Carries, OverSends
<1>3. SendContent(r)' /\ RecvContent(r)' /\ OutContent(r)'
  BY <1>1 DEF Still, Content, SendContent, RecvContent, OutContent, Holds, OverSends, RightSum
<1> QED
  BY <1>2, <1>3 DEF Content

LEMMA StillSteps ==
  ASSUME ControlInv, NEW q \in Ranks,
         \/ Host(q) \/ RingDoorbell(q) \/ SeeFlag(q)
         \/ LoadDoorbell(q) \/ StartPost(q) \/ PollEmpty(q) \/ PollPublish(q)
         \/ PollFails(q) \/ ThreadExit(q)
  PROVE  Still
<1>1. CASE Host(q)
  BY <1>1 DEF Host, ReadError, ClearErrorAndEnqueue, Shutdown, gpuVars, threadVars, Still,
     Posted, Landed, Staged, Sending, Publishing
<1>2. CASE RingDoorbell(q)
  BY <1>2 DEF RingDoorbell, ControlInv, TypeOK, threadVars, Still,
     Posted, Landed, Staged, Sending, Publishing
<1>3. CASE SeeFlag(q)
  BY <1>3 DEF SeeFlag, ControlInv, TypeOK, threadVars, Still,
     Posted, Landed, Staged, Sending, Publishing
<1>4. CASE LoadDoorbell(q)
  BY <1>4 DEF LoadDoorbell, ControlInv, TypeOK, gpuVars, Still,
     Posted, Landed, Staged, Sending, Publishing
<1>5. CASE StartPost(q)
  <2>1. posted[q] \in Int /\ threadPc[q] = "post" /\ threadPc'[q] = "sending"
        /\ posted'[q] = posted[q] + 1
    BY <1>5, Counters DEF StartPost, ControlInv, TypeOK
  <2>2. ASSUME NEW r \in Ranks PROVE Posted(r)' = Posted(r) /\ Landed(r)' = Landed(r)
    <3>1. CASE r = q
      <4>1. Posted(q) = posted[q] - 0 /\ Posted(q)' = (posted[q] + 1) - 1
        BY <2>1 DEF Posted, Sending
      <4>2. Landed(q)' = Landed(q)
        BY <1>5, <2>1 DEF StartPost, Landed, Publishing
      <4> QED
        BY <2>1, <3>1, <4>1, <4>2
    <3>2. CASE r # q
      BY <1>5, <3>2 DEF StartPost, ControlInv, TypeOK, Posted, Landed, Sending, Publishing
    <3> QED
      BY <3>1, <3>2
  <2> QED
    BY <1>5, <2>2 DEF StartPost, gpuVars, Still, Staged
<1>6. CASE PollEmpty(q)
  BY <1>6 DEF PollEmpty, ControlInv, TypeOK, gpuVars, Still,
     Posted, Landed, Staged, Sending, Publishing
<1>7. CASE PollPublish(q)
  <2>1. rcvd[q] \in Int /\ threadPc[q] = "publish" /\ threadPc'[q] = "load"
        /\ rcvd'[q] = rcvd[q] + 1
    BY <1>7, Counters DEF PollPublish, ControlInv, TypeOK
  <2>2. ASSUME NEW r \in Ranks PROVE Posted(r)' = Posted(r) /\ Landed(r)' = Landed(r)
    <3>1. CASE r = q
      <4>1. Landed(q) = rcvd[q] + 1 /\ Landed(q)' = (rcvd[q] + 1) + 0
        BY <2>1 DEF Landed, Publishing
      <4>2. Posted(q)' = Posted(q)
        BY <1>7, <2>1 DEF PollPublish, Posted, Sending
      <4> QED
        BY <2>1, <3>1, <4>1, <4>2
    <3>2. CASE r # q
      BY <1>7, <3>2 DEF PollPublish, ControlInv, TypeOK, Posted, Landed, Sending, Publishing
    <3> QED
      BY <3>1, <3>2
  <2> QED
    BY <1>7, <2>2 DEF PollPublish, gpuVars, Still, Staged
<1>8. CASE PollFails(q)
  BY <1>8 DEF PollFails, ControlInv, TypeOK, gpuVars, Still,
     Posted, Landed, Staged, Sending, Publishing
<1>9. CASE ThreadExit(q)
  BY <1>9 DEF ThreadExit, ControlInv, TypeOK, gpuVars, Still,
     Posted, Landed, Staged, Sending, Publishing
<1> QED
  BY <1>1, <1>2, <1>3, <1>4, <1>5, <1>6, <1>7, <1>8, <1>9

\* Staging round done + 1 leaves the one staged round that may not be sent yet.
LEMMA ContentCopy ==
  ASSUME ContentInv, NEW q \in Ranks, Copy(q), NEW r \in Ranks PROVE Content(r)'
<1> DEFINE k == done[q] + 1
<1>1. ControlInv /\ TypeOK /\ Content(r) /\ r \in Ranks /\ Peer(r) \in Ranks
  BY RankPeer DEF ContentInv, SlotInv, ControlInv
<1>2. /\ k \in 1..Rounds /\ Slot(k) \in Slots /\ len[k] \in 1..MaxSize
      /\ gpuPc[q] = "copy" /\ gpuPc'[q] = "doorbell" /\ done' = done /\ len' = len
  BY <1>1, NextRound DEF Copy, TypeOK
<1>3. ASSUME NEW x \in Ranks PROVE Posted(x)' = Posted(x) /\ Landed(x)' = Landed(x)
  BY DEF Copy, threadVars, Posted, Landed, Sending, Publishing
<1>4. Exact(r)' /\ LinkContent(r)' /\ RecvContent(r)' /\ OutContent(r)'
  BY <1>1, <1>2, <1>3 DEF Copy, Content, Exact, LinkContent, RecvContent, OutContent,
     Carries, Holds, OverSends, RightSum
<1>5. SendContent(r)'
  <2>1. CASE r = q
    <3>1. Staged(q)' = k /\ Staged(q) = done[q]
      BY <1>2 DEF Staged
    <3>2. done[q] \in Int /\ Posted(q) \in Int /\ done[q] <= Posted(q) + 1
      BY <1>1, Counters, PostedLanded, SlotSpread DEF ContentInv
    <3>3. \A s \in Slots : s # Slot(k) => sendBuf'[q][s] = sendBuf[q][s]
      BY <1>2 DEF Copy, TypeOK
    <3>4. \A c \in 1..len[k] : sendBuf'[q][Slot(k)][c] = k
      <4>1. sendBuf'[q][Slot(k)] = Overlay(sendBuf[q][Slot(k)], len[k], RoundData(k))
        BY <1>1, <1>2 DEF Copy, TypeOK
      <4> QED
        BY <1>2, <4>1 DEF Overlay, RoundData, Chunks
    <3>5. ASSUME NEW j \in 1..Rounds, Posted(q) < j, j <= k, j # k
          PROVE  \A c \in 1..len[j] : sendBuf'[q][Slot(j)][c] = j
      <4>1. k = j + 1 /\ j <= Staged(q)
        BY <3>1, <3>2, <3>5
      <4>2. Slot(j) # Slot(k) /\ Slot(j) \in Slots
        BY <4>1, SlotsDiffer, SlotType
      <4>3. Holds(sendBuf[q][Slot(j)], j)
        BY <1>1, <2>1, <3>5, <4>1 DEF Content, SendContent
      <4> QED
        BY <1>2, <3>3, <4>2, <4>3 DEF Holds
    <3> QED
      BY <1>2, <1>3, <2>1, <3>1, <3>4, <3>5 DEF SendContent, Holds
  <2>2. CASE r # q
    BY <1>1, <1>2, <1>3, <2>2 DEF Copy, TypeOK, Content, SendContent, Staged, Holds
  <2> QED
    BY <2>1, <2>2
<1> QED
  BY <1>4, <1>5 DEF Content

\* The add consumes the round the receive slot holds.
LEMMA ContentAdd ==
  ASSUME ContentInv, NEW q \in Ranks, Add(q), NEW r \in Ranks PROVE Content(r)'
<1> DEFINE k == done[q] + 1
<1>1. ControlInv /\ TypeOK /\ Content(r) /\ Content(q) /\ Peer(r) \in Ranks
  BY RankPeer DEF ContentInv, SlotInv, ControlInv
<1>2. /\ k \in 1..Rounds /\ len[k] \in 1..MaxSize /\ done[q] \in Int
      /\ gpuPc[q] = "add" /\ gpuPc'[q] = "copy" /\ done'[q] = k /\ len' = len
  <2>1. gpuPc[q] = "add"
    BY DEF Add
  <2>2. k \in 1..Rounds /\ len[k] \in 1..MaxSize /\ done[q] \in Int
    BY <1>1, <2>1, NextRound, Counters
  <2> QED
    BY <1>1, <2>1, <2>2 DEF Add, TypeOK
<1>3. ASSUME NEW x \in Ranks PROVE Posted(x)' = Posted(x) /\ Landed(x)' = Landed(x)
  BY DEF Add, threadVars, Posted, Landed, Sending, Publishing
<1>4. ASSUME NEW x \in Ranks
      PROVE  Staged(x)' = Staged(x) /\ done'[x] \in Int /\ done[x] \in Int
             /\ done[x] <= done'[x]
  <2>1. done[x] \in Int
    BY <1>1, Counters
  <2>2. CASE x = q
    BY <1>2, <2>2 DEF Staged
  <2>3. CASE x # q
    BY <2>1, <2>3 DEF Add, ControlInv, SlotInv, ContentInv, TypeOK, Staged
  <2> QED
    BY <2>2, <2>3
<1>5. Exact(r)' /\ LinkContent(r)' /\ SendContent(r)'
  BY <1>1, <1>2, <1>3, <1>4 DEF Add, Content, Exact, LinkContent, SendContent,
     Carries, Holds, OverSends
<1>6. RecvContent(r)'
  <2>1. /\ recvBuf' = recvBuf /\ Landed(r)' = Landed(r)
        /\ \A i \in 1..Rounds : done'[r] < i => done[r] < i
    BY <1>3, <1>4 DEF Add
  <2> QED
    BY <1>1, <1>2, <2>1 DEF Content, RecvContent, Holds, OverSends
<1>7. OutContent(r)'
  <2>1. CASE r = q
    <3>1. /\ out'[q][k] = Overlay(Zeros, len[k], recvBuf[q][Slot(k)])
          /\ \A i \in 1..Rounds : i # k => out'[q][i] = out[q][i]
      BY <1>1, <1>2 DEF Add, TypeOK
    <3>2. ASSUME OverSends(k) PROVE out'[q][k] = Overlay(Zeros, len[k], RoundData(k))
      <4>1. k <= Landed(q)
        <5>1. done[q] < rcvd[q]
          BY <1>2 DEF ContentInv, SlotInv, Published
        <5>2. rcvd[q] \in Int /\ Landed(q) \in Int /\ rcvd[q] <= Landed(q)
          BY <1>1, Counters, PostedLanded
        <5> QED
          BY <1>2, <5>1, <5>2
      <4>2. Holds(recvBuf[q][Slot(k)], k)
        BY <1>1, <1>2, <3>2, <4>1 DEF Content, RecvContent
      <4>3. Overlay(Zeros, len[k], recvBuf[q][Slot(k)]) = Overlay(Zeros, len[k], RoundData(k))
        BY <1>2, <4>2 DEF Overlay, Holds, RoundData, Chunks
      <4> QED
        BY <3>1, <4>3
    <3>3. ASSUME NEW i \in 1..Rounds, i <= done[q], OverSends(i)
          PROVE  out'[q][i] = Overlay(Zeros, len[i], RoundData(i))
      BY <1>1, <1>2, <3>1, <3>3 DEF Content, OutContent, RightSum
    <3>4. ASSUME NEW i \in 1..Rounds, i <= k, OverSends(i)
          PROVE  out'[q][i] = Overlay(Zeros, len[i], RoundData(i))
      <4>1. i = k \/ i <= done[q]
        BY <1>2, <3>4
      <4> QED
        BY <3>2, <3>3, <3>4, <4>1
    <3>5. len' = len /\ done'[q] = k
      BY <1>2
    <3> QED
      BY <2>1, <3>4, <3>5 DEF OutContent, OverSends, RightSum, Overlay, Zeros, RoundData
  <2>2. CASE r # q
    BY <1>1, <1>2, <2>2 DEF Add, TypeOK, Content, OutContent, RightSum, OverSends
  <2> QED
    BY <2>1, <2>2
<1> QED
  BY <1>5, <1>6, <1>7 DEF Content

\* Posting moves the oldest staged round to the end of the link.
LEMMA ContentPostRound ==
  ASSUME ContentInv, NEW q \in Ranks, PostRound(q), NEW r \in Ranks PROVE Content(r)'
<1> DEFINE k == posted[q]
           n == db[q].n
           body == Overlay(Zeros, n, sendBuf[q][Slot(k)])
           m == [n |-> n, body |-> body]
<1>1. /\ ControlInv /\ TypeOK /\ Control(q) /\ Content(r) /\ Content(q)
      /\ Peer(r) \in Ranks /\ Peer(q) \in Ranks /\ Peer(q) # q
  BY RankPeer DEF ContentInv, SlotInv, ControlInv
<1>2. /\ k \in 1..Rounds /\ db[q].seq \in 1..Rounds /\ k <= db[q].seq
      /\ n = len[db[q].seq] /\ threadPc[q] = "sending" /\ threadPc'[q] \in {"post", "recv"}
      /\ len' = len /\ done' = done /\ sendBuf' = sendBuf /\ recvBuf' = recvBuf
      /\ out' = out /\ gpuPc' = gpuPc
  <2>1. /\ threadPc[q] = "sending" /\ threadPc'[q] \in {"post", "recv"}
        /\ len' = len /\ done' = done /\ sendBuf' = sendBuf /\ recvBuf' = recvBuf
        /\ out' = out /\ gpuPc' = gpuPc
    BY <1>1 DEF PostRound, TypeOK, gpuVars
  <2>2. k \in 0..Rounds /\ db[q].seq \in 0..Rounds
    BY <1>1, Counters
  <2>3. 0 < k /\ k <= db[q].seq /\ (db[q].seq > 0 => n = len[db[q].seq])
    BY <1>1, <2>1 DEF Control
  <2> QED
    BY <2>1, <2>2, <2>3
<1>3. Posted(q) = k - 1 /\ Posted(q)' = k
  BY <1>2 DEF PostRound, Posted, Sending
<1>4. ASSUME NEW x \in Ranks
      PROVE  Landed(x)' = Landed(x) /\ Staged(x)' = Staged(x)
             /\ (x # q => Posted(x)' = Posted(x))
  <2>1. CASE x = q
    BY <1>2, <2>1 DEF PostRound, Landed, Staged, Publishing
  <2>2. CASE x # q
    BY <1>1, <2>2 DEF PostRound, TypeOK, gpuVars, Landed, Staged, Posted, Publishing, Sending
  <2> QED
    BY <2>1, <2>2
\* the replayed round is the announced one or the one before it
<1>5. /\ db[q].seq \in {k, k + 1}
      /\ k <= Staged(q)
  <2>1. /\ done[q] \in Int /\ Posted(q) \in Int /\ doorbell[q].seq \in Int
        /\ done[q] <= Posted(q) + 1 /\ db[q].seq <= doorbell[q].seq
        /\ doorbell[q].seq = Rung(q)
    <3>1. done[q] \in Int /\ Posted(q) \in Int /\ doorbell[q].seq \in Int
      BY <1>1, Counters, PostedLanded
    <3>2. done[q] <= Posted(q) + 1
      BY SlotSpread DEF ContentInv
    <3> QED
      BY <1>1, <3>1, <3>2 DEF Control
  <2>2. Rung(q) <= Staged(q) /\ Rung(q) \in Int /\ Staged(q) \in Int /\ Staged(q) <= done[q] + 1
    BY <1>1, <2>1, StagedType DEF Rung, Staged
  <2> QED
    BY SMTT(20), <1>2, <1>3, <2>1, <2>2
<1>6. /\ \A c \in 1..len[k] : c <= n => body[c] = k
      /\ OverSends(k) => len[k] <= n
  <2>1. \A c \in 1..len[k] : sendBuf[q][Slot(k)][c] = k
    <3>1. k \in 1..Rounds /\ Posted(q) < k /\ k <= Staged(q)
      BY <1>2, <1>3, <1>5
    <3>2. SendContent(q)
      BY <1>1 DEF Content
    <3> QED
      BY <3>1, <3>2 DEF SendContent, Holds
  <2>2. len[k] \in 1..MaxSize
    BY <1>1, <1>2, LenType
  <2>3. \A c \in 1..len[k] : c <= n => body[c] = k
    BY <2>1, <2>2 DEF Overlay, Chunks
  <2>4. OverSends(k) => len[k] <= n
    BY <1>2, <1>5, <2>2 DEF OverSends
  <2> QED
    BY <2>3, <2>4
<1>7. /\ link'[q] = Append(link[q], m) /\ link[q] \in Seq(Message)
      /\ \A x \in Ranks : x # q => link'[x] = link[x]
  BY <1>1 DEF PostRound, TypeOK
<1>8. CASE r = q
  <2>1. /\ Len(link'[q]) = Len(link[q]) + 1 /\ Len(link[q]) \in Nat
        /\ link'[q][Len(link[q]) + 1] = m
        /\ \A i \in 1..Len(link[q]) : link'[q][i] = link[q][i]
    BY <1>7
  <2>2. Landed(Peer(q)) \in Int /\ Landed(Peer(q)) + Len(link[q]) = k - 1
    BY <1>1, <1>3, PostedLanded DEF Content, Exact
  <2>2a. Landed(Peer(q)) + (Len(link[q]) + 1) = k
    <3>1. Len(link[q]) \in Int /\ k \in Int
      BY <1>2, <2>1
    <3> QED
      BY <2>2, <3>1
  <2>3. Exact(q)'
    <3>1. Landed(Peer(q))' = Landed(Peer(q))
      BY <1>1, <1>4
    <3> QED
      BY <1>3, <2>1, <2>2a, <3>1 DEF Exact
  <2>4. SendContent(q)'
    BY <1>1, <1>2, <1>3, <1>4 DEF Content, SendContent, Holds
  <2>5. LinkContent(q)'
    <3>2. \A i \in 1..Len(link[q]) : Carries(link[q][i], Landed(Peer(q)) + i)
      BY <1>1 DEF Content, LinkContent
    <3>3. Carries(m, k)
      BY <1>6 DEF Carries
    <3>4. ASSUME NEW i \in 1..(Len(link[q]) + 1)
          PROVE  Carries(link'[q][i], Landed(Peer(q)) + i)
      <4>1. CASE i = Len(link[q]) + 1
        BY <2>1, <2>2a, <3>3, <4>1
      <4>2. CASE i # Len(link[q]) + 1
        <5>1. i \in 1..Len(link[q])
          BY <2>1, <4>2
        <5> QED
          BY <2>1, <3>2, <5>1
      <4> QED
        BY <4>1, <4>2
    <3> QED
      BY <1>1, <1>2, <1>4, <2>1, <3>4 DEF LinkContent, Carries, OverSends
  <2>6. RecvContent(q)' /\ OutContent(q)'
    BY SMTT(20), <1>1, <1>2, <1>4 DEF Content, RecvContent, OutContent, Holds, OverSends, RightSum
  <2> QED
    BY <1>8, <2>3, <2>4, <2>5, <2>6 DEF Content
<1>9. CASE r # q
  <2>1. Exact(r)' /\ LinkContent(r)'
    BY <1>1, <1>2, <1>4, <1>7, <1>9 DEF Content, Exact, LinkContent, Carries, OverSends
  <2>2. SendContent(r)' /\ RecvContent(r)' /\ OutContent(r)'
    BY <1>1, <1>2, <1>4, <1>9 DEF Content, SendContent, RecvContent, OutContent, Holds,
       OverSends, RightSum
  <2> QED
    BY <2>1, <2>2 DEF Content
<1> QED
  BY <1>8, <1>9

\* Receiving moves the oldest message of the link to the receive slot that the
\* round before last has left.
LEMMA ContentPollCopy ==
  ASSUME ContentInv, NEW q \in Ranks, PollCopy(q), NEW r \in Ranks PROVE Content(r)'
<1> DEFINE p == Peer(q)
           k == rcvd[q] + 1
           m == Head(link[p])
<1>1. /\ ControlInv /\ TypeOK /\ Content(r) /\ Content(p) /\ Content(q)
      /\ p \in Ranks /\ p # q /\ Peer(p) = q
  BY RankPeer DEF ContentInv, SlotInv, ControlInv
<1>2. /\ link[p] \in Seq(Message) /\ link[p] # << >> /\ link'[p] = Tail(link[p])
      /\ link'[q] = link[q]
      /\ threadPc[q] = "recv" /\ threadPc'[q] = "publish" /\ threadPc'[p] = threadPc[p]
      /\ len' = len /\ done' = done /\ sendBuf' = sendBuf
      /\ out' = out /\ gpuPc' = gpuPc /\ recvBuf'[p] = recvBuf[p]
  BY <1>1 DEF PollCopy, TypeOK, gpuVars
<1>3. /\ Landed(q) = k - 1 /\ Landed(q)' = k /\ k \in Int
      /\ Landed(p)' = Landed(p)
      /\ Posted(q)' = Posted(q) /\ Posted(p)' = Posted(p)
      /\ Staged(q)' = Staged(q) /\ Staged(p)' = Staged(p)
  BY <1>1, <1>2, Counters DEF PollCopy, Landed, Posted, Staged, Publishing, Sending
<1>4. /\ Len(link[p]) \in Nat /\ Len(link[p]) > 0 /\ m = link[p][1]
      /\ Len(link'[p]) = Len(link[p]) - 1
      /\ \A i \in 1..Len(link'[p]) : link'[p][i] = link[p][i + 1]
  BY <1>2
<1>5. Carries(m, k)
  BY <1>1, <1>3, <1>4 DEF Content, LinkContent
<1>6. k \in 1..Rounds /\ k <= done[q] + 2 /\ done[q] \in Int /\ Slot(k) \in Slots
  <2>1. /\ Landed(q) + Len(link[p]) = Posted(p) /\ Posted(p) <= done[q] + 2
        /\ Posted(p) <= posted[p]
    BY <1>1, SlotSpread, PostedLanded DEF Content, Exact, ContentInv
  <2>2. /\ Posted(p) \in Int /\ posted[p] \in 0..Rounds /\ rcvd[q] \in 0..Rounds
        /\ done[q] \in Int
    BY <1>1, Counters, PostedLanded
  <2>3. k \in 1..Rounds /\ k <= done[q] + 2
    <3> DEFINE L == Len(link[p])
    <3>1. L \in Int /\ L > 0 /\ Landed(q) = k - 1 /\ k \in Int /\ 1 <= k
      BY <1>3, <1>4, <2>2
    <3>2. (k - 1) + L = Posted(p) /\ Posted(p) <= done[q] + 2 /\ Posted(p) <= Rounds
      BY <2>1, <2>2, <3>1
    <3> HIDE DEF k, L
    <3> QED
      BY <2>2, <3>1, <3>2
  <2> QED
    BY <2>2, <2>3, SlotType
<1>7. Exact(p)' /\ LinkContent(p)'
  <2>1. Exact(p)'
    <3>1. (k - 1) + Len(link[p]) = Posted(p)
      BY <1>1, <1>3 DEF Content, Exact
    <3>2. k + Len(link'[p]) = Posted(p)
      BY <1>3, <1>4, <3>1
    <3> QED
      BY <1>1, <1>3, <3>2 DEF Exact
  <2>2. ASSUME NEW i \in 1..Len(link'[p]) PROVE Carries(link'[p][i], k + i)
    <3>1. i + 1 \in 1..Len(link[p]) /\ Landed(q) + (i + 1) = k + i
      BY <1>3, <1>4
    <3> QED
      BY <1>1, <1>4, <3>1 DEF Content, LinkContent
  <2> QED
    BY <1>1, <1>2, <1>3, <2>1, <2>2 DEF LinkContent, Carries, OverSends
<1>8. Exact(q)' /\ LinkContent(q)'
  BY <1>1, <1>2, <1>3 DEF Content, Exact, LinkContent, Carries, OverSends
<1>9. RecvContent(q)'
  <2>1. /\ recvBuf'[q][Slot(k)] = Overlay(recvBuf[q][Slot(k)], m.n, m.body)
        /\ \A s \in Slots : s # Slot(k) => recvBuf'[q][s] = recvBuf[q][s]
    BY <1>1, <1>6 DEF PollCopy, TypeOK
  <2>2. ASSUME OverSends(k) PROVE \A c \in 1..len[k] : recvBuf'[q][Slot(k)][c] = k
    <3>1. /\ len[k] \in 1..MaxSize /\ len[k] <= m.n /\ m.n \in Int
          /\ \A c \in 1..len[k] : c <= m.n => m.body[c] = k
      <4>1. m \in Message
        BY <1>2
      <4> QED
        BY SMTT(20), <1>1, <1>5, <1>6, <2>2, <4>1, LenType DEF Carries, Message, Chunks
    <3> QED
      BY <2>1, <3>1 DEF Overlay, Chunks
  <2>3. ASSUME NEW j \in 1..Rounds, done[q] < j, j < k, OverSends(j)
        PROVE  \A c \in 1..len[j] : recvBuf'[q][Slot(j)][c] = j
    <3>1. k = j + 1 /\ j <= Landed(q)
      BY <1>3, <1>6, <2>3
    <3>2. Slot(j) # Slot(k) /\ Slot(j) \in Slots
      BY <3>1, SlotsDiffer, SlotType
    <3> QED
      BY <1>1, <2>1, <2>3, <3>1, <3>2 DEF Content, RecvContent, Holds
  <2>4. ASSUME NEW j \in 1..Rounds, done[q] < j, j <= k, OverSends(j)
        PROVE  \A c \in 1..len[j] : recvBuf'[q][Slot(j)][c] = j
    <3>1. j = k \/ j < k
      BY <1>6, <2>4
    <3> QED
      BY <2>2, <2>3, <2>4, <3>1
  <2> QED
    BY <1>2, <1>3, <2>4 DEF RecvContent, Holds, OverSends
<1>10. RecvContent(p)'
  BY <1>1, <1>2, <1>3 DEF Content, RecvContent, Holds, OverSends
<1>11. r \in {p, q}
  BY DEF Ranks, Peer
<1>12. SendContent(r)' /\ OutContent(r)'
  BY <1>1, <1>2, <1>3, <1>11 DEF Content, SendContent, OutContent, Holds, OverSends, RightSum
<1> QED
  BY <1>7, <1>8, <1>9, <1>10, <1>11, <1>12 DEF Content

LEMMA ContentStep ==
  ASSUME ContentInv, [Next]_vars, NothingLost PROVE ContentInv'
<1>1. ControlInv /\ SlotInv'
  BY PublishedStep DEF ContentInv, SlotInv, NothingLost
<1>2. ASSUME NEW q \in Ranks PROVE ~WaitTimeout(q) /\ ~PostRoundFails(q) /\ ~Lose(q)
  BY DEF NothingLost, WaitTimeout, PostRoundFails, Lose
<1>3. ASSUME NEW q \in Ranks, Host(q) \/ Gpu(q) \/ Thread(q), NEW r \in Ranks
      PROVE  Content(r)'
  <2>1. \/ Copy(q) \/ Add(q) \/ PostRound(q) \/ PollCopy(q)
        \/ Host(q) \/ RingDoorbell(q) \/ SeeFlag(q)
        \/ LoadDoorbell(q) \/ StartPost(q) \/ PollEmpty(q) \/ PollPublish(q)
        \/ PollFails(q) \/ ThreadExit(q)
    BY <1>2, <1>3 DEF Gpu, Thread
  <2> QED
    BY <1>1, <2>1, ContentCopy, ContentAdd, ContentPostRound, ContentPollCopy, StillSteps,
       ContentStill
<1>4. ASSUME UNCHANGED vars, NEW r \in Ranks PROVE Content(r)'
  <2>1. Still
    BY <1>4 DEF vars, gpuVars, threadVars, Still, Posted, Landed, Staged, Sending, Publishing
  <2> QED
    BY <2>1, ContentStill
<1> QED
  BY <1>1, <1>2, <1>3, <1>4 DEF Next, ContentInv

THEOREM ContentInvariant == ASSUME NothingLost PROVE Spec => []ContentInv
BY ContentInit, ContentStep, PTL DEF Spec

LEMMA ContentInvImplies == ContentInv => SumCorrect /\ MessageIsRound
<1> SUFFICES ASSUME ContentInv PROVE SumCorrect /\ MessageIsRound
  OBVIOUS
<1>1. TypeOK /\ \A r \in Ranks : Content(r)
  BY DEF ContentInv, SlotInv, ControlInv
<1>2. SumCorrect
  <2>1. ASSUME NEW r \in Ranks, NEW k \in 1..done[r], OverSends(k) PROVE RightSum(r, k)
    <3>1. done[r] \in 0..Rounds
      BY <1>1, Counters
    <3>2. k \in 1..Rounds /\ k <= done[r]
      BY <3>1
    <3> QED
      BY <1>1, <2>1, <3>2 DEF Content, OutContent
  <2> QED
    BY <2>1 DEF SumCorrect
<1>3. ASSUME NEW r \in Ranks, NEW i \in 1..Len(link[r])
      PROVE  link[r][i].body[1] = Landed(Peer(r)) + i
  <2> DEFINE k == Landed(Peer(r)) + i
  <2>1. Carries(link[r][i], k)
    BY <1>1 DEF Content, LinkContent
  <2>2. k \in 1..Rounds
    <3>1. /\ Landed(Peer(r)) + Len(link[r]) = Posted(r) /\ Posted(r) <= posted[r]
          /\ posted[r] \in 0..Rounds /\ Posted(r) \in Int
          /\ rcvd[Peer(r)] \in 0..Rounds /\ rcvd[Peer(r)] <= Landed(Peer(r))
          /\ Landed(Peer(r)) \in Int /\ Len(link[r]) \in Nat
      BY <1>1, Counters, PostedLanded, RankPeer DEF Content, Exact
    <3> QED
      BY <3>1
  <2>3. link[r] \in Seq(Message)
    BY <1>1, Counters
  <2>4. link[r][i] \in Message
    BY <2>3
  <2>5. 1 \in 1..len[k] /\ 1 <= link[r][i].n
    BY <1>1, <2>2, <2>4, LenType DEF Message, Chunks
  <2> QED
    BY <2>1, <2>5 DEF Carries
<1> QED
  BY <1>2, <1>3 DEF MessageIsRound, Landed

\* Every completed round added the peer's data of that very round, whole unless
\* the next round is smaller.
THEOREM SumsCorrect == ASSUME NothingLost PROVE Spec => []SumCorrect
BY ContentInvariant, ContentInvImplies, PTL

\* The stream between the ranks carries exactly the expected rounds, in order.
THEOREM MessagesAreRounds == ASSUME NothingLost PROVE Spec => []MessageIsRound
BY ContentInvariant, ContentInvImplies, PTL

-----------------------------------------------------------------------------
(***************************************************************************)
(* Refinement.  The two ranks implement the lock-step sum: the copy kernel *)
(* contributes, the wait+add kernel completes, every other step stutters.  *)
(***************************************************************************)
Contributed == [r \in Ranks |-> Staged(r)]
Added ==
  [r \in Ranks |->
     [k \in 1..done[r] |-> IF OverSends(k) => RightSum(r, k) THEN k ELSE 0]]

LEMMA AddedIsRounds ==
  ASSUME ContentInv PROVE Added = [r \in Ranks |-> [k \in 1..done[r] |-> k]]
<1>1. ASSUME NEW r \in Ranks, NEW k \in 1..done[r]
      PROVE  OverSends(k) => RightSum(r, k)
  BY ContentInvImplies DEF SumCorrect
<1> QED
  BY <1>1 DEF Added

LEMMA RefineInit == Init => Lockstep!Init
BY DEF Init, Lockstep!Init, Lockstep!Ranks, Ranks, Staged

LEMMA RefineCopy ==
  ASSUME ContentInv, NEW q \in Ranks, Copy(q) PROVE Lockstep!Contribute(q)
<1>1. TypeOK /\ ControlInv
  BY DEF ContentInv, SlotInv, ControlInv
<1>2. /\ gpuPc[q] = "copy" /\ gpuPc' = [gpuPc EXCEPT ![q] = "doorbell"]
      /\ gpuPc \in [Ranks -> {"copy", "doorbell", "wait", "add"}]
      /\ done' = done /\ out' = out /\ len' = len
      /\ done[q] + 1 \in 1..Rounds /\ done[q] \in 0..Rounds
  <2>1. done[q] + 1 \in 1..Rounds /\ done[q] \in 0..Rounds
    BY <1>1, NextRound, Counters DEF Copy
  <2> QED
    BY <1>1, <2>1 DEF Copy, TypeOK
<1>3. Contributed' = [Contributed EXCEPT ![q] = @ + 1]
  BY <1>2 DEF Contributed, Staged
<1>4. Contributed[q] = done[q] /\ done[q] < Rounds
  BY <1>2 DEF Contributed, Staged
<1>5. Added' = Added
  BY <1>2 DEF Added, RightSum, OverSends
<1> QED
  BY <1>2, <1>3, <1>4, <1>5 DEF Lockstep!Contribute, Contributed, Added

LEMMA RefineAdd ==
  ASSUME ContentInv, NEW q \in Ranks, Add(q),
         Added' = [r \in Ranks |-> [k \in 1..done'[r] |-> k]]
  PROVE  Lockstep!Complete(q)
<1> DEFINE k == done[q] + 1
           p == Peer(q)
<1>1. /\ TypeOK /\ ControlInv /\ SlotInv /\ p \in Ranks /\ q = Peer(p)
  BY RankPeer DEF ContentInv, SlotInv, ControlInv
<1>2. /\ gpuPc[q] = "add" /\ gpuPc' = [gpuPc EXCEPT ![q] = "copy"]
      /\ done' = [done EXCEPT ![q] = k] /\ done \in [Ranks -> RoundNo]
      /\ gpuPc \in [Ranks -> {"copy", "doorbell", "wait", "add"}]
      /\ done[q] \in 0..Rounds
  <2>1. done[q] \in 0..Rounds
    BY <1>1, Counters
  <2> QED
    BY <1>1, <2>1 DEF Add, TypeOK
<1>3. k <= Staged(q) /\ Staged(q) = k
  BY <1>2 DEF Staged
<1>4. k <= Staged(p)
  <2>1. /\ done[q] < rcvd[q] /\ rcvd[q] <= Landed(q) /\ Landed(q) <= Posted(p)
        /\ Posted(p) <= doorbell[p].seq /\ doorbell[p].seq = Rung(p)
    BY <1>1, <1>2, PublishedInPace, Skew, PostedLanded DEF SlotInv, Published, ControlInv, Control
  <2>2. Rung(p) <= Staged(p)
    BY <1>1, Counters DEF Rung, Staged
  <2>3. /\ done[q] \in Int /\ rcvd[q] \in Int /\ Landed(q) \in Int /\ Posted(p) \in Int
        /\ doorbell[p].seq \in Int /\ Staged(p) \in Int
    BY <1>1, Counters, PostedLanded, StagedType
  <2> QED
    BY <2>1, <2>2, <2>3
<1>5. Contributed' = Contributed
  <2>1. ASSUME NEW r \in Ranks PROVE Staged(r)' = Staged(r)
    BY <1>2, <1>3 DEF Staged
  <2> QED
    BY <2>1 DEF Contributed
<1>6. Added' = [Added EXCEPT ![q] = Append(@, k)]
  <2>1. Added = [r \in Ranks |-> [j \in 1..done[r] |-> j]]
    BY AddedIsRounds
  <2>2. [j \in 1..k |-> j] = Append([j \in 1..done[q] |-> j], k)
    BY <1>2
  <2> QED
    BY <1>2, <2>1, <2>2
<1> QED
  BY <1>1, <1>2, <1>3, <1>4, <1>5, <1>6
     DEF Lockstep!Complete, Lockstep!Peer, Peer, Contributed, Added

LEMMA RefineStill == ASSUME Still PROVE UNCHANGED <<Contributed, done, Added>>
BY DEF Still, Contributed, Added, RightSum, OverSends

LEMMA RefineStep ==
  ASSUME ContentInv, ContentInv', [Next]_vars, NothingLost,
         Added' = [r \in Ranks |-> [k \in 1..done'[r] |-> k]]
  PROVE  [Lockstep!Next]_(Lockstep!vars)
<1>1. ControlInv
  BY DEF ContentInv, SlotInv
<1>2. ASSUME NEW q \in Ranks PROVE ~WaitTimeout(q) /\ ~PostRoundFails(q) /\ ~Lose(q)
  BY DEF NothingLost, WaitTimeout, PostRoundFails, Lose
<1>3. ASSUME UNCHANGED <<Contributed, done, Added>> PROVE UNCHANGED Lockstep!vars
  BY <1>3 DEF Lockstep!vars, Contributed, Added
<1>4. CASE UNCHANGED vars
  <2>1. UNCHANGED <<Contributed, done, Added>>
    BY <1>4 DEF vars, gpuVars, Contributed, Added, Staged, RightSum, OverSends
  <2> QED
    BY <1>3, <2>1
<1>5. ASSUME NEW q \in Ranks, Copy(q) PROVE Lockstep!Next
  BY <1>5, RefineCopy DEF Lockstep!Next, Lockstep!Ranks, Ranks
<1>6. ASSUME NEW q \in Ranks, Add(q) PROVE Lockstep!Next
  BY <1>6, RefineAdd DEF Lockstep!Next, Lockstep!Ranks, Ranks
<1>7. ASSUME NEW q \in Ranks, PostRound(q) \/ PollCopy(q)
      PROVE  UNCHANGED <<Contributed, done, Added>>
  BY <1>7 DEF PostRound, PollCopy, gpuVars, Contributed, Added, Staged, RightSum, OverSends
<1>8. ASSUME NEW q \in Ranks,
             \/ Host(q) \/ RingDoorbell(q) \/ SeeFlag(q)
             \/ LoadDoorbell(q) \/ StartPost(q) \/ PollEmpty(q) \/ PollPublish(q)
             \/ PollFails(q) \/ ThreadExit(q)
      PROVE  UNCHANGED <<Contributed, done, Added>>
  BY <1>1, <1>8, StillSteps, RefineStill
<1> QED
  BY <1>2, <1>3, <1>4, <1>5, <1>6, <1>7, <1>8 DEF Next, Gpu, Thread

\* With nothing lost, the GPU kernels, progress
\* threads and link of both ranks together implement the abstract lock-step sum.
THEOREM ImplementsLockstep ==
  ASSUME NothingLost PROVE Spec => LockstepSpec
<1> DEFINE Rounded == Added = [r \in Ranks |-> [k \in 1..done[r] |-> k]]
<1>1. Init => Lockstep!Init
  BY RefineInit
<1>2. ContentInv /\ ContentInv' /\ Rounded' /\ [Next]_vars => [Lockstep!Next]_(Lockstep!vars)
  BY RefineStep
<1>3. ContentInv => Rounded
  BY AddedIsRounds
<1> HIDE DEF Rounded
<1>4. Spec => []ContentInv
  BY ContentInvariant
<1> QED
  BY <1>1, <1>2, <1>3, <1>4, PTL DEF Spec, LockstepSpec, Lockstep!Spec
=============================================================================
