------------------------------- MODULE OdlAr2 -------------------------------
(***************************************************************************)
(* The two-rank all-reduce of container/native/odl_ar2.hip together with   *)
(* its caller, OdlAllReduce2.all_reduce_out in odl_ar2.py.                 *)
(*                                                                         *)
(* Per rank three agents run concurrently: the host thread that enqueues   *)
(* rounds, the GPU stream that runs [copy] -> [doorbell] -> [wait+add] for *)
(* each round, and the CPU progress thread that posts what the doorbell    *)
(* announces and receives what the peer sent.  They share pinned memory:   *)
(* two send slots, two receive slots with a flag each, the doorbell and    *)
(* two error latches.  The OdinLink stream is a FIFO queue per direction.  *)
(*                                                                         *)
(* Data is abstracted to its provenance: a slot is a sequence of MaxSize   *)
(* chunks, each holding the number of the round that last wrote it (0:     *)
(* never written, the memset of odl2_init).                                *)
(***************************************************************************)
EXTENDS Integers, Sequences

CONSTANTS
  Rounds,    \* bound: the number of rounds a run enqueues
  MaxSize,   \* slot capacity in chunks (ODL2_MAX_BYTES)
  Shapes,    \* the sequences of round sizes the program may issue
  Allowed    \* which of Events may happen to each rank

Events == {"timeout", "sendfail", "recvfail", "loss", "shutdown"}
Ranks == {0, 1}

ASSUME RoundsAssumption  == Rounds \in Nat
ASSUME MaxSizeAssumption == MaxSize \in Nat \ {0}
ASSUME ShapesAssumption  == Shapes \subseteq [1..Rounds -> 1..MaxSize]
ASSUME AllowedAssumption == Allowed \in [Ranks -> SUBSET Events]

Peer(r) == 1 - r

NSlots == 2
Slots == 0..(NSlots - 1)
Slot(k) == k % NSlots

RoundNo == 0..Rounds
Chunks == 1..MaxSize
Payload == [Chunks -> RoundNo]
Message == [n : Chunks, body : Payload]
Zeros == [c \in Chunks |-> 0]

\* A transfer of n chunks of data into slot leaves the slot's tail alone.
Overlay(slot, n, data) == [c \in Chunks |-> IF c <= n THEN data[c] ELSE slot[c]]
RoundData(k) == [c \in Chunks |-> k]

VARIABLES
  len,        \* size of each round; both ranks run the same program
  hostSeq,    \* rounds this rank's host has put on the stream
  hostPc,     \* "idle" or "clear": between the two halves of odl2_last_error
  errSeen,    \* what odl2_last_error read
  raised,     \* all_reduce_out raised RuntimeError
  gpuPc,      \* position of the stream inside round done + 1
  done,       \* rounds whose wait+add has finished
  doorbell,   \* [seq, n]
  sendBuf,    \* sendBuf[r][slot]
  recvBuf,    \* recvBuf[r][slot]
  recvFlag,   \* recvFlag[r][slot]
  out,        \* out[r][k]: the peer data that round k added
  kernelErr,  \* latch set by the wait+add kernel
  threadErr,  \* latch set by the progress thread
  threadPc,   \* position of the progress thread
  db,         \* its local copy of the doorbell
  posted,     \* its local counter of posted rounds
  rcvd,       \* its local counter of received rounds
  exiting,    \* progress_exit
  link        \* link[r]: messages rank r sent and its peer has not taken

hostVars   == <<hostSeq, hostPc, errSeen, raised>>
gpuVars    == <<gpuPc, done, doorbell, sendBuf, out>>
threadVars == <<threadPc, db, posted, rcvd>>
errVars    == <<kernelErr, threadErr>>
vars == <<len, hostVars, gpuVars, threadVars, errVars, recvBuf, recvFlag,
          exiting, link>>

(***************************************************************************)
(* The state after odl2_init returned 0 on both ranks: buffers zeroed, the *)
(* stream queues emptied by the self-test, both progress threads started.  *)
(***************************************************************************)
Init ==
  /\ len \in Shapes
  /\ hostSeq = [r \in Ranks |-> 0]
  /\ hostPc = [r \in Ranks |-> "idle"]
  /\ errSeen = [r \in Ranks |-> FALSE]
  /\ raised = [r \in Ranks |-> FALSE]
  /\ gpuPc = [r \in Ranks |-> "copy"]
  /\ done = [r \in Ranks |-> 0]
  /\ doorbell = [r \in Ranks |-> [seq |-> 0, n |-> 0]]
  /\ sendBuf = [r \in Ranks |-> [s \in Slots |-> Zeros]]
  /\ recvBuf = [r \in Ranks |-> [s \in Slots |-> Zeros]]
  /\ recvFlag = [r \in Ranks |-> [s \in Slots |-> 0]]
  /\ out = [r \in Ranks |-> [k \in 1..Rounds |-> Zeros]]
  /\ kernelErr = [r \in Ranks |-> FALSE]
  /\ threadErr = [r \in Ranks |-> FALSE]
  /\ threadPc = [r \in Ranks |-> "load"]
  /\ db = [r \in Ranks |-> [seq |-> 0, n |-> 0]]
  /\ posted = [r \in Ranks |-> 0]
  /\ rcvd = [r \in Ranks |-> 0]
  /\ exiting = [r \in Ranks |-> FALSE]
  /\ link = [r \in Ranks |-> << >>]

-----------------------------------------------------------------------------
(* Host thread *)

\* all_reduce_out calls odl2_last_error, which first reads both latches ...
ReadError(r) ==
  /\ hostPc[r] = "idle" /\ ~raised[r] /\ ~exiting[r] /\ hostSeq[r] < Rounds
  /\ errSeen' = [errSeen EXCEPT ![r] = kernelErr[r] \/ threadErr[r]]
  /\ hostPc' = [hostPc EXCEPT ![r] = "clear"]
  /\ UNCHANGED <<len, hostSeq, raised, gpuVars, threadVars, errVars, recvBuf,
                 recvFlag, exiting, link>>

\* ... and then clears them; the call raises, or enqueues the next round.
ClearErrorAndEnqueue(r) ==
  /\ hostPc[r] = "clear"
  /\ kernelErr' = [kernelErr EXCEPT ![r] = FALSE]
  /\ threadErr' = [threadErr EXCEPT ![r] = FALSE]
  /\ hostPc' = [hostPc EXCEPT ![r] = "idle"]
  /\ IF errSeen[r]
       THEN raised' = [raised EXCEPT ![r] = TRUE] /\ UNCHANGED hostSeq
       ELSE hostSeq' = [hostSeq EXCEPT ![r] = @ + 1] /\ UNCHANGED raised
  /\ UNCHANGED <<len, errSeen, gpuVars, threadVars, recvBuf, recvFlag, exiting,
                 link>>

\* odl2_shutdown, called as its comment asks: no enqueued work is left.
Shutdown(r) ==
  /\ "shutdown" \in Allowed[r]
  /\ hostPc[r] = "idle" /\ ~exiting[r] /\ done[r] = hostSeq[r]
  /\ exiting' = [exiting EXCEPT ![r] = TRUE]
  /\ UNCHANGED <<len, hostVars, gpuVars, threadVars, errVars, recvBuf,
                 recvFlag, link>>

-----------------------------------------------------------------------------
(* GPU stream: the three operations of round done[r] + 1, in order *)

Copy(r) ==
  LET k == done[r] + 1 IN
  /\ gpuPc[r] = "copy" /\ done[r] < hostSeq[r]
  /\ sendBuf' = [sendBuf EXCEPT ![r][Slot(k)] = Overlay(@, len[k], RoundData(k))]
  /\ gpuPc' = [gpuPc EXCEPT ![r] = "doorbell"]
  /\ UNCHANGED <<len, hostVars, done, doorbell, out, threadVars, errVars,
                 recvBuf, recvFlag, exiting, link>>

RingDoorbell(r) ==
  LET k == done[r] + 1 IN
  /\ gpuPc[r] = "doorbell"
  /\ doorbell' = [doorbell EXCEPT ![r] = [seq |-> k, n |-> len[k]]]
  /\ gpuPc' = [gpuPc EXCEPT ![r] = "wait"]
  /\ UNCHANGED <<len, hostVars, done, sendBuf, out, threadVars, errVars,
                 recvBuf, recvFlag, exiting, link>>

\* Bug variant: the flag left by the slot's previous round is accepted.
SeeFlag_StaleFlag(r) ==
  LET k == done[r] + 1 IN
  /\ gpuPc[r] = "wait"
  /\ recvFlag[r][Slot(k)] >= k - NSlots
  /\ gpuPc' = [gpuPc EXCEPT ![r] = "add"]
  /\ UNCHANGED <<len, hostVars, done, doorbell, sendBuf, out, threadVars,
                 errVars, recvBuf, recvFlag, exiting, link>>

SeeFlag(r) ==
  LET k == done[r] + 1 IN
  /\ gpuPc[r] = "wait"
  /\ recvFlag[r][Slot(k)] >= k
  /\ gpuPc' = [gpuPc EXCEPT ![r] = "add"]
  /\ UNCHANGED <<len, hostVars, done, doorbell, sendBuf, out, threadVars,
                 errVars, recvBuf, recvFlag, exiting, link>>

\* Bug variant: the spin latches the error but never leaves its loop.
WaitTimeout_NoBreak(r) ==
  LET k == done[r] + 1 IN
  /\ "timeout" \in Allowed[r]
  /\ gpuPc[r] = "wait"
  /\ recvFlag[r][Slot(k)] < k
  /\ kernelErr' = [kernelErr EXCEPT ![r] = TRUE]
  /\ UNCHANGED <<len, hostVars, gpuVars, threadVars, threadErr, recvBuf,
                 recvFlag, exiting, link>>

\* The bounded spin gives up: latch the error and add whatever is there.
WaitTimeout(r) ==
  LET k == done[r] + 1 IN
  /\ "timeout" \in Allowed[r]
  /\ gpuPc[r] = "wait"
  /\ recvFlag[r][Slot(k)] < k
  /\ kernelErr' = [kernelErr EXCEPT ![r] = TRUE]
  /\ gpuPc' = [gpuPc EXCEPT ![r] = "add"]
  /\ UNCHANGED <<len, hostVars, done, doorbell, sendBuf, out, threadVars,
                 threadErr, recvBuf, recvFlag, exiting, link>>

Add(r) ==
  LET k == done[r] + 1 IN
  /\ gpuPc[r] = "add"
  /\ out' = [out EXCEPT ![r][k] = Overlay(Zeros, len[k], recvBuf[r][Slot(k)])]
  /\ done' = [done EXCEPT ![r] = k]
  /\ gpuPc' = [gpuPc EXCEPT ![r] = "copy"]
  /\ UNCHANGED <<len, hostVars, doorbell, sendBuf, threadVars, errVars,
                 recvBuf, recvFlag, exiting, link>>

-----------------------------------------------------------------------------
(* Progress thread: progress_main, post_round, poll_recv *)

LoadDoorbell(r) ==
  /\ threadPc[r] = "load" /\ ~exiting[r]
  /\ db' = [db EXCEPT ![r] = doorbell[r]]
  /\ threadPc' = [threadPc EXCEPT ![r] =
                    IF doorbell[r].seq > posted[r] THEN "post" ELSE "recv"]
  /\ UNCHANGED <<len, hostVars, gpuVars, posted, rcvd, errVars, recvBuf,
                 recvFlag, exiting, link>>

\* Bug variant: only the latest round the doorbell announced is posted.
StartPost_OnlyLatest(r) ==
  /\ threadPc[r] = "post"
  /\ posted' = [posted EXCEPT ![r] = db[r].seq]
  /\ threadPc' = [threadPc EXCEPT ![r] = "sending"]
  /\ UNCHANGED <<len, hostVars, gpuVars, db, rcvd, errVars, recvBuf, recvFlag,
                 exiting, link>>

\* posted++ comes before the send it counts.
StartPost(r) ==
  /\ threadPc[r] = "post"
  /\ posted' = [posted EXCEPT ![r] = @ + 1]
  /\ threadPc' = [threadPc EXCEPT ![r] = "sending"]
  /\ UNCHANGED <<len, hostVars, gpuVars, db, rcvd, errVars, recvBuf, recvFlag,
                 exiting, link>>

\* Bug variant: every replayed round is read from the latest round's slot.
PostRound_LatestSlot(r) ==
  /\ threadPc[r] = "sending"
  /\ LET n == db[r].n
         body == Overlay(Zeros, n, sendBuf[r][Slot(db[r].seq)])
     IN  link' = [link EXCEPT ![r] = Append(@, [n |-> n, body |-> body])]
  /\ threadPc' = [threadPc EXCEPT ![r] =
                    IF posted[r] < db[r].seq THEN "post" ELSE "recv"]
  /\ UNCHANGED <<len, hostVars, gpuVars, db, posted, rcvd, errVars, recvBuf,
                 recvFlag, exiting>>

\* stream_send copies the first db.n chunks of the slot into DMA frames; every
\* replayed round is sent with the size the latest doorbell carried.
PostRound(r) ==
  /\ threadPc[r] = "sending"
  /\ LET n == db[r].n
         body == Overlay(Zeros, n, sendBuf[r][Slot(posted[r])])
     IN  link' = [link EXCEPT ![r] = Append(@, [n |-> n, body |-> body])]
  /\ threadPc' = [threadPc EXCEPT ![r] =
                    IF posted[r] < db[r].seq THEN "post" ELSE "recv"]
  /\ UNCHANGED <<len, hostVars, gpuVars, db, posted, rcvd, errVars, recvBuf,
                 recvFlag, exiting>>

\* stream_send fails, or the frame pool stays empty for 2 s: latch and break.
PostRoundFails(r) ==
  /\ "sendfail" \in Allowed[r]
  /\ threadPc[r] = "sending"
  /\ threadErr' = [threadErr EXCEPT ![r] = TRUE]
  /\ threadPc' = [threadPc EXCEPT ![r] = "recv"]
  /\ UNCHANGED <<len, hostVars, gpuVars, db, posted, rcvd, kernelErr, recvBuf,
                 recvFlag, exiting, link>>

\* Bug variant: -EAGAIN is taken for a landed round.
PollEmpty_CountsAsRound(r) ==
  /\ threadPc[r] = "recv" /\ link[Peer(r)] = << >>
  /\ threadPc' = [threadPc EXCEPT ![r] = "publish"]
  /\ UNCHANGED <<len, hostVars, gpuVars, db, posted, rcvd, errVars, recvBuf,
                 recvFlag, exiting, link>>

\* poll_recv with nothing pending (-EAGAIN)
PollEmpty(r) ==
  /\ threadPc[r] = "recv" /\ link[Peer(r)] = << >>
  /\ threadPc' = [threadPc EXCEPT ![r] = "load"]
  /\ UNCHANGED <<len, hostVars, gpuVars, db, posted, rcvd, errVars, recvBuf,
                 recvFlag, exiting, link>>

\* Bug variant: the message is copied out but left on the queue.
PollCopy_KeepsMessage(r) ==
  LET k == rcvd[r] + 1
      m == Head(link[Peer(r)]) IN
  /\ threadPc[r] = "recv" /\ link[Peer(r)] # << >>
  /\ recvBuf' = [recvBuf EXCEPT ![r][Slot(k)] = Overlay(@, m.n, m.body)]
  /\ threadPc' = [threadPc EXCEPT ![r] = "publish"]
  /\ UNCHANGED <<len, hostVars, gpuVars, db, posted, rcvd, errVars, recvFlag,
                 exiting, link>>

\* stream_recv copies the message into the slot of round rcvd + 1 ...
PollCopy(r) ==
  LET k == rcvd[r] + 1
      m == Head(link[Peer(r)]) IN
  /\ threadPc[r] = "recv" /\ link[Peer(r)] # << >>
  /\ recvBuf' = [recvBuf EXCEPT ![r][Slot(k)] = Overlay(@, m.n, m.body)]
  /\ link' = [link EXCEPT ![Peer(r)] = Tail(@)]
  /\ threadPc' = [threadPc EXCEPT ![r] = "publish"]
  /\ UNCHANGED <<len, hostVars, gpuVars, db, posted, rcvd, errVars, recvFlag,
                 exiting>>

\* Bug variant: the flag of the other slot is stored.
PollPublish_WrongFlag(r) ==
  LET k == rcvd[r] + 1 IN
  /\ threadPc[r] = "publish"
  /\ recvFlag' = [recvFlag EXCEPT ![r][Slot(k + 1)] = k]
  /\ rcvd' = [rcvd EXCEPT ![r] = k]
  /\ threadPc' = [threadPc EXCEPT ![r] = "load"]
  /\ UNCHANGED <<len, hostVars, gpuVars, db, posted, errVars, recvBuf, exiting,
                 link>>

\* ... and the release store of the flag publishes it.
PollPublish(r) ==
  LET k == rcvd[r] + 1 IN
  /\ threadPc[r] = "publish"
  /\ recvFlag' = [recvFlag EXCEPT ![r][Slot(k)] = k]
  /\ rcvd' = [rcvd EXCEPT ![r] = k]
  /\ threadPc' = [threadPc EXCEPT ![r] = "load"]
  /\ UNCHANGED <<len, hostVars, gpuVars, db, posted, errVars, recvBuf, exiting,
                 link>>

PollFails(r) ==
  /\ "recvfail" \in Allowed[r]
  /\ threadPc[r] = "recv"
  /\ threadErr' = [threadErr EXCEPT ![r] = TRUE]
  /\ threadPc' = [threadPc EXCEPT ![r] = "load"]
  /\ UNCHANGED <<len, hostVars, gpuVars, db, posted, rcvd, kernelErr, recvBuf,
                 recvFlag, exiting, link>>

ThreadExit(r) ==
  /\ threadPc[r] = "load" /\ exiting[r]
  /\ threadPc' = [threadPc EXCEPT ![r] = "exit"]
  /\ UNCHANGED <<len, hostVars, gpuVars, db, posted, rcvd, errVars, recvBuf,
                 recvFlag, exiting, link>>

-----------------------------------------------------------------------------
(* Link: the driver drops a message one of whose fragments was lost *)
Lose(r) ==
  /\ "loss" \in Allowed[r]
  /\ link[r] # << >>
  /\ link' = [link EXCEPT ![r] = Tail(@)]
  /\ UNCHANGED <<len, hostVars, gpuVars, threadVars, errVars, recvBuf,
                 recvFlag, exiting>>

-----------------------------------------------------------------------------
Host(r)   == ReadError(r) \/ ClearErrorAndEnqueue(r) \/ Shutdown(r)
Gpu(r)    == Copy(r) \/ RingDoorbell(r) \/ SeeFlag(r) \/ WaitTimeout(r) \/ Add(r)
Thread(r) == \/ LoadDoorbell(r) \/ StartPost(r) \/ PostRound(r)
             \/ PostRoundFails(r) \/ PollEmpty(r) \/ PollCopy(r)
             \/ PollPublish(r) \/ PollFails(r) \/ ThreadExit(r)

Next == \E r \in Ranks : Host(r) \/ Gpu(r) \/ Thread(r) \/ Lose(r)

Spec == Init /\ [][Next]_vars

(***************************************************************************)
(* The GPU executes what is on its stream and the progress thread is never *)
(* blocked (the device is opened O_NONBLOCK), so both keep stepping.  The  *)
(* host calls when the model does: no fairness, except that a call once    *)
(* begun returns.                                                          *)
(***************************************************************************)
Fairness == \A r \in Ranks : /\ WF_vars(Gpu(r))
                             /\ WF_vars(Thread(r))
                             /\ WF_vars(ClearErrorAndEnqueue(r))
FairSpec == Spec /\ Fairness

-----------------------------------------------------------------------------
(* Properties *)

\* Every variable keeps its shape.
TypeOK ==
  /\ len \in Shapes
  /\ hostSeq \in [Ranks -> RoundNo]
  /\ hostPc \in [Ranks -> {"idle", "clear"}]
  /\ errSeen \in [Ranks -> BOOLEAN]
  /\ raised \in [Ranks -> BOOLEAN]
  /\ gpuPc \in [Ranks -> {"copy", "doorbell", "wait", "add"}]
  /\ done \in [Ranks -> RoundNo]
  /\ doorbell \in [Ranks -> [seq : RoundNo, n : 0..MaxSize]]
  /\ sendBuf \in [Ranks -> [Slots -> Payload]]
  /\ recvBuf \in [Ranks -> [Slots -> Payload]]
  /\ recvFlag \in [Ranks -> [Slots -> RoundNo]]
  /\ out \in [Ranks -> [1..Rounds -> Payload]]
  /\ kernelErr \in [Ranks -> BOOLEAN]
  /\ threadErr \in [Ranks -> BOOLEAN]
  /\ threadPc \in [Ranks -> {"load", "post", "sending", "recv", "publish", "exit"}]
  /\ db \in [Ranks -> [seq : RoundNo, n : 0..MaxSize]]
  /\ posted \in [Ranks -> RoundNo]
  /\ rcvd \in [Ranks -> RoundNo]
  /\ exiting \in [Ranks -> BOOLEAN]
  /\ link \in [Ranks -> Seq(Message)]

Publishing(r) == IF threadPc[r] = "publish" THEN 1 ELSE 0
Sending(r)    == IF threadPc[r] = "sending" THEN 1 ELSE 0

\* "An arriving message never overwrites a slot the GPU still reads": the
\* message being written into the slot of round rcvd + 1 finds the previous
\* user of that slot, NSlots rounds earlier, already added.
RecvSlotSafe ==
  \A r \in Ranks : rcvd[r] + Publishing(r) <= done[r] + NSlots

\* The stream copies round k into a send slot only when the round NSlots
\* earlier, the slot's previous user, has left it through stream_send.
SendSlotSafe ==
  \A r \in Ranks :
    gpuPc[r] # "copy" => done[r] + 1 <= posted[r] - Sending(r) + NSlots

\* Neither rank completes a round the other has not started: the collective
\* keeps the two streams within one round of each other.
RanksInStep ==
  \A r \in Ranks : done[r] <= done[Peer(r)] + 1

\* While no wait gives up: the slots of both directions are safe to reuse and
\* the ranks in step.
SlotsSafe == RecvSlotSafe /\ SendSlotSafe /\ RanksInStep

\* "Message k on the stream IS round k": the queue from r holds exactly the
\* rounds its peer expects next, in order.
MessageIsRound ==
  \A r \in Ranks : \A i \in 1..Len(link[r]) :
    link[r][i].body[1] = rcvd[Peer(r)] + Publishing(Peer(r)) + i

\* What a completed round added is the peer's data of that very round, over
\* the whole length of the round.
RightSum(r, k) == out[r][k] = Overlay(Zeros, len[k], RoundData(k))

\* A round is replayed with the size of at most one later doorbell, so it is
\* whole whenever the next round is not the smaller of the two.
OverSends(k) == k = Rounds \/ len[k] <= len[k + 1]

SumCorrect ==
  \A r \in Ranks : \A k \in 1..done[r] : OverSends(k) => RightSum(r, k)

\* The stronger claim of the comment on the replay loop: whatever the sizes,
\* every completed round is right.
SumAlwaysCorrect ==
  \A r \in Ranks : \A k \in 1..done[r] : RightSum(r, k)

\* A round both hosts enqueued completes on both ranks.
RoundsComplete ==
  \A k \in 1..Rounds :
    (\A r \in Ranks : hostSeq[r] >= k) ~> (\A r \in Ranks : done[r] >= k)

\* The abstract collective: a rank contributes when the copy kernel has staged
\* its data, and completes when the wait+add kernel ends.
Staged(r) == IF gpuPc[r] = "copy" THEN done[r] ELSE done[r] + 1
Lockstep == INSTANCE LockstepSum WITH
  contributed <- [r \in Ranks |-> Staged(r)],
  completed   <- done,
  added       <- [r \in Ranks |->
                    [k \in 1..done[r] |->
                       IF OverSends(k) => RightSum(r, k) THEN k ELSE 0]]

\* With nothing failing the two ranks implement the lock-step sum, up to the
\* tail of a round that was replayed with the size of a smaller one.
LockstepSpec == Lockstep!Spec

\* Rank r has received every round it added, and the one it is adding.
InPace(r) == done[r] + (IF gpuPc[r] = "add" THEN 1 ELSE 0) <= rcvd[r]

\* Whatever was lost, failed or timed out before: once neither rank is ahead of
\* what it received, no slot is reused early and the ranks are in step again.
SlotsSafeInPace ==
  (\A r \in Ranks : InPace(r)) => RecvSlotSafe /\ SendSlotSafe /\ RanksInStep

\* A dead or failing peer never wedges a GPU stream: what was enqueued ends.
SurvivorFairness == WF_vars(Gpu(0))
SurvivorSpec == Spec /\ SurvivorFairness
NeverWedged == []<>(done[0] = hostSeq[0])
=============================================================================
