------------------------------- MODULE ShmRing ------------------------------
(***************************************************************************)
(* The local plane of MessageQueue in shm_broadcast.py: one writer process *)
(* and n_local_reader reader processes over a ring of max_chunks blocks in *)
(* shared memory, without locks.                                           *)
(*                                                                         *)
(* A block carries a written flag and one read flag per reader.  Idle      *)
(* readers park on a zmq socket the writer pings after each enqueue; a     *)
(* message too big for a block travels on a second socket and the block    *)
(* only says so.  Bytes are abstracted to the number of the message they   *)
(* belong to, time to a choice of whether a bounded wait has ended.        *)
(***************************************************************************)
EXTENDS Integers, Sequences

CONSTANTS
  Readers,     \* the local readers
  MaxChunks,   \* max_chunks, blocks in the ring
  ChunkBytes,  \* max_chunk_bytes
  MaxMsgs,     \* bound: messages the program enqueues
  Pickle,      \* Pickle[m]: sizes of what m pickles into
  Allowed      \* which of Events may happen

Events == {"lostnotify", "readtimeout", "writetimeout", "overflowtimeout",
           "badpickle", "shutdown"}

Messages == 1..MaxMsgs
Sizes == [main : Nat, oob : Nat, parts : Nat]

ASSUME MaxChunksAssumption  == MaxChunks \in Nat \ {0}
ASSUME ChunkBytesAssumption == ChunkBytes \in Nat
ASSUME MaxMsgsAssumption    == MaxMsgs \in Nat
ASSUME PickleAssumption     == Pickle \in [Messages -> Sizes]
ASSUME AllowedAssumption    == Allowed \subseteq Events

Blocks == 0..(MaxChunks - 1)

\* total_bytes + len(all_buffers[0]): 6, every out-of-band buffer with its
\* length word, and the main buffer.
Estimate(m) == 6 + Pickle[m].main + Pickle[m].oob + 4 * Pickle[m].parts

\* Bug variant: the bound is taken as inclusive.
Overflows_Inclusive(m) == Estimate(m) > ChunkBytes
Overflows(m) == Estimate(m) >= ChunkBytes

\* What the inline branch writes: flag, count, then each buffer with its length.
FrameBytes(m) == 3 + 4 * (1 + Pickle[m].parts) + Pickle[m].main + Pickle[m].oob

Expired == -1

Torn == [over |-> FALSE, msg |-> 0]
Content(m) == IF Overflows(m) THEN [over |-> TRUE, msg |-> 0]
                              ELSE [over |-> FALSE, msg |-> m]

VARIABLES
  written,   \* written[b]: the written flag of block b
  readFlag,  \* readFlag[b][r]: reader r's flag in block b
  data,      \* data[b]: what the bytes of block b say
  wpc,       \* position of the writer inside enqueue
  msg,       \* messages the program has passed to enqueue
  widx,      \* the writer's current_idx
  rpc,       \* rpc[r]: position of reader r inside dequeue
  ridx,      \* ridx[r]: its current_idx
  seenFlag,  \* seenFlag[r]: the read_flag that check() loaded
  buf,       \* buf[r]: what it read from the block
  shutting,  \* shutting[r]: shutting_down
  pinged,    \* pinged[r]: a notification waits in its (conflating) socket
  sock,      \* sock[r]: overflow messages waiting in its local_socket
  sent,      \* history: messages published
  got        \* history: got[r][j] is what r made of the j-th block, 0 if its
             \* message could not be decoded, Expired if none came in time

ringVars   == <<written, readFlag, data>>
writerVars == <<wpc, msg, widx>>
readerVars == <<rpc, ridx, seenFlag, buf>>
vars == <<ringVars, writerVars, readerVars, shutting, pinged, sock, sent, got>>

\* After the collective wait_until_ready: every reader is subscribed.
Init ==
  /\ written = [b \in Blocks |-> FALSE]
  /\ readFlag = [b \in Blocks |-> [r \in Readers |-> FALSE]]
  /\ data = [b \in Blocks |-> Torn]
  /\ wpc = "idle" /\ msg = 0 /\ widx = 0
  /\ rpc = [r \in Readers |-> "idle"]
  /\ ridx = [r \in Readers |-> 0]
  /\ seenFlag = [r \in Readers |-> FALSE]
  /\ buf = [r \in Readers |-> Torn]
  /\ shutting = [r \in Readers |-> FALSE]
  /\ pinged = [r \in Readers |-> FALSE]
  /\ sock = [r \in Readers |-> << >>]
  /\ sent = << >>
  /\ got = [r \in Readers |-> << >>]

-----------------------------------------------------------------------------
(* Writer: enqueue and acquire_write *)

StartEnqueue ==
  /\ wpc = "idle" /\ msg < MaxMsgs
  /\ msg' = msg + 1 /\ wpc' = "acquire"
  /\ UNCHANGED <<ringVars, widx, readerVars, shutting, pinged, sock, sent, got>>

\* check(): not written, or read by all.  The sum of the flags can only be
\* an underestimate, which repeats the check.
Writable(b) == ~written[b] \/ \A r \in Readers : readFlag[b][r]

\* Bug variant: one reader being done is enough.
Acquire_AnyReader ==
  /\ wpc = "acquire"
  /\ ~written[widx] \/ \E r \in Readers : readFlag[widx][r]
  /\ written' = [written EXCEPT ![widx] = FALSE]
  /\ wpc' = "fill"
  /\ UNCHANGED <<readFlag, data, msg, widx, readerVars, shutting, pinged, sock,
                 sent, got>>

Acquire ==
  /\ wpc = "acquire" /\ Writable(widx)
  /\ written' = [written EXCEPT ![widx] = FALSE]
  /\ wpc' = "fill"
  /\ UNCHANGED <<readFlag, data, msg, widx, readerVars, shutting, pinged, sock,
                 sent, got>>

\* The message of this call is given up; the caller sees TimeoutError.
WriteTimeout ==
  /\ "writetimeout" \in Allowed
  /\ wpc = "acquire" /\ ~Writable(widx)
  /\ wpc' = "idle"
  /\ UNCHANGED <<ringVars, msg, widx, readerVars, shutting, pinged, sock, sent,
                 got>>

\* buf[0] says overflow or inline ...
BeginFill ==
  /\ wpc = "fill"
  /\ data' = [data EXCEPT ![widx] = IF Overflows(msg) THEN Content(msg) ELSE Torn]
  /\ wpc' = IF Overflows(msg) THEN "clear" ELSE "filling"
  /\ UNCHANGED <<written, readFlag, msg, widx, readerVars, shutting, pinged,
                 sock, sent, got>>

\* ... and an inline message follows it.
EndFill ==
  /\ wpc = "filling"
  /\ data' = [data EXCEPT ![widx] = Content(msg)]
  /\ wpc' = "clear"
  /\ UNCHANGED <<written, readFlag, msg, widx, readerVars, shutting, pinged,
                 sock, sent, got>>

\* The read flags are cleared one by one, the block still unwritten.
ClearFlag(r) ==
  /\ wpc = "clear" /\ readFlag[widx][r]
  /\ readFlag' = [readFlag EXCEPT ![widx][r] = FALSE]
  /\ UNCHANGED <<written, data, writerVars, readerVars, shutting, pinged, sock,
                 sent, got>>

\* Bug variant: the read flags are left as they were.
Publish_StaleFlags ==
  /\ wpc = "clear"
  /\ written' = [written EXCEPT ![widx] = TRUE]
  /\ widx' = (widx + 1) % MaxChunks
  /\ sent' = Append(sent, msg)
  /\ wpc' = IF Overflows(msg) THEN "push" ELSE "notify"
  /\ UNCHANGED <<readFlag, data, msg, readerVars, shutting, pinged, sock, got>>

\* Bug variant: current_idx runs off the end of the ring.
Publish_NoWrap ==
  /\ wpc = "clear" /\ \A r \in Readers : ~readFlag[widx][r]
  /\ written' = [written EXCEPT ![widx] = TRUE]
  /\ widx' = widx + 1
  /\ sent' = Append(sent, msg)
  /\ wpc' = IF Overflows(msg) THEN "push" ELSE "notify"
  /\ UNCHANGED <<readFlag, data, msg, readerVars, shutting, pinged, sock, got>>

Publish ==
  /\ wpc = "clear" /\ \A r \in Readers : ~readFlag[widx][r]
  /\ written' = [written EXCEPT ![widx] = TRUE]
  /\ widx' = (widx + 1) % MaxChunks
  /\ sent' = Append(sent, msg)
  /\ wpc' = IF Overflows(msg) THEN "push" ELSE "notify"
  /\ UNCHANGED <<readFlag, data, msg, readerVars, shutting, pinged, sock, got>>

\* local_socket.send_multipart, after the block has been published
Push ==
  /\ wpc = "push"
  /\ sock' = [r \in Readers |-> Append(sock[r], msg)]
  /\ wpc' = "notify"
  /\ UNCHANGED <<ringVars, msg, widx, readerVars, shutting, pinged, sent, got>>

\* notify(): a PUB socket with a high water mark of 1 drops silently.
Notify ==
  /\ wpc = "notify"
  /\ \E lost \in SUBSET Readers :
       /\ lost # {} => "lostnotify" \in Allowed
       /\ pinged' = [r \in Readers |-> pinged[r] \/ r \notin lost]
  /\ wpc' = "idle"
  /\ UNCHANGED <<ringVars, msg, widx, readerVars, shutting, sock, sent, got>>

-----------------------------------------------------------------------------
(* Reader r: dequeue, acquire_read and SpinCondition.wait *)

StartDequeue(r) ==
  /\ rpc[r] = "idle"
  /\ rpc' = [rpc EXCEPT ![r] = "check"]
  /\ UNCHANGED <<ringVars, writerVars, ridx, seenFlag, buf, shutting, pinged,
                 sock, sent, got>>

\* check() loads this reader's flag first ...
LoadReadFlag(r) ==
  /\ rpc[r] = "check"
  /\ seenFlag' = [seenFlag EXCEPT ![r] = readFlag[ridx[r]][r]]
  /\ rpc' = [rpc EXCEPT ![r] = "check2"]
  /\ UNCHANGED <<ringVars, writerVars, ridx, buf, shutting, pinged, sock,
                 sent, got>>

\* ... then the written flag.
LoadWrittenFlag(r) ==
  /\ rpc[r] = "check2"
  /\ rpc' = [rpc EXCEPT ![r] =
               IF written[ridx[r]] /\ ~seenFlag[r] THEN "read" ELSE "wait"]
  /\ UNCHANGED <<ringVars, writerVars, ridx, seenFlag, buf, shutting,
                 pinged, sock, sent, got>>

\* timeout_ms() raises once the caller's deadline has passed.
ReadTimeout(r) ==
  /\ "readtimeout" \in Allowed
  /\ rpc[r] = "wait"
  /\ rpc' = [rpc EXCEPT ![r] = "idle"]
  /\ UNCHANGED <<ringVars, writerVars, ridx, seenFlag, buf, shutting,
                 pinged, sock, sent, got>>

\* wait() yields while the last read is recent, and polls otherwise.
Wait(r) ==
  /\ rpc[r] = "wait"
  /\ \E pc \in {"woken", "parked"} : rpc' = [rpc EXCEPT ![r] = pc]
  /\ UNCHANGED <<ringVars, writerVars, ridx, seenFlag, buf, shutting,
                 pinged, sock, sent, got>>

\* poll() ends by cancel(), by a ping, which is consumed, or after at most
\* SHM_READER_RECHECK_INTERVAL_MS.
Poll(r) ==
  /\ rpc[r] = "parked"
  /\ pinged' = [pinged EXCEPT ![r] = @ /\ shutting[r]]
  /\ rpc' = [rpc EXCEPT ![r] = "woken"]
  /\ UNCHANGED <<ringVars, writerVars, ridx, seenFlag, buf, shutting,
                 sock, sent, got>>

\* Bug variant: shutting_down is not looked at after the wait.
AfterWait_NoCancel(r) ==
  /\ rpc[r] = "woken"
  /\ rpc' = [rpc EXCEPT ![r] = "check"]
  /\ UNCHANGED <<ringVars, writerVars, ridx, seenFlag, buf, shutting,
                 pinged, sock, sent, got>>

AfterWait(r) ==
  /\ rpc[r] = "woken"
  /\ rpc' = [rpc EXCEPT ![r] = IF shutting[r] THEN "cancelled" ELSE "check"]
  /\ UNCHANGED <<ringVars, writerVars, ridx, seenFlag, buf, shutting,
                 pinged, sock, sent, got>>

ReadBlock(r) ==
  /\ rpc[r] = "read"
  /\ buf' = [buf EXCEPT ![r] = data[ridx[r]]]
  /\ rpc' = [rpc EXCEPT ![r] = "mark"]
  /\ UNCHANGED <<ringVars, writerVars, ridx, seenFlag, shutting, pinged,
                 sock, sent, got>>

\* The block is marked read whether or not its bytes could be unpickled.  An
\* overflow block sends the reader on to its socket.
MarkRead(r) ==
  LET m == buf[r].msg IN
  /\ rpc[r] = "mark"
  /\ readFlag' = [readFlag EXCEPT ![ridx[r]][r] = TRUE]
  /\ ridx' = [ridx EXCEPT ![r] = (@ + 1) % MaxChunks]
  /\ IF buf[r].over
       THEN rpc' = [rpc EXCEPT ![r] = "overflow"] /\ UNCHANGED got
       ELSE /\ rpc' = [rpc EXCEPT ![r] = "idle"]
            /\ \/ got' = [got EXCEPT ![r] = Append(@, m)]
               \/ "badpickle" \in Allowed /\ got' = [got EXCEPT ![r] = Append(@, 0)]
  /\ UNCHANGED <<written, data, writerVars, seenFlag, buf, shutting, pinged,
                 sock, sent>>

\* Bug variant: the message is read but not taken off the socket.
RecvOverflow_Peek(r) ==
  /\ rpc[r] = "overflow" /\ sock[r] # << >>
  /\ got' = [got EXCEPT ![r] = Append(@, Head(sock[r]))]
  /\ rpc' = [rpc EXCEPT ![r] = "idle"]
  /\ UNCHANGED <<ringVars, writerVars, ridx, seenFlag, buf, shutting,
                 pinged, sock, sent>>

RecvOverflow(r) ==
  /\ rpc[r] = "overflow" /\ sock[r] # << >>
  /\ \/ got' = [got EXCEPT ![r] = Append(@, Head(sock[r]))]
     \/ /\ "badpickle" \in Allowed
        /\ got' = [got EXCEPT ![r] = Append(@, 0)]
  /\ sock' = [sock EXCEPT ![r] = Tail(@)]
  /\ rpc' = [rpc EXCEPT ![r] = "idle"]
  /\ UNCHANGED <<ringVars, writerVars, ridx, seenFlag, buf, shutting,
                 pinged, sent>>

\* recv() finds nothing within the caller's timeout; the block is gone already.
OverflowTimeout(r) ==
  /\ "overflowtimeout" \in Allowed
  /\ rpc[r] = "overflow" /\ sock[r] = << >>
  /\ got' = [got EXCEPT ![r] = Append(@, Expired)]
  /\ rpc' = [rpc EXCEPT ![r] = "idle"]
  /\ UNCHANGED <<ringVars, writerVars, ridx, seenFlag, buf, shutting,
                 pinged, sock, sent>>

\* shutdown(), from another thread of the reader's process
Shutdown(r) ==
  /\ "shutdown" \in Allowed
  /\ ~shutting[r]
  /\ shutting' = [shutting EXCEPT ![r] = TRUE]
  /\ UNCHANGED <<ringVars, writerVars, readerVars, pinged, sock, sent, got>>

-----------------------------------------------------------------------------
Enqueue == \/ Acquire \/ WriteTimeout \/ BeginFill \/ EndFill
           \/ (\E r \in Readers : ClearFlag(r)) \/ Publish \/ Push \/ Notify
Dequeue(r) == \/ StartDequeue(r) \/ LoadReadFlag(r) \/ LoadWrittenFlag(r)
              \/ ReadTimeout(r) \/ Wait(r) \/ Poll(r) \/ AfterWait(r)
              \/ ReadBlock(r) \/ MarkRead(r) \/ RecvOverflow(r)
              \/ OverflowTimeout(r)

Next == \/ StartEnqueue \/ Enqueue
        \/ \E r \in Readers : Dequeue(r) \/ Shutdown(r)

Spec == Init /\ [][Next]_vars

(***************************************************************************)
(* Readers call dequeue in a loop and every wait of theirs is bounded, so  *)
(* they keep stepping; an enqueue once begun runs on.  Nothing makes the   *)
(* program enqueue another message or shut a reader down.                  *)
(***************************************************************************)
Fairness == WF_vars(Enqueue) /\ \A r \in Readers : WF_vars(Dequeue(r))
FairSpec == Spec /\ Fairness

-----------------------------------------------------------------------------
(* Properties *)

\* Every variable keeps its shape.
TypeOK ==
  /\ written \in [Blocks -> BOOLEAN]
  /\ readFlag \in [Blocks -> [Readers -> BOOLEAN]]
  /\ data \in [Blocks -> [over : BOOLEAN, msg : 0..MaxMsgs]]
  /\ wpc \in {"idle", "acquire", "fill", "filling", "clear", "push", "notify"}
  /\ msg \in 0..MaxMsgs
  /\ widx \in Blocks
  /\ rpc \in [Readers -> {"idle", "check", "check2", "wait", "parked", "woken",
                          "read", "mark", "overflow", "cancelled"}]
  /\ ridx \in [Readers -> Blocks]
  /\ seenFlag \in [Readers -> BOOLEAN]
  /\ buf \in [Readers -> [over : BOOLEAN, msg : 0..MaxMsgs]]
  /\ shutting \in [Readers -> BOOLEAN]
  /\ pinged \in [Readers -> BOOLEAN]
  /\ sock \in [Readers -> Seq(Messages)]
  /\ sent \in Seq(Messages)
  /\ got \in [Readers -> Seq(-1..MaxMsgs)]

\* The writer never touches a block while a reader is between its check and
\* its mark: no lock protects the bytes, only the order of the flags does.
NoTornRead ==
  \A r \in Readers :
    rpc[r] \in {"read", "mark"} /\ ridx[r] = widx
      => wpc \notin {"fill", "filling", "clear"}

\* A message judged small enough fits its block, length words included.
InlineFits == wpc = "filling" => FrameBytes(msg) <= ChunkBytes

\* Overflow messages are bounded by the ring they are announced in, far below
\* the socket's own high water mark, so that socket never drops one (as long as
\* no receive gives up, which leaves its message behind for good).
SocketBounded ==
  \A r \in Readers :
    (\A j \in 1..Len(got[r]) : got[r][j] # Expired) => Len(sock[r]) <= MaxChunks + 1

\* The bytes of a block and the socket beside the ring: nobody writes where
\* another reads, past the end of a block, or more than the ring announces.
RingSound == NoTornRead /\ InlineFits /\ SocketBounded

\* A queue: reader r's j-th dequeue is the writer's j-th enqueue, or failed.
QueueOrder ==
  \A r \in Readers : \A j \in 1..Len(got[r]) : got[r][j] \in {sent[j], 0, Expired}

\* A reader that is behind catches up or is shut down (the program enqueues
\* MaxMsgs messages at most): no published message waits for ever, lost pings
\* notwithstanding.
Delivered ==
  \A r \in Readers :
    (Len(got[r]) < Len(sent)) ~> (Len(got[r]) = Len(sent) \/ rpc[r] = "cancelled")

\* A reader told to shut down leaves the dequeue it is in, though no message and
\* no ping ever comes.
CancelStops ==
  \A r \in Readers :
    (shutting[r] /\ rpc[r] # "idle") ~> (rpc[r] \in {"cancelled", "idle"})

\* Reader r gave up on an overflow message among its first k blocks.
GaveUp(r, k) == \E j \in 1..k : got[r][j] = Expired

\* From the moment a reader gives up on an overflow message, its later overflow
\* blocks are answered by earlier messages, still in its socket.  Nothing is
\* promised of those; an inline message is in its block, and is promised still.
Unpromised(r, j) == GaveUp(r, j) /\ Overflows(sent[j])

\* The abstract queue.  A reader on its way to the socket has given its block
\* back already, hence one message more than the ring holds.
Queue == INSTANCE BroadcastQueue WITH
  Capacity <- MaxChunks + 1,
  got <- [r \in Readers |->
            [j \in 1..Len(got[r]) |-> IF Unpromised(r, j) THEN 0 ELSE got[r][j]]]

\* The ring protocol implements the broadcast queue, up to Unpromised.
QueueSpec == Queue!Spec
=============================================================================
