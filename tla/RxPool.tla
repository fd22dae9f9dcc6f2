------------------------------- MODULE RxPool --------------------------------
(***************************************************************************)
(* Receive side of one OdinLink stream, as src/odinlink/odinlink-local.    *)
(* patch leaves it: the receive callback assembles a message in the        *)
(* preallocated rx_asm_buf, hands the filled buffer to the reader and      *)
(* takes a spare from the stream's pool; readers push the buffers back;    *)
(* teardown drains the queue before the pool goes.                         *)
(*                                                                         *)
(* The callback runs in interrupt context, one frame at a time; readers    *)
(* run in process context.  They meet under rx_asm_pool_lock and rx_lock   *)
(* only, so that the two halves of a delivery are steps of their own.      *)
(*                                                                         *)
(* Not part of the repository, and assumed: the check of the fragment      *)
(* number marks a message with a missing fragment bad, and a stream is     *)
(* freed when neither the callback nor a reader uses it any more.          *)
(***************************************************************************)
EXTENDS Naturals, Sequences, FiniteSets

CONSTANTS
  Buffers,    \* buffers kvmalloc can return, each odl_rx_asm_max long
  None,       \* the null pointer
  PoolSize,   \* odl_rx_asm_pool
  AsmMax,     \* odl_rx_asm_max, in fragments
  QueueMax,   \* rx_queue_max
  Msgs,       \* messages the peer sends
  MaxFrags,   \* bound on the fragments of a message
  Readers     \* threads that receive on the stream

ASSUME RxAssumption ==
  /\ IsFiniteSet(Buffers) /\ None \notin Buffers
  /\ PoolSize \in Nat /\ AsmMax \in Nat /\ QueueMax \in Nat /\ Msgs \in Nat
  /\ MaxFrags \in Nat \ {0}

VARIABLES
  live,      \* buffers allocated and not freed
  phase,     \* of the stream: "none", "create", "open", "closing", "free", "gone"
  size,      \* fragments of each message
  next,      \* the fragment that arrives next
  gap,       \* a fragment of the message on the wire was lost
  asm,       \* rx_asm_buf
  len,       \* rx_asm_len
  bad,       \* rx_asm_bad
  store,     \* what has been written to each buffer
  pool,      \* rx_asm_pool[0 .. rx_asm_pool_n)
  cap,       \* rx_asm_pool_cap
  rx,        \* the callback: "idle", "end" (the message is complete) or "queue"
  rxm,       \* the rx_msg the callback is about to queue
  queue,     \* rx_queue
  reading    \* the message each reader took off the queue

wireVars == <<size, next, gap>>
asmVars  == <<asm, len, bad, store>>
poolVars == <<live, pool, cap>>
vars == <<phase, wireVars, asmVars, poolVars, rx, rxm, queue, reading>>

\* data is a buffer when data_from_pool, else a copy, which has its own text.
Frag == [msg : 1..Msgs, frag : 1..MaxFrags]
RxMsg == [from_pool : {TRUE}, data : Buffers, len : Nat, text : {<< >>}]
           \cup [from_pool : {FALSE}, data : {None}, len : Nat, text : Seq(Frag)]
NoMsg == [from_pool |-> FALSE, data |-> None, len |-> 0, text |-> << >>]

\* What a reader of the message gets.
Text(m) == IF m.from_pool THEN SubSeq(store[m.data], 1, m.len) ELSE m.text

Front(s) == SubSeq(s, 1, Len(s) - 1)

-----------------------------------------------------------------------------
(* stream_create *)

Init ==
  /\ live = {} /\ phase = "none"
  /\ size \in [1..Msgs -> 1..MaxFrags]
  /\ next = [msg |-> 1, frag |-> 1] /\ gap = FALSE
  /\ asm = None /\ len = 0 /\ bad = FALSE
  /\ store = [b \in Buffers |-> << >>]
  /\ pool = << >> /\ cap = 0
  /\ rx = "idle" /\ rxm = NoMsg /\ queue = << >>
  /\ reading = [r \in Readers |-> NoMsg]

\* The assembly buffer, then the array of spares, unless that is switched off
\* or its allocation fails.
BeginCreate(b) ==
  /\ phase = "none"
  /\ phase' = "create"
  /\ asm' = b /\ live' = {b}
  /\ cap' \in {0, PoolSize}
  /\ UNCHANGED <<wireVars, len, bad, store, pool, rx, rxm, queue, reading>>

\* Bug variant: one spare more than the array has room for.
AddSpare_OneMore(b) ==
  /\ phase = "create" /\ Len(pool) <= cap /\ b \notin live
  /\ live' = live \cup {b}
  /\ pool' = Append(pool, b)
  /\ UNCHANGED <<phase, wireVars, asmVars, cap, rx, rxm, queue, reading>>

AddSpare(b) ==
  /\ phase = "create" /\ Len(pool) < cap /\ b \notin live
  /\ live' = live \cup {b}
  /\ pool' = Append(pool, b)
  /\ UNCHANGED <<phase, wireVars, asmVars, cap, rx, rxm, queue, reading>>

\* A pool that came out short will do.
FinishCreate ==
  /\ phase = "create"
  /\ phase' = "open"
  /\ UNCHANGED <<wireVars, asmVars, poolVars, rx, rxm, queue, reading>>

\* No stream id: everything allocated so far is given back.
CreateFails ==
  /\ phase = "create"
  /\ phase' = "gone"
  /\ live' = live \ ({asm} \cup {pool[i] : i \in 1..Len(pool)})
  /\ asm' = None /\ pool' = << >> /\ cap' = 0
  /\ UNCHANGED <<wireVars, len, bad, store, rx, rxm, queue, reading>>

-----------------------------------------------------------------------------
(* The pool *)

\* odl_tb5_asm_pool_put
Put(b) ==
  /\ pool' = IF Len(pool) < cap THEN Append(pool, b) ELSE pool
  /\ live' = IF Len(pool) < cap THEN live ELSE live \ {b}
  /\ UNCHANGED cap

\* odl_tb5_rx_msg_free
MsgFree(m) ==
  \/ m.from_pool /\ Put(m.data)
  \/ ~m.from_pool /\ UNCHANGED poolVars

-----------------------------------------------------------------------------
(* odl_tb5_rx_callback *)

After(f) == IF f.frag < size[f.msg] THEN [f EXCEPT !.frag = @ + 1]
            ELSE [msg |-> f.msg + 1, frag |-> 1]
OnWire == phase = "open" /\ rx = "idle" /\ next.msg <= Msgs
IsEnd(f) == f.frag = size[f.msg]

\* A frame is lost on the way.
Lose ==
  /\ OnWire
  /\ next' = After(next)
  /\ gap' = ~IsEnd(next)
  /\ UNCHANGED <<phase, size, asmVars, poolVars, rx, rxm, queue, reading>>

\* Bug variant: a payload that does not fit is left out and the message goes on.
Frame_DeliversShort ==
  LET start == next.frag = 1
      at    == IF start THEN 0 ELSE len
      fits  == at + 1 <= AsmMax
      spoilt == ~start /\ (bad \/ gap)
  IN  /\ OnWire
      /\ next' = After(next)
      /\ gap' = (~IsEnd(next) /\ ~start /\ gap)
      /\ store' = IF fits THEN [store EXCEPT ![asm] = Append(SubSeq(@, 1, at), next)]
                  ELSE store
      /\ len' = IF IsEnd(next) /\ spoilt THEN 0 ELSE IF fits THEN at + 1 ELSE at
      /\ bad' = (spoilt /\ ~IsEnd(next))
      /\ rx' = IF IsEnd(next) /\ ~spoilt THEN "end" ELSE "idle"
      /\ UNCHANGED <<phase, size, asm, poolVars, rxm, queue, reading>>

\* A fragment arrives: MSG_START resets the fill state, a payload that fits is
\* appended, one that does not spoils the message; at MSG_END a bad message is
\* dropped and its buffer kept.
Frame ==
  LET start == next.frag = 1
      at    == IF start THEN 0 ELSE len
      fits  == at + 1 <= AsmMax
      spoilt == (~start /\ (bad \/ gap)) \/ ~fits
  IN  /\ OnWire
      /\ next' = After(next)
      /\ gap' = (~IsEnd(next) /\ ~start /\ gap)
      /\ store' = IF fits THEN [store EXCEPT ![asm] = Append(SubSeq(@, 1, at), next)]
                  ELSE store
      /\ \/ /\ IsEnd(next) /\ spoilt
            /\ len' = 0 /\ bad' = FALSE
            /\ UNCHANGED rx
         \/ /\ ~(IsEnd(next) /\ spoilt)
            /\ len' = IF fits THEN at + 1 ELSE at
            /\ bad' = spoilt
            /\ rx' = IF IsEnd(next) THEN "end" ELSE "idle"
      /\ UNCHANGED <<phase, size, asm, poolVars, rxm, queue, reading>>

\* Bug variant: no spare takes the place of the buffer handed over.
HandOver_KeepsBuffer ==
  /\ rx = "end" /\ pool # << >>
  /\ rx' = "queue"
  /\ rxm' = [from_pool |-> TRUE, data |-> asm, len |-> len, text |-> << >>]
  /\ UNCHANGED <<phase, wireVars, asmVars, poolVars, queue, reading>>

\* asm_pool_get found a spare: the filled buffer goes to the reader.
HandOver ==
  /\ rx = "end" /\ pool # << >>
  /\ rx' = "queue"
  /\ rxm' = [from_pool |-> TRUE, data |-> asm, len |-> len, text |-> << >>]
  /\ asm' = pool[Len(pool)]
  /\ pool' = Front(pool)
  /\ UNCHANGED <<phase, wireVars, len, bad, store, live, cap, queue, reading>>

\* The pool is dry: the message is copied out.
CopyOut ==
  /\ rx = "end" /\ pool = << >>
  /\ rx' = "queue"
  /\ rxm' = [from_pool |-> FALSE, data |-> None, len |-> len,
             text |-> SubSeq(store[asm], 1, len)]
  /\ UNCHANGED <<phase, wireVars, asmVars, poolVars, queue, reading>>

\* No rx_msg, or no room for the copy: the message is discarded.
NoMemory ==
  /\ rx = "end"
  /\ rx' = "idle" /\ len' = 0
  /\ UNCHANGED <<phase, wireVars, asm, bad, store, poolVars, rxm, queue, reading>>

Enqueue ==
  /\ rx = "queue" /\ Len(queue) < QueueMax
  /\ queue' = Append(queue, rxm)
  /\ rx' = "idle" /\ rxm' = NoMsg /\ len' = 0
  /\ UNCHANGED <<phase, wireVars, asm, bad, store, poolVars, reading>>

\* Bug variant: the message is freed whatever its data is.
QueueFull_PlainFree ==
  /\ rx = "queue" /\ Len(queue) >= QueueMax
  /\ live' = live \ {rxm.data} /\ UNCHANGED <<pool, cap>>
  /\ rx' = "idle" /\ rxm' = NoMsg /\ len' = 0
  /\ UNCHANGED <<phase, wireVars, asm, bad, store, queue, reading>>

QueueFull ==
  /\ rx = "queue" /\ Len(queue) >= QueueMax
  /\ MsgFree(rxm)
  /\ rx' = "idle" /\ rxm' = NoMsg /\ len' = 0
  /\ UNCHANGED <<phase, wireVars, asm, bad, store, queue, reading>>

-----------------------------------------------------------------------------
(* odl_tb5_stream_recv, and the end of the stream *)

Take(r) ==
  /\ phase = "open" /\ queue # << >> /\ reading[r] = NoMsg
  /\ reading' = [reading EXCEPT ![r] = Head(queue)]
  /\ queue' = Tail(queue)
  /\ UNCHANGED <<phase, wireVars, asmVars, poolVars, rx, rxm>>

\* After copy_to_user.
Give(r) ==
  /\ reading[r] # NoMsg
  /\ MsgFree(reading[r])
  /\ reading' = [reading EXCEPT ![r] = NoMsg]
  /\ UNCHANGED <<phase, wireVars, asmVars, rx, rxm, queue>>

Close ==
  /\ phase = "open"
  /\ phase' = "closing"
  /\ UNCHANGED <<wireVars, asmVars, poolVars, rx, rxm, queue, reading>>

\* The last reference is gone: odl_tb5_stream_free.
BeginFree ==
  /\ phase = "closing" /\ rx = "idle" /\ \A r \in Readers : reading[r] = NoMsg
  /\ phase' = "free"
  /\ UNCHANGED <<wireVars, asmVars, poolVars, rx, rxm, queue, reading>>

DrainOne ==
  /\ phase = "free" /\ queue # << >>
  /\ MsgFree(Head(queue))
  /\ queue' = Tail(queue)
  /\ UNCHANGED <<phase, wireVars, asmVars, rx, rxm, reading>>

\* asm_pool_destroy, then the assembly buffer.
FreeBuffers ==
  /\ phase = "free" /\ queue = << >>
  /\ phase' = "gone"
  /\ live' = live \ ({asm} \cup {pool[i] : i \in 1..Len(pool)})
  /\ asm' = None /\ pool' = << >> /\ cap' = 0
  /\ UNCHANGED <<wireVars, len, bad, store, rx, rxm, queue, reading>>

-----------------------------------------------------------------------------
Next ==
  \/ \E b \in Buffers : BeginCreate(b) \/ AddSpare(b)
  \/ FinishCreate \/ CreateFails
  \/ Lose \/ Frame \/ HandOver \/ CopyOut \/ NoMemory \/ Enqueue \/ QueueFull
  \/ \E r \in Readers : Take(r) \/ Give(r)
  \/ Close \/ BeginFree \/ DrainOne \/ FreeBuffers

Spec == Init /\ [][Next]_vars

-----------------------------------------------------------------------------
(* Properties *)

\* Every variable keeps its shape and the array of spares its length.
TypeOK ==
  /\ live \subseteq Buffers /\ IsFiniteSet(live)
  /\ phase \in {"none", "create", "open", "closing", "free", "gone"}
  /\ size \in [1..Msgs -> 1..MaxFrags]
  /\ next \in [msg : 1..(Msgs + 1), frag : 1..MaxFrags]
  /\ next.msg <= Msgs => next.frag <= size[next.msg]
  /\ gap \in BOOLEAN /\ bad \in BOOLEAN
  /\ asm \in Buffers \cup {None} /\ len \in Nat
  /\ store \in [Buffers -> Seq(Frag)]
  /\ pool \in Seq(Buffers) /\ cap \in Nat /\ Len(pool) <= cap
  /\ rx \in {"idle", "end", "queue"}
  /\ rxm \in RxMsg /\ queue \in Seq(RxMsg) /\ reading \in [Readers -> RxMsg]

\* The places a buffer can be, and what is in them.
Places == {<<"asm", 1>>, <<"rxm", 1>>}
            \cup {<<"pool", i>> : i \in 1..Len(pool)}
            \cup {<<"queue", i>> : i \in 1..Len(queue)}
            \cup {<<"reader", r>> : r \in Readers}
At(p) == CASE p[1] = "asm"    -> asm
           [] p[1] = "rxm"    -> rxm.data
           [] p[1] = "pool"   -> pool[p[2]]
           [] p[1] = "queue"  -> queue[p[2]].data
           [] p[1] = "reader" -> reading[p[2]].data
Occupied == {p \in Places : At(p) # None}

\* A buffer that is allocated is in exactly one place and one that is not is in
\* none: the callback never assembles into what a reader still copies out, no
\* buffer is handed out twice, freed twice or freed while in use, and teardown
\* leaves none behind.
OneOwner ==
  /\ \A p, q \in Occupied : p # q => At(p) # At(q)
  /\ live = {At(p) : p \in Occupied}

\* Between creation and teardown no buffer is allocated or freed: pool_put finds
\* room for every buffer ("cannot happen while the pool owns a fixed number of
\* buffers") and no spare is lost, however deliveries, full queues, failed
\* allocations and readers interleave.
BuffersFixed == [][(phase \in {"open", "closing"}) => live' = live]_vars

\* A message is delivered whole or not at all, and messages in the order sent.
Sent == [m \in 1..Msgs |-> [i \in 1..size[m] |-> [msg |-> m, frag |-> i]]]
Whole(t) == \E m \in 1..Msgs : t = Sent[m]
Waiting == [i \in 1..Len(queue) |-> Text(queue[i])]
WholeInOrder ==
  /\ \A i \in 1..Len(queue) : Whole(Waiting[i])
  /\ \A i, j \in 1..Len(queue) : i < j => Waiting[i][1].msg < Waiting[j][1].msg
  /\ \A r \in Readers : reading[r] # NoMsg =>
       /\ Whole(Text(reading[r]))
       /\ \A i \in 1..Len(queue) : Text(reading[r])[1].msg < Waiting[i][1].msg

\* The stream keeps the promise of a link that only loses messages: from one
\* step to the next as well, so that none is delivered twice, none is changed
\* while it waits or is read, and none leaves the queue but to a reader or at
\* the end.
Passed == IF rx = "idle" THEN next.msg - 1 ELSE next.msg - 2
Held   == [r \in Readers |-> Text(reading[r])]
Over   == phase \in {"free", "gone"}

Link == INSTANCE LossyLink
          WITH Texts <- Seq(Frag), Nothing <- << >>, text <- Sent, passed <- Passed,
               link <- Waiting, held <- Held, ended <- Over
LinkSpec == Link!Spec
=============================================================================
