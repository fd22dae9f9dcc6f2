# Verification of vllm-strix-halo

The repository serves large language models with vLLM on two Strix Halo boxes
joined by one Thunderbolt cable. Around a pinned vLLM it adds its own transport
code (an all-reduce and a message queue over the OdinLink driver), patches of
vLLM's scheduler, KV cache and parsers, kernels, and the scripts that start and
restart the two-box cluster. This directory holds TLA+ models of the parts whose
correctness depends on the order in which things happen, what TLC checks about
them, and what TLAPS proves.

Paths below are relative to `src/`; long ones are abbreviated:

| short | path |
|---|---|
| `odl_ar2.hip` | `container/native/odl_ar2.hip` |
| `odl_ar2.py`, `odl_mq.py` | `container/rootfs/opt/venv/lib/python3.12/site-packages/` |
| `shm_broadcast.py` | `container/pinned-vllm/vllm/distributed/device_communicators/shm_broadcast.py` |
| `kv_cache_utils.py`, `kv_cache_coordinator.py`, `scheduler.py` | `container/pinned-vllm/vllm/v1/core/` and `.../sched/` |
| `odinlink-local.patch` | `odinlink/odinlink-local.patch` |

## 1. Inventory

| component | state it keeps | operations | interacts with | what is hard | what makes it correct |
|---|---|---|---|---|---|
| **all-reduce** (`odl_ar2.hip`, `odl_ar2.py`) | two send and two receive slots with flags, a doorbell, two error latches, counters of the progress thread | `all_reduce_out` (`odl2_last_error`, `odl2_enqueue`), three operations on the GPU stream, the progress thread, `odl2_shutdown` | the peer rank over a stream of the driver; the `all_reduce` hook of vLLM | four agents share pinned memory with no handshake but flags; no round numbers on the wire; bounded spins | slots are not reused early, message k is round k, sums are of the right round, nobody waits for ever |
| **bring-up** (`odl2_init`) | sockets, stream, limits | rendezvous, barrier, ping, barrier, thread start; any failure means RCCL | the same peer; RCCL as fallback | blocking reads, a rank that fails at any step, process death | both ranks end on the same path; self-test and data do not mix |
| **shared-memory MessageQueue** (`shm_broadcast.py`) | ring of blocks with flags, one `current_idx` per process, notification and overflow sockets | `enqueue`, `dequeue`, `acquire_write`, `acquire_read`, `SpinCondition`, `shutdown` | the engine and its worker processes | lock-free sharing, lost notifications, overflow beside the ring, timeouts, cancellation | one queue for all readers: whole, in order, nothing stuck |
| **remote plane, `odl_mq.py`** | plane in use per side, offer, hello, stream framing | `__init__`, `create_from_handle`, `wait_until_ready`, `send_multipart`, `recv` | zmq and the driver | two sides choose a plane separately; a blob is many frames | same plane on both sides, whole blobs in order |
| **free block list** (`FreeKVCacheBlockQueue`) | doubly linked list through the blocks, a counter | `popleft(_n)`, `remove`, `append(_n)`, `prepend_n` | the block pool | pointers changed at both ends and in the middle; the order decides evictions | a sound list in eviction order |
| **scheduler** (`scheduler.py`) | queues, requests, blocks, deferred frees, draft length | `schedule`, `update_from_output`, `add_request`, `finish_requests`, preemption, `reset_prefix_cache`, connector events | model runner, KV connector, free list, prefix cache | steps in flight and remote loads while requests are preempted, aborted and readmitted | each token delivered once and in order; blocks not reused under a step or load that writes them; counters come out even; every request ends |
| **prefix cache search** (`kv_cache_coordinator.py`) | what each group has cached, the locals of the search | caching of a finished prompt, `find_longest_cache_hit` over groups | scheduler, block pool | a fixed point over groups with different alignment, the drafter rule, slots written ahead | the longest hit all groups can serve; a replay resumes where promised |
| **driver patch** (`odinlink-local.patch`) | assembly buffer, pool of spares, receive queue | fragment receive, hand-over or copy, receive, teardown; re-login | both transports | buffers change hands between interrupt and process context, dry pool, teardown with messages queued | a message is delivered whole or not at all; buffers are conserved |
| **cluster scripts** (`host/*.sh`) | containers, ray processes, flags | start, restart, reserve, heal, down | both boxes, two models in one container | a script that dies half way; two models share a container | one model's restart leaves the other running; no stranded process |
| **tool-call parser** (`parser/abstract_parser.py`) | stream state | deltas, end of stream, salvage | API server | salvage at the end of a truncated call | nothing is lost, nothing is surfaced twice |
| **Triton pointer cache** (`pinned-triton/backends/amd/driver.c`) | hash table | probe, insert | launcher | staleness | an address maps to its device pointer |
| **routing kernels**, **model code**, **builds**, **benchmarks** | – | – | – | numerical or one-off | not modelled (section 7) |

`PROJECT.json` lists each with its status; its hazards name the lines where each
of these difficulties bites. Which components are modelled, and how far, is in
sections 2 and 7.

The parts fit together as follows. The engine process broadcasts each step's
work through a MessageQueue to the workers of its own box (the ring) and of the
other box (the remote plane). A worker runs the model; every all-reduce up to 1 MiB
(`ODL2_MAX_BYTES`) goes through `odl_ar2`, larger ones and those of a rank that fell
back through RCCL. The scheduler in the engine decides the steps, looks for a
cached prefix of each new request, hands out KV blocks from the free list and
has the workers' output back one or more steps later. Both transports receive
through the driver: the FIFO with losses that `OdlAr2`, `OdlInit` and `OdlMq` assume
of a stream is `LossyLink`, which `RxPool` is shown to implement for the receive path.
`OdlInit` ends where `OdlAr2` begins: a rank past the second barrier finds its stream
empty (`CleanStart`).

## 2. Modules

| module | models | extends / uses |
|---|---|---|
| `LockstepSum` | what a two-rank all-reduce promises (abstract) | |
| `OdlAr2` | all-reduce, both ranks, three agents each, and the link | refines `LockstepSum` |
| `OdlAr2Proofs` | theorems about `OdlAr2` | `OdlAr2`, TLAPS |
| `OdlInit` | bring-up of two ranks | |
| `OdlInitProofs` | theorems about `OdlInit` | `OdlInit`, TLAPS |
| `BroadcastQueue` | what the MessageQueue promises (abstract) | |
| `ShmRing` | the ring, its readers and its writer | refines `BroadcastQueue` |
| `ShmRingProofs` | theorems about `ShmRing` | `ShmRing`, TLAPS |
| `OdlMq` | remote plane: choice of plane and framing | |
| `OdlMqProofs` | theorems about `OdlMq` | `OdlMq`, TLAPS |
| `BlockOrder` | the free blocks as a sequence in eviction order (abstract) | |
| `FreeBlockQueue` | the linked list | refines `BlockOrder` |
| `FreeBlockProofs` | theorems about `FreeBlockQueue` | `FreeBlockQueue`, TLAPS |
| `Scheduler` | `schedule`, `update_from_output`, the calls from outside and the KV connector | |
| `SchedulerProofs` | theorems about the blocks, tokens, counters, queues, loads and types of `Scheduler` | `Scheduler`, TLAPS |
| `PrefixHit` | what a prompt leaves in the cache and the search of a later one | |
| `PrefixHitProofs` | theorems about `PrefixHit` | `PrefixHit`, TLAPS |
| `LossyLink` | what a stream promises those who receive on it (abstract) | |
| `RxPool` | receive path of one stream of the patched driver | refines `LossyLink` |
| `RxPoolProofs` | theorems about `RxPool` | `RxPool`, TLAPS |
| `MCOdlAr2`, `MCShmRing`, `MCOdlMq`, `MCScheduler`, `MCPrefixHit`, `MCRxPool` | constants for TLC | |

A definition that is preceded by "Bug variant" is not part of the model: it is a
plausible mistake in the operation that follows it, kept to show that the
property that guards against it would notice.

### OdlAr2

The host thread of a rank is `ReadError` and `ClearErrorAndEnqueue` (the two
halves of `odl2_last_error`, then the launch of a round) and `Shutdown`. The GPU
stream runs `Copy`, `RingDoorbell`, then `SeeFlag` or `WaitTimeout`, then `Add`
for each round in order. The progress thread is `LoadDoorbell`, `StartPost` and
`PostRound` once for every round the doorbell announced (or `PostRoundFails`),
then one `poll_recv`: `PollEmpty`, `PollCopy` followed by `PollPublish`, or
`PollFails`. `Lose` is the driver discarding a message with a lost fragment.
Data is kept as provenance: a slot is `MaxSize` chunks, each the number of the
round that wrote it, so that a stale tail is visible and a sum is right exactly
when its chunks carry its own number. The constant `Allowed` says which failures
a run admits, for each rank.

### OdlInit

`pc[r]` walks through `odl2_init`: `Open`, the rendezvous (`Listen`, `Connect`,
`Accept`), a barrier in two halves (`BarrierWrite`, `BarrierRead`), the limit check, the
ping, its answer, the second barrier, the thread. Each failing return is an action of
its own (`AcceptFails` for any step of the rendezvous on rank 0, which closes the socket
under its peer; `RecvPongFails` for an error of the self-test's receive, while an answer
that arrives damaged fails in `RecvPong`); `nothread` is kept apart from `failed`
because it is the one failure after the last barrier. `SendRound` stands for the data
phase, enough to show whether a fast rank's first round can be taken for a ping. `Crash`
is the death of one process at any moment, after which the operating system closes its
sockets and its stream.

### ShmRing

The writer's program counter follows `enqueue`: acquire a block (`Acquire` or
`WriteTimeout`), write it in two steps (`BeginFill`, `EndFill`), clear the read
flags one by one (`ClearFlag`), set the written flag (`Publish`), send the
overflow message (`Push`), ping (`Notify`, which may be lost for any set of
readers). A reader's follows `dequeue`: two loads in `check`, `Wait`, `Poll`,
`AfterWait`, `ReadBlock`, `MarkRead`, and `RecvOverflow` or `OverflowTimeout`.
Loads and stores of flags are single actions in program order; the fences in the
code and x86 ordering make that the right granularity. A message is its number
and the sizes it pickles into; whether it overflows is computed from those sizes
the way the code does it.

### OdlMq

`Offer`, `Create` or `CreateFails`, `Subscribe`, `RecvSubscription`, `WaitHello`
or `HelloTimeout` and `RecvReady` bring the queue up; `Enqueue`, `SendFrame`,
`RecvZmq`, `StartRecv`, `RecvLength` and `RecvBody` move messages. `WaitHelloFails` is
`wait_hello` raising on anything but a hello, and `RecvFails` a receive that fails or
returns no bytes, which before the length loses nothing and inside a message loses the
place in the stream. A frame is a
range of bytes of a message, so that a blob is whole exactly when its pieces are
the frames of one message. A hello that is more than three seconds late is a hello
that is lost. `broken` is a history variable: something sent on the stream did not
arrive.

### FreeBlockQueue

`next` and `prev` of every block and of the two fakes, exactly the assignments of
each method. `PopleftN` reads all popped blocks before it writes, which is what the
loop of the code amounts to. The block pool is not in the repository; it is
represented by the set of blocks it holds and may make any call its bookkeeping
allows, with any list of blocks.

### Scheduler

The engine is one thread; `phase` is where it stands. `schedule()` is `BeginSchedule`,
then one action per turn of its first loop (`PassRunning`, `ScheduleRunning`,
`PreemptVictim`, which repeats until the request fits or has preempted itself,
`LeaveRunning`), one per turn of its second (`PassWaiting`, `Promote`, `AdmitLoad`,
`Admit`, `LeaveWaiting`), and `FinishSchedule`, which builds the output and moves the
counters. `update_from_output()` is `BeginUpdate`, which counts the step as processed
and drains the deferred frees, `UpdateRequest` for each request of the step
(`IgnoreOutput` for those that are gone or stale, `ChunkOutput`, `TokenOutput`), and
`EndUpdate`. `AddRequest`, `Abort`, `LoadDone`, `LoadFails`, `SendDone` and a cache
reset (`BeginReset`, `ResetOne`, `EndReset`) come when the thread is in neither. The
turns are actions of their own because each reads what the ones before it changed.

`steps` holds the batches handed to the workers whose output has not been
processed, at most `MaxInFlight`. A batch records, besides what the code puts in
the scheduler output, which blocks it `writes`. What the workers sample is the
*position* of the token in its request and what they accept of a draft is any
number of it, so that a token that is lost, doubled or appended to the wrong
counter is visible in `delivered`. `conf` is the boot configuration (connector,
deferred frees, delivery required, policy, full reservation), chosen in `Init`.
How many tokens a turn gives a request is what the modelled limits leave
(`NewTokens`, `AdmitTokens`), or anything less, down to passing the request over or
ending the loop, when one of the limits that are left out bites (`Cut`, section 4); a
padding is kept or dropped whole. After a preemption in the same pass any smaller number
may be used, because the code counts the tokens before the victim's budget comes back.
`PromptsAssumption` is what the input processor sees to: a prompt that leaves no room
for one token is refused before it reaches the scheduler.

### PrefixHit

`CacheBlocks` leaves behind what each attention group keeps of an earlier prompt
(everything, or only what its replay boundaries need and a checkpoint for each retention
interval), `Evict` takes any block away, `BeginSearch` starts `find_longest_cache_hit`
for a later request, `LookUp` is one group's turn of the loop, with the drop of the
drafter's block and the `eagle_verified` shortcut, and `EndRound` decides whether the
candidate has settled and cuts the full-attention lists to it, but for a manager that
`retains_longer_hit`. Lengths are in hash blocks. `HitIsLongest` compares the result
with a definition: all groups can serve it, and no greater length can be served by all
with the drafter's block above it matched in every drafter group. Of the result itself
that block is known to be matched in the full-attention groups, which need no second
look, and in a drafter group outside full attention when there is only one (`Checked`).

### RxPool

The receive callback is `Frame` (append a fragment, or mark the message bad), then,
at its end, `HandOver` (the filled buffer to the reader, a spare in its place) or
`CopyOut` or `NoMemory` when the pool is dry, then `Enqueue` or `QueueFull`: the two
halves of a delivery are separate because they take different locks. A reader is
`Take` and `Give`. A stream is created with `BeginCreate`, `AddSpare`,
`FinishCreate` or `CreateFails`, and torn down with `Close`, `BeginFree`,
`DrainOne`, `FreeBuffers`. A buffer holds the fragments written to it, so that a
buffer refilled while its message still waits is visible in what a reader gets.

`LossyLink` is what is left of this for a receiver: messages pass one by one, each
whole or lost (`Pass`), a reader takes the oldest (`Receive`, `Return`), and only the
end of the stream (`End`) discards what still waits. In the refinement `link` is the
texts in the queue, `held` those the readers have, and `passed` the number of messages
that the callback is done with, whether it queued or dropped them. It says more than
`WholeInOrder`, which looks at one state at a time: that no message comes back after
it was read, and that none changes or disappears while it waits.

## 3. Runs

| run | module, bounds | shows |
|---|---|---|
| `ar2_rounds` | `OdlAr2`, 3 rounds, 2 chunks, every sequence of sizes, no failure | safe slots, message k is round k, right sums, completion, refinement of `LockstepSum` |
| `ar2_dead_peer` | 3 rounds, 1 chunk; the waits of rank 0 may give up, rank 1 may fail in every other way | slots are safe whenever neither rank is ahead of what it received, and the GPU stream of rank 0 always drains |
| `init_faults` | `OdlInit`, all failures | paths agree, phases do not mix, rounds start from an empty stream, survivors are released, both get ready |
| `shm_ring` | `ShmRing`, 2 readers, 2 blocks, 3 messages, inline and overflow, timeouts, undecodable messages | refinement of `BroadcastQueue` |
| `shm_live` | 2 readers, 1 block, 4 messages, lost pings, read timeouts, shutdown | delivery, cancellation, no torn block, inline messages fit, bounded overflow socket |
| `mq_stream` | `OdlMq`, 3 messages, chunk of 2, all failures | planes agree, no stream without a reader, blobs whole and in order, delivery |
| `free_queue` | `FreeBlockQueue`, 4 blocks | sound list, no error can be raised, refinement of `BlockOrder` |
| `scheduler` | `Scheduler`, 2 requests with prompts of 1 and 3, 4 blocks of 2 tokens, 2 steps in flight, 1 draft token, 1 fault or cut turn, both policies, with and without connector | every token once and in order, counters settle, queues and status agree, blocks conserved and never given away under a step or a load that writes them |
| `scheduler_live` | 2 requests, 3 blocks, every configuration, no drafts, no faults | every request added ends |
| `prefix_hit` | `PrefixHit`, scheduler block of 2, prompts up to 6, 14 layouts of full, window and mamba groups with the drafter in any of them or in all and lists that may stay longer, lookahead 0 to 2, retention off, sparse and by interval, any evictions | the longest common hit, lists that reach it and only cached blocks, no polluted slot, replays resume |
| `rx_pool` | `RxPool`, 3 buffers, pool and queue of 2, 4 messages of up to 3 fragments of which the longest do not fit, 2 readers | no buffer leaked, shared or freed twice, set of buffers fixed, refinement of `LossyLink` |
| `ar2_shrinking_round` | `OdlAr2`, 2 rounds | a violation, section 6 |

**Why the bounds are enough.** The all-reduce has two slots, so the third round is the
first to reuse one: with three rounds the slot, its flag and the doorbell are all
overwritten once, and a rank can be a full turn of the slots away from the other.
Without timeouts that is the largest distance there is (proved, section 5); with
timeouts `RecvSlotSafe` by itself fails from the third round on, so the premise of
`SlotsSafeInPace` matters. Two chunks are the least that has a tail. `ar2_dead_peer` has
three rounds too, so that slots are reused. There the rank that survives may only time
out and its peer may do everything else; with timeouts on both sides the run takes more
than five minutes, and that case is left to the theorem `SlotsSafeOnceInPace`, which has
no bound at all. Note what the premise leaves out: after a wait that
gave up, for a lost message, a failed send or a slow peer, a rank *is* ahead of what it received, and while it is, a slot may
be overwritten early and its sums are wrong. That is the code's behaviour (section 6),
not something this property denies. In the ring, three messages over two blocks and four
over one reuse blocks and wrap `current_idx`; two readers let one be slow and one be
fast. Sixteen bytes per block put one message exactly at the limit and one just beyond
it. In `OdlMq` blobs of 3, 2 and 1 bytes over chunks of 2 are one full and one short
chunk, exactly one chunk, and less than one. Four blocks give the list a first, a last
and two middle blocks. `OdlInit` has no bound: its state space is finite.

In `scheduler` two requests are the fewest that compete for blocks and that can be
preempted for each other; the prompt of one token is decoded at once, the prompt of
three spans two blocks and is split when the other request has used part of the budget.
Four blocks of two tokens, for two sequences that grow to four and six tokens, force
preemption. Two steps in flight are the fewest where output of a step arrives after a
preemption of its request; one draft lets a step be rejected in part. `MaxFaults` bounds
aborts, resets, failed loads and cut turns together; one is enough to hit any state, and
its consequences run on. Without that bound two requests that are cut in turn can
preempt each other for ever and the step numbers grow without end. The number of faults,
cut turns, steps in flight, requests and blocks is not bounded in the proofs.
`scheduler_live` has fewer blocks than both requests need, so that neither can end
without the other having been preempted or having waited. `prefix_hit` has prompts of
three scheduler blocks, one more than the drop of a drafter's block and one alignment
step need, and windows of one and two blocks; two and three groups exercise the shortcut
of two groups and the general loop. In `rx_pool` one buffer assembles while one is
queued and one is with a reader, so that the pool is dry exactly when the queue can be
full; four messages let a buffer return and be used again.

**Deadlock checking** is on where the system must be able to go on and off where it
may stop: a shut down or failed rank, a bring-up that has ended, a queue whose
readers are all cancelled or whose writer waits for a reader that raised, a scheduler
whose requests have all ended, a search that is done, a stream that is gone.

**Fairness.** `OdlAr2`: the GPU executes what is on its stream and the progress thread
is never blocked, its device being opened non-blocking; the host calls when the model
does, so it gets none except that a call once begun returns. For `NeverWedged` only the
GPU of rank 0 is fair: everything else may stop at any moment, which is what a dead peer
is. `OdlInit`: code runs on unless it blocks, and the death of a process is not fair.
`ShmRing`: an `enqueue` once begun goes on, and readers loop on `dequeue` with bounded
waits; nothing makes the program enqueue or shut down. `OdlMq`: both processes run on
unless blocked, and a `recv` that is called again and again does not always fail (`SF`
of `RecvLength`; without it a stream that always errors would never deliver, which the
code cannot help). Losses are never fair. `Scheduler`: the engine thread finishes what
it began (`WF` of every action inside `schedule` and `update_from_output`); its loop
schedules and takes output again and again, also when calls from outside come between
(`SF` of both beginnings); a load or a send that the connector began ends. Nothing makes
a client add or abort.

## 4. What the abstractions leave out

* Timeouts are choices: a wait may give up whenever what it waits for is not there.
  The polls and seconds in the code are not compared with each other.
* The link is a FIFO per direction that may drop whole messages (in `OdlMq`,
  frames). That is what the users of the driver rely on and what
  `odinlink-local.patch` implements; the driver itself is not in the repository.
* `odl2_enqueue` is not modelled as failing half way: the hook raises out of the
  forward pass, which ends the worker.
* A reader process of the ring that dies is not modelled: the writer would wait for
  it, and the executor is expected to notice the death of a worker.
* `SpinCondition` waits are parked or not by choice; the busy-loop length, the
  warnings and the spin extension are left out.
* `Scheduler` leaves out encoder inputs, LoRA, streaming sessions, structured output,
  pausing and synchronous connector loads; a failed load fails as a whole, not block by
  block. Local prefix-cache hits are left out there
  and modelled in `PrefixHit`. Which free blocks a request gets is a choice among
  all; eviction order is `FreeBlockQueue`'s subject.
* The token limits of `scheduler.py` that only lower the tokens of a turn, or pass it
  over, are not computed but chosen freely (`Cut`, and a smaller number after a
  preemption): `long_prefill_token_threshold` (876-877, 1316-1317), `input_budget` and
  `draft_slots` (829, 878-880, 1074, 1279), the Mamba block-aligned split (892-895,
  1333-1353), `_reserve_prefill_lookahead` (917-919, 1372-1374), the cadence
  `next_decode_eligible_step` (848), the break for prefill that may not be chunked
  (1321-1327), encoder caps and data-parallel throttling (854, 1276). The runs allow one
  such cut, the proofs any number; `scheduler_live` allows none, so `EveryRequestEnds`
  says nothing of a limit that would hold a request back for ever.
* The `Scheduler` is modelled with `MaxInFlight` above one in mind (asynchronous
  scheduling or pipelined batches): `defer_block_free` is then on exactly for a
  connector that consumes (380-382), and `Loadable` makes only such a connector load. A
  connector that only sends is a configuration of `scheduler_live`.
* What a connector answers to `has_pending_block_frees` (954-958) is open, except that it
  may say yes only while it holds blocks of a finished request. That it does not say yes
  for ever is the fairness of `SendDone` and `LoadDone`.
* `EndReset`: when blocks are still held by a load or a deferred entry,
  `reset_prefix_cache` raises to its caller (3028-3035); the scheduler's own state is the
  one the model has, and the exception is left out. A reset that does not preempt the
  running requests changes nothing that is modelled.
* `PrefixHit`: the lookup inside one group (the single-type managers) is not in the
  repository and taken to return the longest aligned length whose blocks the group
  has. Fine-grained partial hits and the unitary coordinator are left out, and so is
  `drop_eagle_checkpoint_block` (207-211): it is only set here, and what it changes is in
  the Mamba manager.
* `RxPool` is limited by an assumption: that a missing fragment is always noticed. The
  variable `gap` knows of every lost frame. The code compares fragment numbers with
  `rx_asm_next_frag`, of which the patch shows the assignments (238-248, 271, 299-316; a
  message that ends well leaves it as it is, 362-364) but not the comparison, which is in
  the part of the driver that is not in the repository. `LinkSpec` and `StreamOnlyLoses`
  therefore show that buffers and queue neither mix nor truncate messages *given* a check
  that never misses; that the check never misses is not shown. Also outside is
  the reference that keeps a stream alive: the model frees a stream when neither the
  callback nor a reader uses it.
* The remote plane has one reader, as in the deployment of two boxes; the zmq plane
  is reliable, as it is over TCP within a run.

## 5. Proofs

`OdlAr2Proofs` holds for every number of rounds, slot capacity, set of size
sequences and set of failures. The argument has four layers.

1. `ControlInv`: types; where each agent stands relative to its own counters (the
   doorbell announces the round the stream has reached, the thread never posts
   beyond its copy of it); and conservation: what the peer has taken and what is in
   the queue are no more than what was posted. Invariant under all failures. Gives
   `TypeCorrect` and, by arithmetic alone, `SlotsSafeOnceInPace`: with
   `p` the peer of `r`,
   `landed(r) <= posted(p) <= done(p) + 1 <= rcvd(p) + 1 <= posted(r) + 1 <= done(r) + 2`
   holds in every state in which neither rank is ahead of what it received, for every
   set of failures of each rank. This is
   the argument of the comment on slot reuse at the head of `odl_ar2.hip`, with the
   premise the comment leaves unsaid.
2. `SlotInv`: the premise itself, `done <= rcvd`, and that a flag never exceeds what
   was received. Inductive when no wait may give up, whatever else fails. Gives
   `SlotsStaySafe`.
3. `ContentInv`: where the data of each round is at any moment (send slot, queue,
   receive slot, sum), and that it is whole unless the next round is smaller.
   Inductive when nothing is lost, times out or fails to be sent (`NothingLost`).
   Gives `MessagesAreRounds` and `SumsCorrect`. The slot safety of layer 2 is what
   keeps a slot's data in place while another round's arrives.
4. Refinement: `Copy` is `Contribute`, `Add` is `Complete`, everything else
   stutters. Gives `ImplementsLockstep` under `NothingLost`.

The invariants are needed because none of the properties is inductive: slot safety
of one rank follows only from counters of both, and the correctness of a sum only
from where its data was three agents earlier.

`SchedulerProofs` holds for every set of requests and blocks, block size, budget,
number of drafts, number of steps in flight, number of faults and boot
configuration. Its invariant `IInv` is the conjunction of

* `Shape`: the types the argument needs;
* `Control`: the running queue holds running requests and those the output being
  processed has stopped, and only running requests are in the batch being built, so
  that a step never records a write for a request that has no blocks;
* `Owned`: every block is in exactly one place, also within the list of deferred
  frees. This is `BlocksConserved` made inductive;
* `Fenced`: the step numbers issued are those processed plus those in flight, and a
  block that a step in flight writes is still with its request, whose
  `last_sched_seq` is no older than the step, or lies behind a fence that is no
  older. A request that has not been scheduled since it got its blocks has no step
  that writes them.

`NoForeignWriter` alone is not inductive: that a block may be freed now depends on
the numbers a preemption several steps ago wrote down, and that a readmitted request
does not inherit an old fence on new blocks depends on the last clause of `Fenced`.
Most actions fall into three classes with one lemma each, by what they do to the
blocks of one request: keep them and take more (`Takes`), give them back
(`Returns`), or put them behind a fence (`Defers`). Gives `BlocksAreConserved` and
`NoForeignWrites`.

The second part of `SchedulerProofs`, under the same generality, is about the counters.
Each request keeps four of them that are changed when a step is scheduled and changed
back when its output arrives, one or more steps later, unless a preemption, a reset or
an abort came between; no single counter says whether it is right. `Ledger` relates them
to the steps in flight, read as one *row* per step and request (`Rows`):

* `Books`: there is a split point `s` such that the output of the first `s` rows is
  stale and of the others not; the tokens in flight are the sum over all rows, the stale
  share the sum over the first `s`, and the placeholders the sum of what the rows after
  `s` were given. A row that has been processed has nothing left in it. The split point
  is what the code does not store: it has only the sum, and takes the output for stale
  while the sum is positive;
* `Chained` and `Resumes`: of the rows whose output will be delivered only the first may
  carry the length of the request to the workers, and then the right one; without it the
  workers know the length. This is what makes the next token the one of the next
  position after a preemption, a resumption and a rejected draft;
* `Progress`: what was delivered is the tokens in order, as many as counted, and how far
  `computed` may be ahead of the tokens and placeholders of a request by its status;
* `Planned`: the same for a request in the batch being built.

`OutputInOrder` needs all of it: which output is dropped depends on the split, which
position a worker samples on the chain, and which of the drafts remain on the
placeholders. Sums over rows are stated by their partial sums (`Partial`), and facts
about them by the first place where they fail, since induction is not available.
Each action changes one request and one row of it: appending a row (`Grow...`), clearing
the first (`Clear...`), taking it away (`Tail...`), marking all stale (`Preempt...`).
`TokenLedger` is the step where all parts meet: accepted drafts, rejected ones, a stop in
the middle. Gives `TokensInOrder` and `RequestsGoOn`.

`Lines` says that the queues hold each request at most once, exclude each other and hold
exactly the requests of their status, but for those that ended in the output being
processed; gives `QueuesMatchStatus`. `Loads` says of a load that was reported and not
yet collected that its request still waits for it, which is what keeps an admission from
taking the blocks of another load; that no step in flight writes those blocks needs
`Fenced`. Gives `LoadsKeepTheirBlocks`. `TypeCorrect` combines
`Shape`, `Ledger`, `Lines` and `Small`; that no counter goes below zero is part of
`Ledger` and not of the types.

`PrefixHitProofs` holds for every layout, block size, prompt length and lookahead the
coordinator accepts (`LayoutAssumption`: the block sizes divide that of the scheduler,
full attention comes first, the lookahead is at most one scheduler block) and for any
evictions. `Cached` says what is registered and kept. `Searching` is the loop invariant of
the fixed point:

* no length that all groups accept is greater than the current one, so that the search
  never goes past the answer;
* `Visited(i)`: what was found in group `i` is a length it can serve and not less than the
  current one, and the current one is clear of the slots the drafter may have
  overwritten;
* `Turned(i)`: after its turn in a round the group agrees with the current length, or the
  length has shrunk since the round began and there will be another.

At the end of a round without shrinking all groups agree, and the two bounds meet. A
full-attention group is looked up once and then only trimmed; that is sound because what
it can serve is closed under shorter lengths (`FullClosed`), and since it comes first,
trimming turns out to change nothing (`Trims`). For layouts of full attention and one
other group the code stops after one round; there the second group is the last looked
up. A drafter group that has dropped its block is not made to drop one again
(`verified`): `Alone` is the case where that loses nothing. `DropIsClean` is the
arithmetic of `NoPollutedSlot`: a block matched above the hit was registered, and
nothing is registered up to the slots the drafter writes ahead. Gives `LongestHit`,
`ListsAgree` and `HitsAreClean`. `ListsAgree` is about what the search returns besides
the length: a list outside full attention is never truncated and must end at the common
length because of the loop alone; one that a manager keeps longer reaches only cached
blocks. `ReplaysResume` then needs no further invariant: with nothing evicted the
promised boundary is a length every group accepts with its drop (`Resumable`), and the
hit is not less than any such length.

`RxPoolProofs` holds for every number of buffers, pool size, queue bound, message
length and number of readers. `TypeInv` adds to the types who is active in which
phase of the stream; `OwnInv` says that assembly buffer, spares, the message about
to be queued, the queue and the readers hold pairwise different live buffers, that
nothing else is live, and that there is at most one more than the pool has room for,
which is why the stack of spares cannot overflow. Gives `TypeCorrect`,
`BuffersOwnedOnce` and `PoolConserved`.

`ShmRingProofs` holds for every set of readers, number and size of blocks, sequence of
messages and set of events allowed. Indices go round a ring, which is awkward to
reason about, so the invariant speaks of positions: `Pos(b)` is the number of the
message that block `b` holds, counted back from the writer's `current_idx`, and
`Marked(r)` how many blocks reader `r` has given back. `IInv` is the conjunction of

* `WriterInv`: messages go up, and the one in hand is the next or the last published;
* `Placed(r)`: a reader is at the block of the message it comes to next, and past its
  two loads of the flags only if there is one;
* `Flagged(b)`: a block's read flags say exactly which readers are past its position,
  and a block the writer has taken was read by all. The second half is what remains
  true while the flags are cleared one at a time;
* `Bytes`: what a block and what a reader's copy of it hold;
* `Queued(r)`: until reader `r` gives up on one, its socket holds, in order, exactly
  the overflow messages pushed and not yet come to.

`NoTornRead` is not inductive: that the writer is elsewhere while a reader reads is
known only from flags both set in earlier rounds of the ring, read in the order the
code reads them. A reader's load of its flag and of the written flag are separate
steps; what it saw in the first is still true at the second because nobody else sets
that flag, and the writer clears it only after the reader has read the block. Gives
`TypeCorrect`, `RingIsSound` and `ImplementsQueue`: `Publish` is `Enqueue`, `MarkRead`
of an inline message and the two ends of the overflow wait are `Dequeue`, everything
else stutters. A limit of that theorem and of `QueueSpec`: once a reader has given up
waiting for an overflow message, the mapping takes its later overflow messages for
"any or none" (`Unpromised`), because the code answers them with earlier ones; its
inline messages are still shown to be the right ones, in order. The capacity of one more
than the ring follows from `Flagged` of the block being published.

`OdlMqProofs` holds for every number and length of messages, every chunk size and
every set of failures. `Handshake` relates the positions of the two sides to what is
on its way between them: the reader says hello before it subscribes and the writer
looks for the hello only after the subscription, so that from there on a hello that is
missing was lost or will never come. It is inductive under all failures and gives
`OnePlane`. `Content` describes the stream frame by frame, without concatenating
messages: `Succ(f)` is the frame that must follow frame `f`, and what the reader holds,
the stream and what the writer has still to send are one chain of successors from the
reader's message to the writer's. `FramesChain` shows that the chunks of a message,
which the code cuts by a rounded-up division, are such a chain without gap or overlap.
Inductive until a frame is lost or a send refused; gives `WholeAndInOrder`. `Typed` adds
to the types that a writer which is sending has a frame to send and a reader in the
middle of a message wants at least one byte, so that no piece it reads takes it below
zero, whatever the length it read was made of. Inductive under all failures; gives
`TypeCorrect`.

The second part of `RxPoolProofs` builds on `OwnInv` and adds what the buffers contain.
`Assembled`: the assembly buffer holds the fragments of the message being received, from
the first, unless the message is marked bad. `Ordered`: the messages in the queue and
with the readers are whole, go up in the order they were sent, and all come before the
one being assembled. A message that waits keeps its text because its buffer is another
than the assembly buffer, the only one the callback writes: the place where ownership
and content meet. That nothing is spliced rests on the assumption that a missing
fragment is noticed (section 4). Gives `MessagesWholeInOrder` (no run checks
`WholeInOrder` by itself, it follows from `LinkSpec`) and `StreamOnlyLoses`: `Enqueue`
is a `Pass` that gets through; `NoMemory`, `QueueFull`, a last fragment that is lost and
the end of a bad message are a `Pass` that does not; `Take`, `Give` and `DrainOne` are
`Receive`, `Return` and `Discard`; `CreateFails` and `BeginFree` are `End`; everything
else leaves the link as it is, a fragment included, because what it writes is nobody's
text.

`FreeBlockProofs` holds for every number of blocks. `ListInv` says that some list `l` of
different blocks has `next` run along it and `prev` back (`Chain`), that it is the blocks
nobody holds, and that the counter is its length. The methods come down to two changes of
such a list: a segment goes out (`SegmentGoes`: `popleft`, `popleft_n`, `remove`) or comes
in (`SegmentComes`: `append`, `append_n`, `prepend_n`), and only the links at its ends and
inside it are touched. That a list follows from its links (`OneList`), and that the loop
of `popleft_n` collects the front of it (`LeadingBlocks`), would be inductions along the
list; the proofs take the first place of a difference instead, which exists because the
natural numbers are well founded. `OneList` makes the refinement mapping `FreeList`, a
CHOOSE, equal to `l`, and every method then is the action of `BlockOrder` with the same
name for its call. Gives `TypeCorrect`, `LinksAreOneList`, `RaisesNothing` (no run checks
`NeverRaises` by itself, it follows from `ListSound`) and `ImplementsOrder`.

`OdlInitProofs` holds for every set of failures. That both ranks end on the same path
is not inductive, and a rank that has failed or died no longer shows how far it got. The
invariant therefore says, of a rank and its peer, what the one can still find of the
other. `Counted`: the tokens a rank has written are those its peer has read and those
on the socket; a rank that failed wrote two only if its peer is dead. `Streamed`: a rank
sends one ping and later at most one round, the round only when its peer is past its own
test, failed or dead. `Together`: nobody is through the second barrier unless its peer has
written its token there or is dead. They are stated for the positions of two ranks and
one direction (`Agree`), and each kind of step (a token written or read, a message sent,
taken or lost, a step with neither) is a lemma on those values, applied to both
directions. Gives `TypeCorrect` and `RanksAlwaysAgree`.

Only model-checked: all liveness (`RoundsComplete`, `NeverWedged`, `Delivered`,
`CancelStops`, `BothReady`, `SurvivorDecides`, `EveryRequestEnds`), which is beyond the
prover, as are induction over data and recursive operators. Every invariant, action
property and refinement of a run that passes is a theorem for all values of the
constants, those of layers 2 to 4 of `OdlAr2` under the hypotheses named there, which are
the failures their run leaves out.

## 6. Where the code departs from what it says

One is a run that TLC ends with a counterexample, with its lines in `PROJECT.json`:

* `ar2_shrinking_round`: a doorbell that announces two rounds replays the first with
  the size of the second. The comment says this only over-sends; when the second is
  smaller the first is truncated and the peer adds a stale tail.

Four more can be reproduced by adding one line to a configuration; each of the
formulas is in its module, stated from what the code's comment promises:

* `PROPERTY FallsBackTogether` in `InitFaults.cfg`: a rank whose self-test fails falls
  back to RCCL and keeps its socket open, so its peer waits in the second barrier for
  ever: the fallback is not completed.
* `INVARIANT QueueOrder` in `ShmRing.cfg`: `dequeue` gives the block back before it
  waits on the overflow socket; after a timeout there each later overflow block is
  paired with the message of an earlier one. `QueueSpec` and `ImplementsQueue` exempt
  exactly those dequeues.
* `PROPERTY ReaderDeclines` in `MqStream.cfg`: the reader's endpoint has no fallback;
  when it cannot be opened the reader raises instead of declining and the writer
  waits for its subscription.
* `INVARIANT VerifiedAtHit` in `PrefixHit.cfg`: the comment on `eagle_verified` says that
  the drop of its groups was verified at the current length. The lookup of a drafter group
  that drops a block may shorten the length and does not clear the verification of other
  drafter groups. With two of them outside full attention, as when no group is marked and
  all are taken to hold drafter layers, the end may be a length at which the first was
  never checked. The hit can still be served and is clear of overwritten slots; it is the
  block above it that may be missing for that group.

Modelling also showed the following, which the models admit but no run singles out: a
failed send is counted as posted, so the next round takes the place of the missing one;
a discarded message shifts all later rounds with no error at the moment of the wrong
sum; a wait that gives up on a peer that is only slow leaves its rank ahead of what it
received, and the late message may then overwrite a slot early; an error latched between
the two halves of `odl2_last_error` is erased unreported; the progress thread can exit
before it posted the last round; a progress thread that cannot be created leaves the two
ranks on different paths; a lost hello leaves the two sides of the remote plane on
different planes; a lost frame shifts the framing of `odl_mq` for good, and the timeout
of `recv` does not cover it; an object rebuilt without copying over a ring block changes
when the writer comes round.

In the newer modules:

* With a connector and drafts, a load is admitted only if its whole sequence and room
  for a speculative step fit. A request that fits the pool only without that room is
  never admitted, although the engine accepts it. This is why `scheduler_live` runs
  without drafts.
* A message that ends well does not reset the fragment number the next one is
  checked against, one that ends badly does; whether that matters is decided by the
  comparison outside the repository (section 4).
* Read, not modelled: `tick()` of the adaptive draft length takes a remainder by
  `VSH_ADAPTIVE_K_HIST`, which may be set to 0; a negative live override of the draft
  length is not refused; `vsh-cluster-restart.sh` runs `ray stop --force` in the
  container both models share, where its head says that the other model's cluster is
  never touched.

## 7. Not modelled

* **Model definitions, attention, GEMM and routing kernels**: numerical code, whose
  correctness is about floating-point values and memory layout. They are most of the
  repository's lines.
* **KV cache layout and block hashing** (`kv_cache_utils.py` but for the free list):
  pure computation of page sizes and groups from a model configuration, once at start.
* **Tool-call parser**: text processing; the order in which calls are surfaced and
  salvaged follows from what the grammar engine, which is elsewhere, reports.
* **Triton pointer cache**: a memo table that is off by default; whether an entry goes
  stale is decided by an allocator that is not in the repository.
* **Cluster scripts**: sequences of docker, ray and ssh commands; what each leaves
  behind when it fails half way is not in the repository.
* **Image build, benchmarks and probes**: run once, or outside the serving path.
* Of the **scheduler**, what section 4 names, and the choice of the adaptive draft
  length itself: any value of `VerifyLens` may be in force at any step.
* Of the **coordinator**, partial hits, the unitary case, and the mapping of blocks.
* Of the **driver patch**, the re-login and the RCCL plugin, which change calls of
  code that is elsewhere.
* Of the **ring**, readers that die, and objects that outlive the reader's hold on a
  block (section 6).

`drop` (the connector requires delivery, so a preemption drops late output) is TRUE
only in `scheduler_live`; in `scheduler` late output is dropped by cache resets, which
always do, and kept by preemptions.

What could come next: local prefix hits composed with `Scheduler`, over `BlockOrder` in
place of a free choice among the free blocks.
