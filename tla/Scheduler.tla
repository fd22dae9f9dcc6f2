----------------------------- MODULE Scheduler ------------------------------
(***************************************************************************)
(* Scheduler of v1/core/sched/scheduler.py under asynchronous scheduling:  *)
(* requests, queues, KV blocks, the steps in flight and the KV connector.  *)
(*                                                                         *)
(* The engine is one thread.  schedule() is BeginSchedule, one action per  *)
(* turn of its two loops, FinishSchedule; update_from_output() is          *)
(* BeginUpdate, UpdateRequest for each request of the step, EndUpdate.     *)
(* Calls from outside come when the engine is between the two.             *)
(*                                                                         *)
(* A step in flight is a batch handed to the workers whose output has not  *)
(* been processed.  What the workers sample is the position of the token   *)
(* in its request, so that a lost, doubled or misplaced token is visible.  *)
(*                                                                         *)
(* Left out: encoder inputs, LoRA, streaming sessions, structured output,  *)
(* local prefix-cache hits (PrefixHit models the search), synchronous      *)
(* connector loads, pausing.  The limits that only lower the tokens of a   *)
(* turn, or pass it over, are one free choice (Cut): the long-prefill      *)
(* threshold, the input budget, Mamba alignment, the prefill lookahead,    *)
(* the cadence of decodes, unchunked prefill, data-parallel throttling.    *)
(***************************************************************************)
EXTENDS Integers, Sequences, FiniteSets, Functions

CONSTANTS
  Requests,
  Blocks,        \* KV cache blocks
  BlockSize,     \* tokens per block
  PromptLen,     \* [Requests -> Nat], num_prompt_tokens
  Rank,          \* [Requests -> Nat], (priority, arrival_time), smaller first
  MaxTokens,     \* max_tokens
  MaxModelLen,   \* max_model_len
  Budget,        \* max_num_scheduled_tokens
  MaxRunning,    \* max_num_active_reqs
  NumSpec,       \* num_spec_tokens
  VerifyLens,    \* values of num_spec_tokens_to_schedule (adaptive length)
  Lookahead,     \* num_lookahead_tokens
  MaxInFlight,   \* max_concurrent_batches
  RemoteHit,     \* [Requests -> Nat], tokens the connector can load
  Configs,       \* boot configurations
  MaxFaults      \* bound on aborts, cache resets, failed loads and cut turns together

ASSUME SizesAssumption ==
  /\ IsFiniteSet(Requests) /\ IsFiniteSet(Blocks)
  /\ BlockSize \in Nat \ {0} /\ MaxTokens \in Nat \ {0} /\ Budget \in Nat \ {0}
  /\ {NumSpec, Lookahead, MaxInFlight, MaxRunning, MaxModelLen, MaxFaults} \subseteq Nat
  /\ VerifyLens \subseteq 0..NumSpec
  /\ PromptLen \in [Requests -> Nat \ {0}] /\ Rank \in [Requests -> Nat]
  /\ RemoteHit \in [Requests -> Nat]
  /\ \A r \in Requests : RemoteHit[r] <= PromptLen[r] /\ RemoteHit[r] # 1

\* The engine refuses to start with a pool too small for one longest request.
ASSUME PoolAssumption == MaxModelLen <= BlockSize * Cardinality(Blocks)

\* The input processor refuses a prompt that leaves no room for one token.
ASSUME PromptsAssumption == \A r \in Requests : PromptLen[r] < MaxModelLen

\* connector: a KV connector is configured; defer: defer_block_free; drop:
\* requires_kv_delivery; priority: the policy; full: scheduler_reserve_full_isl.
Config == [connector : BOOLEAN, defer : BOOLEAN, drop : BOOLEAN,
           priority : BOOLEAN, full : BOOLEAN]

\* Blocks are only deferred for a connector, and with several steps in flight
\* for every one that consumes: a connector without defer only sends.
ASSUME ConfigsAssumption ==
  /\ Configs \subseteq Config
  /\ \A c \in Configs : c.defer \/ c.drop => c.connector

VARIABLES
  conf,
  phase,       \* what the engine thread executes
  \* requests
  status,      \* status, with "new" before add_request and "gone" after _free_blocks
  computed,    \* num_computed_tokens
  output,      \* number of output tokens
  spec,        \* len(spec_token_ids)
  holes,       \* num_output_placeholders
  inFlight,    \* num_in_flight_tokens
  stale,       \* num_stale_output_tokens
  dropStale,   \* drop_stale_output
  chunk,       \* is_prefill_chunk
  running, waiting, skipped,   \* the queues
  prefills,    \* _inflight_prefills
  \* blocks
  held, pool, deferred,        \* of a request; free; deferred_frees
  lastSeq, schedSeq, procSeq,  \* last_sched_seq, sched_step_seq, processed_step_seq
  \* locals of schedule() and update_from_output()
  idx, budget, preempted, again,   \* again: scheduled_running_reqs
  passed,      \* step_skipped_waiting
  batch,       \* the scheduler output being built
  todo,        \* requests of the output still to be processed
  ended,       \* requests stopped by this output
  \* outside
  steps,       \* batches in flight, oldest first
  loading,     \* remote loads that still write their blocks
  recvd,       \* finished_recving_kv_req_ids
  failed,      \* failed_recving_kv_req_ids
  known,       \* the workers' length of each request
  delivered,   \* positions of the tokens appended to each request
  faults

reqVars   == <<status, computed, output, spec, holes, inFlight, stale, dropStale, chunk>>
queueVars == <<running, waiting, skipped, prefills>>
blockVars == <<held, pool, deferred>>
seqVars   == <<lastSeq, schedSeq, procSeq>>
passVars  == <<idx, budget, preempted, again, passed, batch>>
outVars   == <<todo, ended>>
kvVars    == <<loading, recvd, failed>>
wkVars    == <<known, delivered>>
vars == <<conf, phase, reqVars, queueVars, blockVars, seqVars, passVars,
          outVars, kvVars, wkVars, steps, faults>>

-----------------------------------------------------------------------------
(* Helpers *)

Cdiv(a, b) == (a + b - 1) \div b
Min2(a, b) == IF a < b THEN a ELSE b
\* The members of q outside S, in their order.
Without(q, S) ==
  LET kept == {i \in 1..Len(q) : q[i] \notin S}
      nth(j) == CHOOSE i \in kept : Cardinality({k \in kept : k <= i}) = j
  IN  [j \in 1..Cardinality(kept) |-> q[nth(j)]]
Last(q) == q[Len(q)]
InQueue(q, r) == \E i \in 1..Len(q) : q[i] = r

NoTokens == [r \in Requests |-> 0]
NoBatch == [n |-> NoTokens, k |-> NoTokens, fresh |-> NoTokens,
            last |-> [r \in Requests |-> FALSE],
            writes |-> [r \in Requests |-> {}]]

Total(r) == PromptLen[r] + output[r]                       \* num_tokens
MustStop(r, j) ==                                          \* check_stop
  output[r] + j >= MaxTokens \/ Total(r) + j >= MaxModelLen

\* The next request of a queue: the heap's least one or the first in line.
Peek(q) == IF conf.priority
             THEN CHOOSE r \in {q[i] : i \in 1..Len(q)} :
                    \A i \in 1..Len(q) : Rank[r] <= Rank[q[i]]
             ELSE Head(q)

\* _select_waiting_queue_for_scheduling, then peek_request.
NextWaiting(r) ==
  IF conf.priority /\ waiting # << >> /\ skipped # << >>
    THEN r = IF Rank[Peek(waiting)] < Rank[Peek(skipped)]
               THEN Peek(waiting) ELSE Peek(skipped)
    ELSE LET q == IF conf.priority
                    THEN IF waiting # << >> THEN waiting ELSE skipped
                    ELSE IF skipped # << >> THEN skipped ELSE waiting
         IN  q # << >> /\ r = Peek(q)

-----------------------------------------------------------------------------
(* Blocks *)

\* allocate_slots of the KV cache manager: enough blocks for n tokens in all.
Missing(r, n) ==
  LET k == Cdiv(Min2(n, MaxModelLen), BlockSize) - Cardinality(held[r])
  IN  IF k > 0 THEN k ELSE 0
Fits(r, n, reserved) == Missing(r, n) + reserved <= Cardinality(pool)
Allocate(r, n) ==
  \E B \in SUBSET pool :
    /\ Cardinality(B) = Missing(r, n)
    /\ pool' = pool \ B
    /\ held' = [held EXCEPT ![r] = @ \cup B]
    /\ UNCHANGED deferred

\* _request_blocks_can_be_freed
CanFree(r) == ~conf.defer \/ lastSeq[r] <= procSeq

\* Bug variant: the fence is the last processed step, not the last scheduled.
FreeRequestBlocks_OldFence(r) ==
  /\ held' = [held EXCEPT ![r] = {}]
  /\ \/ /\ CanFree(r)
        /\ pool' = pool \cup held[r]
        /\ UNCHANGED deferred
     \/ /\ ~CanFree(r)
        /\ deferred' = IF held[r] = {} THEN deferred
                       ELSE Append(deferred, [fence |-> procSeq + 1, blocks |-> held[r]])
        /\ UNCHANGED pool

\* _free_request_blocks
FreeRequestBlocks(r) ==
  /\ held' = [held EXCEPT ![r] = {}]
  /\ \/ /\ CanFree(r)
        /\ pool' = pool \cup held[r]
        /\ UNCHANGED deferred
     \/ /\ ~CanFree(r)
        /\ deferred' = IF held[r] = {} THEN deferred
                       ELSE Append(deferred, [fence |-> schedSeq, blocks |-> held[r]])
        /\ UNCHANGED pool

\* Blocks an admitted prefill or load still needs (_request_remaining_blocks),
\* and the reservation of all of them.
SpecStepBlocks == IF NumSpec = 0 THEN 0 ELSE Cdiv(1 + NumSpec + Lookahead, BlockSize)
Remaining(r) == Missing(r, Total(r)) + SpecStepBlocks
Reserved == SumFunctionOnSet([r \in Requests |-> Remaining(r)], prefills) + SpecStepBlocks

-----------------------------------------------------------------------------
(* Init, and calls from outside while the engine is between two calls *)

Init ==
  /\ conf \in Configs
  /\ phase = "idle"
  /\ status = [r \in Requests |-> "new"]
  /\ computed = NoTokens /\ output = NoTokens /\ spec = NoTokens /\ holes = NoTokens
  /\ inFlight = NoTokens /\ stale = NoTokens
  /\ dropStale = [r \in Requests |-> FALSE]
  /\ chunk = [r \in Requests |-> FALSE]
  /\ running = << >> /\ waiting = << >> /\ skipped = << >> /\ prefills = {}
  /\ held = [r \in Requests |-> {}] /\ pool = Blocks /\ deferred = << >>
  /\ lastSeq = NoTokens /\ schedSeq = 0 /\ procSeq = 0
  /\ idx = 1 /\ budget = 0 /\ preempted = FALSE /\ again = {} /\ passed = << >>
  /\ batch = NoBatch /\ todo = {} /\ ended = {}
  /\ steps = << >> /\ loading = {} /\ recvd = {} /\ failed = {}
  /\ known = NoTokens /\ delivered = [r \in Requests |-> << >>]
  /\ faults = 0

AddRequest(r) ==
  /\ phase = "idle" /\ status[r] = "new"
  /\ status' = [status EXCEPT ![r] = "waiting"]
  /\ waiting' = Append(waiting, r)
  /\ UNCHANGED <<conf, phase, computed, output, spec, holes, inFlight, stale,
                 dropStale, chunk, running, skipped, prefills, blockVars, seqVars,
                 passVars, outVars, kvVars, wkVars, steps, faults>>

\* Bug variant: an aborted load gives its blocks up at once.
LoadEnded_Always(r) == status[r] \in {"waiting", "remote", "running"}

\* No load still writes the blocks of r, as far as the scheduler was told.
LoadEnded(r) == status[r] # "remote" \/ r \in recvd

\* finish_requests with _free_request: an abort, or an error.  A load that has
\* not been reported finished keeps the blocks; so may the connector, for a send.
Abort(r) ==
  /\ phase = "idle" /\ status[r] \in {"waiting", "remote", "running"}
  /\ faults < MaxFaults /\ faults' = faults + 1
  /\ running' = Without(running, {r})
  /\ waiting' = Without(waiting, {r})
  /\ skipped' = Without(skipped, {r})
  /\ prefills' = prefills \ {r}
  /\ recvd' = recvd \ {r} /\ failed' = failed \ {r}
  /\ \/ /\ LoadEnded(r)
        /\ status' = [status EXCEPT ![r] = "gone"]
        /\ FreeRequestBlocks(r)
     \/ /\ conf.connector
        /\ status' = [status EXCEPT ![r] = "finished"]
        /\ UNCHANGED blockVars
  /\ UNCHANGED <<conf, phase, computed, output, spec, holes, inFlight, stale,
                 dropStale, chunk, seqVars, passVars, outVars, loading, wkVars,
                 steps>>

\* _preempt_request of the request r just taken out of the running queue.
Preempt(r, drop) ==
  /\ FreeRequestBlocks(r)
  /\ status' = [status EXCEPT ![r] = "waiting"]
  /\ computed' = [computed EXCEPT ![r] = 0]
  /\ spec' = [spec EXCEPT ![r] = 0]
  /\ dropStale' = [dropStale EXCEPT ![r] = drop \/ (@ /\ stale[r] > 0)]
  /\ stale' = [stale EXCEPT ![r] = inFlight[r]]
  /\ holes' = [holes EXCEPT ![r] = 0]
  /\ running' = Without(running, {r})
  /\ waiting' = <<r>> \o waiting
  /\ prefills' = prefills \ {r}
  /\ UNCHANGED <<output, inFlight, chunk, skipped, seqVars>>

\* reset_prefix_cache(reset_running_requests): preempts from the back.
BeginReset ==
  /\ phase = "idle" /\ faults < MaxFaults
  /\ faults' = faults + 1
  /\ phase' = "reset"
  /\ UNCHANGED <<conf, reqVars, queueVars, blockVars, seqVars, passVars, outVars,
                 kvVars, wkVars, steps>>

ResetOne ==
  /\ phase = "reset" /\ running # << >>
  /\ \E r \in Requests : r = Last(running) /\ Preempt(r, TRUE)
  /\ UNCHANGED <<conf, phase, passVars, outVars, kvVars, wkVars, steps, faults>>

\* Nothing is left running.  Where a load or a deferred entry still holds blocks
\* the code raises here; the scheduler's state is the same.
EndReset ==
  /\ phase = "reset" /\ running = << >>
  /\ phase' = "idle"
  /\ UNCHANGED <<conf, reqVars, queueVars, blockVars, seqVars, passVars, outVars,
                 kvVars, wkVars, steps, faults>>

-----------------------------------------------------------------------------
(* The KV connector, as its outputs reach update_from_output *)

\* finished_recving
LoadDone(r) ==
  /\ phase = "idle" /\ r \in loading
  /\ loading' = loading \ {r}
  /\ \/ /\ status[r] = "remote"
        /\ recvd' = recvd \cup {r}
        /\ UNCHANGED <<status, blockVars>>
     \/ /\ status[r] = "finished"
        /\ FreeRequestBlocks(r)
        /\ status' = [status EXCEPT ![r] = "gone"]
        /\ UNCHANGED recvd
  /\ UNCHANGED <<conf, phase, computed, output, spec, holes, inFlight, stale,
                 dropStale, chunk, queueVars, seqVars, passVars, outVars, failed,
                 wkVars, steps, faults>>

\* failed_recving together with finished_recving, policy "recompute"; the
\* policy "fail" is Abort followed by LoadDone.
LoadFails(r) ==
  /\ phase = "idle" /\ r \in loading /\ status[r] = "remote"
  /\ faults < MaxFaults /\ faults' = faults + 1
  /\ loading' = loading \ {r}
  /\ computed' = [computed EXCEPT ![r] = 0]
  /\ failed' = failed \cup {r}
  /\ recvd' = recvd \cup {r}
  /\ UNCHANGED <<conf, phase, status, output, spec, holes, inFlight, stale,
                 dropStale, chunk, queueVars, blockVars, seqVars, passVars, outVars,
                 wkVars, steps>>

\* finished_sending
SendDone(r) ==
  /\ phase = "idle" /\ status[r] = "finished" /\ r \notin loading
  /\ FreeRequestBlocks(r)
  /\ status' = [status EXCEPT ![r] = "gone"]
  /\ UNCHANGED <<conf, phase, computed, output, spec, holes, inFlight, stale,
                 dropStale, chunk, queueVars, seqVars, passVars, outVars, kvVars,
                 wkVars, steps, faults>>

-----------------------------------------------------------------------------
(* schedule() *)

BeginSchedule ==
  /\ phase = "idle" /\ Len(steps) < MaxInFlight
  /\ \E r \in Requests : status[r] \in {"waiting", "remote", "running"}
  /\ phase' = "running"
  /\ idx' = 1 /\ budget' = Budget /\ preempted' = FALSE /\ again' = {}
  /\ passed' = << >> /\ batch' = NoBatch
  /\ UNCHANGED <<conf, reqVars, queueVars, blockVars, seqVars, outVars, kvVars,
                 wkVars, steps, faults>>

\* Tokens the request could still be scheduled for, and how many at most.
Pending(r) == Total(r) + spec[r] + holes[r] - computed[r]
NewTokens(r) == Min2(Min2(Pending(r), budget), MaxModelLen - computed[r] - 1)

\* Another limit may cut the turn of a request short.
Cut(short) ==
  /\ short => faults < MaxFaults
  /\ faults' = IF short THEN faults + 1 ELSE faults

\* The steps in flight reach max_tokens even if all drafts are rejected.
SureToEnd(r) ==
  holes[r] > 0 /\ computed[r] + 2 - holes[r] >= PromptLen[r] + MaxTokens

\* The request the loop over the running queue is at.
Considered(r) ==
  /\ phase = "running" /\ idx <= Len(running) /\ budget > 0
  /\ r = running[idx]

PassRunning(r) ==
  /\ Considered(r)
  /\ Cut(~SureToEnd(r) /\ NewTokens(r) # 0)
  /\ idx' = idx + 1
  /\ UNCHANGED <<conf, phase, reqVars, queueVars, blockVars, seqVars, budget,
                 preempted, again, passed, batch, outVars, kvVars, wkVars, steps>>

\* Draft tokens that fit into n new tokens of r.
DraftsIn(r, n) ==
  LET k == n + computed[r] - Total(r) - holes[r]
  IN  IF k > 0 THEN Min2(spec[r], k) ELSE 0

\* The code counts the tokens once: after a preemption gave a victim's budget
\* back they are still the fewer of before.
ScheduleRunning(r) ==
  \E n \in 1..NewTokens(r) :
    /\ Considered(r)
    /\ ~SureToEnd(r)
    /\ Cut(n # NewTokens(r) /\ ~preempted)
    /\ Fits(r, computed[r] + n + Lookahead, 0)
    /\ Allocate(r, computed[r] + n + Lookahead)
    /\ batch' = [batch EXCEPT !.n[r] = n, !.k[r] = DraftsIn(r, n)]
    /\ spec' = [spec EXCEPT ![r] = 0]
    /\ again' = again \cup {r}
    /\ budget' = budget - n
    /\ idx' = idx + 1
    /\ UNCHANGED <<conf, phase, status, computed, output, holes, inFlight, stale,
                   dropStale, chunk, queueVars, seqVars, preempted, passed,
                   outVars, kvVars, wkVars, steps>>

\* Whom to preempt when r finds no blocks.
Victim == IF conf.priority
            THEN CHOOSE v \in {running[i] : i \in 1..Len(running)} :
                   \A i \in 1..Len(running) : Rank[v] >= Rank[running[i]]
            ELSE Last(running)
NoRoom(r) ==
  /\ Considered(r)
  /\ ~SureToEnd(r) /\ NewTokens(r) # 0
  /\ ~Fits(r, computed[r] + NewTokens(r) + Lookahead, 0)

\* connector.has_pending_block_frees may answer yes; it need not.
PendingFrees == conf.connector /\ \E r \in Requests : status[r] = "finished"

\* Bug variant: the budget of a victim that was already scheduled is not
\* given back.
PreemptVictim_KeepsBudget(r, v) ==
  /\ NoRoom(r)
  /\ v = Victim /\ CanFree(v)
  /\ Preempt(v, conf.drop)
  /\ preempted' = TRUE
  /\ again' = again \ {v}
  /\ batch' = [batch EXCEPT !.n[v] = 0, !.k[v] = 0]
  /\ budget' = budget
  /\ idx' = IF \E i \in 1..(idx - 1) : running[i] = v THEN idx - 1 ELSE idx
  /\ phase' = IF v = r THEN "finish" ELSE phase
  /\ UNCHANGED <<conf, passed, outVars, kvVars, wkVars, steps, faults>>

\* Preempts v for r and tries r again; a v that this step had already scheduled
\* is taken out of it.
PreemptVictim(r, v) ==
  /\ NoRoom(r)
  /\ v = Victim /\ CanFree(v)
  /\ Preempt(v, conf.drop)
  /\ preempted' = TRUE
  /\ again' = again \ {v}
  /\ batch' = [batch EXCEPT !.n[v] = 0, !.k[v] = 0]
  /\ budget' = budget + batch.n[v]
  /\ idx' = IF \E i \in 1..(idx - 1) : running[i] = v THEN idx - 1 ELSE idx
  /\ phase' = IF v = r THEN "finish" ELSE phase
  /\ UNCHANGED <<conf, passed, outVars, kvVars, wkVars, steps, faults>>

\* The queue is through, the budget spent, or no preemption helps now.
RunningOver ==
  \/ idx > Len(running) \/ budget = 0
  \/ \E r \in Requests : NoRoom(r) /\ (PendingFrees \/ ~CanFree(Victim))
\* On to the waiting requests, unless one was just put there.
LeaveRunning ==
  /\ phase = "running"
  /\ Cut(~RunningOver)
  /\ phase' = IF preempted THEN "finish" ELSE "waiting"
  /\ UNCHANGED <<conf, reqVars, queueVars, blockVars, seqVars, passVars, outVars,
                 kvVars, wkVars, steps>>

\* The request the loop over the waiting queues is at.
Offered(r) ==
  /\ phase = "waiting" /\ budget > 0 /\ Len(running) < MaxRunning
  /\ NextWaiting(r)

\* Takes r out of the queues for the rest of this pass.
SetAside(r) ==
  /\ waiting' = Without(waiting, {r})
  /\ skipped' = Without(skipped, {r})
  /\ passed' = Append(passed, r)

\* Bug variant: the gate is on the wrong flag.
AwaitsOutput_Dropped(r) == stale[r] > 0 /\ dropStale[r]

\* Deliverable output of the time before its preemption is still to come.
AwaitsOutput(r) == stale[r] > 0 /\ ~dropStale[r]

PassWaiting(r) ==
  /\ Offered(r)
  /\ \/ status[r] = "remote" /\ r \notin recvd
     \/ status[r] = "waiting" /\ AwaitsOutput(r)
  /\ SetAside(r)
  /\ UNCHANGED <<conf, phase, reqVars, running, prefills, blockVars, seqVars, idx,
                 budget, preempted, again, batch, outVars, kvVars, wkVars, steps, faults>>

\* _try_promote_blocked_waiting_request with _update_waiting_for_remote_kv.
Promote(r) ==
  /\ Offered(r) /\ status[r] = "remote" /\ r \in recvd
  /\ status' = [status EXCEPT ![r] = "waiting"]
  /\ recvd' = recvd \ {r} /\ failed' = failed \ {r}
  /\ computed' = [computed EXCEPT ![r] = IF @ = Total(r) THEN @ - 1 ELSE @]
  /\ IF r \in failed /\ computed[r] = 0
       THEN held' = [held EXCEPT ![r] = {}] /\ pool' = pool \cup held[r]
       ELSE UNCHANGED <<held, pool>>
  /\ UNCHANGED <<conf, phase, output, spec, holes, inFlight, stale, dropStale, chunk,
                 queueVars, deferred, seqVars, passVars, outVars, loading, wkVars,
                 steps, faults>>

\* What a consumer connector offers a request that has nothing computed.
Loadable(r) == conf.defer /\ computed[r] = 0 /\ RemoteHit[r] > 0
FitsWhole(r, n, reserved) ==
  /\ Fits(r, n, reserved)
  /\ conf.full => Fits(r, Total(r), reserved)

\* Admits r to wait for a remote load into blocks allocated now.
AdmitLoad(r) ==
  /\ Offered(r) /\ status[r] = "waiting" /\ ~AwaitsOutput(r)
  /\ Loadable(r)
  /\ FitsWhole(r, RemoteHit[r], Reserved)
  /\ Allocate(r, RemoteHit[r])
  /\ SetAside(r)
  /\ status' = [status EXCEPT ![r] = "remote"]
  /\ computed' = [computed EXCEPT ![r] = RemoteHit[r]]
  /\ prefills' = prefills \cup {r}
  /\ loading' = loading \cup {r}
  /\ UNCHANGED <<conf, phase, output, spec, holes, inFlight, stale, dropStale, chunk,
                 running, seqVars, idx, budget, preempted, again, batch, outVars,
                 recvd, failed, wkVars, steps, faults>>

\* A request with one token to compute is padded to the size of a
\* speculative step where that keeps the batch uniform.
Padded(r) ==
  /\ NumSpec > 0 /\ Total(r) - computed[r] = 1
  /\ \A q \in again : ~chunk[q]
  /\ again # {} \/ computed[r] > 0
  /\ computed[r] + 1 + NumSpec + 1 <= MaxModelLen
AdmitTokens(r) == IF Padded(r) THEN 1 + NumSpec ELSE Min2(Total(r) - computed[r], budget)

\* A padding that is cut is dropped.
Admit(r) ==
  \E n \in 1..AdmitTokens(r) :
    /\ Offered(r) /\ status[r] = "waiting" /\ ~AwaitsOutput(r)
    /\ Cut(n # AdmitTokens(r))
    /\ n = AdmitTokens(r) \/ computed[r] + n <= Total(r)
    /\ n <= budget
    /\ FitsWhole(r, computed[r] + n + Lookahead, 0)
    /\ Allocate(r, computed[r] + n + Lookahead)
    /\ waiting' = Without(waiting, {r}) /\ skipped' = Without(skipped, {r})
    /\ running' = Append(running, r)
    /\ status' = [status EXCEPT ![r] = "running"]
    /\ batch' = [batch EXCEPT !.n[r] = n, !.fresh[r] = Total(r),
                              !.k[r] = IF computed[r] + n > Total(r) THEN NumSpec ELSE 0]
    /\ budget' = budget - n
    /\ prefills' = IF computed[r] + n < Total(r) THEN prefills \cup {r} ELSE prefills
    /\ UNCHANGED <<conf, phase, computed, output, spec, holes, inFlight, stale,
                   dropStale, chunk, seqVars, idx, preempted, again, passed,
                   outVars, kvVars, wkVars, steps>>

\* The queues are empty, a limit is reached, or the next request has no room.
WaitingOver ==
  \/ waiting = << >> /\ skipped = << >>
  \/ budget = 0 \/ Len(running) >= MaxRunning
  \/ \E r \in Requests :
       /\ Offered(r) /\ status[r] = "waiting" /\ ~AwaitsOutput(r)
       /\ \/ AdmitTokens(r) > budget
          \/ ~FitsWhole(r, computed[r] + AdmitTokens(r) + Lookahead, 0)
          \/ Loadable(r) /\ ~FitsWhole(r, RemoteHit[r], Reserved)
LeaveWaiting ==
  /\ phase = "waiting"
  /\ Cut(~WaitingOver)
  /\ phase' = "finish"
  /\ UNCHANGED <<conf, reqVars, queueVars, blockVars, seqVars, passVars, outVars,
                 kvVars, wkVars, steps>>

Scheduled == {r \in Requests : batch.n[r] > 0}

\* The end of schedule(), with _update_after_schedule and what the
\* asynchronous scheduler adds to it: room for the tokens to come.
FinishSchedule ==
  LET after  == [r \in Requests |-> computed[r] + batch.n[r]]
      isChunk == [r \in Requests |->
                    IF r \in Scheduled THEN after[r] < Total(r) + holes[r] ELSE chunk[r]]
      samples == {r \in Scheduled : ~isChunk[r]}
      out == [batch EXCEPT !.last = [r \in Requests |-> r \in samples],
                           !.writes = [r \in Requests |->
                                         IF r \in Scheduled THEN held[r] ELSE {}]]
  IN  /\ phase = "finish"
      /\ phase' = "idle"
      /\ skipped' = passed \o skipped
      /\ steps' = IF Scheduled = {} THEN steps ELSE Append(steps, out)
      /\ schedSeq' = IF conf.defer /\ Scheduled # {} THEN schedSeq + 1 ELSE schedSeq
      /\ lastSeq' = [r \in Requests |->
                       IF conf.defer /\ r \in Scheduled THEN schedSeq' ELSE lastSeq[r]]
      /\ computed' = after
      /\ inFlight' = [r \in Requests |-> inFlight[r] + batch.n[r]]
      /\ chunk' = isChunk
      /\ prefills' = prefills \ samples
      /\ \E k \in VerifyLens :
           spec' = [r \in Requests |-> IF r \in samples THEN k ELSE spec[r]]
      /\ holes' = [r \in Requests |->
                     IF r \in samples THEN holes[r] + 1 + batch.k[r] ELSE holes[r]]
      /\ idx' = 1 /\ budget' = 0 /\ preempted' = FALSE /\ again' = {}
      /\ passed' = << >> /\ batch' = NoBatch
      /\ UNCHANGED <<conf, status, output, stale, dropStale, running, waiting,
                     blockVars, procSeq, outVars, kvVars, wkVars, faults>>

-----------------------------------------------------------------------------
(* update_from_output() of the oldest batch in flight *)

\* Bug variant: the entries freed stay in the list.
Drain_Keeps(k, done) ==
  /\ \A i \in 1..k : deferred[i].fence <= done
  /\ k < Len(deferred) => deferred[k + 1].fence > done
  /\ pool' = pool \cup UNION {deferred[i].blocks : i \in 1..k}
  /\ UNCHANGED <<deferred, held>>

\* _drain_deferred_frees: k entries from the front whose step is processed.
Drain(k, done) ==
  /\ \A i \in 1..k : deferred[i].fence <= done
  /\ k < Len(deferred) => deferred[k + 1].fence > done
  /\ pool' = pool \cup UNION {deferred[i].blocks : i \in 1..k}
  /\ deferred' = SubSeq(deferred, k + 1, Len(deferred))
  /\ UNCHANGED held

BeginUpdate ==
  /\ phase = "idle" /\ steps # << >>
  /\ phase' = "output"
  /\ todo' = {r \in Requests : Head(steps).n[r] > 0}
  /\ ended' = {}
  /\ \/ /\ conf.defer
        /\ procSeq' = procSeq + 1
        /\ \E k \in 0..Len(deferred) : Drain(k, procSeq')
     \/ /\ ~conf.defer
        /\ UNCHANGED <<procSeq, blockVars>>
  /\ UNCHANGED <<conf, reqVars, queueVars, lastSeq, schedSeq, passVars, kvVars,
                 wkVars, steps, faults>>

\* Bug variant: the stale share of the tokens in flight stays.
Arrived_KeepsStale(r, n) ==
  /\ inFlight' = [inFlight EXCEPT ![r] = @ - n]
  /\ UNCHANGED stale

\* n tokens of r are no longer in flight.
Arrived(r, n) ==
  /\ inFlight' = [inFlight EXCEPT ![r] = @ - n]
  /\ stale' = [stale EXCEPT ![r] = IF @ > 0 THEN @ - n ELSE @]

\* The request is gone or finished: its counters, if it still has any, move.
\* So they do for output from before a preemption that is to be dropped.
IgnoreOutput(r) ==
  LET n == Head(steps).n[r]
      b == Head(steps)
      base == IF b.fresh[r] > 0 THEN b.fresh[r] ELSE known[r]
  IN  /\ phase = "output" /\ r \in todo
      /\ status[r] \in {"gone", "finished"} \/ (stale[r] > 0 /\ dropStale[r])
      /\ todo' = todo \ {r}
      /\ IF status[r] = "gone" THEN UNCHANGED <<inFlight, stale>>
         ELSE Arrived(r, n)
      /\ \/ status[r] = "gone" /\ UNCHANGED known
         \/ /\ status[r] # "gone"
            /\ \E a \in 0..b.k[r] :
                 known' = [known EXCEPT ![r] = IF b.last[r] THEN base + 1 + a ELSE base]
      /\ UNCHANGED <<conf, phase, status, computed, output, spec, holes, dropStale,
                     chunk, queueVars, blockVars, seqVars, passVars, ended, kvVars,
                     delivered, steps, faults>>

\* A chunk of a prompt samples nothing.
ChunkOutput(r) ==
  LET b == Head(steps)
  IN  /\ phase = "output" /\ r \in todo /\ ~b.last[r]
      /\ status[r] \notin {"gone", "finished"}
      /\ ~(stale[r] > 0 /\ dropStale[r])
      /\ todo' = todo \ {r}
      /\ Arrived(r, b.n[r])
      /\ known' = [known EXCEPT ![r] = IF b.fresh[r] > 0 THEN b.fresh[r] ELSE @]
      /\ UNCHANGED <<conf, phase, status, computed, output, spec, holes, dropStale,
                     chunk, queueVars, blockVars, seqVars, passVars, ended, kvVars,
                     delivered, steps, faults>>

\* Bug variant: a rejected draft stays counted as computed.
Settle_KeepsRejected(r, a, m) ==
  LET rejected == Head(steps).k[r] - a
  IN  IF stale[r] > 0 THEN UNCHANGED <<computed, holes>>
      ELSE /\ UNCHANGED computed
           /\ holes' = [holes EXCEPT ![r] = (IF @ > 0 THEN @ - rejected ELSE @) - m]

\* Bug variant: output of a preempted request moves the counters too.
Settle_StaleToo(r, a, m) ==
  LET rejected == Head(steps).k[r] - a
  IN  /\ computed' = [computed EXCEPT ![r] = IF @ > 0 THEN @ - rejected ELSE @]
      /\ holes' = [holes EXCEPT ![r] = (IF @ > 0 THEN @ - rejected ELSE @) - m]

\* The counters after a of the drafts were accepted and m tokens appended;
\* those of a preempted request were reset and stay.
Settle(r, a, m) ==
  LET rejected == Head(steps).k[r] - a
  IN  IF stale[r] > 0 THEN UNCHANGED <<computed, holes>>
      ELSE /\ computed' = [computed EXCEPT ![r] = IF @ > 0 THEN @ - rejected ELSE @]
           /\ holes' = [holes EXCEPT ![r] = (IF @ > 0 THEN @ - rejected ELSE @) - m]

\* One sampled token and a accepted drafts arrive; m of them are appended and
\* stop tells whether the last of those ended the request.
TokenOutput(r, a, m, stop) ==
  LET b == Head(steps)
      base == IF b.fresh[r] > 0 THEN b.fresh[r] ELSE known[r]
  IN  /\ phase = "output" /\ r \in todo /\ b.last[r]
      /\ status[r] \notin {"gone", "finished"}
      /\ ~(stale[r] > 0 /\ dropStale[r])
      /\ a <= b.k[r] /\ m <= a + 1
      /\ m < a + 1 => stop
      /\ MustStop(r, m) => stop
      /\ \A j \in 1..(m - 1) : ~MustStop(r, j)
      /\ todo' = todo \ {r}
      /\ Arrived(r, b.n[r])
      /\ Settle(r, a, m)
      /\ output' = [output EXCEPT ![r] = @ + m]
      /\ known' = [known EXCEPT ![r] = base + 1 + a]
      /\ delivered' = [delivered EXCEPT ![r] = @ \o [i \in 1..m |-> base + i]]
      /\ \/ /\ ~stop
            /\ UNCHANGED <<status, ended, prefills, blockVars>>
         \/ /\ stop
            /\ status' = [status EXCEPT ![r] = "gone"]
            /\ ended' = ended \cup {r} /\ prefills' = prefills \ {r}
            /\ FreeRequestBlocks(r)
         \/ /\ stop /\ conf.connector
            /\ status' = [status EXCEPT ![r] = "finished"]
            /\ ended' = ended \cup {r} /\ prefills' = prefills \ {r}
            /\ UNCHANGED blockVars
      /\ UNCHANGED <<conf, phase, spec, dropStale, chunk, running, waiting, skipped,
                     seqVars, passVars, kvVars, steps, faults>>

UpdateRequest(r) ==
  \/ IgnoreOutput(r) \/ ChunkOutput(r)
  \/ \E a \in 0..NumSpec : \E m \in 1..(a + 1), stop \in BOOLEAN : TokenOutput(r, a, m, stop)

\* Bug variant: a request that stopped while preempted stays in its queue.
EndUpdate_RunningOnly ==
  /\ phase = "output" /\ todo = {}
  /\ phase' = "idle"
  /\ running' = Without(running, ended)
  /\ ended' = {}
  /\ steps' = Tail(steps)
  /\ UNCHANGED <<conf, reqVars, waiting, skipped, prefills, blockVars, seqVars,
                 passVars, todo, kvVars, wkVars, faults>>

EndUpdate ==
  /\ phase = "output" /\ todo = {}
  /\ phase' = "idle"
  /\ running' = Without(running, ended)
  /\ waiting' = Without(waiting, ended)
  /\ skipped' = Without(skipped, ended)
  /\ ended' = {}
  /\ steps' = Tail(steps)
  /\ UNCHANGED <<conf, reqVars, prefills, blockVars, seqVars, passVars, todo, kvVars,
                 wkVars, faults>>

-----------------------------------------------------------------------------
Calls(r) == AddRequest(r) \/ Abort(r) \/ LoadDone(r) \/ LoadFails(r) \/ SendDone(r)
RunningTurn(r) ==
  \/ PassRunning(r) \/ ScheduleRunning(r)
  \/ \E v \in Requests : PreemptVictim(r, v)
WaitingTurn(r) == PassWaiting(r) \/ Promote(r) \/ AdmitLoad(r) \/ Admit(r)

Next ==
  \/ \E r \in Requests :
       Calls(r) \/ RunningTurn(r) \/ WaitingTurn(r) \/ UpdateRequest(r)
  \/ BeginReset \/ ResetOne \/ EndReset
  \/ BeginSchedule \/ LeaveRunning \/ LeaveWaiting \/ FinishSchedule
  \/ BeginUpdate \/ EndUpdate

Spec == Init /\ [][Next]_vars

\* The engine thread finishes what it began and comes back to process output;
\* a load or a send the connector began ends.
Inside == phase # "idle" /\ Next
FairSpec ==
  /\ Spec
  /\ WF_vars(Inside) /\ SF_vars(BeginSchedule) /\ SF_vars(BeginUpdate)
  /\ \A r \in Requests : SF_vars(LoadDone(r)) /\ SF_vars(SendDone(r))

-----------------------------------------------------------------------------
(* Properties *)

Entry == [fence : Nat, blocks : SUBSET Blocks]
Batch == [n : [Requests -> Nat], k : [Requests -> 0..NumSpec], fresh : [Requests -> Nat],
          last : [Requests -> BOOLEAN], writes : [Requests -> SUBSET Blocks]]

\* Every variable keeps its shape; no counter goes below zero, as the code
\* asserts for the stale share and the placeholders.
TypeOK ==
  /\ conf \in Configs
  /\ phase \in {"idle", "reset", "running", "waiting", "finish", "output"}
  /\ status \in [Requests -> {"new", "waiting", "remote", "running", "finished", "gone"}]
  /\ \A f \in {computed, output, spec, holes, inFlight, stale, lastSeq, known} :
       f \in [Requests -> Nat]
  /\ dropStale \in [Requests -> BOOLEAN] /\ chunk \in [Requests -> BOOLEAN]
  /\ \A q \in {running, waiting, skipped, passed} : q \in Seq(Requests)
  /\ \A S \in {prefills, again, todo, ended, loading, recvd, failed} : S \subseteq Requests
  /\ held \in [Requests -> SUBSET Blocks] /\ pool \subseteq Blocks
  /\ deferred \in Seq(Entry) /\ schedSeq \in Nat /\ procSeq \in Nat
  /\ idx \in Nat \ {0} /\ budget \in Nat /\ preempted \in BOOLEAN
  /\ batch \in Batch /\ steps \in Seq(Batch)
  /\ delivered \in [Requests -> Seq(Nat)] /\ faults \in Nat

\* What the workers sample reaches every request once and in order: the i-th
\* output token is the token of position PromptLen + i, over preemption,
\* resumption, rejected drafts and output that arrives late.
OutputInOrder ==
  \A r \in Requests : \A i \in 1..Len(delivered[r]) :
    delivered[r][i] = PromptLen[r] + i

\* With nothing of it in flight a running request has no placeholders left and
\* something to compute: neither stuck nor ahead of its own tokens.
CountersSettle ==
  phase = "idle" =>
    \A r \in Requests :
      status[r] = "running" /\ inFlight[r] = 0 =>
        holes[r] = 0 /\ computed[r] < Total(r)

\* A request waits in exactly the queue its status says, once.
Places(r) == LET at(q) == Cardinality({i \in 1..Len(q) : q[i] = r})
             IN  <<at(running), at(waiting) + at(skipped) + at(passed)>>
QueuesAgree ==
  phase # "output" =>
    \A r \in Requests :
      Places(r) = CASE status[r] = "running" -> <<1, 0>>
                    [] status[r] \in {"waiting", "remote"} -> <<0, 1>>
                    [] OTHER -> <<0, 0>>

\* Every block is in one place: free, deferred or held by one request.
DeferredBlocks == UNION {deferred[i].blocks : i \in 1..Len(deferred)}
BlocksConserved ==
  /\ pool \cup DeferredBlocks \cup UNION {held[r] : r \in Requests} = Blocks
  /\ pool \cap DeferredBlocks = {}
  /\ \A r \in Requests : held[r] \cap (pool \cup DeferredBlocks) = {}
  /\ \A r, q \in Requests : r # q => held[r] \cap held[q] = {}

\* Steps whose output has not come back: while it is processed, the first has.
InFlight == {i \in 1..Len(steps) : phase = "output" => i > 1}

\* While a step in flight may write a block, nobody else gets it: it is not
\* free and no other request holds it.
NoForeignWriter ==
  conf.defer =>
    \A i \in InFlight : \A r \in Requests :
      /\ steps[i].writes[r] \cap pool = {}
      /\ \A q \in Requests : q # r => steps[i].writes[r] \cap held[q] = {}

\* The blocks of a load that is still running stay with its request, also when
\* the request is aborted, and no step scheduled before writes them.
LoadKeepsBlocks ==
  \A r \in loading :
    /\ status[r] \in {"remote", "finished"} /\ held[r] # {}
    /\ \A i \in InFlight : steps[i].writes[r] \cap held[r] = {}

\* Every request that is added ends, whatever is preempted on the way.  (With a
\* connector and drafts this takes a pool with room for a speculative step next
\* to the longest request: a load that never fits both is never admitted.)
EveryRequestEnds ==
  \A r \in Requests : status[r] = "waiting" ~> status[r] = "gone"
=============================================================================
