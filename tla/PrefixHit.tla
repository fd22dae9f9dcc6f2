------------------------------ MODULE PrefixHit -------------------------------
(***************************************************************************)
(* The prefix-cache hit of the hybrid KV cache coordinator                 *)
(* (v1/core/kv_cache_coordinator.py): what a prompt leaves in the cache,   *)
(* and the fixed-point search of a later request over the attention        *)
(* groups.  One action is one group's turn of the search.                  *)
(*                                                                         *)
(* Lengths are in hash blocks.  Fine-grained partial hits are off, so hits *)
(* are aligned to the scheduler block.  The lookup inside one group (the   *)
(* single-type managers) is not part of the repository: it is modelled as  *)
(* the longest aligned length whose blocks the group has cached.           *)
(***************************************************************************)
EXTENDS Integers, Sequences, FiniteSets, FiniteSetsExt

CONSTANTS
  SchedBlock,   \* scheduler_block_size
  MaxTokens,    \* bound on the length of a prompt
  Layouts,      \* attention groups, as verify_and_split_kv_cache_groups lists them
  Lookaheads,   \* values of num_prefill_lookahead
  Retentions    \* values of prefix_cache_retention_interval, Dense for None

Dense == -1

\* kind, block size, blocks of a window, whether the group holds drafter layers,
\* whether its manager keeps a list longer than the common hit.
Group == [kind : {"full", "window", "mamba"}, block : Nat \ {0}, window : Nat \ {0},
          eagle : BOOLEAN, retains : BOOLEAN]

ASSUME LayoutAssumption ==
  /\ SchedBlock \in Nat \ {0} /\ MaxTokens \in Nat /\ Lookaheads \subseteq Nat
  /\ \A L \in Layouts :
       /\ L \in Seq(Group) /\ L # << >>
       /\ \A i \in 1..Len(L) : SchedBlock % L[i].block = 0
       \* full attention is sorted to the front
       /\ \A i, j \in 1..Len(L) : i < j /\ L[j].kind = "full" => L[i].kind = "full"
  \* or the coordinator refuses to start
  /\ \A n \in Lookaheads : n <= SchedBlock
  /\ \A r \in Retentions : r = Dense \/ (r \in Nat /\ r % SchedBlock = 0)

VARIABLES
  groups,      \* attention_groups
  lookahead,   \* num_prefill_lookahead
  retention,   \* prefix_cache_retention_interval
  written,     \* tokens of the earlier prompt, all of them computed
  cached,      \* per group, the blocks of the prompt found in the cache
  evicted,     \* some block has been evicted since
  phase,       \* "cache", then "search", then "done"
  idx,         \* the group whose turn it is
  limit,       \* max_cache_hit_length
  hit,         \* hit_length
  cur,         \* curr_hit_length
  longest,     \* longest_hit_length
  found,       \* hit_length_by_group, -1 before the group's first lookup
  verified     \* eagle_verified

bootVars   == <<groups, lookahead, retention, written>>
cacheVars  == <<cached, evicted>>
searchVars == <<limit, hit, cur, longest, found, verified>>
vars == <<bootVars, cacheVars, phase, idx, searchVars>>

Indices == 1..Len(groups)
Cdiv(a, b) == (a + b - 1) \div b
RoundDown(n, m) == (n \div m) * m
Lesser(a, b) == IF a < b THEN a ELSE b
Greater(a, b) == IF a > b THEN a ELSE b

-----------------------------------------------------------------------------
(* What an earlier request leaves *)

Eagle(gs) == \E i \in 1..Len(gs) : gs[i].eagle
Reprefillable(n) == Greater(0, n - 1)              \* num_reprefillable_tokens

\* Bug variant: the tokens that may be prefilled again are cached as well.
TokensToCache_Unfinished(g, n, look) ==
  IF g.eagle /\ n >= SchedBlock
    THEN Lesser(n, RoundDown(n, SchedBlock) + g.block)
    ELSE RoundDown(n, SchedBlock)

\* cache_blocks: how many of n computed tokens group g registers.
TokensToCache(g, n, look) ==
  IF g.eagle /\ n >= SchedBlock
    THEN LET final == Greater(0, n - Reprefillable(look))
         IN  Lesser(final, RoundDown(final, SchedBlock) + g.block)
    ELSE RoundDown(n, SchedBlock)

\* Bug variant: only the higher of the two positions is kept.
ReplayBoundaries_Extension(gs, n) ==
  IF ~Eagle(gs) THEN {n - 1}
  ELSE {Greater(RoundDown(n, SchedBlock) - SchedBlock, 0)}

\* get_replay_boundaries: where a resend, or a longer prompt, can resume.
ReplayBoundaries(gs, n) ==
  IF ~Eagle(gs) THEN {n - 1}
  ELSE {Greater(RoundDown(m, SchedBlock) - SchedBlock, 0) : m \in {n - 1, n}}

\* Blocks of g that a hit at length p reads; the block above it.
Needs(g, p) ==
  LET last == p \div g.block
  IN  CASE g.kind = "full"   -> 1..last
        [] g.kind = "window" -> {b \in 1..last : b > last - g.window}
        [] g.kind = "mamba"  -> {last} \ {0}
Above(g, p) == IF g.eagle /\ g.kind # "mamba" THEN {p \div g.block + 1} ELSE {}

\* The ends of the segments a positive interval cuts n tokens into.
Segments(n) == IF retention > 0 THEN {p \in 1..n : p % retention = 0} ELSE {}

\* What retention keeps: full attention all, the others what a replay reads, and
\* with a positive interval a checkpoint per segment.
Retained(g, n) ==
  IF g.kind = "full" THEN 1..MaxTokens
  ELSE UNION {Needs(g, p) \cup Above(g, p)
              : p \in {RoundDown(b, SchedBlock) : b \in ReplayBoundaries(groups, n)}
                     \cup Segments(n)}

-----------------------------------------------------------------------------
Init ==
  /\ groups \in Layouts /\ lookahead \in Lookaheads /\ retention \in Retentions
  /\ retention > 0 => \E i \in Indices : groups[i].kind # "full"
  /\ written \in 1..MaxTokens
  /\ cached = [i \in Indices |-> {}] /\ evicted = FALSE
  /\ phase = "cache" /\ idx = 1
  /\ limit = 0 /\ hit = 0 /\ cur = 0 /\ longest = 0
  /\ found = [i \in Indices |-> -1] /\ verified = {}

\* One turn of the loop of cache_blocks.
CacheBlocks ==
  /\ phase = "cache" /\ idx \in Indices
  /\ LET g == groups[idx]
         registered == 1..(TokensToCache(g, written, lookahead) \div g.block)
     IN  cached' = [cached EXCEPT ![idx] =
                      IF retention = Dense THEN registered
                      ELSE registered \cap Retained(g, written)]
  /\ idx' = idx + 1
  /\ UNCHANGED <<bootVars, evicted, phase, searchVars>>

\* The pool hands a cached block to someone else.
Evict(i, b) ==
  /\ phase = "cache" /\ idx > Len(groups) /\ b \in cached[i]
  /\ cached' = [cached EXCEPT ![i] = @ \ {b}]
  /\ evicted' = TRUE
  /\ UNCHANGED <<bootVars, phase, idx, searchVars>>

\* find_longest_cache_hit for the prompt sent again, whose last token is always
\* computed, or for a longer prompt that begins with it.
BeginSearch(max) ==
  /\ phase = "cache" /\ idx > Len(groups)
  /\ phase' = "search" /\ idx' = 1
  /\ limit' = max /\ hit' = max /\ cur' = max
  /\ UNCHANGED <<bootVars, cacheVars, longest, found, verified>>

-----------------------------------------------------------------------------
(* The search *)

\* Group i can serve a hit of length p out of max tokens; if the drafter's last
\* block is to be dropped, only with the block above p matched as well.
Accepts(i, p, max, drop) ==
  /\ p % SchedBlock = 0 /\ p <= max
  /\ Needs(groups[i], p) \subseteq cached[i]
  /\ drop /\ groups[i].kind # "mamba" /\ p > 0 =>
       /\ p + groups[i].block <= max
       /\ Above(groups[i], p) \subseteq cached[i]

\* manager_cls.find_longest_cache_hit
Find(i, max, drop) == Max({p \in 0..max : Accepts(i, p, max, drop)})

\* A full-attention group that has been looked up is only trimmed.
Trim(i) ==
  /\ phase = "search" /\ idx = i /\ groups[i].kind = "full" /\ found[i] # -1
  /\ cur' = Lesser(cur, found[i])
  /\ idx' = idx + 1
  /\ UNCHANGED <<bootVars, cacheVars, phase, limit, hit, longest, found, verified>>

\* Bug variant: no room for the block that is matched and dropped.
Reach_NoMargin(i, drop) == cur

\* _max_length: a drafter group looks one block further.
Reach(i, drop) ==
  IF drop /\ groups[i].kind # "mamba" THEN Lesser(cur + groups[i].block, limit) ELSE cur

LookUp(i) ==
  LET drop == groups[i].eagle /\ i \notin verified
      new  == Find(i, Reach(i, drop), drop)
  IN  /\ phase = "search" /\ idx = i /\ (groups[i].kind = "full" => found[i] = -1)
      /\ verified' = CASE drop -> verified \cup {i}
                       [] ~drop /\ new < cur -> {}
                       [] OTHER -> verified
      /\ cur' = new
      /\ found' = [found EXCEPT ![i] = new]
      /\ longest' = Greater(longest, new)
      /\ idx' = idx + 1
      /\ UNCHANGED <<bootVars, cacheVars, phase, limit, hit>>

\* is_simple_hybrid: one round is enough.
OneRound == Len(groups) = 2 /\ groups[1].kind = "full"

\* The lists cut to the common length: those of full attention, unless the
\* manager keeps what is longer.
Truncated(i) == groups[i].kind = "full" /\ ~groups[i].retains

\* Bug variant: one round is taken to be enough for every layout.
EndRound_Once ==
  /\ phase = "search" /\ idx > Len(groups)
  /\ phase' = "done"
  /\ hit' = Lesser(hit, cur)
  /\ found' = [i \in Indices |-> IF Truncated(i) THEN hit' ELSE found[i]]
  /\ UNCHANGED <<bootVars, cacheVars, idx, limit, cur, longest, verified>>

\* The end of a round: again if the length shrank, else the lists are truncated to
\* it and the search is over.
EndRound ==
  /\ phase = "search" /\ idx > Len(groups)
  /\ hit' = Lesser(hit, cur)
  /\ IF cur < hit /\ ~OneRound
       THEN /\ idx' = 1
            /\ UNCHANGED <<phase, found>>
       ELSE /\ phase' = "done"
            /\ found' = [i \in Indices |->
                           IF Truncated(i) THEN hit' ELSE found[i]]
            /\ UNCHANGED idx
  /\ UNCHANGED <<bootVars, cacheVars, limit, cur, longest, verified>>

Next ==
  \/ CacheBlocks
  \/ \E i \in Indices : \E b \in cached[i] : Evict(i, b)
  \/ \E max \in {written - 1, written + SchedBlock} : BeginSearch(max)
  \/ \E i \in Indices : Trim(i) \/ LookUp(i)
  \/ EndRound

Spec == Init /\ [][Next]_vars

-----------------------------------------------------------------------------
(* Properties *)

\* The drafter's block above the hit is known to be matched in these groups.  Of
\* several drafter groups outside full attention, each may shorten the length
\* without a new check of the others.
Checked(i) ==
  /\ groups[i].eagle
  /\ groups[i].kind = "full" \/
       \A j \in Indices : groups[j].eagle /\ groups[j].kind # "full" => j = i

\* Every group can serve the result, with the drafter's block above it matched
\* in the drafter groups; and no greater length is one that all groups can serve
\* like this.  The search neither returns a length some group has no KV for nor
\* stops short.
HitIsLongest ==
  phase = "done" =>
    /\ \A i \in Indices : Accepts(i, hit, limit, Checked(i))
    /\ \A p \in 0..limit :
         (\A i \in Indices : Accepts(i, p, limit, groups[i].eagle)) => p <= hit

\* What the comment on eagle_verified says: the drop of each of its groups has
\* been verified at the current length.  Fails with two drafter groups.
VerifiedAtHit ==
  phase = "done" => \A i \in verified : Accepts(i, hit, limit, TRUE)

\* The parts of what the search returns fit together.  A group outside full
\* attention is never truncated: that its list ends at the common length is up to
\* the last round.  A list that is left longer reaches only cached blocks.  The
\* shared prefix reported as not cached everywhere (longest - hit) is not negative,
\* and some group has the whole of it.
ListsCoverHit ==
  phase = "done" =>
    /\ \A i \in Indices :
         /\ found[i] >= hit /\ Needs(groups[i], found[i]) \subseteq cached[i]
         /\ groups[i].kind # "full" \/ Truncated(i) => found[i] = hit
    /\ longest >= hit
    /\ longest > 0 => \E i \in Indices : Accepts(i, longest, limit, FALSE)

\* A hit reads no slot of a drafter group that the end of the earlier prompt's
\* prefill may have written for another continuation.
NoPollutedSlot ==
  phase = "done" =>
    \A i \in Indices :
      groups[i].eagle /\ groups[i].kind # "mamba" => hit <= Greater(0, written - lookahead)

\* With nothing evicted a prompt sent again, and a longer one, resume where
\* get_replay_boundaries says, even when only those positions were kept.
ReplayResumes ==
  phase = "done" /\ ~evicted /\ Reprefillable(lookahead) = 0 =>
    LET kept == ReplayBoundaries(groups, written)
    IN  hit >= RoundDown(IF limit < written THEN Min(kept) ELSE Max(kept), SchedBlock)
=============================================================================
