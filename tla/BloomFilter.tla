----------------------------- MODULE BloomFilter -----------------------------
(***************************************************************************)
(* BlockedBloomFilter, its parallel builder and the kernel that probes it. *)
(* Several threads push batches of hashes.  Each batch is first sorted by  *)
(* partition into the buffers of the thread's ThreadLocalState, then       *)
(* inserted partition by partition with one atomic OR per hash.  A thread  *)
(* finds its ThreadLocalState by its place among the scheduler's threads;  *)
(* every other thread gets the first one.                                  *)
(***************************************************************************)
EXTENDS Integers, Sequences, FiniteSets, PartitionSort

CONSTANTS
  Scheduled,     \* the scheduler's own threads, in the order it keeps them
  Outside,       \* threads that run tasks but are not the scheduler's
  Batches,       \* the batches to insert: sequences of hashes
  Probes,        \* the chunks of hashes that are looked up
  NumMasks,      \* 2^kLogNumMasks, the rotation bits included
  Mask,          \* the bits of each mask
  LogNumBlocks,  \* log_num_blocks_
  LogNumPrtns,   \* log_num_prtns_, from the number of threads
  KeptTogether,  \* kLogBlocksKeptTogether
  Unroll,        \* rows that FindImp_avx2 handles at once
  PrefetchLimit, \* kPrefetchLimitBytes, in blocks
  PrefetchIterations \* kPrefetchIterations

Thread == {Scheduled[i] : i \in DOMAIN Scheduled} \cup Outside
Block  == 0..(2^LogNumBlocks - 1)
Hash   == 0..(NumMasks * 2^LogNumBlocks - 1)

ASSUME BloomFilterAssumption ==
  /\ NumMasks \in Nat \ {0} /\ Unroll \in Nat \ {0} /\ PrefetchIterations \in Nat
  /\ LogNumBlocks \in Nat /\ LogNumPrtns \in Nat /\ KeptTogether \in Nat
  /\ \A b \in Batches : b \in Seq(Hash) /\ b # <<>> /\ Len(b) < 2^Width
  /\ \A c \in Probes : c \in Seq(Hash)
  /\ Outside \cap {Scheduled[i] : i \in DOMAIN Scheduled} = {}

VARIABLES
  blocks,    \* the bits set in each block; empty until CreateEmpty
  pending,   \* batches no thread has taken yet
  slots,     \* thread_local_states_
  pc,        \* where each thread is in PushNextBatchImp
  batch,     \* the batch each thread is inserting
  unprocessed, \* num_unprocessed_partitions of each thread
  pos, end   \* the range of the buffer that a thread's Insert has left

vars == <<blocks, pending, slots, pc, batch, unprocessed, pos, end>>

-----------------------------------------------------------------------------
(* Hashes *)

mask(h) == Mask[h % NumMasks]

block_id(h) == (h \div NumMasks) % 2^LogNumBlocks

Least(x, y) == IF x < y THEN x ELSE y

NumPrtns ==
  2^Least(LogNumPrtns, IF LogNumBlocks > KeptTogether THEN LogNumBlocks - KeptTogether ELSE 0)

\* Powers of two are positive, which the provers do not know.
ASSUME PowersAssumption ==
  2^LogNumBlocks \in Nat \ {0} /\ 2^KeptTogether \in Nat \ {0} /\ NumPrtns \in Nat \ {0}

\* The bits of the hash above those that KeptTogether blocks share.
PrtnId(h) == (h \div (NumMasks * 2^KeptTogether)) % NumPrtns

\* Every thread is taken for the main thread.
SlotOfMain(t) == 0

\* thread_id of CreateBFFinalizeTask.
SlotOf(t) ==
  IF \E i \in DOMAIN Scheduled : Scheduled[i] = t
  THEN CHOOSE i \in DOMAIN Scheduled : Scheduled[i] = t
  ELSE 0

-----------------------------------------------------------------------------
(* Building *)

\* The batch after PartitionSort::Eval has put its hashes into the buffer.
SortBatch(b) ==
  LET sorted == Eval([i \in DOMAIN b |-> PrtnId(b[i])], NumPrtns)
  IN  [hashes |-> [i \in DOMAIN sorted.out |-> b[sorted.out[i]]], ranges |-> sorted.ranges]

\* The members of S below to, in the order in which a loop from 0 meets them.
Listing(S, to) ==
  LET met[n \in 0..to] ==
        IF n = 0 THEN <<>>
        ELSE IF n - 1 \in S THEN Append(met[n - 1], n - 1) ELSE met[n - 1]
  IN  met

Ascending(S, to) == Listing(S, to)[to]

\* The ids of the partitions that have hashes.
NonEmpty(ranges) ==
  Ascending({p \in 0..(NumPrtns - 1) : ranges[p] # ranges[p + 1]}, NumPrtns)

\* Begin: CreateEmpty allocates the blocks and clears them.
Begin ==
  /\ blocks = <<>>
  /\ blocks' = [b \in Block |-> {}]
  /\ UNCHANGED <<pending, slots, pc, batch, unprocessed, pos, end>>

\* PushNextBatchImp up to its loop over the partitions.
PushNextBatch(t, b) ==
  /\ blocks # <<>>
  /\ pc[t] = "idle"
  /\ b \in pending
  /\ pending' = pending \ {b}
  /\ batch' = [batch EXCEPT ![t] = b]
  /\ LET sorted == SortBatch(b)
         ids    == NonEmpty(sorted.ranges)
     IN  /\ slots' = [slots EXCEPT ![SlotOf(t)] =
                        [hashes |-> sorted.hashes, ranges |-> sorted.ranges, ids |-> ids]]
         /\ unprocessed' = [unprocessed EXCEPT ![t] = Len(ids)]
  /\ pc' = [pc EXCEPT ![t] = "partition"]
  /\ UNCHANGED <<blocks, pos, end>>

\* The loop takes the first partition id and calls Insert for its range.
TakePartition(t) ==
  /\ pc[t] = "partition"
  /\ unprocessed[t] > 0
  /\ LET slot == slots[SlotOf(t)]
         p    == slot.ids[1]
     IN  /\ pos' = [pos EXCEPT ![t] = slot.ranges[p]]
         /\ end' = [end EXCEPT ![t] = slot.ranges[p + 1]]
  /\ pc' = [pc EXCEPT ![t] = "insert"]
  /\ UNCHANGED <<blocks, pending, slots, batch, unprocessed>>

\* The buffer can only be shorter than the range when another thread has
\* resized it: then any memory may be read.
HashAt(t) ==
  LET slot == slots[SlotOf(t)]
  IN  IF pos[t] < Len(slot.hashes) THEN {slot.hashes[pos[t] + 1]} ELSE Hash

\* The mask replaces the block.
InsertOverwrites(t) ==
  /\ pc[t] = "insert"
  /\ pos[t] < end[t]
  /\ \E h \in HashAt(t) : blocks' = [blocks EXCEPT ![block_id(h)] = mask(h)]
  /\ pos' = [pos EXCEPT ![t] = @ + 1]
  /\ UNCHANGED <<pending, slots, pc, batch, unprocessed, end>>

\* Insert(hash): one fetch_or.
Insert(t) ==
  /\ pc[t] = "insert"
  /\ pos[t] < end[t]
  /\ \E h \in HashAt(t) : blocks' = [blocks EXCEPT ![block_id(h)] = @ \cup mask(h)]
  /\ pos' = [pos EXCEPT ![t] = @ + 1]
  /\ UNCHANGED <<pending, slots, pc, batch, unprocessed, end>>

\* The partition is done: the last id takes the place of the first.
EndPartition(t) ==
  /\ pc[t] = "insert"
  /\ pos[t] >= end[t]
  /\ slots' = IF unprocessed[t] > 1 /\ unprocessed[t] <= Len(slots[SlotOf(t)].ids)
              THEN [slots EXCEPT ![SlotOf(t)].ids[1] = slots[SlotOf(t)].ids[unprocessed[t]]]
              ELSE slots
  /\ unprocessed' = [unprocessed EXCEPT ![t] = @ - 1]
  /\ pc' = [pc EXCEPT ![t] = "partition"]
  /\ UNCHANGED <<blocks, pending, batch, pos, end>>

\* The loop over the partitions ends.
EndBatch(t) ==
  /\ pc[t] = "partition"
  /\ unprocessed[t] = 0
  /\ pc' = [pc EXCEPT ![t] = "idle"]
  /\ UNCHANGED <<blocks, pending, slots, batch, unprocessed, pos, end>>

-----------------------------------------------------------------------------
(* Probing *)

Find(h) == mask(h) \subseteq blocks[block_id(h)]

\* Positions, from 0, of those of the first n rows of a chunk that pass, in order.
Passing(chunk, n) == Ascending({i \in 0..(n - 1) : Find(chunk[i + 1])}, n)

\* The filter does not fit into the cache.
UsePrefetch == 2^LogNumBlocks > PrefetchLimit

\* The two scalar loops, the first of which fetches blocks ahead and stops that
\* many rows before the end; only the second counts the rows already processed.
FindImp(chunk, preprocessed, prefetch) ==
  LET processed == IF prefetch /\ Len(chunk) > PrefetchIterations
                   THEN Len(chunk) - PrefetchIterations ELSE 0
      tail      == SubSeq(chunk, processed + 1, Len(chunk))
      rest      == Passing(tail, Len(tail))
  IN  Passing(chunk, processed) \o [i \in DOMAIN rest |-> rest[i] + (processed + preprocessed)]

\* The scalar loops do not count the rows of the vectorised one.
FindRowsUnshifted(chunk, enable_prefetch) ==
  LET prefetch  == enable_prefetch /\ UsePrefetch
      processed == IF prefetch THEN 0 ELSE Len(chunk) - (Len(chunk) % Unroll)
      tail      == SubSeq(chunk, processed + 1, Len(chunk))
  IN  Passing(chunk, processed) \o FindImp(tail, 0, prefetch)

\* Find over a chunk: Find_avx2 for whole groups of rows unless the filter is
\* prefetched, FindImp for the rest.
FindRows(chunk, enable_prefetch) ==
  LET prefetch  == enable_prefetch /\ UsePrefetch
      processed == IF prefetch THEN 0 ELSE Len(chunk) - (Len(chunk) % Unroll)
      tail      == SubSeq(chunk, processed + 1, Len(chunk))
  IN  Passing(chunk, processed) \o FindImp(tail, processed, prefetch)

\* BloomFilterUseKernel::filter: nothing passes a filter that was never built.
\* Every call of Find in the program turns prefetching off.
filter(chunk) == IF blocks = <<>> THEN <<>> ELSE FindRows(chunk, FALSE)

-----------------------------------------------------------------------------

Init ==
  /\ blocks = <<>>
  /\ pending = Batches
  /\ slots = [s \in 0..(Len(Scheduled) + Cardinality(Outside) - 1) |->
                [hashes |-> <<>>, ranges |-> [p \in 0..NumPrtns |-> 0], ids |-> <<>>]]
  /\ pc = [t \in Thread |-> "idle"]
  /\ batch = [t \in Thread |-> <<>>]
  /\ unprocessed = [t \in Thread |-> 0]
  /\ pos = [t \in Thread |-> 0]
  /\ end = [t \in Thread |-> 0]

Built == blocks # <<>> /\ pending = {} /\ \A t \in Thread : pc[t] = "idle"

Terminated == Built /\ UNCHANGED vars

Next ==
  \/ Begin
  \/ \E t \in Thread, b \in Batches : PushNextBatch(t, b)
  \/ \E t \in Thread : TakePartition(t) \/ Insert(t) \/ EndPartition(t) \/ EndBatch(t)
  \/ Terminated

Spec == Init /\ [][Next]_vars

-----------------------------------------------------------------------------
(* Properties *)

\* The type invariant.
TypeOK ==
  /\ blocks = <<>> \/ blocks \in [Block -> SUBSET UNION {Mask[m] : m \in DOMAIN Mask}]
  /\ pending \subseteq Batches
  /\ \A s \in DOMAIN slots :
       /\ slots[s].hashes \in Seq(Hash)
       /\ slots[s].ranges \in [0..NumPrtns -> Nat]
       /\ slots[s].ids \in Seq(0..(NumPrtns - 1))
  /\ pc \in [Thread -> {"idle", "partition", "insert"}]
  /\ batch \in [Thread -> Batches \cup {<<>>}]
  /\ unprocessed \in [Thread -> 0..NumPrtns]
  /\ pos \in [Thread -> Nat]
  /\ end \in [Thread -> Nat]

Pushed == {b \in Batches \ pending : \A t \in Thread : pc[t] # "idle" => batch[t] # b}

HashesOf(B) == UNION {{b[i] : i \in DOMAIN b} : b \in B}

\* A membership test has no false negatives, during the build too: once a
\* thread has pushed a batch, every hash of it is found, whatever the other
\* threads are doing to the blocks it shares with them.
NoFalseNegatives == \A h \in HashesOf(Pushed) : Find(h)

\* The parallel builder ends with the blocks of the single-threaded one.
SameAsSingleThreaded ==
  Built => \A b \in Block :
             blocks[b] = UNION {mask(h) : h \in {k \in HashesOf(Batches) : block_id(k) = b}}

\* The selection vector of a probe holds exactly the rows that pass, in order,
\* whether they fall into a group of the vectorised loop or into its rest, and
\* also if Find is called with prefetching for a filter large enough for it.
SelectionIsExact ==
  \A c \in Probes :
    IF blocks = <<>> THEN filter(c) = <<>>
    ELSE /\ filter(c) = Passing(c, Len(c))
         /\ \A enable_prefetch \in BOOLEAN : FindRows(c, enable_prefetch) = filter(c)

\* No two threads insert into the same block at the same time.
NoConcurrentAccess ==
  \A t, u \in Thread :
    t # u /\ pc[t] = "insert" /\ pc[u] = "insert" /\ pos[t] < end[t] /\ pos[u] < end[u] =>
      \A h \in HashAt(t), k \in HashAt(u) : block_id(h) # block_id(k)

=============================================================================
