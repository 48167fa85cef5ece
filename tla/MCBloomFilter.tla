---------------------------- MODULE MCBloomFilter ----------------------------
(***************************************************************************)
(* BloomFilter with two masks of two bits, four blocks and two partitions  *)
(* of two blocks: a hash is 2 * block + mask.                              *)
(***************************************************************************)
EXTENDS BloomFilter, TLC

CONSTANTS
  SortRows,   \* most rows of a batch that is sorted on its own
  SortPrtns   \* its partitions

TwoMasks == 0 :> {0, 1} @@ 1 :> {1, 2}

\* Batches that share blocks, bits and partitions, one with both partitions
\* and a repeated hash.
SharedBlocks == {<<7, 0, 6, 0>>, <<1, 7>>, <<4, 2, 3>>, <<3, 5, 1>>}

\* A batch for each of the threads that are not the scheduler's.
TwoBatches == {<<0, 2>>, <<1, 3>>}

\* Chunks shorter than a group, with a rest, and of whole groups.
Chunks == {<<>>, <<6>>, <<5, 0, 7>>, <<0, 5, 1, 7>>, <<7, 6, 5, 4, 3, 2, 1, 0>>}

MainThread == {"main"}
MainAndExternal == {"main", "external"}
NoWorkers == <<>>
Workers == <<"worker1", "worker2">>

-----------------------------------------------------------------------------

\* PartitionSort::Eval puts every row of a batch once into the range of its
\* partition and nowhere beyond the buffer, up to the largest batch that the
\* elements of prtn_ranges can count.  It depends on no state, so it is checked
\* before the build begins.
SortedByPartition ==
  blocks = <<>> =>
    \A n \in 1..SortRows : \A prtn_id \in [1..n -> 0..(SortPrtns - 1)] :
      PartitionSorted(prtn_id, SortPrtns, Eval(prtn_id, SortPrtns))

=============================================================================
