# Verification of anytime-daat

TLA+ models, TLC runs and TLAPS proofs for the anytime version of the PISA
search engine (`src/`).  The program answers top-k queries over an inverted
index whose documents are numbered so that *clusters* of similar documents are
intervals.  A query visits clusters one after the other, prunes with score
upper bounds inside each of them, and may be stopped between two of them.  The
index is made by a chain of tools: parse, shard, invert, reorder, compress.

Two questions are asked throughout.  Of queries, *rank safety*: is a document
that is left out of the answer really one that could not have been in it?  Of the
chain of tools, *preservation*: is every posting of the collection in the index,
once, with the right document and frequency, whatever the threads do?  Errors
of both kinds do not crash; they return slightly different results, which a test
seldom sees.

## 1. Inventory

### The components and their state

| Component | Source (below `include/pisa` unless said) | State it keeps | Operations | What makes it correct |
|---|---|---|---|---|
| Result queue | `topk_queue.hpp` | heap of (score, docid), threshold, k | insert, would_enter, set_threshold, clear, finalize | holds the best of what it was offered; the threshold is its lowest score when full |
| Query functions | `tools/queries.cpp`, `tools/evaluate_queries.cpp` | estimated threshold, the queue of one query or of several | query_fun of every algorithm, safe re-run in op_perftest, parallel loop | answer is a top-k of the documents asked for, or says nothing about what was not visited |
| Range traversal | `query/algorithm/{wand,block_max_wand,maxscore}_query.hpp` | cursors, ranges left, processed clusters, latency | operator(), ordered_range_query, boundsum_range_query, boundsum_timeout_query | implements the contract above |
| Whole-collection queries | `query/algorithm/` (ranked and/or, block-max and/maxscore, and/or, range) | cursors, candidate | operator() | as above, without ranges; Boolean queries list the matching documents |
| Term-at-a-time queries | `ranked_or_taat_query.hpp`, `range_taat_query.hpp`, `accumulator/*.hpp` | scores, generation counters, shared accumulator and queue | init, accumulate, aggregate | no score of another query is seen |
| Cursors | `cursor/*.hpp` | position, bound of the list, of the range, of the block | next, next_geq, global_geq, score, update_range_max_score | position is a document of the list; bounds hold |
| Wand data | `wand_data.hpp`, `wand_data_raw.hpp`, `wand_data_compressed.hpp`, `wand_utils.hpp` | blocks, ranges and maxima of every list; the cluster of every document | construction, next_geq, global_geq, score, range_score, all_ranges | bounds hold and are tight; every document is in a range |
| Block lists | `block_posting_list.hpp` | block decoded, position, buffers | reset, next, next_geq, global_geq, move, freq | a cursor over an increasing list, whatever the order of calls |
| Sequence lists | `freq_index.hpp`, `codec/`, `sequence/`, `bit_vector.hpp` | bits with pointers and samples; position, value, word in hand, partition in hand, last sum | write; move, next, next_geq, prev_value | the same cursor |
| Partitions of sequences | `optimal_partition.hpp`, `sequence/partitioned_sequence.hpp` | cost windows, shortest path | advance_start, advance_end, compute_partition | covers the list and pays |
| Forward index | `forward_index_builder.hpp` | batches, bounded queue, task group | build, run, merge, remove_batches | the index is the collection; memory is bounded; the producer is not stuck |
| Sharding | `sharding.hpp` | mapping, shards | partition_fwd_index, rearrange_sequences, process_shard | a partition, renumbered |
| Inversion | `invert.hpp` | partial indexes of batches | invert_range, join, merge_batches | the postings of the collection |
| Reordering, sampling | `recursive_graph_bisection.hpp`, `reorder_docids.hpp`, `forward_index.hpp`, `util/inverted_index_utils.hpp` | permutation, degrees local to threads | methods of the tool, bisection, write | a permutation applied to lists, sizes and titles alike |
| Containers | `compress.hpp`, `block_freq_index.hpp`, `bitvector_collection.hpp`, `sequence_collection.hpp`, `util/semiasync_queue.hpp` | end points, cells, jobs and threads | add_posting_list, add_sequence, build, operator[]; add_job, complete | list number i is found at number i; jobs take effect in the order added |
| Block partition | `score_opt_partition.hpp` | window, shortest path | | the partition covers the list |
| Range wand data | `wand_data_range.hpp` | maxima over fixed ranges | construction, enumerator | bounds hold |
| Block codecs, files | `codec/block_codecs.hpp` and others, `mappable/`, `memory_source.hpp`, `payload_vector.hpp` | bytes | | decode is the inverse of encode |
| Text | `parser.hpp`, `tokenizer.hpp`, `query/term_processor.hpp`, scorers | none | | |

### How they interact

Everything a query does is one thread of direct calls: the query function sets
the estimate on a fresh queue, makes a cursor per term (posting list, scorer,
wand data), and calls one member function.  The member function reads the
queue's threshold, and every insertion may raise it; the raised threshold
changes which ranges, blocks, lists and documents are skipped from then on.
This feedback is where the difficulty is.  The wand data is built long before,
by another tool, from the same collection; a query relies on the two
agreeing about which documents a range has.  Queries run beside each other in
`evaluate_queries` only, where they share what their function captured.

The tools that make the index communicate by files: each reads what the one
before has written.  Inside a tool, threads communicate by a bounded queue
(`forward_index_builder`), by joins of partial results (`invert`), by thread-local
degrees (the bisection) and by a queue of jobs (`semiasync_queue`).

### Hard behaviours

* Pruning with a threshold that rises while loops run, with a wrong initial
  estimate, and with cursors left behind on lists no longer followed.
* Cursors that are sorted with `std::sort`: equal documents in any order.
* Searches that go backwards (`global_geq`, ranges in any order) over state
  that was written for forward movement: blocks, buffers, block-max positions,
  words in hand, partitions in hand.
* The clock, read at the end of an iteration that `continue` can skip.
* State kept from one query to the next: accumulators, counters that wrap, queues.
* One-pass construction of bounds with several running maxima and indexes.
* Threads that finish in any order and results that must be in order; a task
  that throws while the producer waits for it.
* Numbers that change meaning: term numbers of a shard, old and new documents,
  gaps and sums, end points that are inclusive or not.

`PROJECT.json` lists each hazard at its line, with the property that covers it
or why none does yet.

## 2. The modules

    TopKQueue ---- TopKClient                       the queue, and the queue in use
        |  \------ AnytimeSearch  <--implements--\  what a query promises
        |                                         |
        +--------- RangeQuery (with WandData) ----+--- WandQuery
        |               |                         |--- BlockMaxWandQuery
        |               |                         |--- MaxScoreQuery
        |               |                         \--- CollectionQuery
        |               |             QueryAlgorithms: any of the four, by name
        |         QueryInputs (TLC inputs)
        \--------- TermAtATime                     accumulators and their clients
    WandData ----- WandDataBuilder                  the bounds, and their construction

    PostingCursor <--implement--  BlockPostingList, DocumentEnumerator
    UnaryEnumerator --- EliasFano, RankedBitvector --- IndexedSequence
        --- PartitionedSequence, OptimalPartition --- DocumentEnumerator
    PostingLists: a list of either kind

    ForwardIndexBuilder -> Sharding -> Inversion -> Reordering -> IndexContainer
                                     GraphBisection --/   SemiasyncQueue --/
    IndexPipeline: all of them, one tool after the other

Each module of the last two groups can be read alone; `PostingLists` and
`IndexPipeline` compose them, and the runs check the compositions, so that the
inputs of a module are what the module before it really produces.

### TopKQueue, TopKClient

`m_q` is a set of entries and `m_threshold` a number.  The heap order matters
only through its front, a lowest score; which of several lowest entries
`pop_heap` drops is left open.  An entry carries the number of the visit that
produced it, since the same (score, docid) can be in the heap twice.  The
actions are `Insert` (`Reject`, `Push`, `Replace`), `SetThreshold`, `Clear` and
`Finalize`.  `TopKClient` drives them in the order the query functions do and
remembers everything that was offered.

### AnytimeSearch

The contract.  One action per decision of the loops: `StartRange`, `Enter` (a
document is accepted by the queue), `FinishRange`, `StopExhausted`,
`StopEarly`, `Return` (finalize), `Rerun` (the safe re-run), `Accept`.  The four
kinds of call differ in `IsNext`, `Exhausted` and `Budget`.  Evaluation of a
range is abstract: documents enter in any order with their full score, and the
range may be left as soon as none of its others would enter.  The module
assumes of a collection that the bound of a range holds for its documents
(`BoundAssumption`, which is proved of the construction in
`WandDataBuilder_proofs`) and that ranges are disjoint (`DisjointAssumption`).

### WandData, WandDataBuilder

`WandData` holds what the wand data is and how a query reads it: the map from
documents to clusters, `all_ranges()`, blocks, `range_score`, quantization.
`WandDataBuilder` is the construction, one posting per step, with the locals of
`static_block_partition` as variables, the map `doc_to_range` that `operator[]`
fills as a side effect, dropped terms, and the raw and compressed formats.

### RangeQuery, WandQuery, BlockMaxWandQuery, MaxScoreQuery, CollectionQuery

`RangeQuery` has what the twelve member functions of the three range algorithms
share: the loop over ranges, its termination checks, positioning of the cursors,
the clock, the pivot of the two WAND variants.  The algorithm modules add the
evaluation of a range, one iteration of the inner loop per step, and define `Next`
as a disjunction of the member functions.  `CollectionQuery` has the seven
algorithms with `operator()` only, and `range_query.hpp`, which runs four of them
on the same cursors range after range.  `QueryAlgorithms` picks an algorithm by
name as `tools/queries.cpp` does, so that one run checks all of them.
`AnytimeSpec` is `AnytimeSearch` under the mapping that sees a range being
evaluated where the detailed module is in its inner loop; the wand data of a call
is computed from its posting lists by the operators of `WandData`.

The member functions are near copies of each other in the source and differ in
small ways; these are in the models:

* `ordered_range_query` skips a range whose weighted bounds do not enter before
  it sets up cursors.  It visits all the ranges it is given or `max_clusters`.
* `boundsum_*` sort the ranges by the sum of *unweighted* range scores, and
  documents are scored unweighted too, while bounds of cursors are weighted.
* In `maxscore_query` the range functions insert the end of the range with
  score 0 when candidates run out; the queue rejects it.
* `block_max_wand_query` stops scoring a document as soon as its block bounds
  do not enter and offers the partial score, which is rejected.
* Only `boundsum_timeout_query` reads the clock, and `continue` skips that.
* `block_max_ranked_and_query` leaves a list whose block ends before the next
  candidate and takes the jump for the test whether it did.

`maxscore_query` looks a candidate up in a demoted list that may already be past
it; `block_posting_list.hpp:142` asserts that nobody does.  A block list then
stays, a sequence goes back.  `LookupsIndifferent` says that both give the same
score for the candidate.

### TermAtATime

One call of `accumulate` and one document of `aggregate` are one step.  An
accumulator is the scores of `simple_accumulator` or the scores, generations and
counter of `lazy_accumulator`, with `cycle` for the number of generations a byte
holds.  Three clients: the test, `tools/queries.cpp` with one queue for all
queries, `tools/evaluate_queries.cpp` with threads over one accumulator.

The function of `tools/queries.cpp` uses its queue again without `clear`.  The
answers of later queries then keep results of earlier ones: `RankedAnswer`
fails on the inputs `SharedQueue` of `MCTermAtATime` as it does in the run
`TaatParallel`, and `OwnQueueAnswer` is about the clients with a queue of each query.

### PostingCursor, BlockPostingList

`PostingCursor` states, per operation, where a cursor over a list may go.
`BlockPostingList` is `document_enumerator` of `block_posting_list.hpp`: block in
hand, position in it, lazy decoding of frequencies, exhausted without leaving its
block.  `RangeQuery` uses cursors as `PostingCursor` describes them.

One remark the model forced: after a search ran past the last posting,
`docid()` is the universe but the block in hand is unchanged, so a later
`next_geq` of a *smaller* document comes back with a posting of the list.
`CursorNextGeq` allows that.

### UnaryEnumerator to DocumentEnumerator, PostingLists

The lists of a `freq_index`.  A bit vector is the set of its ones; an enumerator
is a record with the fields of the code's class, and a method is an operator that
returns the record after the call.  `UnaryEnumerator` keeps the rest of the word
in hand, from which consumed ones are gone, so that `skip0` counts them as zeros
as the code's comment says.  `EliasFano` and `RankedBitvector` write and use every
pointer and sample; `IndexedSequence` chooses the smaller form;
`PartitionedSequence` opens partitions through two more Elias-Fano sequences.
`OptimalPartition` computes the cut of the `pefopt` index.  `DocumentEnumerator` is
the state machine: documents through one sequence, sums of frequencies through
another that is read only by `freq`.

### ForwardIndexBuilder, Sharding, Inversion

`ForwardIndexBuilder`: a producer that reads records, cuts them into batches,
pushes to the bounded queue and runs a task for each; a task processes its batch,
may throw, and pops the queue.  Its last action is the whole of `merge`.
`Sharding` maps documents to shards, copies, and renumbers terms.  `Inversion`
is one task after the other of `parallel_reduce`: bodies split off to the right
at any time and join when neighbours are through.

One remark.  A task that throws leaves its place in the queue taken and the group
cancelled, so that the producer may wait for ever (`ProducerHangs`);
no documentation speaks of it, and `ProducerGoesOn` is about builds in which no
task threw.

### GraphBisection, Reordering

`GraphBisection` is the recursion with threads: a node computes the degrees of its
halves in storage of its thread, exchanges documents, and while it waits for its
parallel sort its thread may run another node.  Gains are left open, so that any
exchange the loops allow may happen: order and quality of the result are not
modelled, that it is a permutation and that no node uses degrees of another is.
`Reordering` has the methods of the tool, the rewriting of lists, sizes and
titles, and sampling.

### SemiasyncQueue, IndexContainer, IndexPipeline

`SemiasyncQueue` has jobs that are prepared by threads and committed by the caller.
`IndexContainer` has the builders; lists are cells at end points, written by
two tasks for a `freq_index`.  `IndexPipeline` has the state of all of them and a
variable for the tool that runs; its actions are the actions of the modules and
the handing over of files.

## 3. The runs

| Run | States | Shows |
|---|---|---|
| TopKClient | 311,688 | the queue holds the best of what it was offered; `finalize` loses nothing |
| MCAnytimeSearch | 223,822 | rank safety at every moment, exact safe answers, no duplicates, an answer in the end |
| MCWandDataBuilder | 61,776 | every bound read by a query holds, and is as low as it can be |
| MCQueryAlgorithms | 290,903 | each algorithm implements AnytimeSearch or lists the right documents, skips nothing, and ends; blocks never run ahead of the pivot; the timeout is never compared with an old latency |
| MCTermAtATime | 68,794 | no query sees the scores of another, over a wrap of the counter |
| MCIndexPipeline | 101,849 | the index at the end holds the postings of the collection, in every order of the threads |
| MCPostingLists | 37,396 | any sequence of calls leaves an enumerator of any index a cursor of its list; partitions pay |

Five runs show disagreements with what the repository says (findings in
`PROJECT.json`):

* **WandClusterEnds.** `all_ranges()` starts a range at the previous end point
  *plus one* (`wand_data.hpp:158`), but end points are exclusive everywhere else:
  the first document of each later cluster is in no range a query visits.  The
  query models use the ranges as they are, so their contract is about the
  documents of the ranges, and this run says what is missing from them.
* **WandCompressedLists.** The compressed format takes the entries its own
  `operator[]` added for clusters and ends the program on the second list.
* **TaatParallel.** `evaluate_queries` calls one function object with one
  accumulator from several threads: answers mix the scores of two queries.
* **FeatureOrder.** Sorting by a feature yields the documents in their new order,
  which is then used as the new number of each document: the inverse permutation.
* **ForwardTerms.** The forward index without compression stores the gaps between
  the terms of a document and returns them as terms, which the bisection counts.

For two combinations the bounds do not hold, and the properties of
`MCWandDataBuilder` say that they are about the others: the ranges of a quantized
index (quantizing rewrites block scores and not range scores) and the compressed
format of a quantized index (block bounds count quantization steps from 0, the
scores of the index from 1).  The inputs have both, so that the rest of what is
claimed is checked of them too.

### Bounds

* `TopKClient`: k = 2, two documents, scores 0..3, five insertions between two
  clears.  Five insertions fill the queue, replace twice and tie at the front;
  repeated documents and zero scores occur.
* `MCAnytimeSearch`: four documents in two ranges, all scores 0..2, tight and
  loose bounds, k = 2, estimates 0..2, every kind of call, lists of ranges in and
  out of order and one that repeats a range.  Two ranges suffice for a range to
  be skipped on the results of another; k = 2 for a full, a half-full and an
  empty queue.
* Builder: one list over up to five documents, or up to three lists, blocks of
  two or three postings, clusters that end inside, at and after the lists, and none.
* Queries: k = 2, three terms over six documents in two clusters, blocks of
  two, `MaxElapsed` = 2 bounds the clock.  Three terms are needed for a lookup
  list behind an essential one and for a pivot with cursors on both sides; two
  blocks per list for a stale block; ranges of two documents for `range_query`, so
  that lists and clusters span several of them.
* `MCTermAtATime`: three queries in a row over three documents, `cycle` = 2, so that
  the counter wraps between them; thresholds 0 and 1.  `TaatParallel` has two threads.
* `MCIndexPipeline`: up to five documents, batches of one and two, two and three
  threads; empty documents and repeated terms occur.  `MaxBodies` = 3 bounds the
  bodies of `parallel_reduce`, enough for a join of a join; the trees of the
  bisection have up to three nodes.  One collection of four documents goes through
  all tools; all mappings to shards are tried on it.
* `MCPostingLists`: every list over seven documents.  Blocks of two give lists
  with one to four blocks, with a full and a short last one.  Words of four bits,
  pointers and samples at every fourth place and a linear scan of one make small
  lists jump over words and by pointers; partitions of two, and cost parameters
  for which the shortest path cuts lists in several parts.

### Fairness

A query is one thread that runs to its end: `WF_vars(Next)` for the search and
the algorithms, nothing stronger.  In `AnytimeSearch` this suffices because
an `Enter` inserts a document once per visit; in the algorithms because every
iteration moves a cursor, which is what `Terminates` checks.  The builder of the
forward index has weak fairness of its producer and of the tasks taken together:
the task group runs some task when there is one.  The queue of jobs has it for
its steps taken together.  The other modules have no liveness properties and no
fairness.  TLC's deadlock check is on in all runs: a machine that ends does
so in a stuttering action (`Answered`, `Done`, `Finished`, `Completed`), so the
check says that no state before the end is stuck; `ProducerHangs` is the one other such action.

### Mutants

For each property of a passing run `PROJECT.json` names a mutated definition, in
the module beside the original ("Mutated form of ..."), that breaks it: a
dropped reset, an off-by-one bound, a forgotten threshold, a stale block.

## 4. The proofs

TLAPS proves what follows for every k, collection, cluster structure and call, for
any number of terms, ranges, jobs, threads and batches.

**The queue.** `TopKClient_proofs`: `ClientInv` is the type invariant,
`HeapInv` and: the queue holds only offered entries, what it dropped scores no
more than the threshold, and visits number the insertions.  The last part makes
every insertion one of a new entry; without it `Push` could leave the number of
entries as it was and the threshold would not be that of a full queue.  Results:
`ClientTypeCorrect`, `ThresholdCorrect`, `TopKCorrect`, `FinalizeCorrect`.
`InsertFacts` of `CommonFacts` says what an insertion makes of any good queue
(`GoodQueue` of `TopKQueue`) and is used by all that follow.

**The contract.** `AnytimeSearch_proofs`: `IInv` is `InputInv` (the inputs are
among those assumed), `TypeOK`, `QueueInv`, `CoveredIsRankSafe`, `VisitInv`
(each range is to be visited, in scope or covered, and the list of an ordered
call is followed) and `EndInv` (what a loop that ended without a cut knows: all
listed ranges were begun, or the bounds of the ranges left do not enter; and an
answer is accepted after a re-run or when it has enough results).
`CoveredIsRankSafe` alone is not inductive: it needs `QueueInv` for what a
replacement displaces.  `DoneIsRankSafe` needs `VisitInv` for the ranges that were
begun, and `EndInv` with `BoundAssumption` for those that were not.
`NoDuplicates` needs an invariant of its own, `DupInv`, over
`DisjointAssumption`.  Results: `TypeCorrect`, `QueueCorrect`, `CoveredRankSafe`,
`DoneRankSafe`, `SafeAnswerCorrect`, `ThresholdMonotone`, `ResultsDistinct`.

**Sums, bounds and lists.** `CommonFacts` has what the models' operators
compute: sums over sets of terms (monotone, additive over disjoint parts,
unchanged by terms that add nothing), minima and maxima, the order of a posting
list, and `BlockCovers`: the block a search stops at for a document bounds the
score of its posting.  It also numbers the elements of a set in order
(`AscendingFacts`) and finds the parts of a flattened sequence of sequences
(`FlattenFacts`).  Finite sums and lists are reasoned about by induction
without an operator parameter: `SetOfNaturals` and `SetOfSets` say that a *set*
of numbers, or of finite sets, which has the least one and is closed under the
next is all of them, and each proof names its set.

**The construction of the bounds.** `WandDataBuilder_proofs`.  `DataInv` says what
one pass has built.  `BlocksSoFar` and `RangesSoFar` describe the loop of
`static_block_partition` after its first i postings: the blocks pushed are the
full blocks of the partition and the running maximum is that of the one in hand;
each posting of a cluster is bounded by an entry that a search for the cluster
comes to first, or by the range in hand, and each bound is the score of a posting.
Three more parts carry this to the finished data: `MapInv` (the map is that of the
cluster file, and what `operator[]` added to it has cluster 0), `PlacesInv` (a list
is found at the number of lists kept up to it, however many were dropped), and
`BuiltInv` (what quantizing does to block scores and list maxima).  The clusters of
increasing documents do not decrease inside the map, and this is why the search
for a cluster stops at its entry; a document past the last end point counts for
cluster 0 and comes after all others.  Results: `DataCorrect`,
`BlockBoundsCorrect`, `BlocksCorrect`, `RangeBoundsCorrect`.

**The range algorithms.** `RangeQuery_proofs`.  A document is `Ahead` when no
cursor of a list that has it has passed it, and `Decided` when the queue holds it
with its full score or it would not enter.  The invariants say where every
document of the range in hand is:

* `PivotInv` (wand): each is ahead or decided, and what was inserted in this visit
  lies before every cursor.  `NothingSkipped`, which the run checks, is not
  inductive: it speaks of the documents before all cursors only, and an advance
  moves one cursor over documents that are before it and not before the others.
  The second part makes a document enter once.
* `BlockMaxInv` adds that the block before that of a list ends before every
  candidate pivot (`BlocksBehind`), so that a stale block never bounds a document it
  does not contain.  That a jump over several blocks decides all it passes needs
  the bounds of the blocks for each document on the way (`BlocksBoundHolds`).
* `MaxScoreInv`: everything before the candidate is decided, no cursor has passed a
  document from the candidate on, those of the essential lists stand there or
  later, the order of the lists has them all, and the bounds of the lookup lists
  together do not enter.  `ClockRuns` relates the number of ranges begun to those
  timed.

Results: `WandCorrect`, `BlockMaxCorrect`, `MaxScoreCorrect` (the invariants),
`NoDocumentSkipped`, `BlocksDoNotRunAhead`, `LatencyIsFresh`.

**All algorithms.** `QueryAlgorithms_proofs`.  `CollectionInv` is, for the
algorithms over the whole collection, `OrInv`, `AndInv` or
`BlockMaxMaxScoreInv`, over the documents still `Open`: not decided, or not listed
by a Boolean query.  `AndInv` keeps a block of each list at or before every open
document, since `block_max_ranked_and_query` leaves a list in the middle of its
round.  `BlockMaxMaxScoreInv` has a document up to which everything is decided, and
would not enter again with the terms that have not passed it: that is why an
early exit from a lookup may leave cursors behind.  Results: `CollectionCorrect`,
`NoCandidateSkipped`, `LookupsNeverGoBack`, `BooleanAnswersRight`.

The refinement `ImplementsAnytime == Spec => AnytimeSpec` needs all four
invariants and `SearchInv` (the loop over the ranges, and that no cursor stands
before the range in hand).  Each step of an algorithm is shown to be a
`StartRange`, a `Stop`, an `Evaluating` step (it may insert one document of the
range that the queue does not have from this visit, with its *full* score: a partial
sum offered by an algorithm that gave up is rejected), a `Leaving` step (everything
in the range is decided) or a stutter; one lemma, `SearchStep`, maps those to
`AnytimeSearch`.  The inputs are shown to be ones the contract assumes
(`SearchAssumptions`): bounds of ranges hold because they are computed from
the lists, ranges are disjoint because end points increase.  So the theorems of
the contract hold of every algorithm: `AnswersRankSafe`, `AnswersDistinct`.

**Term at a time.** `TermAtATime_proofs`.  While queries run one at a time
(`Alone`), whatever the number of queries and ranges and the `cycle` of the
counters, `TaatInv` says what the shared array means.  A document reads as the sum
of the postings accumulated so far in this range (`AccumulatorsInv`): a prefix of
them while `accumulate` runs, all of them in `aggregate`.  `AccumulatorHoldsScores`
is that last part alone, and is not inductive: `init` of the lazy accumulator
leaves the scores of earlier queries in place, and that they read as 0 needs
that no counter is ahead of the one in use, and each behind it between two ranges
unless it is about to begin anew (`CountersInv`).  `QueuesInv` says that a queue
holds documents with their full scores and that every document the query is done
with is in it or scores no higher than its threshold.  With two threads the
property is false, which is what the run `TaatParallel` shows of the code, so
`Alone` is needed.  Results: `TaatCorrect`, `AccumulatorCorrect`,
`TaatAnswersRanked`.

**Jobs and memory.** `IndexPipeline_proofs`, first about the two places where threads
and a bound meet.  `QueueInv` numbers the jobs: those committed, those of the
running threads in turn and those of the next thread are 1, 2, 3, ... without a gap
(`JobsInOrder`), and says where the caller is when a list is empty.
`CommitsInOrder` says only what the committed ones are; that they stay so needs the
numbers of all others.  `BuilderInv` counts the places taken in the queue of
batches: one for each task that is not over, those that threw among them.  Results:
`QueueCorrect`, `JobsCommitInOrder`, `BuilderCorrect`, `MemoryIsBounded`.

**The forward index.** In the same module, `RecordsInv` says that the records of the
batches that have a task, of the batch being read and of the rest of the input are,
one after the other, the input: no record is lost or moved, in whatever order
the tasks run.  It also says that only the last batch may be empty.  The merge
needs this: it writes the titles and documents of each batch with
`os << is.rdbuf()`, and an empty part would end the output there.  `MergedFacts` is about
the merge itself: the spans hold the terms of all batches whatever is merged with
what (`TermsCollected`), and the numbers of a batch, renumbered by the sorted
lexicon, still mean the terms of its records.  Results: `RecordsCorrect`,
`ForwardIndexCorrect`.

**The shards.** `ShardsInv` follows the documents through `sharding.hpp`.  What is
cut is the sorted forward index and the mapping covers it; a shard that is copied
but not processed has the documents mapped to it, in their order, still with the
numbers of the whole lexicon; one that is processed has a term numbered by its
place among the terms that occur in the shard.  `ShardsAreCollection` speaks of
the end only, when a number is turned back into a term by the lexicon of the
shard; that the new lexicon is the right one needs the numbers of the whole
lexicon in between.  `DocsOfFacts` says that a partition of the documents by shard
gives each shard its documents in order.  Results: `ShardsCorrect`,
`ShardingCorrect`.

### Assumptions

* `KAssumption`: k is positive.  `CorporaAssumption`, `PlansAssumption`,
  `BoundAssumption` and `DisjointAssumption` of `AnytimeSearch` are discharged
  for the algorithms, as said above.
* `TermAssumption`, `DocAssumption`, `EndsAssumption`: a query has a term,
  documents are numbered from 0, end points of clusters do not decrease.
* `InputAssumption` of `RangeQuery`: every list has a posting, weights are
  positive, a block has a posting.  Scores of postings are positive, as the
  scorers make them (`epsilon_score` in `scorer/bm25.hpp`).
* `InputAssumption` of `WandDataBuilder`: posting lists are not empty and in the
  order of documents, end points do not decrease; a quantized index has a score
  above 0 (the quantizer divides by the highest) and the compressed format has
  only such (it stores the step before that of a score).
* `SizesAssumption` and `InputAssumption` of `TermAtATime`: k and the number of
  generations are positive, documents are numbered from 0, lists give their
  documents positive scores.
* `QueueLimitsAssumption`, `BuildCallsAssumption`: threads, work and batches are
  counted; a batch has a record.

TLC evaluates each of them on the inputs of its runs.

### Model-checked only

* Liveness: `EventuallyAnswered`, `Terminates`, `ProducerGoesOn`,
  `QueueReturns`; and `BlockSearchesEnd`, which is about ENABLED.
* The lists of both kinds of index.  What a list of Elias-Fano sequences computes
  is defined by recursion over its data.
* Of the chain of tools what comes after the shards, except for the queue of jobs:
  inversion, reordering and the containers.

`ClientTypeCorrect` and `ThresholdMonotone` state properties that no run checks any
more, since the proofs cover them.

## 5. Not modelled, and simplifications

* Scores are integers.  In the code they are floats, and sums of bounds and of
  scores are taken in different orders; rounding can prune a document whose
  score equals a bound.  Neither TLC nor the provers reach this.
* The order of the heap's vector, and of the results with equal scores.
* Queries with no terms (the functions return at once), and terms with no
  postings: every list of an index has a posting.
* Blocks with highest score 0 in the compressed wand data (`quantizer(score) - 1`
  wraps), and its bit layout.
* Reads of more than one word at once, the bit vector builder and the integer
  codes: a sequence is modelled from the values it stores and the places of its
  ones.  Offsets of the parts of a sequence are left out.
* The insertion by `operator[]` into the map of cluster queues that other threads
  read (`evaluate_queries.cpp`): undefined, and every outcome would be allowed.
* The depth of the bisection is `log2(documents) - 5` converted to an unsigned
  type; for fewer than 32 documents a negative number is converted, which is
  undefined.  Trees of any depth are given to the model instead.
* The node configuration file of the bisection is given as its nodes.
* Not modelled at all: `wand_data_range.hpp` (used by a test only),
  `score_opt_partition.hpp` (sums of floats; its windows read past the end),
  intersections (one `scored_and_query` per subset), parsing and term processing,
  scorers, the threshold tools, block codecs, files, command lines.

## 6. Plan

Done: the queue, the query contract, the wand data, all query algorithms, the
accumulators, the lists of both kinds of index, the chain of tools; proofs for
the queue, the contract, the construction of the wand data, all
document-at-a-time algorithms and their implementation of the contract, the
accumulators, the queue of jobs, the queue of batches, the forward index and the
shards.

Next, in this order:

1. `BlockPostingList`: `AtPosition`, and that a step is a `CursorStep`: the
   invariant relates the block in hand to the position.
2. `IndexIsInversion`, `DocumentsAreKept` and `DegreesOfOneThread` of the chain of
   tools.
3. `WandDataRange` on `WandData`, and the variable block partition on
   `OptimalPartition` if its window is given a meaning at the end of a list.
