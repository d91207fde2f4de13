----------------------------- MODULE IndexPipeline -----------------------------
(***************************************************************************)
(* From a collection to a compressed index: the tools parse_collection,    *)
(* partition_fwd_index, invert, reorder-docids or sample_inverted_index,   *)
(* and compress_inverted_index, each of which reads the files the one      *)
(* before has written.  Sharding and reordering may be left out; of a      *)
(* sharded index one shard is followed, as the tool shards runs them one   *)
(* after the other.                                                        *)
(***************************************************************************)
EXTENDS Integers, FiniteSets, SequencesExt

CONSTANTS
  MayThrow, MaxBodies,  \* of ForwardIndexBuilder and Inversion
  BuildCalls,           \* arguments of parse_collection
  Continues(_),         \* the calls whose forward index is used further
  ShardMappings(_),     \* mappings of a forward index to shards
  InvertCalls(_),       \* batch size and threads to invert a forward index
  ReorderCalls(_),      \* how an index is reordered or sampled
  CompressCalls(_, _),  \* the containers made of lists, how they were reordered
  QueueLimits           \* of SemiasyncQueue

\* A record is the sequence of its terms; batches and threads are counted.
ASSUME BuildCallsAssumption ==
  BuildCalls \subseteq [records : Seq(Seq(Nat)), batch_size : Nat \ {0}, threads : Nat]
\* Threads and their work are counted in unsigned numbers.
ASSUME QueueLimitsAssumption ==
  QueueLimits \subseteq [max_threads : Nat, work_per_thread : Nat]

VARIABLES
  call, build_pc, is, record_batch, queue, task, forward,
  part, shard_pc, shards,
  inv, invert_pc, processed, postings, bodies, batches, index,
  bis, bis_pc, documents, todo, stack, degrees,
  reorder, reorder_pc, mapping, reordered, terms_to_drop,
  limits, queue_pc, work, added, m_next_thread, m_expected_work,
  m_running_threads, committed,
  comp, compress_pc, term_id, tasks, docs_sequences, freqs_sequences,
  chosen  \* the titles and terms of the forward index that is inverted

Builder == INSTANCE ForwardIndexBuilder
Shards == INSTANCE Sharding
Inverter == INSTANCE Inversion
Reorderer == INSTANCE Reordering
Container == INSTANCE IndexContainer

builderVars == <<call, build_pc, is, record_batch, queue, task, forward>>
shardingVars == <<part, shard_pc, shards>>
inversionVars == <<inv, invert_pc, processed, postings, bodies, batches, index, chosen>>
reorderingVars == <<bis, bis_pc, documents, todo, stack, degrees,
                    reorder, reorder_pc, mapping, reordered, terms_to_drop>>
containerVars == <<limits, queue_pc, work, added, m_next_thread, m_expected_work,
                   m_running_threads, committed,
                   comp, compress_pc, term_id, tasks, docs_sequences, freqs_sequences>>
vars == <<builderVars, shardingVars, inversionVars, reorderingVars, containerVars>>

Init ==
  /\ Builder!BuilderIdle
  /\ Shards!ShardingIdle
  /\ Inverter!InversionIdle
  /\ Reorderer!ReorderingIdle
  /\ Container!ContainerIdle
  /\ chosen = [titles |-> <<>>, terms |-> <<>>]

\* parse_collection.
ParseCollection ==
  /\ (\E c \in BuildCalls : Builder!Build(c)) \/ Builder!BuilderStep
  /\ UNCHANGED <<shardingVars, inversionVars, reorderingVars, containerVars>>

\* partition_fwd_index, unless the forward index is inverted as a whole.
PartitionForward ==
  /\ \/ /\ build_pc = "done" /\ Continues(call)
        /\ invert_pc = "idle"
        /\ \E m \in ShardMappings(forward) : Shards!Partition([fwd |-> forward, mapping |-> m])
     \/ Shards!ShardingStep
  /\ UNCHANGED <<builderVars, inversionVars, reorderingVars, containerVars>>

\* The forward indexes that can be inverted.
Forwards ==
  IF shard_pc = "done" THEN Range(shards)
  ELSE IF shard_pc = "idle" /\ build_pc = "done" /\ Continues(call) THEN {forward}
  ELSE {}

\* invert.
InvertForward ==
  /\ \/ \E fwd \in Forwards : \E c \in InvertCalls(fwd) :
          /\ Inverter!Invert([docs |-> fwd.docs, term_count |-> Len(fwd.terms),
                              batch_size |-> c.batch_size, threads |-> c.threads])
          /\ chosen' = [titles |-> fwd.titles, terms |-> fwd.terms]
     \/ Inverter!InversionStep /\ UNCHANGED chosen
  /\ UNCHANGED <<builderVars, shardingVars, reorderingVars, containerVars>>

\* The inverted index, its lists from 1 on as the files have them.
Inverted == [lists |-> [t \in 1..Len(chosen.terms) |-> index.lists[t - 1]],
             sizes |-> index.sizes, titles |-> chosen.titles]

\* reorder-docids or sample_inverted_index.
ReorderIndex ==
  /\ \/ /\ invert_pc = "done" /\ compress_pc = "idle"
        /\ \E c \in ReorderCalls(Inverted) : Reorderer!Reorder(c)
     \/ Reorderer!ReorderingStep
  /\ UNCHANGED <<builderVars, shardingVars, inversionVars, containerVars>>

\* compress_inverted_index, of the index as it was inverted or as it was reordered.
CompressIndex ==
  /\ \/ /\ invert_pc = "done" /\ reorder_pc \in {"idle", "done"}
        /\ LET lists == IF reorder_pc = "done" THEN reordered.lists ELSE Inverted.lists
           IN \E c \in CompressCalls(lists, reorder.method) : Container!Compress(c)
     \/ Container!ContainerStep
  /\ UNCHANGED <<builderVars, shardingVars, inversionVars, reorderingVars>>

\* Nothing is left to do, or what was left out cannot be done any more.
Finished ==
  /\ \/ compress_pc \in {"done", "failed"}
     \/ build_pc = "failed"
     \/ build_pc = "done" /\ ~Continues(call)
     \/ invert_pc = "failed"
     \/ reorder_pc = "failed"
  /\ UNCHANGED vars

Next ==
  \/ ParseCollection
  \/ PartitionForward
  \/ InvertForward
  \/ ReorderIndex
  \/ CompressIndex
  \/ Builder!ProducerHangs /\ UNCHANGED vars
  \/ Finished

Spec ==
  /\ Init /\ [][Next]_vars
  /\ Builder!BuilderFairness
  /\ Container!QueueFairness

-----------------------------------------------------------------------------
\* At any time at most as many batches of records are in memory as the bounded
\* queue has places, besides the one being read, whatever the order of the tasks.
BoundedMemory == Builder!BoundedMemory

\* The forward index is the collection, each document in the place it was read
\* from, over the sorted lexicon; a task that threw leaves no index with holes.
ForwardIsCollection == Builder!ForwardIsCollection

\* Unless a task throws, the producer never waits for ever for a place in the queue.
ProducerGoesOn == Builder!ProducerGoesOn

\* Each shard has its documents, in order, with their titles and own terms.
ShardsAreCollection == Shards!ShardsAreCollection

\* Each list holds the documents of its term, once and in order, however the
\* reduction was split and joined; and no shard is refused by the inversion.
IndexIsInversion == Inverter!IndexIsInversion

\* Reordering moves every document once, with its title, size and frequencies.
DocumentsAreKept == Reorderer!DocumentsAreKept

\* A sample follows the lexicon without the terms it drops.
SampleFollowsLexicon == Reorderer!SampleFollowsLexicon

\* Degrees are those of the halves when gains are computed on one thread.
DegreesOfOneThread == Reorderer!DegreesOfOneThread

\* The container's lists read as they were given.
ContainerIsIndex == Container!ContainerIsIndex

\* Sequences are committed in the order they were added, from any threads.
CommitsInOrder == Container!CommitsInOrder

\* A sequence_collection is completed.
QueueReturns == Container!QueueReturns

\* An index "reordered according to any single document feature" has its documents
\* in the order of their labels (document_reordering.md).
InFeatureOrder == Reorderer!InFeatureOrder

\* terms() "decodes and returns the list of terms for a given document"
\* (forward_index.hpp).
TermsAreDecoded == Reorderer!TermsAreDecoded

\* All the way: whatever threads, batches, shards, new numbers and containers it has
\* gone through, a document of the container has the terms of the record with its
\* title, with as many occurrences as the record has of them.
ContainerIsCollection ==
  compress_pc = "built" /\ comp.kind # "sequences" /\ ~comp.quantized
                        /\ (reorder_pc = "done" => mapping # <<>>) =>
    LET titles == IF reorder_pc = "done" THEN reordered.titles ELSE chosen.titles
        list(t) == Container!Enumerated(t - 1)
        Occurrences(d, t) == Cardinality({j \in DOMAIN call.records[titles[d]] :
                                            call.records[titles[d]][j] = chosen.terms[t]})
    IN \A t \in DOMAIN chosen.terms, d \in DOMAIN titles :
         {list(t).freqs[i] : i \in {j \in DOMAIN list(t).docs : list(t).docs[j] = d - 1}}
           = {Occurrences(d, t)} \ {0}
=============================================================================
