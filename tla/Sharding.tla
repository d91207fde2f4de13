------------------------------- MODULE Sharding -------------------------------
(***************************************************************************)
(* sharding.hpp: a forward index is cut into shards.  Documents are copied *)
(* to the shard a mapping gives them; then every shard is given the terms  *)
(* that occur in it, numbered again from zero, in a file of its own.       *)
(***************************************************************************)
EXTENDS Integers, FiniteSets, SequencesExt

VARIABLES
  part,      \* the arguments: the forward index and the shard of each document
  shard_pc,  \* where partition_fwd_index is
  shards     \* the files of the shards

shardingVars == <<part, shard_pc, shards>>

NoFiles == [titles |-> <<>>, terms |-> <<>>, docs |-> <<>>]

ShardingIdle ==
  /\ part = [fwd |-> NoFiles, mapping |-> <<>>]
  /\ shard_pc = "idle"
  /\ shards = <<>>

\* The elements of a set of numbers from the lowest on.
InOrder(S) == [i \in 1..Cardinality(S) |->
                 CHOOSE x \in S : Cardinality({y \in S : y < x}) = i - 1]

\* mapping_from_files: a title belongs to the first file that has it, or else to
\* shard 0.
mapping_from_files(titles, shard_titles) ==
  [d \in DOMAIN titles |->
     LET files == {s \in DOMAIN shard_titles : titles[d] \in Range(shard_titles[s])}
     IN IF files = {} THEN 0 ELSE Min(files) - 1]

\* create_random_mapping: the shuffled documents are cut into chunks of one size,
\* of which the last ones may be short or missing.
RandomMappings(document_count, shard_count) ==
  LET shard_size == (document_count + shard_count - 1) \div shard_count
      chunk(s) == Min({shard_size, Max({0, document_count - s * shard_size})})
  IN {mapping \in [1..document_count -> 0..(shard_count - 1)] :
        \A s \in 0..(shard_count - 1) :
          Cardinality({d \in 1..document_count : mapping[d] = s}) = chunk(s)}

\* partition_fwd_index(mapping) of a forward index that has documents, with a shard
\* for each.
Partition(c) ==
  /\ shard_pc = "idle"
  /\ c.mapping # <<>> /\ c.mapping \in [DOMAIN c.fwd.docs -> Nat]
  /\ part' = c
  /\ shard_pc' = "rearrange"
  /\ UNCHANGED shards

shard_count == Max(Range(part.mapping)) + 1

\* rearrange_sequences: documents and titles are appended to those of their shard.
\* The terms are those of the whole collection as yet.
Rearrange ==
  /\ shard_pc = "rearrange"
  /\ shards' = [s \in 1..shard_count |->
       LET docs == InOrder({d \in DOMAIN part.mapping : part.mapping[d] = s - 1})
       IN [titles |-> [i \in DOMAIN docs |-> part.fwd.titles[docs[i]]],
           terms |-> part.fwd.terms,
           docs |-> [i \in DOMAIN docs |-> part.fwd.docs[docs[i]]],
           finished |-> FALSE]]
  /\ shard_pc' = "process"
  /\ UNCHANGED part

\* The terms that occur in a shard, as has_term.
has_term(shard) == UNION {Range(shard.docs[d]) : d \in DOMAIN shard.docs}

\* Mutated form of remapped_term_id: a sum leaves out the term itself.
RemappedExclusive(shard, term) ==
  Cardinality({u \in has_term(shard) \ {Min(has_term(shard))} : u < term})

\* The sums over has_term, of which the first entry that is set is cleared.
remapped_term_id(shard, term) ==
  Cardinality({u \in has_term(shard) \ {Min(has_term(shard))} : u <= term})

\* process_shard.
ProcessShard(s) ==
  /\ shard_pc = "process"
  /\ ~shards[s].finished
  /\ LET shard == shards[s]
         occurring == InOrder(has_term(shard))
     IN shards' = [shards EXCEPT ![s] =
          [titles |-> shard.titles,
           terms |-> [i \in DOMAIN occurring |-> shard.terms[occurring[i] + 1]],
           docs |-> [d \in DOMAIN shard.docs |->
                       [j \in DOMAIN shard.docs[d] |->
                          remapped_term_id(shard, shard.docs[d][j])]],
           finished |-> TRUE]]
  /\ UNCHANGED <<part, shard_pc>>

\* for_each over the shards is over.
ShardsFinished ==
  /\ shard_pc = "process"
  /\ \A s \in DOMAIN shards : shards[s].finished
  /\ shard_pc' = "done"
  /\ UNCHANGED <<part, shards>>

ShardingStep ==
  \/ Rearrange
  \/ \E s \in DOMAIN shards : ProcessShard(s)
  \/ ShardsFinished

-----------------------------------------------------------------------------
\* The contents of document d of an index, as terms.
Contents(files, d) == [j \in DOMAIN files.docs[d] |-> files.terms[files.docs[d][j] + 1]]

\* The shards are the collection: each document is in the shard it is mapped to
\* and in no other, in the order of the collection, with its own title and, read
\* with the lexicon of the shard, its own terms; and that lexicon is sorted and
\* has no term without postings, for which the shard could not be inverted.
ShardsAreCollection ==
  shard_pc = "done" =>
    \A s \in DOMAIN shards :
      LET docs == InOrder({d \in DOMAIN part.mapping : part.mapping[d] = s - 1})
      IN /\ shards[s].titles = [i \in DOMAIN docs |-> part.fwd.titles[docs[i]]]
         /\ [d \in DOMAIN shards[s].docs |-> Contents(shards[s], d)]
              = [i \in DOMAIN docs |-> Contents(part.fwd, docs[i])]
         /\ \A i, j \in DOMAIN shards[s].terms :
              i < j => shards[s].terms[i] < shards[s].terms[j]
         /\ Range(shards[s].terms)
              = UNION {Range(Contents(shards[s], d)) : d \in DOMAIN shards[s].docs}
=============================================================================
