------------------------------ MODULE Reordering ------------------------------
(***************************************************************************)
(* reorder_docids.hpp: the documents of an inverted index, their sizes and *)
(* their titles are given new numbers, by a mapping from old to new ones   *)
(* that is random, read from a file, made from the order of a feature or   *)
(* found by graph bisection.  Instead an index may be sampled, which keeps *)
(* some postings of its lists (util/inverted_index_utils.hpp).             *)
(***************************************************************************)
EXTENDS GraphBisection, TLC

VARIABLES
  reorder,       \* the arguments: the method, its input, the index and titles
  reorder_pc,    \* where reorder_docids or sample_inverted_index is
  mapping,       \* the new number of each document
  reordered,     \* the lists, sizes and titles written
  terms_to_drop  \* the terms without a list in a sample

reorderVars == <<reorder, reorder_pc, mapping, reordered, terms_to_drop>>
reorderingVars == <<bisectionVars, reorderVars>>

Nothing == [lists |-> <<>>, sizes |-> <<>>, titles |-> <<>>]

ReorderingIdle ==
  /\ BisectionIdle
  /\ reorder = [method |-> "none", index |-> Nothing]
  /\ reorder_pc = "idle"
  /\ mapping = <<>>
  /\ reordered = Nothing
  /\ terms_to_drop = {}

num_docs == Len(reorder.index.sizes)

\* Called with a method and an index.
Reorder(c) ==
  /\ reorder_pc = "idle"
  /\ reorder' = c
  /\ reorder_pc' = "map"
  /\ UNCHANGED <<bisectionVars, mapping, reordered, terms_to_drop>>

-----------------------------------------------------------------------------
(* The files written.                                                       *)

\* Mutated form of Rearranged: the mapping is taken for one from new to old.
RearrangedBack(m, s) == [p \in DOMAIN s |-> s[m[p] + 1]]

\* new_sizes and reordered_documents: what belongs to a document moves with it.
Rearranged(m, s) == [p \in DOMAIN s |-> s[CHOOSE d \in DOMAIN s : m[d] = p - 1]]

\* Mutated form of Reassigned: the list is not sorted.
ReassignedUnsorted(m, list) == [i \in DOMAIN list |-> [list[i] EXCEPT !.doc = m[@ + 1]]]

\* reorder_postings and reorder_inverted_index: a list with new numbers, sorted.
Reassigned(m, list) ==
  SortSeq([i \in DOMAIN list |-> [list[i] EXCEPT !.doc = m[@ + 1]]],
          LAMBDA p, q : p.doc < q.doc)

\* What is written once the mapping is known.
ReorderWith(m) ==
  /\ mapping' = m
  /\ reordered' = [lists |-> [t \in DOMAIN reorder.index.lists |->
                                Reassigned(m, reorder.index.lists[t])],
                   sizes |-> Rearranged(m, reorder.index.sizes),
                   titles |-> Rearranged(m, reorder.index.titles)]
  /\ reorder_pc' = "done"
  /\ UNCHANGED <<reorder, terms_to_drop>>

\* An input with more or fewer lines than documents ends the program.
Invalid ==
  /\ reorder_pc' = "failed"
  /\ UNCHANGED <<reorder, mapping, reordered, terms_to_drop>>

-----------------------------------------------------------------------------
(* The mappings.                                                            *)

Method(m) == reorder_pc = "map" /\ reorder.method = m

\* reorder_random shuffles the identity.
ReorderRandom ==
  /\ Method("random")
  /\ \E p \in Permutations(1..num_docs) : ReorderWith([d \in 1..num_docs |-> p[d] - 1])
  /\ UNCHANGED bisectionVars

\* The documents by their labels, and by their numbers where labels are equal.
SortedByLabel(feature) ==
  SortSeq([d \in DOMAIN feature |-> [label |-> feature[d], doc |-> d - 1]],
          LAMBDA a, b : a.label < b.label \/ (a.label = b.label /\ a.doc < b.doc))

\* reorder_by_feature: entry i of the mapping is the i-th document.
ReorderByFeature ==
  /\ Method("feature")
  /\ IF Len(reorder.feature) = num_docs
       THEN LET sorted == SortedByLabel(reorder.feature)
            IN ReorderWith([i \in DOMAIN sorted |-> sorted[i].doc])
       ELSE Invalid
  /\ UNCHANGED bisectionVars

\* reorder_from_mapping of a file: an old and a new number on each line.
ReorderFromMapping ==
  /\ Method("mapping")
  /\ IF Len(reorder.lines) = num_docs
       THEN ReorderWith([d \in 1..num_docs |->
              LET i == CHOOSE i \in DOMAIN reorder.lines : reorder.lines[i].prev_id = d - 1
              IN reorder.lines[i].new_id])
       ELSE Invalid
  /\ UNCHANGED bisectionVars

\* recursive_graph_bisection with its options: the order is computed, then the
\* index is written.
StartBisection ==
  /\ Method("bp")
  /\ Bisect([lists |-> reorder.index.lists, doc_count |-> num_docs,
             min_length |-> reorder.min_length, compressed |-> reorder.compressed,
             threads |-> reorder.threads, nodes |-> reorder.nodes])
  /\ reorder_pc' = "bisect"
  /\ UNCHANGED <<reorder, mapping, reordered, terms_to_drop>>

ReorderBisected ==
  /\ reorder_pc = "bisect"
  /\ bis_pc = "done"
  /\ ReorderWith(get_mapping(documents))
  /\ UNCHANGED bisectionVars

-----------------------------------------------------------------------------
(* Sampling.                                                                *)

\* ceil(n * rate), for a rate of one half.
Half(n) == (n + 1) \div 2

\* The postings of list at the sampled places.
At(list, sample) == [i \in DOMAIN Increasing(sample) |-> list[Increasing(sample)[i]]]

\* Mutated form of SampleWith: a list of which nothing is sampled is written, too.
SampleWithAll(samples) ==
  LET lists == reorder.index.lists
  IN /\ reordered' = [reorder.index EXCEPT
           !.lists = [t \in DOMAIN lists |-> At(lists[t], samples[t])]]
     /\ terms_to_drop' = {t \in DOMAIN lists : samples[t] = {}}
     /\ reorder_pc' = "done"
     /\ UNCHANGED <<reorder, mapping>>

\* sample_inverted_index: a list of which nothing is sampled is left out and its
\* term noted; sizes are copied.
SampleWith(samples) ==
  LET lists == reorder.index.lists
      kept == Increasing({t \in DOMAIN lists : samples[t] # {}})
  IN /\ reordered' = [reorder.index EXCEPT
           !.lists = [i \in DOMAIN kept |-> At(lists[kept[i]], samples[kept[i]])]]
     /\ terms_to_drop' = {t \in DOMAIN lists : samples[t] = {}}
     /\ reorder_pc' = "done"
     /\ UNCHANGED <<reorder, mapping>>

\* random_postings: of each list, so many of its postings.
SamplePostings ==
  /\ Method("random_postings")
  /\ LET lists == reorder.index.lists
     IN \E samples \in [DOMAIN lists -> SUBSET (1..num_docs)] :
          /\ \A t \in DOMAIN lists :
               samples[t] \subseteq DOMAIN lists[t] /\ Cardinality(samples[t]) = Half(Len(lists[t]))
          /\ SampleWith(samples)
  /\ UNCHANGED bisectionVars

\* random_docids: of each list, the postings of so many documents.
SampleDocids ==
  /\ Method("random_docids")
  /\ \E doc_ids \in SUBSET (0..(num_docs - 1)) :
       /\ Cardinality(doc_ids) = Half(num_docs)
       /\ SampleWith([t \in DOMAIN reorder.index.lists |->
            {i \in DOMAIN reorder.index.lists[t] : reorder.index.lists[t][i].doc \in doc_ids}])
  /\ UNCHANGED bisectionVars

ReorderingStep ==
  \/ ReorderRandom
  \/ ReorderByFeature
  \/ ReorderFromMapping
  \/ StartBisection
  \/ BisectionStep /\ UNCHANGED reorderVars
  \/ ReorderBisected
  \/ SamplePostings
  \/ SampleDocids

-----------------------------------------------------------------------------
Freq(lists, t, d) ==
  {lists[t][i].freq : i \in {j \in DOMAIN lists[t] : lists[t][j].doc = d}}

\* All that an index says of its documents.
DocumentsOf(index) ==
  {[title |-> index.titles[d], size |-> index.sizes[d],
    freqs |-> [t \in DOMAIN index.lists |-> Freq(index.lists, t, d - 1)]] :
     d \in DOMAIN index.titles}

\* Reordering keeps the documents: title, size and frequencies, which are written
\* separately, still belong together, and every list is sorted; the bisection, on
\* however many threads, has moved every document to one place.
DocumentsAreKept ==
  reorder_pc = "done" /\ mapping # <<>> =>
    /\ DocumentsOf(reordered) = DocumentsOf(reorder.index)
    /\ \A t \in DOMAIN reordered.lists : \A i, j \in DOMAIN reordered.lists[t] :
         i < j => reordered.lists[t][i].doc < reordered.lists[t][j].doc

\* A sampled index without the dropped terms is still over the lexicon without
\* them: its lists are of the terms kept, in order, none empty.
SampleFollowsLexicon ==
  reorder_pc = "done" /\ mapping = <<>> =>
    LET kept == Increasing(DOMAIN reorder.index.lists \ terms_to_drop)
    IN /\ Len(kept) = Len(reordered.lists)
       /\ \A i \in DOMAIN kept :
            /\ reordered.lists[i] # <<>>
            /\ Range(reordered.lists[i]) \subseteq Range(reorder.index.lists[kept[i]])

\* An index is "reordered according to any single document feature", as
\* document_reordering.md says: its documents come in the order of their labels.
InFeatureOrder ==
  reorder_pc = "done" /\ reorder.method = "feature" =>
    \A d, e \in DOMAIN mapping :
      reorder.feature[d] < reorder.feature[e] => mapping[d] < mapping[e]
=============================================================================
