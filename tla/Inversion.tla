------------------------------ MODULE Inversion ------------------------------
(***************************************************************************)
(* invert.hpp.  A forward index is inverted in batches of documents.  The  *)
(* sorted postings of a batch are reduced by tbb::parallel_reduce: bodies  *)
(* take consecutive parts of them, a body may be split off to the right at *)
(* any time, and neighbours are joined when both have nothing left.  The   *)
(* inverted batches are then concatenated.                                 *)
(***************************************************************************)
EXTENDS Integers, FiniteSets, TLC, SequencesExt

CONSTANT MaxBodies  \* bound of the bodies of a reduction

VARIABLES
  inv,       \* the arguments: documents, term_count, batch_size, threads
  invert_pc, \* where invert_forward_index is
  processed, \* documents_processed
  postings,  \* the sorted postings of the batch in hand
  bodies,    \* the bodies of the reduction, from left to right
  batches,   \* the inverted batches on disk
  index      \* the inverted index

inversionVars == <<inv, invert_pc, processed, postings, bodies, batches, index>>

NoIndex == [lists |-> <<>>, sizes |-> <<>>]

InversionIdle ==
  /\ inv = [docs |-> <<>>, term_count |-> 0, batch_size |-> 1, threads |-> 1]
  /\ invert_pc = "idle"
  /\ processed = 0
  /\ postings = <<>> /\ bodies = <<>> /\ batches = <<>>
  /\ index = NoIndex

Terms == 0..(inv.term_count - 1)

\* The elements of a set of numbers from the lowest on.
Ascending(S) == [i \in 1..Cardinality(S) |->
                   CHOOSE x \in S : Cardinality({y \in S : y < x}) = i - 1]

-----------------------------------------------------------------------------
(* Postings.                                                                *)

\* map_to_postings: one posting for each occurrence of a term.
map_to_postings(documents, first) ==
  FlattenSeq([d \in DOMAIN documents |->
                [j \in DOMAIN documents[d] |->
                   [term |-> documents[d][j], doc |-> first + d - 1]]])

Before(p, r) == p.term < r.term \/ (p.term = r.term /\ p.doc < r.doc)

\* The batches of invert_range, which split the documents among the threads, and
\* their postings, concatenated and sorted.
SortedPostings(documents, first, threads) ==
  LET size == (Len(documents) + threads - 1) \div threads
      starts == {i \in 0..(Len(documents) - 1) : i % size = 0}
      part(k) == SubSeq(documents, k * size + 1, Min({(k + 1) * size, Len(documents)}))
  IN SortSeq(FlattenSeq([k \in 1..Cardinality(starts) |->
                           map_to_postings(part(k - 1), first + (k - 1) * size)]),
             Before)

-----------------------------------------------------------------------------
(* Inverted_Index: the list of every term, of documents and frequencies.     *)

EmptyIndex == [t \in Terms |-> <<>>]

Bump(list, by) == [list EXCEPT ![Len(list)].freq = @ + by]

\* Mutated form of join_term: a document on the border is kept twice.
JoinTermTwice(lower, higher) == lower \o higher

\* join_term: a document on the border has its frequencies added.
join_term(lower, higher) ==
  IF Last(lower).doc = Head(higher).doc
    THEN Bump(lower, Head(higher).freq) \o Tail(higher)
    ELSE lower \o higher

\* operator() finds the runs of equal postings, one for each document of a term.
Runs(part, t) ==
  LET docs == Ascending({part[i].doc : i \in {j \in DOMAIN part : part[j].term = t}})
  IN [k \in DOMAIN docs |->
        [doc |-> docs[k],
         freq |-> Cardinality({i \in DOMAIN part :
                                 part[i] = [term |-> t, doc |-> docs[k]]})]]

\* A run counts for the last entry if it comes first and continues it; the
\* others begin an entry of their own.
Accumulated(lists, part) ==
  [t \in Terms |->
     LET runs == Runs(part, t)
     IN IF t = part[1].term /\ lists[t] # <<>> /\ Last(lists[t]).doc = part[1].doc
          THEN join_term(lists[t], runs)
          ELSE lists[t] \o runs]

\* join().
Joined(lhs, rhs) ==
  [t \in Terms |->
     CASE rhs[t] = <<>> -> lhs[t]
       [] lhs[t] = <<>> -> rhs[t]
       [] OTHER -> IF Last(lhs[t]).doc <= Head(rhs[t]).doc
                     THEN join_term(lhs[t], rhs[t])
                     ELSE join_term(rhs[t], lhs[t])]

-----------------------------------------------------------------------------
(* build_batches.                                                           *)

\* invert_forward_index is called on a forward index.
Invert(c) ==
  /\ invert_pc = "idle"
  /\ inv' = c
  /\ invert_pc' = "batch"
  /\ UNCHANGED <<processed, postings, bodies, batches, index>>

Batch == SubSeq(inv.docs, processed + 1,
                Min({processed + inv.batch_size, Len(inv.docs)}))

\* The next documents are read, and the reduction of their postings begins.
ReadBatch ==
  /\ invert_pc = "batch"
  /\ processed < Len(inv.docs)
  /\ postings' = SortedPostings(Batch, processed, inv.threads)
  /\ bodies' = <<[lists |-> EmptyIndex, first |-> 1, last |-> Len(postings')]>>
  /\ invert_pc' = "reduce"
  /\ UNCHANGED <<inv, processed, batches, index>>

\* parallel_reduce hands a body the next part of its range.
Reduce(i) ==
  /\ invert_pc = "reduce"
  /\ \E m \in bodies[i].first..bodies[i].last :
       bodies' = [bodies EXCEPT
         ![i].lists = Accumulated(@, SubSeq(postings, bodies[i].first, m)),
         ![i].first = m + 1]
  /\ UNCHANGED <<inv, invert_pc, processed, postings, batches, index>>

\* Another thread steals the end of the range of a body, with a body of its own.
SplitBody(i) ==
  /\ invert_pc = "reduce"
  /\ Len(bodies) < MaxBodies
  /\ \E m \in (bodies[i].first + 1)..bodies[i].last :
       bodies' = SubSeq(bodies, 1, i - 1)
                 \o <<[bodies[i] EXCEPT !.last = m - 1],
                      [lists |-> EmptyIndex, first |-> m, last |-> bodies[i].last]>>
                 \o SubSeq(bodies, i + 1, Len(bodies))
  /\ UNCHANGED <<inv, invert_pc, processed, postings, batches, index>>

Idle(i) == bodies[i].first > bodies[i].last

\* A body and its right neighbour have nothing left.
JoinBodies(i) ==
  /\ invert_pc = "reduce"
  /\ i < Len(bodies) /\ Idle(i) /\ Idle(i + 1)
  /\ bodies' = SubSeq(bodies, 1, i - 1)
               \o <<[bodies[i + 1] EXCEPT !.lists = Joined(bodies[i].lists, @)]>>
               \o SubSeq(bodies, i + 2, Len(bodies))
  /\ UNCHANGED <<inv, invert_pc, processed, postings, batches, index>>

\* The reduction is over: the batch is written, with the sizes of its documents.
WriteBatch ==
  /\ invert_pc = "reduce"
  /\ Len(bodies) = 1 /\ Idle(1)
  /\ batches' = Append(batches, [lists |-> bodies[1].lists,
                                 sizes |-> [d \in DOMAIN Batch |-> Len(Batch[d])]])
  /\ processed' = processed + Len(Batch)
  /\ postings' = <<>> /\ bodies' = <<>>
  /\ invert_pc' = "batch"
  /\ UNCHANGED <<inv, index>>

Concatenated(t) == FlattenSeq([b \in DOMAIN batches |-> batches[b].lists[t]])

\* merge_batches, which throws when a term has no posting.
MergeBatches ==
  /\ invert_pc = "batch"
  /\ processed = Len(inv.docs)
  /\ IF \E t \in Terms : Concatenated(t) = <<>>
       THEN invert_pc' = "failed" /\ UNCHANGED index
       ELSE /\ invert_pc' = "done"
            /\ index' = [lists |-> [t \in Terms |-> Concatenated(t)],
                         sizes |-> FlattenSeq([b \in DOMAIN batches |-> batches[b].sizes])]
  /\ UNCHANGED <<inv, processed, postings, bodies, batches>>

InversionStep ==
  \/ ReadBatch
  \/ \E i \in DOMAIN bodies : Reduce(i) \/ SplitBody(i) \/ JoinBodies(i)
  \/ WriteBatch
  \/ MergeBatches

-----------------------------------------------------------------------------
Occurrences(t, d) == Cardinality({j \in DOMAIN inv.docs[d] : inv.docs[d][j] = t})

\* The index holds of every term the documents it occurs in, each once and in
\* order, with the number of times it does, however the reduction was split and
\* joined; and it is never refused for a term without postings.
IndexIsInversion ==
  /\ invert_pc # "failed"
  /\ invert_pc = "done" =>
       /\ index.sizes = [d \in DOMAIN inv.docs |-> Len(inv.docs[d])]
       /\ \A t \in Terms :
            /\ \A i, j \in DOMAIN index.lists[t] :
                 i < j => index.lists[t][i].doc < index.lists[t][j].doc
            /\ Range(index.lists[t]) =
                 {[doc |-> d - 1, freq |-> Occurrences(t, d)] :
                    d \in {e \in DOMAIN inv.docs : Occurrences(t, e) > 0}}
=============================================================================
