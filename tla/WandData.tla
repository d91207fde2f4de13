------------------------------ MODULE WandData ------------------------------
(***************************************************************************)
(* The upper bounds a query prunes with: wand_data.hpp, wand_utils.hpp and *)
(* wand_data_raw.hpp.                                                      *)
(*                                                                         *)
(* A file of clusters gives, for cluster 0, 1, ..., the document number it *)
(* ends at.  For every posting list the data holds the highest score of    *)
(* each block of postings and of each cluster the list has postings in.    *)
(* This module has the structures and how a query reads them;              *)
(* WandDataBuilder shows how they are built.                               *)
(*                                                                         *)
(* A posting list is a sequence of records [doc, score] with increasing    *)
(* documents; the score is what the scorer returns for the posting.        *)
(***************************************************************************)
EXTENDS Integers, Sequences, FiniteSetsExt

\* The posting list that gives document d the score post[d].
PostingList(post) ==
  LET docs == DOMAIN post
      nth(j) == CHOOSE d \in docs : Cardinality({e \in docs : e <= d}) = j
  IN [j \in 1..Cardinality(docs) |-> [doc |-> nth(j), score |-> post[nth(j)]]]

ScoresIn(list, from, to) == {list[j].score : j \in from..to}

-----------------------------------------------------------------------------
\* wand_data(): the documents below clusters[0] are in cluster 0, those from
\* there to below clusters[1] in cluster 1, and so on; clusters are numbered
\* from 0 and documents past the last end point get no entry.
DocToRange(clusters) ==
  LET ends == 1..Len(clusters)
      mapped == {d \in 0..(IF ends = {} THEN 0
                           ELSE Max({clusters[c] : c \in ends})) :
                   \E c \in ends : d < clusters[c]}
  IN [d \in mapped |-> Min({c \in ends : d < clusters[c]}) - 1]

\* all_ranges(): what a query calls the range of cluster c - 1.
AllRanges(clusters) ==
  [c \in 1..Len(clusters) |->
     [lower |-> IF c = 1 THEN 0 ELSE clusters[c - 1] + 1,
      upper |-> clusters[c]]]

\* The documents a query takes to be in a range: every algorithm stops at the
\* first document that is not below the upper end.
InRange(range, d) == range.lower <= d /\ d < range.upper

-----------------------------------------------------------------------------
(* What the data holds for a list: a sequence of blocks [docid, score], the *)
(* last document a block speaks for and its highest score, and a sequence   *)
(* of ranges [id, score].                                                   *)

\* The blocks static_block_partition cuts a list into.
Blocks(list, size) ==
  LET n == Len(list)
      count == (n + size - 1) \div size
      last(b) == IF b = count THEN n ELSE b * size
  IN [b \in 1..count |->
        [docid |-> IF b = count THEN list[n].doc ELSE list[last(b) + 1].doc - 1,
         score |-> Max(ScoresIn(list, (b - 1) * size + 1, last(b)))]]

\* enumerator::next_geq from position pos and enumerator::global_geq from the
\* first: the first block that reaches lower_bound, the last one if none does.
BlockGeq(blocks, pos, lower_bound) ==
  Min({b \in pos..Len(blocks) :
              b = Len(blocks) \/ blocks[b].docid >= lower_bound})

\* enumerator::range_score: a search in the list's ranges, which are expected
\* in the order of their identifiers; 0 for a range without postings.
RangeScore(ranges, id) ==
  LET at == Min({i \in 1..Len(ranges) :
                        i = Len(ranges) \/ ranges[i].id >= id})
  IN IF ranges[at].id = id THEN ranges[at].score ELSE 0

\* LinearQuantizer with the highest score max of the index and so many steps.
Quantize(score, max, steps) == (score * steps + max - 1) \div max
=============================================================================
