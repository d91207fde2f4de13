-------------------------- MODULE WandDataBuilder --------------------------
(***************************************************************************)
(* How the wand data of a collection is built: the constructor of          *)
(* wand_data, add_sequence of wand_data_raw and of wand_data_compressed,   *)
(* and static_block_partition, one posting a step.                         *)
(*                                                                         *)
(* doc_to_range is one map for the whole collection; the partition looks   *)
(* documents up with operator[], which adds an entry 0 for a document that *)
(* has none.                                                               *)
(***************************************************************************)
EXTENDS WandData, SequencesExt

CONSTANTS
  Inputs  \* the collections and parameters to build from

\* coll is the sequence of posting lists, of which terms_to_drop leaves some
\* out; clusters are the end points read from the cluster file, format and
\* is_quantized flags of create_wand_data, steps the number of quantization steps.
Posting == [doc : Nat, score : Nat]
Input == [coll : Seq(Seq(Posting)), terms_to_drop : SUBSET Nat,
          clusters : Seq(Nat), block_size : Nat \ {0}, format : {"raw", "compressed"},
          is_quantized : BOOLEAN, steps : Nat \ {0}]

\* The lists of an index have postings, in the order of their documents.
IsPostingList(l) ==
  /\ l # <<>>
  /\ \A j, k \in DOMAIN l : j < k => l[j].doc < l[k].doc

\* The posting lists of the index that the data goes with, which leaves out the
\* same terms, and the place the data has for one of them.
KeptTerms(in) == DOMAIN in.coll \ in.terms_to_drop
Place(in, t) == Cardinality({u \in KeptTerms(in) : u <= t})

\* The quantizer divides by the highest score, so some posting has one above 0; the
\* compressed format stores the step before that of a score, so all have.
IsScored(in) ==
  /\ in.is_quantized =>
       \E t \in KeptTerms(in) : \E j \in DOMAIN in.coll[t] : in.coll[t][j].score > 0
  /\ in.format = "compressed" =>
       \A t \in KeptTerms(in) : \A j \in DOMAIN in.coll[t] : in.coll[t][j].score > 0

ASSUME InputAssumption ==
  \A in \in Inputs :
    /\ in \in Input
    /\ \A t \in DOMAIN in.coll : IsPostingList(in.coll[t])
    /\ \A b, c \in DOMAIN in.clusters : b < c => in.clusters[b] <= in.clusters[c]
    /\ IsScored(in)

VARIABLES
  input,           \* fixed
  pc,              \* "list", "posting", "built" or "exit"
  term,            \* the list being added, counted from 1
  i,               \* the posting looked at, counted from 0 as in the code
  doc_to_range,    \* the cluster of every document seen so far
  current_block, block_max_score,  \* locals of static_block_partition
  current_range, range_max_score,
  blocks,          \* for every list added, its blocks
  ranges,          \* for every list added, its ranges
  max_term_weight  \* for every list added, its highest score

locals == <<current_block, block_max_score, current_range, range_max_score>>
vars == <<input, pc, term, i, doc_to_range, locals, blocks, ranges,
          max_term_weight>>

List == input.coll[term]

\* doc_to_range[d]: reading a missing document adds it with cluster 0.
Touched(d) == [e \in DOMAIN doc_to_range \cup {d} |->
                 IF e \in DOMAIN doc_to_range THEN doc_to_range[e] ELSE 0]
RangeOf(d) == Touched(d)[d]

Init ==
  /\ input \in Inputs
  /\ pc = "list"
  /\ term = 1
  /\ i = 0
  /\ doc_to_range = DocToRange(input.clusters)
  /\ current_block = 0 /\ block_max_score = 0
  /\ current_range = 0 /\ range_max_score = 0
  /\ blocks = <<>> /\ ranges = <<>> /\ max_term_weight = <<>>

Dropped == term \in input.terms_to_drop

\* A list left out takes no place in the data: the lists after it move up.
SkipList ==
  /\ pc = "list"
  /\ term <= Len(input.coll)
  /\ Dropped
  /\ term' = term + 1
  /\ UNCHANGED <<input, pc, i, doc_to_range, locals, blocks, ranges,
                 max_term_weight>>

\* The entry guard of add_sequence: the compressed format has no ranges.
Supported == input.format = "raw" \/ DOMAIN doc_to_range = {}

\* add_sequence up to the loop of static_block_partition.
BeginList ==
  /\ pc = "list"
  /\ term <= Len(input.coll)
  /\ ~Dropped
  /\ Supported
  /\ doc_to_range' = Touched(List[1].doc)
  /\ current_range' = RangeOf(List[1].doc)
  /\ i' = 0
  /\ current_block' = 0 /\ block_max_score' = 0 /\ range_max_score' = 0
  /\ blocks' = Append(blocks, <<>>)
  /\ ranges' = Append(ranges, <<>>)
  /\ pc' = "posting"
  /\ UNCHANGED <<input, term, max_term_weight>>

\* add_sequence of the compressed format ends the program.
Refuse ==
  /\ pc = "list"
  /\ term <= Len(input.coll)
  /\ ~Dropped
  /\ ~Supported
  /\ pc' = "exit"
  /\ UNCHANGED <<input, term, i, doc_to_range, locals, blocks, ranges,
                 max_term_weight>>

Max2(a, b) == IF a >= b THEN a ELSE b

\* The entry pushed when a block or a range ends, on the list being added.
Pushed(all, entry) == [all EXCEPT ![Len(all)] = Append(@, entry)]

\* Mutated form of PostingInBlock: a new block starts without its posting.
PostingAfterBlock(p) ==
  IF i = 0 \/ i \div input.block_size = current_block
    THEN /\ block_max_score' = Max2(block_max_score, p.score)
         /\ UNCHANGED <<current_block, blocks>>
    ELSE /\ blocks' = Pushed(blocks, [docid |-> p.doc - 1,
                                      score |-> block_max_score])
         /\ current_block' = current_block + 1
         /\ block_max_score' = 0

\* Mutated form of PostingInBlock: the maximum is never reset.
PostingKeepsMax(p) ==
  /\ block_max_score' = Max2(block_max_score, p.score)
  /\ IF i = 0 \/ i \div input.block_size = current_block
       THEN UNCHANGED <<current_block, blocks>>
       ELSE /\ blocks' = Pushed(blocks, [docid |-> p.doc - 1,
                                         score |-> block_max_score])
            /\ current_block' = current_block + 1

\* One posting opens a new block after every block_size postings.
PostingInBlock(p) ==
  IF i = 0 \/ i \div input.block_size = current_block
    THEN /\ block_max_score' = Max2(block_max_score, p.score)
         /\ UNCHANGED <<current_block, blocks>>
    ELSE /\ blocks' = Pushed(blocks, [docid |-> p.doc - 1,
                                      score |-> block_max_score])
         /\ current_block' = current_block + 1
         /\ block_max_score' = p.score

\* Mutated form of PostingInRange: the new range starts without this posting.
PostingAfterRange(p) ==
  IF RangeOf(p.doc) # current_range
    THEN /\ ranges' = Pushed(ranges, [id |-> current_range,
                                      score |-> range_max_score])
         /\ range_max_score' = 0
         /\ current_range' = RangeOf(p.doc)
    ELSE /\ range_max_score' = Max2(range_max_score, p.score)
         /\ UNCHANGED <<current_range, ranges>>

\* One posting opens a new range when its document is in another cluster.
PostingInRange(p) ==
  IF RangeOf(p.doc) # current_range
    THEN /\ ranges' = Pushed(ranges, [id |-> current_range,
                                      score |-> range_max_score])
         /\ range_max_score' = p.score
         /\ current_range' = RangeOf(p.doc)
    ELSE /\ range_max_score' = Max2(range_max_score, p.score)
         /\ UNCHANGED <<current_range, ranges>>

\* The body of the loop over the postings.
AddPosting ==
  /\ pc = "posting"
  /\ i < Len(List)
  /\ LET p == List[i + 1]
     IN /\ PostingInBlock(p)
        /\ PostingInRange(p)
        /\ doc_to_range' = Touched(p.doc)
  /\ i' = i + 1
  /\ UNCHANGED <<input, pc, term, max_term_weight>>

\* After the loop: the last block and the last range, and the list's maximum.
EndList ==
  /\ pc = "posting"
  /\ i = Len(List)
  /\ blocks' = Pushed(blocks, [docid |-> List[Len(List)].doc,
                               score |-> block_max_score])
  /\ ranges' = Pushed(ranges, [id |-> current_range,
                               score |-> range_max_score])
  /\ max_term_weight' =
       Append(max_term_weight, Max({b.score : b \in Range(Last(blocks'))}))
  /\ term' = term + 1
  /\ pc' = "list"
  /\ UNCHANGED <<input, i, doc_to_range, locals>>

IndexMax == Max({0} \cup Range(max_term_weight))
Steps(score) == Quantize(score, IndexMax, input.steps)

\* Every block score of the data, stored as f says.
WithScores(f(_)) ==
  [t \in DOMAIN blocks |->
     [b \in DOMAIN blocks[t] |-> [blocks[t][b] EXCEPT !.score = f(@)]]]

\* compress_data: the number of the quantization step, from 0.
StepIndex(score) == Steps(score) - 1

\* quantize_block_max_term_weights and build: the raw format quantizes when
\* asked to, the compressed one always and counting from 0.
StoredBlocks ==
  CASE input.format = "compressed" -> WithScores(StepIndex)
    [] input.format = "raw" /\ input.is_quantized -> WithScores(Steps)
    [] OTHER -> blocks

\* After the last list: the maxima of the lists become quantization steps, the
\* scores of the blocks what the format stores; ranges stay as they are.
EndBuild ==
  /\ pc = "list"
  /\ term > Len(input.coll)
  /\ max_term_weight' =
       IF input.is_quantized
         THEN [t \in DOMAIN max_term_weight |-> Steps(max_term_weight[t])]
         ELSE max_term_weight
  /\ blocks' = StoredBlocks
  /\ pc' = "built"
  /\ UNCHANGED <<input, term, i, doc_to_range, locals, ranges>>

Finished == pc \in {"built", "exit"} /\ UNCHANGED vars

Next ==
  SkipList \/ BeginList \/ Refuse \/ AddPosting \/ EndList \/ EndBuild \/ Finished

Spec == Init /\ [][Next]_vars

-----------------------------------------------------------------------------
Kept == KeptTerms(input)

HighestScore ==
  Max({0} \cup UNION {{p.score : p \in Range(input.coll[t])} : t \in Kept})

\* The score a query sees for a posting: a quantized index stores it in the
\* place of the frequency.
QueryScore(p) ==
  IF input.is_quantized THEN Quantize(p.score, HighestScore, input.steps)
                        ELSE p.score

\* The scores in the blocks of a compressed format count quantization steps of
\* an unquantized index: the two sides of a comparison with Covers.
Covers(bound, p) ==
  IF input.format = "compressed"
    THEN p.score * input.steps <= (bound + 1) * HighestScore
    ELSE QueryScore(p) <= bound

\* Wherever a query positions the blocks of a list for a posting, forwards or
\* anew, the bound it reads is at least the score of the posting, and so is the
\* bound of the list (checked in test/test_wand_data.cpp for another format).
\* The compressed format counts its steps from 0 and does not go with a
\* quantized index.
BlockBoundsHold ==
  pc = "built" /\ ~(input.format = "compressed" /\ input.is_quantized) =>
    \A t \in Kept : \A p \in Range(input.coll[t]) :
      LET k == Place(input, t)
          b == BlockGeq(blocks[k], 1, p.doc)
      IN /\ p.doc <= blocks[k][b].docid
         /\ Covers(blocks[k][b].score, p)
         /\ QueryScore(p) <= max_term_weight[k]

\* range_score is an upper bound for every posting of a range a query visits,
\* also for lists that have no posting in some of the ranges; the bounds of
\* ranges are not quantized.
RangeBoundsHold ==
  pc = "built" /\ ~input.is_quantized =>
    LET all == AllRanges(input.clusters)
    IN \A t \in Kept, c \in DOMAIN all : \A p \in Range(input.coll[t]) :
         InRange(all[c], p.doc) => p.score <= RangeScore(ranges[Place(input, t)], c - 1)

\* The one pass over the postings gives the blocks that the partition into
\* runs of block_size postings asks for; the last documents of successive
\* blocks increase, as next_geq needs.
BlocksAsSpecified ==
  pc = "built" /\ input.format = "raw" /\ ~input.is_quantized =>
    \A t \in Kept :
      LET bs == blocks[Place(input, t)]
      IN /\ bs = Blocks(input.coll[t], input.block_size)
         /\ \A b \in 2..Len(bs) : bs[b - 1].docid < bs[b].docid

\* A bound above 0 is the score of a posting of that very cluster, so BoundSum
\* counts a list only where it has postings; documents past the last end point
\* count for cluster 0 when the list has no earlier posting.
RangeBoundsTight ==
  pc = "built" =>
    LET map == DocToRange(input.clusters)
    IN \A t \in Kept, c \in DOMAIN input.clusters :
         LET bound == RangeScore(ranges[Place(input, t)], c - 1)
         IN bound > 0 =>
              \E p \in Range(input.coll[t]) :
                /\ p.score = bound
                /\ IF p.doc \in DOMAIN map THEN map[p.doc] = c - 1 ELSE c = 1

\* Every posting is within the bound of its range, and no bound is looser than
\* the best posting of the range.
RangeBounds == RangeBoundsHold /\ RangeBoundsTight

\* DATA.md says that the cluster file marks the end point of each document
\* range, so every document before the last end point is in one of the ranges.
EveryDocumentInARange ==
  pc = "built" =>
    \A d \in DOMAIN DocToRange(input.clusters) :
      \E c \in DOMAIN input.clusters : InRange(AllRanges(input.clusters)[c], d)

\* add_sequence of the compressed format says that it does not support clusters:
\* without clusters it builds the data of every list.
CompressedWithoutClusters ==
  input.format = "compressed" /\ input.clusters = <<>> => pc # "exit"
=============================================================================
