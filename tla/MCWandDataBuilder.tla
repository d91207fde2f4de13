------------------------- MODULE MCWandDataBuilder -------------------------
(* WandDataBuilder for TLC: every posting list over five documents with      *)
(* scores 0, 2, 3 in ranges of several shapes, some of which leave documents *)
(* past the last end point; collections of two and three lists; both formats.*)
EXTENDS WandDataBuilder

\* The posting lists over the documents D with scores of S.
Lists(D, S) ==
  {PostingList(post) : post \in UNION {[A -> S] : A \in (SUBSET D) \ {{}}}}

Build(coll, dropped, clusters, block_size, format, is_quantized) ==
  [coll |-> coll, terms_to_drop |-> dropped, clusters |-> clusters,
   block_size |-> block_size, format |-> format,
   is_quantized |-> is_quantized, steps |-> 4]

\* A single list: its blocks and ranges.
SingleLists ==
  {Build(<<l>>, {}, c, size, "raw", FALSE) :
     l \in Lists(0..4, {0, 2, 3}), c \in {<<2, 4>>, <<1, 3, 5>>, <<>>}, size \in {2, 3}}

\* Two and three lists, with and without a dropped one.
SeveralLists ==
  {Build(<<l, m, <<[doc |-> 3, score |-> 1]>> >>, dropped, c, 1, "raw", FALSE) :
     l \in Lists({0, 2, 4}, {1, 3}), m \in Lists({1, 4}, {2}),
     dropped \in {{}, {1}, {2, 3}}, c \in {<<2, 4>>, <<1, 2, 3>>}}

\* A quantized index, with and without ranges.
QuantizedLists ==
  {Build(<<l, m>>, {}, c, 2, "raw", TRUE) :
     l \in Lists({0, 2, 3, 4}, {0, 5}), m \in Lists({1, 4}, {3}), c \in {<<>>, <<2, 4>>}}

\* The compressed format, which refuses clusters, and a second list.
CompressedLists ==
  {Build(coll, {}, c, 2, "compressed", quantized) :
     coll \in {<<l>> : l \in Lists({0, 2, 3, 4}, {1, 5, 7})}
              \cup {<<l, l>> : l \in Lists({0, 3}, {1, 5})},
     c \in {<<>>, <<2, 4>>}, quantized \in BOOLEAN}

MCInputs == SingleLists \cup SeveralLists \cup QuantizedLists \cup CompressedLists

\* For the runs that show a disagreement.
MCClusters == {Build(<<l>>, {}, <<2, 4>>, 2, "raw", FALSE) : l \in Lists(0..3, {1})}
MCCompressed ==
  {Build(<<l, l>>, {}, <<>>, 2, "compressed", FALSE) : l \in Lists(0..3, {1, 3})}
=============================================================================
