--------------------------- MODULE MCAnytimeSearch ---------------------------
(* AnytimeSearch for TLC: four documents in two ranges, every assignment of  *)
(* scores 0..2 with tight and loose bounds, every kind of call.              *)
EXTENDS AnytimeSearch

MCDocsOf == [r \in Cluster |-> IF r = 1 THEN {1, 2} ELSE {3, 4}]

Highest(score, D) == CHOOSE s \in 0..2 :
  (\E d \in D : score[d] = s) /\ \A d \in D : score[d] <= s

MCCorpora ==
  {[score |-> s,
    docsOf |-> MCDocsOf,
    bound |-> [r \in Cluster |-> Highest(s, MCDocsOf[r]) + slack[r]]] :
     s \in [Doc -> 0..2], slack \in [Cluster -> 0..1]}

\* The arguments that a kind of call does not take are fixed.
MCPlans ==
  [kind : {"full", "timeout"}, selected : {<<>>}, max_clusters : {0},
   threshold : {0, 1, 2}, safe : BOOLEAN]
  \cup [kind : {"boundsum"}, selected : {<<>>}, max_clusters : {0, 1, 2},
        threshold : {0, 1, 2}, safe : BOOLEAN]
  \cup [kind : {"ordered"}, selected : {<<1, 2>>, <<2, 1>>, <<2>>, <<1, 1>>},
        max_clusters : {1, 2}, threshold : {0, 1}, safe : BOOLEAN]
=============================================================================
