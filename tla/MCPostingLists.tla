--------------------------- MODULE MCPostingLists ---------------------------
(* PostingLists for TLC: every list over a few documents, in blocks of two    *)
(* and as sequences with a pointer at every fourth one, zero and bit and with *)
(* words of four bits.                                                        *)
EXTENDS PostingLists, FiniteSets

Nth(D, j) == CHOOSE d \in D : Cardinality({e \in D : e <= d}) = j
MCLists == {[j \in 1..Cardinality(D) |-> Nth(D, j)] :
              D \in SUBSET (0..(m_universe - 1)) \ {{}}}

\* All frequencies are one, which takes no bits, or the second is three.
MCFrequencies ==
  {[i \in 1..n |-> IF i = k THEN 3 ELSE 1] : n \in 1..m_universe, k \in {0, 2}}

MCParams ==
  [ef_log_sampling0 |-> 2, ef_log_sampling1 |-> 2, rb_log_rank1_sampling |-> 2,
   rb_log_sampling1 |-> 2, log_partition_size |-> 1]
=============================================================================
