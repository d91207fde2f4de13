---- MODULE MCTermAtATime ----
(* TermAtATime for TLC: three documents and queries of up to two terms. *)
EXTENDS TermAtATime

\* The queries: lists that overlap, follow one another, or miss documents that
\* another query scores.
Queries ==
  {<<[d \in {0, 2} |-> 2]>>,
   <<[d \in {1} |-> 3], [d \in {0, 1} |-> 1]>>,
   <<[d \in {2} |-> 1], [d \in {0, 1, 2} |-> 1]>>}

Try(client, threads, lists, range_size) ==
  {[client |-> client, lazy |-> l, lists |-> qs, threshold |-> t, threads |-> threads,
    range_size |-> range_size] : l \in BOOLEAN, qs \in lists, t \in {0, 1}}

ThreeQueries == {<<a, b, c>> : a \in Queries, b \in Queries, c \in Queries}
TwoQueries == {<<a, b>> : a \in Queries, b \in Queries}

\* One query at a time.
Sequential ==
  UNION {Try(client, 1, ThreeQueries, r) :
           client \in {"test", "queries", "evaluate"}, r \in {0, 1}}

\* tools/queries.cpp, whose queries share the queue.
SharedQueue == Try("queries", 1, TwoQueries, 0)

\* tools/evaluate_queries.cpp with two threads.
Parallel == Try("evaluate", 2, TwoQueries, 0)
=============================================================================
