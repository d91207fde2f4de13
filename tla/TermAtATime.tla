----------------------------- MODULE TermAtATime -----------------------------
(***************************************************************************)
(* Term-at-a-time queries: ranked_or_taat_query, range_taat_query around   *)
(* it, the accumulators that add up the scores of the documents, and what  *)
(* their clients share between queries.                                    *)
(*                                                                         *)
(*   test      test_ranked_queries.cpp: a new accumulator for each query   *)
(*             and a queue that is cleared                                 *)
(*   queries   tools/queries.cpp: one accumulator and one queue, which is  *)
(*             not cleared                                                 *)
(*   evaluate  tools/evaluate_queries.cpp: one accumulator, a queue for    *)
(*             each query, and queries that run in parallel                *)
(*                                                                         *)
(* One call of accumulate and one document of aggregate are one step.      *)
(***************************************************************************)
EXTENDS Integers, Sequences, FiniteSets, Functions, SequencesExt

CONSTANTS
  K,          \* the number of results asked for
  max_docid,  \* the number of documents
  cycle,      \* 2 ^ counter_bit_size of Lazy_Accumulator
  Inputs      \* the clients, accumulators and queries to try

Doc == 0..(max_docid - 1)

ASSUME SizesAssumption == K \in Nat \ {0} /\ max_docid \in Nat /\ cycle \in Nat \ {0}

\* A posting list gives its documents scores.
IsList(post) == DOMAIN post \subseteq Doc /\ post \in [DOMAIN post -> Nat \ {0}]
IsSeq(s) == s \in Seq(Range(s))

\* lists holds for each query the posting lists of its terms; threads is the
\* number of queries that may run at once; range_size is that of
\* range_taat_query, 0 without it.
ASSUME InputAssumption ==
  \A in \in Inputs :
    /\ in.client \in {"test", "queries", "evaluate"} /\ in.lazy \in BOOLEAN
    /\ IsSeq(in.lists)
    /\ \A lists \in Range(in.lists) : IsSeq(lists) /\ \A post \in Range(lists) : IsList(post)
    /\ {in.threshold, in.range_size} \subseteq Nat /\ in.threads \in Nat \ {0}

VARIABLES
  q,          \* the input, fixed
  pc,         \* of each query: "waiting", "init", "accumulate", "aggregate", "done"
  lower, end, \* of each query: the documents being accumulated are lower..end-1
  left,       \* of each query: the postings to accumulate before that end
  docid,      \* of each query: the next document of aggregate
  queue,      \* of each query: the topk_queue it fills
  scores,     \* the accumulators
  counters,   \* Lazy_Accumulator: the counter of each accumulator
  m_counter   \* Lazy_Accumulator: the counter of the accumulators in use

queryVars == <<pc, lower, end, left, docid, queue>>
accumulatorVars == <<scores, counters, m_counter>>
vars == <<q, queryVars, accumulatorVars>>

Query == DOMAIN q.lists
Zero == [d \in Doc |-> 0]

-----------------------------------------------------------------------------
(* topk_queue.  When finalize has sorted the vector, best first, it is no    *)
(* heap any more: what pop_heap removes from it and what is then in front is *)
(* left open.                                                               *)

EmptyQueue == [heap |-> {}, threshold |-> 0, sorted |-> FALSE]

Lowest(S) == {e \in S : \A f \in S : e.score <= f.score}
InFront(S, sorted) == IF sorted THEN S ELSE Lowest(S)

\* What insert may make of a queue.
Inserted(qu, e) ==
  LET S == qu.heap \cup {e} IN
  IF e.score <= qu.threshold THEN {qu}
  ELSE IF Cardinality(S) < K THEN {[qu EXCEPT !.heap = S]}
  ELSE UNION {{[heap |-> T, threshold |-> f.score, sorted |-> qu.sorted] :
                 f \in InFront(T, qu.sorted)} :
              T \in IF Cardinality(S) = K THEN {S}
                    ELSE {S \ {l} : l \in InFront(S, qu.sorted)}}

\* Mutated form of NewQueue: the queue is not cleared between queries.
OldQueue(i) ==
  IF i = 1 THEN [EmptyQueue EXCEPT !.threshold = q.threshold]
           ELSE [queue[i - 1] EXCEPT !.threshold = q.threshold]

\* The queue query i begins with.
NewQueue(i) ==
  IF q.client = "queries" /\ i > 1
    THEN [queue[i - 1] EXCEPT !.threshold = q.threshold]
    ELSE [EmptyQueue EXCEPT !.threshold = q.threshold]

-----------------------------------------------------------------------------
(* The accumulators.                                                        *)

\* Mutated form of Reset: the counters are taken for new after a cycle, too.
ResetNever == FALSE

\* Whether init clears everything.
Reset == q.lazy => m_counter = 0

\* Whether aggregate looks at the accumulator of document d.
Current(d) == q.lazy => counters[d] = m_counter

\* accumulate: the first score of a query replaces what is left of older ones.
Accumulated(d, score) ==
  /\ scores' = [scores EXCEPT ![d] = IF Current(d) THEN @ + score ELSE score]
  /\ counters' = [counters EXCEPT ![d] = m_counter]

-----------------------------------------------------------------------------
\* The loops of range_taat_query: whole ranges while another one fits behind.
NextEnd(e) == IF q.range_size > 0 /\ e + q.range_size + q.range_size < max_docid
                THEN e + q.range_size ELSE max_docid

\* The postings of a list from document l on and before e, in order.
ListPart(list, l, e) ==
  LET D == {d \in DOMAIN list : l <= d /\ d < e}
  IN [n \in 1..Cardinality(D) |->
        LET d == CHOOSE d \in D : Cardinality({c \in D : c < d}) = n - 1
        IN [docid |-> d, score |-> list[d]]]

\* The postings the cursors of query i give before e, one list after the other.
Postings(i, l, e) == FlattenSeq([t \in DOMAIN q.lists[i] |-> ListPart(q.lists[i][t], l, e)])

Init ==
  /\ q \in Inputs
  /\ pc = [i \in Query |-> "waiting"]
  /\ lower = [i \in Query |-> 0]
  /\ end = [i \in Query |-> NextEnd(0)]
  /\ left = [i \in Query |-> <<>>]
  /\ docid = [i \in Query |-> 0]
  /\ queue = [i \in Query |-> EmptyQueue]
  /\ scores = Zero /\ counters = Zero /\ m_counter = 0

Running == {i \in Query : pc[i] \notin {"waiting", "done"}}

\* query_fun is called; the test makes a new accumulator.
StartQuery(i) ==
  /\ pc[i] = "waiting"
  /\ \A j \in 1..(i - 1) : pc[j] # "waiting"
  /\ Cardinality(Running) < q.threads
  /\ pc' = [pc EXCEPT ![i] = "init"]
  /\ queue' = [queue EXCEPT ![i] = NewQueue(i)]
  /\ IF q.client = "test"
       THEN scores' = Zero /\ counters' = Zero /\ m_counter' = 0
       ELSE UNCHANGED accumulatorVars
  /\ UNCHANGED <<q, lower, end, left, docid>>

\* init() before the first list of a range.
InitAccumulator(i) ==
  /\ pc[i] = "init"
  /\ pc' = [pc EXCEPT ![i] = "accumulate"]
  /\ left' = [left EXCEPT ![i] = Postings(i, lower[i], end[i])]
  /\ IF Reset THEN scores' = Zero /\ counters' = Zero
              ELSE UNCHANGED <<scores, counters>>
  /\ UNCHANGED <<q, lower, end, docid, queue, m_counter>>

\* accumulate() for one posting.
Accumulate(i) ==
  /\ pc[i] = "accumulate" /\ left[i] # <<>>
  /\ Accumulated(Head(left[i]).docid, Head(left[i]).score)
  /\ left' = [left EXCEPT ![i] = Tail(@)]
  /\ UNCHANGED <<q, pc, lower, end, docid, queue, m_counter>>

StartAggregate(i) ==
  /\ pc[i] = "accumulate" /\ left[i] = <<>>
  /\ pc' = [pc EXCEPT ![i] = "aggregate"]
  /\ docid' = [docid EXCEPT ![i] = 0]
  /\ UNCHANGED <<q, lower, end, left, queue, accumulatorVars>>

\* aggregate() for one document.
Aggregate(i) ==
  /\ pc[i] = "aggregate" /\ docid[i] < max_docid
  /\ LET d == docid[i] IN
       IF Current(d)
         THEN \E qu \in Inserted(queue[i], [docid |-> d, score |-> scores[d]]) :
                queue' = [queue EXCEPT ![i] = qu]
         ELSE UNCHANGED queue
  /\ docid' = [docid EXCEPT ![i] = @ + 1]
  /\ UNCHANGED <<q, pc, lower, end, left, accumulatorVars>>

\* The end of aggregate: range_taat_query goes on to its next range, or the
\* queue is finalized.
EndAggregate(i) ==
  /\ pc[i] = "aggregate" /\ docid[i] = max_docid
  /\ m_counter' = IF q.lazy THEN (m_counter + 1) % cycle ELSE m_counter
  /\ IF end[i] < max_docid
       THEN /\ pc' = [pc EXCEPT ![i] = "init"]
            /\ lower' = [lower EXCEPT ![i] = end[i]]
            /\ end' = [end EXCEPT ![i] = NextEnd(@)]
            /\ UNCHANGED queue
       ELSE /\ pc' = [pc EXCEPT ![i] = "done"]
            /\ queue' = [queue EXCEPT ![i].sorted = TRUE]
            /\ UNCHANGED <<lower, end>>
  /\ UNCHANGED <<q, left, docid, scores, counters>>

Done == (\A i \in Query : pc[i] = "done") /\ UNCHANGED vars

Next ==
  \/ \E i \in Query :
       \/ StartQuery(i) \/ InitAccumulator(i) \/ Accumulate(i)
       \/ StartAggregate(i) \/ Aggregate(i) \/ EndAggregate(i)
  \/ Done

Spec == Init /\ [][Next]_vars

-----------------------------------------------------------------------------
\* The score of document d for query i.
Score(i, d) ==
  SumFunction([t \in DOMAIN q.lists[i] |->
                 IF d \in DOMAIN q.lists[i][t] THEN q.lists[i][t][d] ELSE 0])

\* What aggregate reads is the score of the query for the documents of the range
\* and nothing for any other, however many queries have used the accumulators.
AccumulatorHoldsScores ==
  \A i \in Query :
    pc[i] = "aggregate" =>
      \A d \in Doc :
        (IF Current(d) THEN scores[d] ELSE 0) =
          IF lower[i] <= d /\ d < end[i] THEN Score(i, d) ELSE 0

\* The answer to query i consists of documents with their scores, and a document
\* that is left out does not score above the threshold.
IsRanked(i) ==
  /\ \A e \in queue[i].heap : e.score = Score(i, e.docid)
  /\ \A d \in Doc :
       \/ [docid |-> d, score |-> Score(i, d)] \in queue[i].heap
       \/ Score(i, d) <= queue[i].threshold

\* A term-at-a-time query returns what a document-at-a-time query does: the
\* tests compare them with ranked_or_query.
RankedAnswer == \A i \in Query : pc[i] = "done" => IsRanked(i)

\* The same of the clients that give every query a queue of its own.
OwnQueueAnswer == q.client # "queries" => RankedAnswer
=============================================================================
