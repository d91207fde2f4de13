---------------------------- MODULE AnytimeSearch ----------------------------
(***************************************************************************)
(* What an anytime query promises, whatever algorithm evaluates a range.   *)
(*                                                                         *)
(* tools/queries.cpp runs a query with one of the member functions         *)
(*   operator()              the whole collection as one range   "full"    *)
(*   ordered_range_query     the ranges given, in their order    "ordered" *)
(*   boundsum_range_query    by decreasing upper bound           "boundsum"*)
(*   boundsum_timeout_query  the same, until time is up          "timeout" *)
(* of wand_query, block_max_wand_query or maxscore_query, finalizes the    *)
(* queue, and runs it again from threshold 0 when the user asked for safe  *)
(* results and an estimated threshold left fewer than K of them.           *)
(*                                                                         *)
(* The evaluation of one range is abstract: documents of the range enter   *)
(* the queue in any order with their full score, and the range may be left *)
(* once none of its other documents could still enter.  The modules        *)
(* MaxScoreQuery, WandQuery and BlockMaxWandQuery show that this is what   *)
(* the three algorithms do with their cursors.                             *)
(***************************************************************************)
EXTENDS TopKQueue, Sequences

CONSTANTS
  Cluster,  \* identifiers of document ranges
  Corpora,  \* the collections a query may be run on
  Plans     \* the ways a query may be run

\* A collection as a query sees it: the score of every document, the documents
\* of every range, and an upper bound of their scores.
Corpus == [score : [Doc -> Nat],
           docsOf : [Cluster -> SUBSET Doc],
           bound : [Cluster -> Nat]]

\* kind is the member function called; selected and max_clusters are its
\* arguments; threshold is the estimate set before it; safe is the flag of
\* op_perftest.
Plan == [kind : {"full", "ordered", "boundsum", "timeout"},
         selected : Seq(Cluster),
         max_clusters : Nat,
         threshold : Nat,
         safe : BOOLEAN]

ASSUME CorporaAssumption == Corpora \subseteq Corpus
ASSUME PlansAssumption == Plans \subseteq Plan

\* wand_data stores for every term the highest score of a posting in a range.
ASSUME BoundAssumption ==
  \A c \in Corpora : \A r \in Cluster : \A d \in c.docsOf[r] :
    c.score[d] <= c.bound[r]

\* Ranges are intervals of document identifiers that do not overlap.
ASSUME DisjointAssumption ==
  \A c \in Corpora : \A r, s \in Cluster :
    r # s => c.docsOf[r] \cap c.docsOf[s] = {}

VARIABLES
  corpus,     \* the collection, fixed
  plan,       \* the call, fixed
  pc,         \* "select", "range", "done", "returned", "answered"
  attempt,    \* 1, or 2 after the safe re-run
  todo,       \* ranges not visited yet
  processed,  \* processed_clusters
  scope,      \* documents of the range being evaluated
  covered,    \* documents of the ranges evaluated so far
  cut         \* TRUE when max_clusters or the clock ended the search

inputVars == <<corpus, plan>>
searchVars == <<todo, processed, scope, covered, cut>>
vars == <<queueVars, inputVars, pc, attempt, searchVars>>

-----------------------------------------------------------------------------
Full == plan.kind = "full"
Ordered == plan.kind = "ordered"
BoundSum == plan.kind \in {"boundsum", "timeout"}

\* A member function called with a new queue.
Init ==
  /\ corpus \in Corpora
  /\ plan \in Plans
  /\ m_q = {}
  /\ m_threshold = plan.threshold
  /\ attempt = 1
  /\ pc = IF Full THEN "range" ELSE "select"
  /\ todo = Cluster
  /\ processed = 0
  /\ scope = IF Full THEN Doc ELSE {}
  /\ covered = {}
  /\ cut = FALSE

\* Mutated form of IsBest: the ranges are not sorted by their bound.
IsAny(r) == r \in todo

\* r comes first among the ranges left when they are sorted by decreasing
\* bound; std::sort leaves the order of equal bounds open.
IsBest(r) == r \in todo /\ \A s \in todo : corpus.bound[s] <= corpus.bound[r]

\* The loop over the ranges has nothing left to visit.
Exhausted ==
  IF Ordered
    THEN processed = Len(plan.selected)
    ELSE \/ todo = {}
         \/ \E r \in todo : IsBest(r) /\ ~WouldEnter(corpus.bound[r])

\* The range the loop visits next.
IsNext(r) ==
  IF Ordered
    THEN processed < Len(plan.selected) /\ r = plan.selected[processed + 1]
    ELSE IsBest(r) /\ WouldEnter(corpus.bound[r])

\* max_clusters is compared with the ranges begun, so 0 visits none.
Budget == plan.kind = "timeout" \/ processed # plan.max_clusters

\* Mutated form of StartRange: the range visited is not taken off the list.
StartRangeAgain(r) ==
  /\ pc = "select"
  /\ IsNext(r)
  /\ Budget
  /\ pc' = "range"
  /\ processed' = processed + 1
  /\ scope' = corpus.docsOf[r]
  /\ UNCHANGED <<queueVars, inputVars, attempt, todo, covered, cut>>

StartRange(r) ==
  /\ pc = "select"
  /\ IsNext(r)
  /\ Budget
  /\ pc' = "range"
  /\ todo' = todo \ {r}
  /\ processed' = processed + 1
  /\ scope' = corpus.docsOf[r]
  /\ UNCHANGED <<queueVars, inputVars, attempt, covered, cut>>

EntryFor(d) == [score |-> corpus.score[d], docid |-> d, visit |-> processed]

\* A document of the range is scored and accepted by the queue, once a visit.
Enter(d) ==
  /\ pc = "range"
  /\ d \in scope
  /\ EntryFor(d) \notin m_q
  /\ Push(EntryFor(d)) \/ Replace(EntryFor(d))
  /\ UNCHANGED <<inputVars, pc, attempt, searchVars>>

\* No document of the range that is not in the queue could still enter.
RangeSettled ==
  \A d \in scope : EntryFor(d) \in m_q \/ ~WouldEnter(corpus.score[d])

FinishRange ==
  /\ pc = "range"
  /\ RangeSettled
  /\ pc' = IF Full THEN "done" ELSE "select"
  /\ covered' = covered \cup scope
  /\ scope' = {}
  /\ UNCHANGED <<queueVars, inputVars, attempt, todo, processed, cut>>

StopExhausted ==
  /\ pc = "select"
  /\ Exhausted
  /\ pc' = "done"
  /\ UNCHANGED <<queueVars, inputVars, attempt, searchVars>>

\* max_clusters ranges were visited, or the time used and expected exceeds the
\* timeout; the clock starts at 0, so the first range is always visited.
StopEarly ==
  /\ pc = "select"
  /\ ~Exhausted
  /\ IF plan.kind = "timeout" THEN processed > 0
                              ELSE processed = plan.max_clusters
  /\ pc' = "done"
  /\ cut' = TRUE
  /\ UNCHANGED <<queueVars, inputVars, attempt, todo, processed, scope, covered>>

\* The functions of tools/queries.cpp finalize the queue and return its size.
Return ==
  /\ pc = "done"
  /\ Finalize
  /\ pc' = "returned"
  /\ UNCHANGED <<inputVars, attempt, searchVars>>

TooFew == plan.safe /\ Cardinality(m_q) < K

\* Another call, with a new queue and threshold t.
Restart(t) ==
  /\ m_q' = {}
  /\ m_threshold' = t
  /\ pc' = IF Full THEN "range" ELSE "select"
  /\ todo' = Cluster
  /\ processed' = 0
  /\ scope' = IF Full THEN Doc ELSE {}
  /\ covered' = {}
  /\ cut' = FALSE

\* Mutated form of Rerun: the second run keeps the estimated threshold.
RerunWithEstimate ==
  /\ pc = "returned"
  /\ attempt = 1
  /\ TooFew
  /\ attempt' = 2
  /\ Restart(plan.threshold)
  /\ UNCHANGED inputVars

\* Mutated form of Rerun: the query is run until it finds enough results.
RerunWhileFew ==
  /\ pc = "returned"
  /\ TooFew
  /\ attempt' = 2
  /\ Restart(0)
  /\ UNCHANGED inputVars

\* Mutated form of Rerun: as RerunWhileFew, counting the runs.
RerunAndCount ==
  /\ pc = "returned"
  /\ TooFew
  /\ attempt' = attempt + 1
  /\ Restart(0)
  /\ UNCHANGED inputVars

\* op_perftest: a safe query that found fewer than K results runs once more.
Rerun ==
  /\ pc = "returned"
  /\ attempt = 1
  /\ TooFew
  /\ attempt' = 2
  /\ Restart(0)
  /\ UNCHANGED inputVars

Accept ==
  /\ pc = "returned"
  /\ attempt = 2 \/ ~TooFew
  /\ pc' = "answered"
  /\ UNCHANGED <<queueVars, inputVars, attempt, searchVars>>

Answered == pc = "answered" /\ UNCHANGED vars

Next ==
  \/ \E r \in Cluster : StartRange(r)
  \/ \E d \in Doc : Enter(d)
  \/ FinishRange
  \/ StopExhausted
  \/ StopEarly
  \/ Return
  \/ Rerun
  \/ Accept
  \/ Answered

Spec == Init /\ [][Next]_vars

\* A query is one thread that keeps running.
FairSpec == Spec /\ WF_vars(Next)

-----------------------------------------------------------------------------
\* Type invariant.
TypeOK ==
  /\ corpus \in Corpus
  /\ plan \in Plan
  /\ m_q \in SUBSET Entry
  /\ IsFiniteSet(m_q)
  /\ m_threshold \in Nat
  /\ pc \in {"select", "range", "done", "returned", "answered"}
  /\ attempt \in {1, 2}
  /\ todo \in SUBSET Cluster
  /\ processed \in Nat
  /\ scope \in SUBSET Doc
  /\ covered \in SUBSET Doc
  /\ cut \in BOOLEAN

\* The threshold the current run started from.
Floor == IF attempt = 1 THEN plan.threshold ELSE 0

\* The queue never holds more than K entries, each with the true score of its
\* document; when it is full the threshold is its lowest score, before that
\* the one the run started from.
QueueInv ==
  /\ HeapInv(Floor)
  /\ \A e \in m_q : e.score = corpus.score[e.docid]

InResult(d) == \E e \in m_q : e.docid = d

\* Rank safety at any moment: no document of a range already left could have
\* displaced a result; later ranges only raise the threshold.
CoveredIsRankSafe ==
  \A d \in covered : InResult(d) \/ corpus.score[d] <= m_threshold

\* A document is in the result once, unless the caller lists a range twice.
NoDuplicates ==
  (\A i, j \in 1..Len(plan.selected) :
      plan.selected[i] = plan.selected[j] => i = j)
    => \A e, f \in m_q : e.docid = f.docid => e = f

\* The ranges and the documents the call is about.
EligibleRanges ==
  IF Ordered THEN {plan.selected[i] : i \in 1..Len(plan.selected)} ELSE Cluster

Eligible ==
  IF Full THEN Doc ELSE UNION {corpus.docsOf[r] : r \in EligibleRanges}

\* A search that nothing cut short has left no eligible document out that
\* could have entered: for the bound-sum order this includes every range it
\* never visited.
DoneIsRankSafe ==
  pc \in {"done", "returned", "answered"} /\ ~cut =>
    \A d \in Eligible : InResult(d) \/ corpus.score[d] <= m_threshold

\* The promise of --safe: the answer is a top-K of the eligible documents with
\* a positive score, however wrong the estimated threshold was.
SafeAnswerIsExact ==
  pc = "answered" /\ ~cut /\ (plan.safe \/ plan.threshold = 0) =>
    \A d \in Eligible :
      \/ InResult(d)
      \/ corpus.score[d] = 0
      \/ Cardinality(m_q) = K /\ \A e \in m_q : corpus.score[d] <= e.score

\* Within a run the threshold never falls: a document once safely skipped
\* stays skipped.
ThresholdNeverFalls == [][attempt' = attempt => m_threshold' >= m_threshold]_vars

\* Every query is answered, after at most one re-run.
EventuallyAnswered == <>(pc = "answered")
=============================================================================
