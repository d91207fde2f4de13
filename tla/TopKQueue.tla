------------------------------ MODULE TopKQueue ------------------------------
(***************************************************************************)
(* The queue of results of a query: class topk_queue of                    *)
(* include/pisa/topk_queue.hpp.                                            *)
(*                                                                         *)
(* The vector m_q, kept as a heap whose front is a lowest score, is a set  *)
(* of entries here: only the lowest score and the number of entries matter *)
(* to the callers.  The heap may hold the same (score, docid) pair twice,  *)
(* when a query visits a range twice, so an entry also carries the number  *)
(* of the visit that produced it.  Which of several entries with the       *)
(* lowest score pop_heap removes depends on the layout of the heap: it is  *)
(* left open.                                                              *)
(***************************************************************************)
EXTENDS Integers, FiniteSets

CONSTANTS
  K,    \* m_k, the number of results asked for
  Doc   \* document identifiers

ASSUME KAssumption == K \in Nat \ {0}

VARIABLES
  m_q,         \* the entries of the heap
  m_threshold  \* a document enters only with a score above it

queueVars == <<m_q, m_threshold>>

\* entry_type, and the number of the visit that inserted it.
Entry == [score : Nat, docid : Doc, visit : Nat]

\* topk_queue(k): nothing stored, threshold 0.
InitQueue == m_q = {} /\ m_threshold = 0

\* would_enter: the comparison is strict, so ties with the threshold lose.
WouldEnter(score) == score > m_threshold

\* e is one of the entries of S with the lowest score.
IsLowest(e, S) == e \in S /\ \A f \in S : e.score <= f.score

\* score is that of the front of the heap made of the entries S.
IsFront(score, S) == \E e \in S : IsLowest(e, S) /\ e.score = score

\* The threshold becomes the score at the front of the heap.
ThresholdFromFront ==
  \E s \in {e.score : e \in m_q'} : IsFront(s, m_q') /\ m_threshold' = s

\* insert of an entry that would not enter: nothing happens.
Reject(entry) == ~WouldEnter(entry.score) /\ UNCHANGED queueVars

\* Mutated form of Push: filling the last place forgets the threshold.
PushForgetsThreshold(entry) ==
  /\ WouldEnter(entry.score)
  /\ Cardinality(m_q) < K
  /\ m_q' = m_q \cup {entry}
  /\ UNCHANGED m_threshold

\* insert with room left: the threshold moves only when the heap fills up.
Push(entry) ==
  /\ WouldEnter(entry.score)
  /\ Cardinality(m_q) < K
  /\ m_q' = m_q \cup {entry}
  /\ IF Cardinality(m_q) + 1 = K THEN ThresholdFromFront
                                 ELSE UNCHANGED m_threshold

\* Mutated form of Replace: the entry that leaves need not be a lowest one.
ReplaceAny(entry) ==
  /\ WouldEnter(entry.score)
  /\ Cardinality(m_q) >= K
  /\ \E low \in m_q \cup {entry} : m_q' = (m_q \cup {entry}) \ {low}
  /\ ThresholdFromFront

\* insert into a full heap: a lowest entry leaves.
Replace(entry) ==
  /\ WouldEnter(entry.score)
  /\ Cardinality(m_q) >= K
  /\ \E low \in m_q \cup {entry} :
       /\ IsLowest(low, m_q \cup {entry})
       /\ m_q' = (m_q \cup {entry}) \ {low}
  /\ ThresholdFromFront

Insert(entry) == Reject(entry) \/ Push(entry) \/ Replace(entry)

SetThreshold(t) == m_threshold' = t /\ UNCHANGED m_q

Clear == m_q' = {} /\ m_threshold' = 0

\* Mutated form of Finalize: the ranking is cut at the threshold.
FinalizeAtThreshold ==
  m_q' = {e \in m_q : e.score > m_threshold} /\ UNCHANGED m_threshold

\* sort_heap, then resize to the entries that precede the first score <= 0.
Finalize == m_q' = {e \in m_q : e.score > 0} /\ UNCHANGED m_threshold
-----------------------------------------------------------------------------
\* What the operations keep true of a queue that started from threshold floor:
\* at most K entries, all above floor; the threshold is the lowest score of a
\* full queue and floor while there is room.
HeapInv(floor) ==
  /\ Cardinality(m_q) <= K
  /\ IF Cardinality(m_q) = K THEN IsFront(m_threshold, m_q)
                             ELSE m_threshold = floor
  /\ \A e \in m_q : e.score > floor

\* The same of a queue of finitely many entries.
GoodQueue(floor) ==
  /\ m_q \in SUBSET Entry
  /\ IsFiniteSet(m_q)
  /\ m_threshold \in Nat
  /\ HeapInv(floor)
=============================================================================
