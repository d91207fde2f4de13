---------------------------- MODULE PostingCursor ----------------------------
(***************************************************************************)
(* What the queries need of a posting list: a cursor that stands at one of *)
(* its documents, or at m_universe when there is none.  RangeQuery uses    *)
(* cursors in this form; PostingLists shows that the enumerators of a      *)
(* block-compressed list and of the sequences of a freq_index are such.    *)
(***************************************************************************)
EXTENDS Integers, Sequences

CONSTANTS
  Lists,      \* posting lists: increasing sequences of documents
  m_universe  \* the number of documents

ASSUME UniverseAssumption == m_universe \in Nat
ASSUME ListsAssumption ==
  \A l \in Lists :
    /\ l \in Seq(Nat) /\ l # <<>>
    /\ \A i \in 1..Len(l) : l[i] < m_universe
    /\ \A i, j \in 1..Len(l) : i < j => l[i] < l[j]

VARIABLES
  list,        \* fixed
  m_cur_docid  \* docid()

cursor == <<list, m_cur_docid>>

Exhausted == m_cur_docid = m_universe

\* r is where a search for document d ends in the list: the first document from
\* d on, m_universe if there is none.
IsGeq(r, d) ==
  /\ \/ r = m_universe
     \/ d <= r /\ \E i \in 1..Len(list) : list[i] = r
  /\ \A i \in 1..Len(list) : d <= list[i] => r <= list[i]

CursorInit == list \in Lists /\ m_cur_docid = list[1]

CursorReset == m_cur_docid' = list[1]

CursorNext == ~Exhausted /\ IsGeq(m_cur_docid', m_cur_docid + 1)

\* A search forwards ends at the first document from d on.  A cursor already past
\* d may stay, as in a block_posting_list, or go back to that document, as in the
\* sequences of a freq_index and where a search ran past the end before.  A query
\* must not depend on it: LookupsIndifferent of QueryAlgorithms.
CursorNextGeq(d) ==
  \/ m_cur_docid >= d /\ m_cur_docid' = m_cur_docid
  \/ IsGeq(m_cur_docid', d)

\* A search from the first document, wherever the cursor stands.
CursorGlobalGeq(d) == IsGeq(m_cur_docid', d)

\* To the posting number pos, from 0.
CursorMove(pos) == ~Exhausted /\ m_cur_docid' = list[pos + 1]
=============================================================================
