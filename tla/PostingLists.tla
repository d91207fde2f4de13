---------------------------- MODULE PostingLists ----------------------------
(***************************************************************************)
(* A posting list of an index of either kind: in blocks, or as sequences,  *)
(* of which there are four.  The queries are compiled for each of them     *)
(* (index_types.hpp) and see only docid() and the operations, so that all  *)
(* must be the same cursor.                                                *)
(***************************************************************************)
EXTENDS BlockPostingList

CONSTANTS
  word_size, linear_scan_threshold,  \* 64 and 8
  fix_cost, eps1, eps2, eps3,        \* parameters of compute_partition
  params, Indexes, Frequencies

\* The bounds of the windows grow, and there is a first one.
ASSUME CostAssumption == fix_cost > 0 /\ fix_cost * eps2 >= 100
ASSUME EpsilonAssumption == eps1 \in 1..100 /\ eps3 > 0

VARIABLES index, freqs, m_docs, m_freqs, m_cur_pos, m_docs_enum, m_freqs_enum

sequenceVars == <<freqs, m_docs, m_freqs, m_cur_pos, m_docs_enum, m_freqs_enum>>
listVars == <<cursor, blockVars, freqVars, sequenceVars, index>>

Sequences == INSTANCE DocumentEnumerator

\* What the index in hand does not use stays at one value.
NoSequences ==
  /\ freqs = << >> /\ m_docs = << >> /\ m_freqs = << >>
  /\ m_cur_pos = 0
  /\ m_docs_enum = << >> /\ m_freqs_enum = << >>
NoBlocks ==
  /\ m_cur_block = 0 /\ m_pos_in_block = 0
  /\ m_cur_block_size = 0 /\ m_cur_block_max = 0
  /\ m_freqs_decoded = FALSE /\ freqs_of = 0

InitLists ==
  \/ index = "block" /\ Init /\ NoSequences
  \/ index \in Indexes /\ Sequences!InitIndex(index) /\ NoBlocks

block_freq_index == index = "block" /\ Next /\ UNCHANGED <<sequenceVars, index>>
freq_index ==
  index # "block" /\ Sequences!Next /\ UNCHANGED <<blockVars, freqVars, index>>

NextLists == block_freq_index \/ freq_index

SpecLists == InitLists /\ [][NextLists]_listVars

-----------------------------------------------------------------------------
\* Wherever the calls before left a list of either kind, blocks decoded or not,
\* sequences searched forwards or backwards, the document shown is that of the
\* posting whose frequency freq() reads; and what describes the block in hand is
\* of that block, also after a search ran past the end and left it alone.
ShowsPosting ==
  IF index = "block" THEN AtPosition /\ BlockInHand ELSE Sequences!ShowsPosting

\* A block list is a cursor: each operation ends where PostingCursor says.
BlocksAreCursor == CursorInit /\ [][index = "block" => CursorStep]_listVars

\* The loops of its searches stop at a block of the list and at a posting of the
\* block, which block_posting_list.hpp asserts.
BlockSearchesEnd == index = "block" => SearchesEnd

\* A list of sequences is a cursor too: jumps by pointers, samples and partitions
\* from wherever the enumerator stands end at the posting that is searched for.
SequencesAreCursor == index # "block" => Sequences!SearchesFind

\* The approximate partition of a list takes no more space than the whole list.
PartitionPays == index = "pefopt" => Sequences!PartitionPays
=============================================================================
