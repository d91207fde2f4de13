-------------------------- MODULE BlockPostingList --------------------------
(***************************************************************************)
(* document_enumerator of block_posting_list.hpp: a list stored in blocks  *)
(* of block_size postings, of which one is decoded at a time.  A block     *)
(* holds the gaps between its documents and is followed by its             *)
(* frequencies, which are decoded only when one is asked for.              *)
(*                                                                         *)
(* A client calls next() and move() only while there is a document.  Both  *)
(* forms of searching take any document: the MaxScore functions search     *)
(* for documents before that of the cursor, although next_geq asserts that *)
(* nobody does.                                                            *)
(***************************************************************************)
EXTENDS PostingCursor

CONSTANT block_size  \* BlockCodec::block_size

ASSUME BlockSizeAssumption == block_size \in Nat \ {0}

VARIABLES
  m_cur_block,      \* the block in m_docs_buf
  m_pos_in_block,
  m_cur_block_size, m_cur_block_max,
  m_freqs_decoded,  \* m_freqs_buf is taken to be that of m_cur_block
  freqs_of          \* the block m_freqs_buf was decoded from

blockVars == <<m_cur_block, m_pos_in_block, m_cur_block_size, m_cur_block_max>>
freqVars == <<m_freqs_decoded, freqs_of>>
vars == <<cursor, blockVars, freqVars>>

m_n == Len(list)
m_blocks == (m_n + block_size - 1) \div block_size

First(b) == b * block_size

\* The number of postings of block b and its last document, as written.
BlockSize(b) == IF First(b + 1) <= m_n THEN block_size ELSE m_n % block_size
block_max(b) == list[First(b) + BlockSize(b)]

position == First(m_cur_block) + m_pos_in_block

\* The document at position p in block b, when that at position from is docid:
\* the gaps between the two are added up.
Add(docid, b, from, p) == docid + list[First(b) + p + 1] - list[First(b) + from + 1]

\* decode_docs_block(block), when the cursor then goes on to position p of it.
decode_docs_block(block, p) ==
  /\ m_cur_block' = block
  /\ m_pos_in_block' = p
  /\ m_cur_block_size' = BlockSize(block)
  /\ m_cur_block_max' = block_max(block)
  /\ m_freqs_decoded' = FALSE
  /\ UNCHANGED freqs_of

FirstDocid(block) == list[First(block) + 1]

Init ==
  /\ list \in Lists
  /\ m_cur_block = 0
  /\ m_pos_in_block = 0
  /\ m_cur_block_size = BlockSize(0)
  /\ m_cur_block_max = block_max(0)
  /\ m_cur_docid = FirstDocid(0)
  /\ m_freqs_decoded = FALSE
  /\ freqs_of = 0

reset ==
  /\ decode_docs_block(0, 0)
  /\ m_cur_docid' = FirstDocid(0)
  /\ UNCHANGED list

next ==
  /\ ~Exhausted
  /\ IF m_pos_in_block + 1 = m_cur_block_size
       THEN IF m_cur_block + 1 = m_blocks
              THEN /\ m_cur_docid' = m_universe
                   /\ m_pos_in_block' = m_pos_in_block + 1
                   /\ UNCHANGED <<m_cur_block, m_cur_block_size,
                                  m_cur_block_max, freqVars>>
              ELSE /\ decode_docs_block(m_cur_block + 1, 0)
                   /\ m_cur_docid' = FirstDocid(m_cur_block + 1)
       ELSE /\ m_pos_in_block' = m_pos_in_block + 1
            /\ m_cur_docid' = Add(m_cur_docid, m_cur_block, m_pos_in_block,
                                  m_pos_in_block + 1)
            /\ UNCHANGED <<m_cur_block, m_cur_block_size, m_cur_block_max, freqVars>>
  /\ UNCHANGED list

\* The loop over a block: from document docid at position from, the first one
\* that is not below lower_bound, at position p.  The assertion in the loop is
\* that p is a position of the block.
Finds(docid, b, from, lower_bound, p) ==
  /\ p \in from..(BlockSize(b) - 1)
  /\ Add(docid, b, from, p) >= lower_bound
  /\ \A r \in from..(p - 1) : Add(docid, b, from, r) < lower_bound

\* The loop over the last documents of the blocks from block from on.
IsBlockGeq(b, from, lower_bound) ==
  /\ b \in from..(m_blocks - 1)
  /\ block_max(b) >= lower_bound
  /\ \A c \in from..(b - 1) : block_max(c) < lower_bound

\* Mutated form of PastTheEnd: only the universe is past the last document.
PastTheUniverse(lower_bound) == lower_bound >= m_universe

PastTheEnd(lower_bound) == lower_bound > block_max(m_blocks - 1)

\* The cursor leaves its block as it is.
Exhaust ==
  /\ m_cur_docid' = m_universe
  /\ UNCHANGED <<list, blockVars, freqVars>>

\* A block is decoded and searched from its first posting.
SearchBlock(b, lower_bound) ==
  \E p \in 0..(block_size - 1) :
    /\ Finds(FirstDocid(b), b, 0, lower_bound, p)
    /\ decode_docs_block(b, p)
    /\ m_cur_docid' = Add(FirstDocid(b), b, 0, p)
    /\ UNCHANGED list

\* Mutated form of global_geq: the search starts at the block in hand.
global_geq_forward(lower_bound) ==
  IF PastTheEnd(lower_bound)
    THEN Exhaust
    ELSE \E b \in m_cur_block..(m_blocks - 1) :
           IsBlockGeq(b, m_cur_block, lower_bound) /\ SearchBlock(b, lower_bound)

\* Both directions: the blocks are searched from the first one.
global_geq(lower_bound) ==
  IF PastTheEnd(lower_bound)
    THEN Exhaust
    ELSE \E b \in 0..(m_blocks - 1) :
           IsBlockGeq(b, 0, lower_bound) /\ SearchBlock(b, lower_bound)

\* The loop at the end of next_geq in the block in hand.
SearchHere(lower_bound) ==
  /\ IF m_cur_docid >= lower_bound
       THEN UNCHANGED <<m_pos_in_block, m_cur_docid>>
       ELSE \E p \in 0..(block_size - 1) :
              /\ Finds(m_cur_docid, m_cur_block, m_pos_in_block, lower_bound, p)
              /\ m_pos_in_block' = p
              /\ m_cur_docid' = Add(m_cur_docid, m_cur_block, m_pos_in_block, p)
  /\ UNCHANGED <<list, m_cur_block, m_cur_block_size, m_cur_block_max, freqVars>>

\* In the block in hand or forwards from it.
next_geq(lower_bound) ==
  IF lower_bound > m_cur_block_max
    THEN IF PastTheEnd(lower_bound)
           THEN Exhaust
           ELSE \E b \in (m_cur_block + 1)..(m_blocks - 1) :
                  /\ IsBlockGeq(b, m_cur_block + 1, lower_bound)
                  /\ SearchBlock(b, lower_bound)
    ELSE SearchHere(lower_bound)

\* move(pos), not backwards.
move(pos) ==
  /\ ~Exhausted
  /\ position <= pos
  /\ LET b == pos \div block_size
         p == pos % block_size
     IN IF b # m_cur_block
          THEN /\ decode_docs_block(b, p)
               /\ m_cur_docid' = Add(FirstDocid(b), b, 0, p)
          ELSE /\ m_pos_in_block' = p
               /\ m_cur_docid' = Add(m_cur_docid, b, m_pos_in_block, p)
               /\ UNCHANGED <<m_cur_block, m_cur_block_size, m_cur_block_max,
                              freqVars>>
  /\ UNCHANGED list

\* freq() decodes the frequencies of the block in hand if it has to.
freq ==
  /\ ~Exhausted
  /\ m_freqs_decoded' = TRUE
  /\ freqs_of' = IF m_freqs_decoded THEN freqs_of ELSE m_cur_block
  /\ UNCHANGED <<cursor, blockVars>>

Next ==
  \/ reset
  \/ next
  \/ \E lower_bound \in 0..m_universe : next_geq(lower_bound)
  \/ \E lower_bound \in 0..m_universe : global_geq(lower_bound)
  \/ \E pos \in 0..(m_n - 1) : move(pos)
  \/ freq

Spec == Init /\ [][Next]_vars

-----------------------------------------------------------------------------
\* Unless it is exhausted, the cursor shows the document at its position, so
\* that freq() reads the frequency of docid(); the position is one of the block.
AtPosition ==
  ~Exhausted => /\ m_pos_in_block < m_cur_block_size
                /\ m_cur_docid = list[position + 1]

\* What describes the block in hand is of that block, also after a search ran
\* past the last posting and left it alone; so are the frequencies read.
BlockInHand ==
  /\ m_cur_block_size = BlockSize(m_cur_block)
  /\ m_cur_block_max = block_max(m_cur_block)
  /\ m_freqs_decoded => freqs_of = m_cur_block

\* Every search ends: its loops stop at a block of the list and at a posting of
\* the block, which block_posting_list.hpp asserts.
SearchesEnd ==
  \A lower_bound \in 0..m_universe :
    ENABLED next_geq(lower_bound) /\ ENABLED global_geq(lower_bound)

\* Every operation ends where PostingCursor says.
CursorStep ==
  /\ UNCHANGED list
  /\ reset => CursorReset
  /\ next => CursorNext
  /\ \A lower_bound \in 0..m_universe :
       /\ next_geq(lower_bound) => CursorNextGeq(lower_bound)
       /\ global_geq(lower_bound) => CursorGlobalGeq(lower_bound)
  /\ \A pos \in 0..(m_n - 1) : move(pos) => CursorMove(pos)
  /\ freq => UNCHANGED cursor
=============================================================================
