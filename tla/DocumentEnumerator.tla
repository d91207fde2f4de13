------------------------- MODULE DocumentEnumerator -------------------------
(***************************************************************************)
(* document_enumerator of freq_index.hpp, the posting lists of the ef,     *)
(* single, pefuniform and pefopt indexes: a sequence of documents and,     *)
(* through positive_sequence.hpp, the sums of the frequencies as another   *)
(* sequence, which is read only when a frequency is asked for.             *)
(*                                                                         *)
(* A client calls next(), move() and freq() only while there is a          *)
(* document, and searches for documents up to the universe.                *)
(***************************************************************************)
EXTENDS PostingCursor, OptimalPartition

CONSTANTS
  params,       \* global_parameters
  Indexes,      \* of "ef", "single", "pefuniform" and "pefopt"
  Frequencies   \* lists of frequencies, of all lengths that are needed

Parts == INSTANCE PartitionedSequence

VARIABLES
  freqs,           \* the frequencies, fixed
  m_docs, m_freqs, \* both sequences as written, fixed
  m_cur_pos, m_docs_enum, m_freqs_enum

written == <<list, freqs, m_docs, m_freqs>>
vars == <<cursor, freqs, m_docs, m_freqs, m_cur_pos, m_docs_enum, m_freqs_enum>>

-----------------------------------------------------------------------------
\* The sequence of the documents and that of the sums, for each kind of index.
write_docs(index, docs, universe) ==
  CASE index = "ef" -> Base!EF!write(docs, universe, params)
    [] index = "single" -> Base!indexed_write(docs, universe, params)
    [] index = "pefuniform" ->
         Parts!write(docs, universe, Parts!uniform_partition(Len(docs), params),
                     FALSE, TRUE, params)
    [] index = "pefopt" ->
         Parts!write(docs, universe, compute_partition(docs, universe, params, FALSE),
                     FALSE, FALSE, params)

write_freqs(index, sums, universe) ==
  CASE index = "ef" -> Base!strict_write(sums, universe, params)
    [] index = "single" -> Base!strict_sequence_write(sums, universe, params)
    [] index = "pefuniform" ->
         Parts!write(sums, universe, Parts!uniform_partition(Len(sums), params),
                     TRUE, TRUE, params)
    [] index = "pefopt" ->
         Parts!write(sums, universe, compute_partition(sums, universe, params, TRUE),
                     TRUE, FALSE, params)

InParts(w) == w.type \in {"uniform", "partitioned"}

Enumerator(w) == IF InParts(w) THEN Parts!enumerator(w) ELSE Base!enumerator(w)
Move(w, e, position) ==
  IF InParts(w) THEN Parts!move(w, e, position) ELSE Base!move(w, e, position)
NextGeq(w, e, lower_bound) ==
  IF InParts(w) THEN Parts!next_geq(w, e, lower_bound)
  ELSE Base!next_geq(w, e, lower_bound)
NextOf(w, e) == IF InParts(w) THEN Parts!next(w, e) ELSE Base!next(w, e)
PrevValue(w, e) ==
  IF InParts(w) THEN Parts!prev_value(w, e) ELSE Base!prev_value(w, e)
ValueOf(w, e) == IF InParts(w) THEN e.value ELSE Base!ValueOf(w, e)

-----------------------------------------------------------------------------
\* positive_sequence: the sums of the values before and with each one.
Sums(values) ==
  FoldLeft(LAMBDA sums, v : Append(sums, v + (IF sums = << >> THEN 0 ELSE Last(sums))),
           << >>, values)

positive_enumerator(w) ==
  [base |-> Enumerator(w), position |-> w.n, cur |-> 0, value |-> 0]

\* The base is at `position` and its sum, less the one before, is the value.
SumAt(w, base, position, before) ==
  [base |-> base, position |-> position, cur |-> ValueOf(w, base),
   value |-> ValueOf(w, base) - before]

\* Mutated form of after_move: the sum in hand is taken for the one before.
after_move_cached(w, e, base, position) == SumAt(w, NextOf(w, base), position, e.cur)

\* The base has moved to the position before, and steps.
after_move(w, e, base, position) ==
  SumAt(w, NextOf(w, base), position, ValueOf(w, base))

\* The sum before is in hand when the call is for the next position.
positive_move(w, e, position) ==
  IF position = e.position + 1 THEN SumAt(w, NextOf(w, e.base), position, e.cur)
  ELSE IF position = 0 THEN SumAt(w, Move(w, e.base, 0), 0, 0)
  ELSE after_move(w, e, Move(w, e.base, position - 1), position)

-----------------------------------------------------------------------------
\* The enumerator of the documents has moved to e.
Shows(e) ==
  /\ m_docs_enum' = e
  /\ m_cur_pos' = e.position
  /\ m_cur_docid' = ValueOf(m_docs, e)
  /\ UNCHANGED <<written, m_freqs_enum>>

\* add_posting_list writes both sequences, operator[] opens them and resets.
InitIndex(index) ==
  /\ list \in Lists
  /\ freqs \in {f \in Frequencies : Len(f) = Len(list)}
  /\ LET sums == Sums(freqs)
     IN /\ m_docs = write_docs(index, list, m_universe)
        /\ m_freqs = write_freqs(index, sums, Last(sums) + 1)
  /\ m_docs_enum = Move(m_docs, Enumerator(m_docs), 0)
  /\ m_cur_pos = 0
  /\ m_cur_docid = ValueOf(m_docs, m_docs_enum)
  /\ m_freqs_enum = positive_enumerator(m_freqs)

Init == \E index \in Indexes : InitIndex(index)

reset == Shows(Move(m_docs, m_docs_enum, 0))

next == ~Exhausted /\ Shows(NextOf(m_docs, m_docs_enum))

next_geq(lower_bound) == Shows(NextGeq(m_docs, m_docs_enum, lower_bound))

\* Both directions: reset() and next_geq().
global_geq(lower_bound) ==
  Shows(NextGeq(m_docs, Move(m_docs, m_docs_enum, 0), lower_bound))

move(position) == ~Exhausted /\ Shows(Move(m_docs, m_docs_enum, position))

freq ==
  /\ ~Exhausted
  /\ m_freqs_enum' = positive_move(m_freqs, m_freqs_enum, m_cur_pos)
  /\ UNCHANGED <<cursor, freqs, m_docs, m_freqs, m_cur_pos, m_docs_enum>>

Next ==
  \/ reset
  \/ next
  \/ \E lower_bound \in 0..m_universe : next_geq(lower_bound)
  \/ \E lower_bound \in 0..m_universe : global_geq(lower_bound)
  \/ \E position \in 0..(Len(list) - 1) : move(position)
  \/ freq

Spec == Init /\ [][Next]_vars

-----------------------------------------------------------------------------
\* The cursor shows the document at its position or the universe past the last
\* one, prev_value() is the document before, and freq() would return the frequency
\* of the posting.
ShowsPosting ==
  /\ m_cur_docid = IF m_cur_pos < Len(list) THEN list[m_cur_pos + 1] ELSE m_universe
  /\ PrevValue(m_docs, m_docs_enum) = IF m_cur_pos = 0 THEN 0 ELSE list[m_cur_pos]
  /\ ~Exhausted =>
       positive_move(m_freqs, m_freqs_enum, m_cur_pos).value = freqs[m_cur_pos + 1]

\* Every search would end at the first document from the one it is asked for on,
\* behind the cursor or before it.
SearchesFind ==
  \A d \in 0..m_universe :
    /\ IsGeq(ValueOf(m_docs, NextGeq(m_docs, m_docs_enum, d)), d)
    /\ IsGeq(ValueOf(m_docs, NextGeq(m_docs, Move(m_docs, m_docs_enum, 0), d)), d)

\* The parts of a list of documents that was cut, and its superblocks whole, cost
\* this.
CostOfParts ==
  MapThenSumSet(LAMBDA p : cost_fun(params, FALSE, m_docs.sequences[p].universe,
                                    m_docs.sequences[p].n),
                1..m_docs.partitions)
CostWhole ==
  MapThenSumSet(LAMBDA b :
                  LET q == Superblock(list, params, FALSE, b)
                  IN cost_fun(params, FALSE,
                              SuperblockUniverse(list, m_universe, b) - q.base,
                              Len(q.list)),
                1..superblocks(Len(list)))

\* Cutting a list into parts never takes more space than leaving it whole.
PartitionPays == m_docs.type = "partitioned" => CostOfParts <= CostWhole
=============================================================================
