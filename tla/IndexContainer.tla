---------------------------- MODULE IndexContainer ----------------------------
(***************************************************************************)
(* compress.hpp and the containers it builds: freq_index, which keeps the  *)
(* documents and the frequencies of all lists in two bitvector_collections *)
(* written by two parallel tasks, and block_freq_index, which keeps all    *)
(* blocks in one array; and sequence_collection, whose sequences are       *)
(* encoded by the jobs of a semiasync_queue.  All find a list by the end   *)
(* points of those before it.                                              *)
(*                                                                         *)
(* An encoded number or sequence element is one cell; the encodings are    *)
(* those of the modules on sequences and on blocks.                        *)
(***************************************************************************)
EXTENDS SemiasyncQueue

VARIABLES
  comp,             \* the arguments: kind, lists, num_docs, quantized, quants, check
  compress_pc,      \* where compress_index is
  term_id,          \* how many lists were added
  tasks,            \* the tasks of the parallel_invoke that have not run
  docs_sequences,   \* builder of m_docs_sequences, m_sequences, or m_lists
  freqs_sequences   \* builder of m_freqs_sequences

compressVars == <<queueVars, comp, compress_pc, term_id, tasks, docs_sequences,
                  freqs_sequences>>

NoSequences == [bits |-> <<>>, endpoints |-> <<0>>]

ContainerIdle ==
  /\ QueueIdle
  /\ comp = [kind |-> "none", lists |-> <<>>]
  /\ compress_pc = "idle"
  /\ term_id = 0
  /\ tasks = {}
  /\ docs_sequences = NoSequences
  /\ freqs_sequences = NoSequences

-----------------------------------------------------------------------------
(* What is written.                                                         *)

\* Mutated form of append: the end point of a sequence is where it begins.
AppendBefore(sequences, cells) ==
  [bits |-> sequences.bits \o cells,
   endpoints |-> Append(sequences.endpoints, Len(sequences.bits))]

\* append and its end point.
append(sequences, cells) ==
  [bits |-> sequences.bits \o cells,
   endpoints |-> Append(sequences.endpoints, Len(sequences.bits) + Len(cells))]

Docs(t) == [i \in DOMAIN comp.lists[t] |-> comp.lists[t][i].doc]

\* What stands for the frequencies: scores in an index that is quantized.
Freqs(t) == [i \in DOMAIN comp.lists[t] |->
               IF comp.quantized THEN comp.quants[t][i] ELSE comp.lists[t][i].freq]

SumOf(s) == FoldLeft(+, 0, s)

\* The first task: the length is left out when the occurrences say that it is 1.
DocsBits(t) ==
  LET occurrences == SumOf(Freqs(t))
  IN <<occurrences>> \o (IF occurrences > 1 THEN <<Len(Docs(t))>> ELSE <<>>) \o Docs(t)

\* block_posting_list::write.
BlockBits(t) == <<Len(Docs(t))>> \o Docs(t) \o Freqs(t)

Log2Ceil(x) == CHOOSE b \in 0..x : 2^b >= x /\ \A a \in 0..(b - 1) : 2^a < x

\* sequence_adder::prepare, of the documents.
SequenceBits(t) == <<Log2Ceil(Last(Docs(t))), Len(Docs(t))>> \o Docs(t)

-----------------------------------------------------------------------------
(* compress_index.                                                          *)

\* Called with an index and the container to build, a queue for a sequence_collection.
Compress(c) ==
  /\ compress_pc = "idle"
  /\ comp' = c
  /\ compress_pc' = "lists"
  /\ IF c.kind = "sequences"
       THEN MakeQueue([t \in DOMAIN c.lists |-> Len(c.lists[t])])
       ELSE UNCHANGED queueVars
  /\ UNCHANGED <<term_id, tasks, docs_sequences, freqs_sequences>>

NextList == compress_pc = "lists" /\ tasks = {} /\ term_id < Len(comp.lists)

\* A list without postings makes add_posting_list throw.
EmptyList == comp.lists[term_id + 1] = <<>>

Throw == compress_pc' = "failed" /\ UNCHANGED <<term_id, tasks, docs_sequences>>

\* add_posting_list of a freq_index starts its tasks.
AddPostingList ==
  /\ NextList /\ comp.kind = "freq"
  /\ IF EmptyList
       THEN Throw
       ELSE /\ term_id' = term_id + 1
            /\ tasks' = {"docs", "freqs"}
            /\ UNCHANGED <<compress_pc, docs_sequences>>
  /\ UNCHANGED <<queueVars, comp, freqs_sequences>>

WriteDocs ==
  /\ "docs" \in tasks
  /\ docs_sequences' = append(docs_sequences, DocsBits(term_id))
  /\ tasks' = tasks \ {"docs"}
  /\ UNCHANGED <<queueVars, comp, compress_pc, term_id, freqs_sequences>>

WriteFreqs ==
  /\ "freqs" \in tasks
  /\ freqs_sequences' = append(freqs_sequences, Freqs(term_id))
  /\ tasks' = tasks \ {"freqs"}
  /\ UNCHANGED <<queueVars, comp, compress_pc, term_id, docs_sequences>>

\* add_posting_list of both builders of a block_freq_index.
AddBlocks ==
  /\ NextList /\ comp.kind = "block"
  /\ IF EmptyList
       THEN Throw
       ELSE /\ term_id' = term_id + 1
            /\ docs_sequences' = append(docs_sequences, BlockBits(term_id + 1))
            /\ UNCHANGED <<compress_pc, tasks>>
  /\ UNCHANGED <<queueVars, comp, freqs_sequences>>

\* add_sequence and complete: a job that is committed appends its sequence.
AddSequences ==
  /\ compress_pc = "lists" /\ comp.kind = "sequences"
  /\ QueueStep
  /\ LET commits == SubSeq(committed', Len(committed) + 1, Len(committed'))
     IN docs_sequences' = FoldLeft(append, docs_sequences,
                                   [j \in DOMAIN commits |-> SequenceBits(commits[j])])
  /\ term_id' = IF queue_pc' = "done" THEN Len(work) ELSE term_id
  /\ UNCHANGED <<comp, compress_pc, tasks, freqs_sequences>>

\* build().
BuildContainer ==
  /\ compress_pc = "lists" /\ tasks = {} /\ term_id = Len(comp.lists)
  /\ comp.kind = "sequences" => queue_pc = "done"
  /\ compress_pc' = "built"
  /\ UNCHANGED <<queueVars, comp, term_id, tasks, docs_sequences, freqs_sequences>>

-----------------------------------------------------------------------------
(* What is read.                                                            *)

size == Len(docs_sequences.endpoints) - 1

\* n cells of a collection from place p on.
Take(sequences, p, n) == [i \in 1..n |-> sequences.bits[p + i]]

\* operator[](i) of each container, read to its end.
Enumerated(i) ==
  LET p == docs_sequences.endpoints[i + 1]
      first == docs_sequences.bits[p + 1]
  IN CASE comp.kind = "freq" ->
            LET n == IF first > 1 THEN docs_sequences.bits[p + 2] ELSE 1
            IN [docs |-> Take(docs_sequences, IF first > 1 THEN p + 2 ELSE p + 1, n),
                freqs |-> Take(freqs_sequences, freqs_sequences.endpoints[i + 1], n)]
       [] comp.kind = "block" ->
            [docs |-> Take(docs_sequences, p + 1, first),
             freqs |-> Take(docs_sequences, p + 1 + first, first)]
       [] comp.kind = "sequences" ->
            [docs |-> Take(docs_sequences, p + 2, docs_sequences.bits[p + 2]),
             freqs |-> <<>>]

\* verify_collection, which ends the program when a list differs.
Verify ==
  /\ compress_pc = "built"
  /\ compress_pc' =
       IF /\ comp.check /\ ~comp.quantized /\ comp.kind # "sequences"
          /\ \E t \in DOMAIN comp.lists :
               Enumerated(t - 1) # [docs |-> Docs(t), freqs |-> Freqs(t)]
         THEN "failed" ELSE "done"
  /\ UNCHANGED <<queueVars, comp, term_id, tasks, docs_sequences, freqs_sequences>>

ContainerStep ==
  \/ AddPostingList \/ WriteDocs \/ WriteFreqs
  \/ AddBlocks
  \/ AddSequences
  \/ BuildContainer
  \/ Verify

-----------------------------------------------------------------------------
\* Every list is found in the container at its place and reads as it was given,
\* whatever the order of the tasks or the threads that wrote it, also with scores
\* instead of frequencies; so the verification never fails.
ContainerIsIndex ==
  compress_pc = "built" =>
    /\ size = Len(comp.lists)
    /\ \A t \in DOMAIN comp.lists :
         /\ Enumerated(t - 1).docs = Docs(t)
         /\ comp.kind # "sequences" => Enumerated(t - 1).freqs = Freqs(t)
         /\ comp.kind = "sequences" =>
              Last(Docs(t)) <= 2^docs_sequences.bits[docs_sequences.endpoints[t] + 1]
=============================================================================
