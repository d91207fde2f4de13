---------------------------- MODULE GraphBisection ----------------------------
(***************************************************************************)
(* recursive_graph_bisection.hpp.  The documents are ordered by halving    *)
(* ranges of them: documents of the two halves of a range are exchanged as *)
(* long as this gains something by the degrees of their terms in the       *)
(* halves, and then the halves are treated likewise.  The nodes run as     *)
(* tasks.  The degrees of a node lie in storage local to its thread, and a *)
(* thread that waits for the parallel sort of its halves runs other tasks. *)
(*                                                                         *)
(* Positions and documents count from 0.  Nodes of a configuration are     *)
(* taken to lie in halves of the nodes of the level before.  Halves are    *)
(* sorted before anything depends on their order, so their order in        *)
(* between is left out; the gains are left open, so that any documents may *)
(* be exchanged.                                                           *)
(***************************************************************************)
EXTENDS Integers, FiniteSets, SequencesExt

VARIABLES
  bis,        \* the arguments: lists, min_length, compressed, threads, nodes
  bis_pc,     \* where recursive_graph_bisection is
  documents,  \* the order of the documents
  todo,       \* the nodes not begun
  stack,      \* the nodes each thread has begun, of which the last one runs
  degrees     \* left_degrees and right_degrees of each thread

bisectionVars == <<bis, bis_pc, documents, todo, stack, degrees>>

BisectionIdle ==
  /\ bis = [lists |-> <<>>, doc_count |-> 0, min_length |-> 0, compressed |-> TRUE,
            threads |-> 1, nodes |-> {}]
  /\ bis_pc = "idle"
  /\ documents = <<>>
  /\ todo = {}
  /\ stack = <<>>
  /\ degrees = <<>>

-----------------------------------------------------------------------------
(* forward_index.                                                           *)

\* The elements of a set of numbers from the lowest on.
Increasing(S) == [i \in 1..Cardinality(S) |->
                    CHOOSE x \in S : Cardinality({y \in S : y < x}) = i - 1]

\* The terms of a document whose lists are long enough.  Terms count from 0.
TermsOf(lists, min_len, d) ==
  Increasing({t - 1 : t \in {u \in DOMAIN lists :
                /\ Len(lists[u]) >= min_len
                /\ \E i \in DOMAIN lists[u] : lists[u][i].doc = d}})

\* from_inverted_index writes the gaps between the terms of a document.
EncodedTerms(d) ==
  LET terms == TermsOf(bis.lists, bis.min_length, d)
  IN [i \in DOMAIN terms |-> IF i = 1 THEN terms[1] ELSE terms[i] - terms[i - 1]]

\* terms(): a compressed index, into which the gaps are copied, adds them up.
terms(d) ==
  LET encoded == EncodedTerms(d)
      sum[i \in 0..Len(encoded)] == IF i = 0 THEN 0 ELSE sum[i - 1] + encoded[i]
  IN IF bis.compressed THEN [i \in DOMAIN encoded |-> sum[i]] ELSE encoded

-----------------------------------------------------------------------------
(* Ranges and nodes.                                                        *)

\* A node splits first..last-1 at mid.  The depth left is that of the default tree;
\* nodes of a configuration have none.
NoDepth == -1
Node(level, first, mid, last, iterations, depth) ==
  [level |-> level, first |-> first, mid |-> mid, last |-> last,
   iteration_count |-> iterations, depth |-> depth]

\* document_range::split, at a depth of the default tree.
Split(level, first, last, iterations, depth) ==
  Node(level, first, first + (last - first) \div 2, last, iterations, depth)

\* The recursive calls of the default tree.
Children(n) ==
  IF n.depth > 1 /\ n.last - n.first > 2
    THEN {Split(n.level + 1, n.first, n.mid, n.iteration_count, n.depth - 1),
          Split(n.level + 1, n.mid, n.last, n.iteration_count, n.depth - 1)}
    ELSE {}

Left(n) == {documents[p + 1] : p \in n.first..(n.mid - 1)}
Right(n) == {documents[p + 1] : p \in n.mid..(n.last - 1)}

\* Called with the root of the default tree or the nodes of a configuration.
Bisect(c) ==
  /\ bis_pc = "idle"
  /\ bis' = c
  /\ bis_pc' = "run"
  /\ documents' = [p \in 1..c.doc_count |-> p - 1]
  /\ todo' = c.nodes
  /\ stack' = [t \in 1..c.threads |-> <<>>]
  /\ degrees' = [t \in 1..c.threads |-> [left |-> <<>>, right |-> <<>>]]

Threads == DOMAIN stack
Running(t) == Range(stack[t])

\* A node waits for its parent, which makes it, or for the level before it.
Ready == {n \in todo :
            n.depth = NoDepth => \A m \in todo \cup {f.node : f \in UNION {Running(t) : t \in Threads}} :
                             m.level >= n.level}

Occurrences(x, d) == Cardinality({i \in DOMAIN terms(d) : terms(d)[i] = x})

Terms == 0..(Len(bis.lists) - 1)

\* compute_degrees of the documents of a half.
compute_degrees(docs) ==
  [x \in Terms |-> MapThenSumSet(LAMBDA d : Occurrences(x, d), docs)]

-----------------------------------------------------------------------------
(* The tasks.                                                               *)

\* A thread that has nothing to do, or waits for a sort whose other half another
\* thread has taken, begins a node: process_partition up to its loop.
Begin(t, n) ==
  /\ bis_pc = "run"
  /\ n \in Ready
  /\ stack[t] # <<>> => bis.threads > 1 /\ Last(stack[t]).at = "sort"
  /\ todo' = todo \ {n}
  /\ stack' = [stack EXCEPT ![t] = Append(@, [node |-> n, iteration |-> 0, at |-> "gains"])]
  /\ degrees' = [degrees EXCEPT ![t] = [left |-> compute_degrees(Left(n)),
                                        right |-> compute_degrees(Right(n))]]
  /\ UNCHANGED <<bis, bis_pc, documents>>

\* compute_gains from the degrees, whereupon the halves are sorted.
ComputeGains(t) ==
  /\ stack[t] # <<>>
  /\ Last(stack[t]).at = "gains"
  /\ stack' = [stack EXCEPT ![t][Len(stack[t])].at = "sort"]
  /\ UNCHANGED <<bis, bis_pc, documents, todo, degrees>>

\* The degrees when documents out leave a half and documents in come to it.
Moved(degree, out, in) ==
  [x \in DOMAIN degree |->
     degree[x] - compute_degrees(out)[x] + compute_degrees(in)[x]]

\* The order in which a half holds its documents.
Placed(docs, first) == [p \in (first + 1)..(first + Cardinality(docs)) |->
                          Increasing(docs)[p - first]]

\* Mutated form of Exchange: only the documents move.
ExchangeStale(t, n, out, in) ==
  /\ documents' = [p \in DOMAIN documents |->
       IF p - 1 \in n.first..(n.mid - 1) THEN Placed((Left(n) \ out) \cup in, n.first)[p]
       ELSE IF p - 1 \in n.mid..(n.last - 1) THEN Placed((Right(n) \ in) \cup out, n.mid)[p]
       ELSE documents[p]]
  /\ UNCHANGED degrees

\* swap: out and in are the documents exchanged.
Exchange(t, n, out, in) ==
  /\ documents' = [p \in DOMAIN documents |->
       IF p - 1 \in n.first..(n.mid - 1) THEN Placed((Left(n) \ out) \cup in, n.first)[p]
       ELSE IF p - 1 \in n.mid..(n.last - 1) THEN Placed((Right(n) \ in) \cup out, n.mid)[p]
       ELSE documents[p]]
  /\ degrees' = [degrees EXCEPT ![t] = [left |-> Moved(@.left, out, in),
                                        right |-> Moved(@.right, in, out)]]

\* The sorted halves are exchanged; a node with no iteration left is over, and its
\* children can begin.
Swap(t) ==
  /\ stack[t] # <<>>
  /\ Last(stack[t]).at = "sort"
  /\ LET frame == Last(stack[t])
         n == frame.node
         over == frame.iteration + 1 = n.iteration_count
     IN /\ \E out \in SUBSET Left(n), in \in SUBSET Right(n) :
             Cardinality(out) = Cardinality(in) /\ Exchange(t, n, out, in)
        /\ stack' = [stack EXCEPT ![t] =
             IF over THEN Front(@)
             ELSE Append(Front(@), [node |-> n, iteration |-> frame.iteration + 1,
                                    at |-> "gains"])]
        /\ todo' = IF over THEN todo \cup Children(n) ELSE todo
  /\ UNCHANGED <<bis, bis_pc>>

\* Every node is over.
BisectionOver ==
  /\ bis_pc = "run"
  /\ todo = {}
  /\ \A t \in Threads : stack[t] = <<>>
  /\ bis_pc' = "done"
  /\ UNCHANGED <<bis, documents, todo, stack, degrees>>

BisectionStep ==
  \/ \E t \in Threads, n \in todo : Begin(t, n)
  \/ \E t \in Threads : ComputeGains(t) \/ Swap(t)
  \/ BisectionOver

\* get_mapping: the new number of each document.
get_mapping(collection) ==
  [d \in 1..Len(collection) |-> (CHOOSE p \in DOMAIN collection : collection[p] = d - 1) - 1]

-----------------------------------------------------------------------------
\* What the degrees of a half are.
TrueDegrees(docs) ==
  [x \in Terms |->
     Cardinality({d \in docs : \E i \in DOMAIN TermsOf(bis.lists, bis.min_length, d) :
                                 TermsOf(bis.lists, bis.min_length, d)[i] = x})]

DegreesHold(t) ==
  stack[t] # <<>> /\ Last(stack[t]).at = "gains" =>
    /\ degrees[t].left = TrueDegrees(Left(Last(stack[t]).node))
    /\ degrees[t].right = TrueDegrees(Right(Last(stack[t]).node))

\* When gains are computed, the degrees are those of the halves as they then are,
\* however often documents were exchanged and in whatever order the nodes run, on one
\* thread and with a compressed forward index.  (A thread that begins a node while
\* another waits on it for its sort clears the degrees of that one.)
DegreesOfOneThread ==
  bis.threads = 1 /\ bis.compressed => \A t \in Threads : DegreesHold(t)

\* terms() of a document "decodes and returns the list of terms for a given
\* document", as forward_index.hpp says.
TermsAreDecoded ==
  \A d \in 0..(bis.doc_count - 1) : terms(d) = TermsOf(bis.lists, bis.min_length, d)
=============================================================================
