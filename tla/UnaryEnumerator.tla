-------------------------- MODULE UnaryEnumerator --------------------------
(***************************************************************************)
(* unary_enumerator of bit_vector.hpp: it walks over the ones of a bit     *)
(* vector, which is the set of their positions.  The enumerator has the    *)
(* rest of one word in hand; a one it has returned is gone from that word, *)
(* so that it counts as a zero for skip0.                                  *)
(***************************************************************************)
EXTENDS Naturals, FiniteSetsExt

CONSTANT word_size  \* the bits of a word, 64

SameWord(p, q) == p \div word_size = q \div word_size

\* The k-th smallest element of a set of numbers, from 0.
Select(S, k) == CHOOSE p \in S : Cardinality({q \in S : q < p}) = k

unary_enumerator(ones, pos) ==
  [position |-> pos, buf |-> {p \in ones : p >= pos /\ SameWord(p, pos)}]

\* The ones to come: those of the word in hand and of the words after it.
Ahead(ones, it) ==
  it.buf \cup {p \in ones : p \div word_size > it.position \div word_size}

\* The enumerator at position p, with the ones of its word from `from` on.
At(ones, it, p, from) ==
  [position |-> p, buf |-> {q \in Ahead(ones, it) : q >= from /\ SameWord(p, q)}]

\* The enumerator before and after the one, or the zero, at p.
Before(ones, it, p) == At(ones, it, p, p)
After(ones, it, p) == At(ones, it, p, p + 1)

\* next(), k times: the k-th one to come, which is consumed.
next_times(ones, it, k) ==
  IF k = 0 THEN it ELSE After(ones, it, Select(Ahead(ones, it), k - 1))

\* skip(k): to the k-th one to come, from 0, which next() returns.
skip(ones, it, k) == Before(ones, it, Select(Ahead(ones, it), k))

\* skip0(k): to the k-th zero to come, from 0.
skip0(ones, it, k) ==
  LET zeros == (it.position .. it.position + Cardinality(ones) + k)
                 \ Ahead(ones, it)
  IN Before(ones, it, Select(zeros, k))

predecessor1(ones, pos) == Max({p \in ones : p <= pos})

\* msb of broadword.hpp and ceil_log2 of util.hpp.
msb(x) == CHOOSE k \in 0..x : 2^k <= x /\ x < 2^(k + 1)
ceil_log2(x) == IF x > 1 THEN msb(x - 1) + 1 ELSE 0
=============================================================================
