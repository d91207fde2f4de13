-------------------------- MODULE IndexedSequence --------------------------
(***************************************************************************)
(* indexed_sequence.hpp and strict_sequence.hpp: a sequence is written in  *)
(* the form that takes the fewest bits, and read by the enumerator of that *)
(* form: compact_elias_fano or, in a strict_sequence, strict_elias_fano;   *)
(* compact_ranked_bitvector; all_ones_sequence, which stores nothing.      *)
(*                                                                         *)
(* A sequence as written is a record w with the name of its form in        *)
(* w.type; an enumerator has a position, the value there and more.         *)
(***************************************************************************)
EXTENDS Integers, Sequences

CONSTANTS word_size, linear_scan_threshold

EF == INSTANCE EliasFano
RB == INSTANCE RankedBitvector

\* type_bits, for a form other than all_ones_sequence.
type_bits == 1

\* Neither the zeros nor the ranks are sampled: the code shifts by 63.
strict_params(params) ==
  [params EXCEPT !.ef_log_sampling0 = 20, !.rb_log_rank1_sampling = 20]

-----------------------------------------------------------------------------
\* strict_elias_fano: the values less their number.
strict_bitsize(params, universe, n) == EF!bitsize(params, universe - n + 1, n)

strict_write(list, universe, params) ==
  [EF!write([i \in 1..Len(list) |-> list[i] - (i - 1)],
            universe - Len(list) + 1, params)
     EXCEPT !.type = "strict_elias_fano"]

\* Its enumerator returns the values with their number added.
strict_value(e) == e.value + e.position

strict_prev_value(w, e) ==
  IF e.position # 0 THEN EF!prev_value(w, e) + e.position - 1 ELSE 0

-----------------------------------------------------------------------------
\* all_ones_sequence
ones_bitsize(universe, n) == universe = n

ones_write(list, universe) == [type |-> "all_ones", universe |-> universe, n |-> universe]

ones_at(position) == [position |-> position, value |-> position]

ones_prev_value(e) == IF e.position = 0 THEN 0 ELSE e.position - 1

-----------------------------------------------------------------------------
\* The bits taken by each of the two other forms.
indexed_costs(params, universe, n) ==
  [elias_fano |-> EF!bitsize(params, universe, n) + type_bits,
   ranked_bitvector |-> RB!bitsize(params, universe, n) + type_bits]

strict_costs(params, universe, n) ==
  LET p == strict_params(params)
  IN [elias_fano |-> strict_bitsize(p, universe, n) + type_bits,
      ranked_bitvector |-> RB!bitsize(p, universe, n) + type_bits]

\* The ranked bit vector is taken if it is strictly smaller.
Cheaper(costs) == IF costs.ranked_bitvector < costs.elias_fano
                    THEN "ranked_bitvector" ELSE "elias_fano"

bitsize(params, universe, n) ==
  LET costs == indexed_costs(params, universe, n)
  IN IF ones_bitsize(universe, n) THEN 0 ELSE costs[Cheaper(costs)]

indexed_write(list, universe, params) ==
  LET form == Cheaper(indexed_costs(params, universe, Len(list)))
  IN CASE ones_bitsize(universe, Len(list)) -> ones_write(list, universe)
       [] ~ones_bitsize(universe, Len(list)) /\ form = "elias_fano" ->
            EF!write(list, universe, params)
       [] ~ones_bitsize(universe, Len(list)) /\ form = "ranked_bitvector" ->
            RB!write(list, universe, params)

strict_sequence_bitsize(params, universe, n) ==
  LET costs == strict_costs(params, universe, n)
  IN IF ones_bitsize(universe, n) THEN 0 ELSE costs[Cheaper(costs)]

strict_sequence_write(list, universe, params) ==
  LET form == Cheaper(strict_costs(params, universe, Len(list)))
      p == strict_params(params)
  IN CASE ones_bitsize(universe, Len(list)) -> ones_write(list, universe)
       [] ~ones_bitsize(universe, Len(list)) /\ form = "elias_fano" ->
            strict_write(list, universe, p)
       [] ~ones_bitsize(universe, Len(list)) /\ form = "ranked_bitvector" ->
            RB!write(list, universe, p)

IsEliasFano(w) == w.type \in {"elias_fano", "strict_elias_fano"}

enumerator(w) ==
  CASE IsEliasFano(w) -> EF!enumerator(w)
    [] w.type = "ranked_bitvector" -> RB!enumerator(w)
    [] w.type = "all_ones" -> ones_at(w.n)

move(w, e, position) ==
  CASE IsEliasFano(w) -> EF!move(w, e, position)
    [] w.type = "ranked_bitvector" -> RB!move(w, e, position)
    [] w.type = "all_ones" -> ones_at(position)

next_geq(w, e, lower_bound) ==
  CASE w.type = "elias_fano" -> EF!next_geq(w, e, lower_bound)
    [] w.type = "ranked_bitvector" -> RB!next_geq(w, e, lower_bound)
    [] w.type = "all_ones" -> ones_at(lower_bound)

next(w, e) ==
  CASE IsEliasFano(w) -> EF!next(w, e)
    [] w.type = "ranked_bitvector" -> RB!next(w, e)
    [] w.type = "all_ones" -> ones_at(e.position + 1)

prev_value(w, e) ==
  CASE w.type = "elias_fano" -> EF!prev_value(w, e)
    [] w.type = "strict_elias_fano" -> strict_prev_value(w, e)
    [] w.type = "ranked_bitvector" -> RB!prev_value(w, e)
    [] w.type = "all_ones" -> ones_prev_value(e)

\* The value the enumerator returned last.
ValueOf(w, e) == IF w.type = "strict_elias_fano" THEN strict_value(e) ELSE e.value
=============================================================================
