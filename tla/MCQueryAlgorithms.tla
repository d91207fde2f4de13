---- MODULE MCQueryAlgorithms ----
(* QueryAlgorithms for TLC, on the inputs of QueryInputs. *)
EXTENDS QueryAlgorithms, QueryInputs
====
