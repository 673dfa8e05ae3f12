------------------------------ MODULE MCBatching ------------------------------
(* An instance of Batching: four requests; a text that is the beginning of two *)
(* others, of which one differs from it only beyond the seed.                  *)
EXTENDS Batching

MCContent == [ab |-> << 1, 2 >>, abc |-> << 1, 2, 3 >>, a |-> << 1 >>, b |-> << 2 >>]
=============================================================================
