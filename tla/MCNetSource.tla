---------------------------- MODULE MCNetSource ----------------------------
(* A small instance of NetSource for TLC. *)
EXTENDS NetSource

CONSTANTS a, b

\* Which of the two records is logged first makes no difference: take a.
FirstIsA == lives[1] # <<>> => lives[1][1] = a
=============================================================================
