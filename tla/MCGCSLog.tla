------------------------------ MODULE MCGCSLog ------------------------------
(* A small instance of GCSLog for TLC: records of sizes 1 and 2. *)
EXTENDS GCSLog

SmallAndBig == [r \in 1..2 |-> r]
=============================================================================
