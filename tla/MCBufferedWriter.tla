-------------------------- MODULE MCBufferedWriter --------------------------
(***************************************************************************)
(* BufferedWriter on small instances.                                      *)
(***************************************************************************)
EXTENDS BufferedWriter

\* Every batch takes one unit of the spool.
UnitSize == [b \in 1..MaxBatch |-> 1]

\* One and two units by turns: dropping one batch may or may not be enough.
MixedSize == [b \in 1..MaxBatch |-> 1 + (b % 2)]
=============================================================================
