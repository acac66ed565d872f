----------------------------- MODULE MCUpkeep -----------------------------
(***************************************************************************)
(* A small instance of Upkeep: one table, with months of two units, kept   *)
(* for one month by one collector and for half as much again by the other. *)
(***************************************************************************)
EXTENDS Upkeep

CONSTANTS c1, c2

SomeTables == <<"a">>
SomeKeep == [c \in Collector |-> [t \in {"a"} |-> IF c = c1 THEN 2 ELSE 3]]
OldestMonth == -3
=============================================================================
