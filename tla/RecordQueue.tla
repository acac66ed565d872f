----------------------------- MODULE RecordQueue -----------------------------
(***************************************************************************)
(* The hand-off from the event loop to the writer thread                   *)
(* (collector/record_queue.py).  Each operation holds the condition's lock *)
(* from its first line to its last, so it is one step.                     *)
(*                                                                         *)
(* Durable records are kept in a sequence.  Live state is kept per cell, a *)
(* node and a column: LIVE_NODE rows merge column by column, and the       *)
(* snapshot of LIVE_PROCESSES is one more column, replaced as a whole.  A  *)
(* cell holds the number of the put that last set it, 0 if none did.       *)
(***************************************************************************)
EXTENDS Naturals, Sequences

CONSTANTS Node, Column

VARIABLES durable, live, closed

queueVars == <<durable, live, closed>>

Cell == Node \X Column

Cells == [Cell -> Nat]

Blank == [c \in Cell |-> 0]

\* One node's row with the given columns, written by put number v.
LiveRow(node, columns, v) ==
    [c \in Cell |-> IF c[1] = node /\ c[2] \in columns THEN v ELSE 0]

\* Later values win; a missing one means "unchanged".
Overlay(old, new) == [c \in Cell |-> IF new[c] # 0 THEN new[c] ELSE old[c]]

QueueTypeOK == durable \in Seq(Nat) /\ live \in Cells /\ closed \in BOOLEAN

QueueInit == durable = <<>> /\ live = Blank /\ closed = FALSE

\* put() of an open queue: its durable records and its live row.
Put(records, row) ==
    /\ ~closed
    /\ durable' = durable \o records
    /\ live' = Overlay(live, row)
    /\ UNCHANGED closed

\* _has_records(), and any(depth().values())
HasRecords == durable # <<>> \/ live # Blank

\* Mutant: the durable list is handed over and kept.
TakeKeeps == live' = Blank /\ UNCHANGED <<durable, closed>>

\* take(): everything that waits, possibly nothing once the timeout is over.
Take == durable' = <<>> /\ live' = Blank /\ UNCHANGED closed

\* Mutant: the flag is forgotten.
CloseForgets == UNCHANGED <<durable, live, closed>>

Close == closed' = TRUE /\ UNCHANGED <<durable, live>>
=============================================================================
