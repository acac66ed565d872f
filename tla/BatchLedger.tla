----------------------------- MODULE BatchLedger -----------------------------
(***************************************************************************)
(* What BufferedWriter and its spool promise the collector, without        *)
(* outages, files, retries or budgets: every batch handed over moves       *)
(* through the ledger below and none leaves it unaccounted for.            *)
(*                                                                         *)
(*   new -> taken -> stored -> written                                     *)
(*                                                                         *)
(* A batch may also end up quarantined (and be moved back by the           *)
(* operator), superseded (live state only), or accounted for: given up     *)
(* with an event that reports it, or lost with the process.                *)
(***************************************************************************)
EXTENDS Naturals

CONSTANTS Batch,     \* in the order in which they are handed over
          LiveOnly

VARIABLES status,
          excused    \* stored batches that need not be written in their turn

ledgerVars == <<status, excused>>

Status == {"new", "taken", "stored", "written", "quarantined", "superseded", "accounted"}

LedgerTypeOK == status \in [Batch -> Status] /\ excused \subseteq Batch

LedgerInit == status = [b \in Batch |-> "new"] /\ excused = {}

Become(b, s) == status' = [status EXCEPT ![b] = s]

\* Batches are handed over in order, one at a time.
Take(b) ==
    /\ status[b] = "new"
    /\ \A a \in Batch : a < b => status[a] \notin {"new", "taken"}
    /\ Become(b, "taken") /\ UNCHANGED excused

Keep(b) == status[b] = "taken" /\ Become(b, "stored") /\ UNCHANGED excused

\* No batch overtakes one that is still stored.
Commit(b) ==
    /\ status[b] \in {"taken", "stored"}
    /\ \A a \in Batch : a < b /\ status[a] = "stored" => a \in excused
    /\ Become(b, "written") /\ UNCHANGED excused

Reject(b) ==
    /\ status[b] \in {"taken", "stored"}
    /\ Become(b, "quarantined") /\ UNCHANGED excused

\* Live state is dropped for newer live state, and nothing else is.
Supersede(b) ==
    /\ status[b] = "stored" /\ b \in LiveOnly
    /\ \E c \in LiveOnly : b < c /\ status[c] # "new"
    /\ Become(b, "superseded") /\ UNCHANGED excused

GiveUp(b) ==
    /\ status[b] \in {"taken", "stored"}
    /\ Become(b, "accounted") /\ UNCHANGED excused

\* The file system keeps a file that should have gone.
Excuse(b) == excused' = excused \cup {b} /\ UNCHANGED status

\* The operator moves a quarantined batch back.
Retry(b) ==
    /\ status[b] = "quarantined"
    /\ Become(b, "stored") /\ excused' = excused \cup {b}

LedgerNext ==
    \E b \in Batch :
        \/ Take(b) \/ Keep(b) \/ Commit(b) \/ Reject(b) \/ Supersede(b) \/ GiveUp(b)
        \/ Excuse(b) \/ Retry(b)

LedgerSpec == LedgerInit /\ [][LedgerNext]_ledgerVars
=============================================================================
