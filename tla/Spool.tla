-------------------------------- MODULE Spool --------------------------------
(***************************************************************************)
(* The on-disk store of record batches (database/spool.py).                *)
(*                                                                         *)
(* A batch is named by its position in the order in which batches are      *)
(* handed to the writer.  File names are a time stamp and a sequence       *)
(* number, so the directory lists batches in the order in which they were  *)
(* stored as long as the wall clock does not step back (module SpoolNames  *)
(* models the names); that order is the order of the batch numbers.        *)
(*                                                                         *)
(* Every call may meet a file system that refuses it.  DiskFaults is the   *)
(* set of calls that may be refused: "write" (a new file), "move" (into    *)
(* corrupt/) and "remove" (an unlink).                                     *)
(***************************************************************************)
EXTENDS Naturals, Folds

CONSTANTS MaxBatch,    \* batches 1..MaxBatch are submitted, in this order
          LiveOnly,    \* the batches with nothing but LIVE_KINDS records
          Size,        \* Size[b] is the length of batch b's encoding
          MaxBytes,    \* Spool.max_bytes
          DiskFaults   \* the file-system calls that may fail

Batch == 1..MaxBatch

ASSUME SpoolAssumption ==
    /\ MaxBatch \in Nat
    /\ LiveOnly \subseteq Batch
    /\ Size \in [Batch -> Nat]
    /\ MaxBytes \in Nat
    /\ DiskFaults \subseteq {"write", "move", "remove"}

VARIABLES files,    \* the batches stored in the spool directory
          corrupt,  \* the batches kept in its corrupt/ subdirectory
          stuck     \* unreadable files that could not be moved to corrupt/

spoolVars == <<files, corrupt, stuck>>

SpoolTypeOK ==
    /\ files \subseteq Batch
    /\ corrupt \subseteq Batch
    /\ stuck \subseteq Batch

SpoolInit ==
    /\ files = {}
    /\ corrupt = {}
    /\ stuck = {}

(***************************************************************************)
(* A file-system call succeeds, or fails if DiskFaults allows it.          *)
(***************************************************************************)
Outcome(call) == IF call \in DiskFaults THEN BOOLEAN ELSE {TRUE}

\* size_bytes() of a set of files.
Total(S) == MapThenFoldSet(+, 0, LAMBDA b : Size[b], LAMBDA T : CHOOSE b \in T : TRUE, S)

\* The first of S in the order of the listing.
Oldest(f, S) == f \in S /\ \A g \in S : f <= g

\* Mutant: the oldest batch goes first, whatever it holds.
FirstToEvictAny(f, S) == Oldest(f, S)

\* _make_room visits the live-only batches first, each group oldest first.
FirstToEvict(f, S) ==
    /\ f \in S
    /\ \/ f \in LiveOnly /\ Oldest(f, S \cap LiveOnly)
       \/ S \cap LiveOnly = {} /\ Oldest(f, S)

\* Mutant: the size of the new batch is forgotten.
OverfullNow(n) == Total(files) > MaxBytes

\* A batch of size n still does not fit beside the stored ones.
Overfull(n) == Total(files) + n > MaxBytes

\* remove(): unlink a file; a refusal is only logged.
Remove(f, ok) == files' = IF ok THEN files \ {f} ELSE files

\* quarantine(): move a file to corrupt/.
Quarantine(f, ok) ==
    IF ok THEN files' = files \ {f} /\ corrupt' = corrupt \cup {f}
          ELSE UNCHANGED <<files, corrupt>>

\* quarantine_records(): keep a batch that was never spooled in corrupt/.
QuarantineRecords(b, ok) == corrupt' = IF ok THEN corrupt \cup {b} ELSE corrupt

\* _write(): store a batch under the next name; a temporary file that is
\* fsynced and renamed, so the batch is either whole or absent.
Write(b, ok) == files' = IF ok THEN files \cup {b} ELSE files
=============================================================================
