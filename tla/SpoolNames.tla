----------------------------- MODULE SpoolNames -----------------------------
(***************************************************************************)
(* The file names of the spool (database/spool.py).  A batch is stored as  *)
(* <stamp>-<seq>.jsonl, the wall clock and a counter of the process; the   *)
(* directory is listed in name order.  Spool and BufferedWriter take that  *)
(* order to be the order in which batches were stored; this module is      *)
(* about when it is.                                                       *)
(*                                                                         *)
(* A file is its name and the number of the write that made it.  The name  *)
(* is reserved with a temporary file that a failed write takes away again, *)
(* so a failed write only uses up a sequence number.                       *)
(***************************************************************************)
EXTENDS Naturals

CONSTANTS MaxTime,    \* bound on the clock
          MaxWrites   \* bound on _write() calls

ASSUME NamesAssumption == MaxTime \in Nat /\ MaxWrites \in Nat

VARIABLES now,        \* the wall clock
          seq,        \* Spool._seq
          writes,     \* how often _write() was called
          directory,  \* the files of the spool
          corrupt     \* the files of its corrupt/ subdirectory

namesVars == <<now, seq, writes, directory, corrupt>>

File == [stamp : Nat, seq : Nat, write : Nat]

NamesTypeOK ==
    /\ now \in Nat /\ seq \in Nat /\ writes \in Nat
    /\ directory \subseteq File
    /\ corrupt \subseteq File

SameName(f, g) == f.stamp = g.stamp /\ f.seq = g.seq

\* Mutant: listed by number alone.
SortsByNumber(f, g) == f.seq < g.seq

\* Names have fixed-width fields, so they sort by stamp, then by number.
SortsBefore(f, g) == f.stamp < g.stamp \/ (f.stamp = g.stamp /\ f.seq < g.seq)

\* os.replace onto a name: what had that name is gone.
PutFile(dir, f) == {g \in dir : ~SameName(f, g)} \cup {f}

NamesInit == now = 0 /\ seq = 0 /\ writes = 0 /\ directory = {} /\ corrupt = {}
-----------------------------------------------------------------------------
NewFile == [stamp |-> now, seq |-> seq + 1, write |-> writes + 1]

\* Mutant: the sequence number is taken but not advanced.
NextNumberStays ==
    /\ writes < MaxWrites
    /\ writes' = writes + 1
    /\ UNCHANGED <<now, seq>>

\* The number every _write() takes, whether it succeeds or not.
NextNumber ==
    /\ writes < MaxWrites
    /\ seq' = seq + 1
    /\ writes' = writes + 1
    /\ UNCHANGED now

\* _write() into the spool, by append().
AppendFile ==
    /\ NextNumber
    /\ directory' \in {directory, PutFile(directory, NewFile)}
    /\ UNCHANGED corrupt

\* _write() into corrupt/, by quarantine_records().
QuarantineRecords ==
    /\ NextNumber
    /\ corrupt' \in {corrupt, PutFile(corrupt, NewFile)}
    /\ UNCHANGED directory

\* remove() after a replay, or _drop() to make room.
Remove(f) ==
    /\ f \in directory
    /\ directory' = directory \ {f}
    /\ UNCHANGED <<now, seq, writes, corrupt>>

\* quarantine(): the file keeps its name.
Quarantine(f) ==
    /\ f \in directory
    /\ directory' = directory \ {f}
    /\ corrupt' = PutFile(corrupt, f)
    /\ UNCHANGED <<now, seq, writes>>

\* The operator moves a file back.
Requeue(f) ==
    /\ f \in corrupt
    /\ corrupt' = corrupt \ {f}
    /\ directory' = PutFile(directory, f)
    /\ UNCHANGED <<now, seq, writes>>

\* A new process: _ensure_directory continues past the files of the spool.
\* Starting takes time.
Restart ==
    /\ now < MaxTime
    /\ now' = now + 1
    /\ seq' \in {0} \cup {f.seq : f \in directory}
    /\ \A f \in directory : f.seq <= seq'
    /\ UNCHANGED <<writes, directory, corrupt>>

ClockTick ==
    /\ now < MaxTime
    /\ now' = now + 1
    /\ UNCHANGED <<seq, writes, directory, corrupt>>

NamesNext ==
    \/ AppendFile \/ QuarantineRecords
    \/ \E f \in directory : Remove(f) \/ Quarantine(f)
    \/ \E f \in corrupt : Requeue(f)
    \/ Restart \/ ClockTick

\* The wall clock only moves forward.
NamesSpec == NamesInit /\ [][NamesNext]_namesVars
-----------------------------------------------------------------------------
\* "Names sort in write order": two batches in the spool are listed in the
\* order in which they were stored, also after restarts and for a batch that
\* comes back from corrupt/.
ListedInWriteOrder ==
    \A f, g \in directory : f.write < g.write => SortsBefore(f, g)

\* "A restart never reuses a name": no write, quarantine or move back replaces
\* a file; files only go when they are removed.
NothingReplaced ==
    [][\A f \in directory \cup corrupt : f \in directory' \cup corrupt' \/ Remove(f)]_namesVars

\* Names grow along with the writes: the inductive invariant.
NamesInv ==
    /\ NamesTypeOK
    /\ \A f \in directory \cup corrupt :
         /\ f.write <= writes
         /\ f.stamp < now \/ (f.stamp = now /\ f.seq <= seq)
    /\ \A f, g \in directory \cup corrupt :
         /\ f.write < g.write => SortsBefore(f, g)
         /\ f.write = g.write => f = g
    /\ directory \cap corrupt = {}
=============================================================================
