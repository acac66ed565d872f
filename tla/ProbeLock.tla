----------------------------- MODULE ProbeLock -----------------------------
(***************************************************************************)
(* ProbeLock (probe/probe.py): one probe per user and node, by a flock on  *)
(* a file that holds the holder's pid.  A new probe takes the lock over    *)
(* from the one an earlier session has left behind: SIGTERM, a wait,       *)
(* SIGKILL, a wait.                                                        *)
(*                                                                         *)
(* A probe keeps the flock until it is gone.  A pid is not used again      *)
(* while the file or a contender names it.                                 *)
(***************************************************************************)
EXTENDS Naturals

CONSTANTS Probe,  \* pids
          None

ASSUME ProbeAssumption == None \notin Probe

VARIABLES flock,     \* the probe that has it
          lockfile,  \* the pid in the file
          probe      \* pid -> what the probe is doing

lockVars == <<flock, lockfile, probe>>

Unborn == [pc |-> "none", victim |-> None, termed |-> FALSE, stuck |-> FALSE]

LockInit ==
    /\ flock = None /\ lockfile = None
    /\ probe = [p \in Probe |-> Unborn]

Alive(p) == probe[p].pc # "none"
Waiting(p) == probe[p].pc \in {"waitterm", "waitkill"}
Unused(p) == ~Alive(p) /\ lockfile # p /\ \A q \in Probe : probe[q].victim # p

\* _try_lock: the first attempt, and every poll of a wait.
TryLock(p) ==
    /\ probe[p].pc = "try" \/ Waiting(p)
    /\ flock = None
    /\ flock' = p
    /\ probe' = [probe EXCEPT ![p].pc = "locked"]
    /\ UNCHANGED lockfile

NameSelf(p) ==  \* Mutant: the file is written before the lock is had
    /\ probe[p].pc = "try" /\ flock # None
    /\ probe' = [probe EXCEPT ![p].pc = "read"]
    /\ lockfile' = p
    /\ UNCHANGED flock

TryFails(p) ==
    /\ probe[p].pc = "try" /\ flock # None
    /\ probe' = [probe EXCEPT ![p].pc = "read"]
    /\ UNCHANGED <<flock, lockfile>>

\* The pid is read after the attempt; without one there are more attempts,
\* until LOCK_PID_WAIT_SEC have passed.
ReadPid(p) ==
    /\ probe[p].pc = "read"
    /\ probe' = IF lockfile # None
                THEN [probe EXCEPT ![p].pc = "term", ![p].victim = lockfile]
                ELSE [probe EXCEPT ![p].pc = "try"]
    /\ UNCHANGED <<flock, lockfile>>

NoPid(p) ==
    /\ probe[p].pc = "read" /\ lockfile = None
    /\ probe' = [probe EXCEPT ![p] = Unborn]
    /\ UNCHANGED <<flock, lockfile>>

\* ftruncate and write, under the flock.
Truncate(p) ==
    /\ probe[p].pc = "locked" /\ lockfile # None
    /\ lockfile' = None
    /\ UNCHANGED <<flock, probe>>

WritePid(p) ==
    /\ probe[p].pc = "locked" /\ lockfile \in {None, p}
    /\ lockfile' = p
    /\ probe' = [probe EXCEPT ![p].pc = "hello", ![p].victim = None]
    /\ UNCHANGED flock

\* _signal_probe, SIGTERM: the victim notes it.  A pid that has no process any
\* more is not signalled.
Terminate(p) ==
    LET v == probe[p].victim
    IN  /\ probe[p].pc = "term"
        /\ probe' = [probe EXCEPT ![p].pc = "waitterm", ![v].termed = Alive(v)]
        /\ UNCHANGED <<flock, lockfile>>

\* SIGKILL: the victim is gone, and its flock with it, unless the kernel has
\* it in an uninterruptible wait; then it goes when that ends.
Killed(p, v) == [probe EXCEPT ![p].pc = "waitkill",
                              ![v] = IF Alive(v) /\ probe[v].stuck THEN [@ EXCEPT !.termed = TRUE]
                                     ELSE Unborn]
Kill(p) ==
    LET v == probe[p].victim
    IN  /\ probe[p].pc = "kill"
        /\ probe' = Killed(p, v)
        /\ flock' = IF flock = v /\ ~probe[v].stuck THEN None ELSE flock
        /\ UNCHANGED lockfile

\* LOCK_TAKEOVER_WAIT_SEC pass: on to the next signal, or give up (exit 3).
WaitOver(p) ==
    /\ Waiting(p) /\ flock # None
    /\ probe' = [probe EXCEPT ![p] = IF @.pc = "waitterm" THEN [@ EXCEPT !.pc = "kill"] ELSE Unborn]
    /\ UNCHANGED <<flock, lockfile>>

GiveUp(p) ==  \* Mutant: a lock that is held is not taken over
    \/ TryLock(p) \/ Truncate(p) \/ WritePid(p)
    \/ /\ probe[p].pc = "try" /\ flock # None
       /\ probe' = [probe EXCEPT ![p] = Unborn]
       /\ UNCHANGED <<flock, lockfile>>

Acquire(p) ==
    TryLock(p) \/ TryFails(p) \/ ReadPid(p) \/ Truncate(p) \/ WritePid(p)
    \/ Terminate(p) \/ Kill(p) \/ WaitOver(p)

\* The process ends, for whatever reason, and the kernel drops its flock.
Exit(p) ==
    /\ flock' = IF flock = p THEN None ELSE flock
    /\ probe' = [probe EXCEPT ![p] = Unborn]
    /\ UNCHANGED lockfile

\* Only the holder is ever signalled: whatever a contender has read, a victim
\* that still lives is the one that has the flock.
OnlyHolderSignalled ==
    /\ flock \in Probe \cup {None} /\ lockfile \in Probe \cup {None}
    /\ \A p \in Probe : probe[p].pc \in {"term", "kill"} =>
          LET v == probe[p].victim IN Alive(v) => flock = v
=============================================================================
