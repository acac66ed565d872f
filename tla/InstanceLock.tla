---------------------------- MODULE InstanceLock ----------------------------
(***************************************************************************)
(* The single-instance guard of the collector (collector/instance.py) and  *)
(* the `daemon start | stop | status` commands that consult it             *)
(* (cli/main.py).  state/daemon.lock is only ever created and flocked; the *)
(* kernel frees a lock when its holder closes it or dies.  daemon.json     *)
(* names the daemon that wrote it.  Every system call is one step.         *)
(*                                                                         *)
(* A daemon is one process of `daemon start --foreground`; a command is an *)
(* operator's process, which first calls running_info() and then, unless a *)
(* daemon was found, clear_stale().                                        *)
(***************************************************************************)
CONSTANTS Daemon, Command, None,
          LockFileExists   \* whether daemon.lock was left by an earlier run

ASSUME LockAssumption ==
    /\ Daemon \cap Command = {}
    /\ None \notin Daemon \cup Command
    /\ LockFileExists \in BOOLEAN

VARIABLES
    exists,   \* daemon.lock is there
    holder,   \* of its flock
    info,     \* the daemon that daemon.json names
    daemon,   \* each daemon's "new", "opened", "locked", "running", "returned",
              \* "unlinked", "gone"
    cpc,      \* each command's "idle", "probe", "try", "drop", "read", "found",
              \* "stale", "stalelock", "removing", "removed", "waiting", "reported"
    target    \* what running_info() returned

lockVars == <<exists, holder, info, daemon, cpc, target>>

Held == {"locked", "running", "returned", "unlinked"}

LockTypeOK ==
    /\ exists \in BOOLEAN
    /\ holder \in Daemon \cup Command \cup {None}
    /\ info \in Daemon \cup {None}
    /\ daemon \in [Daemon -> Held \cup {"new", "opened", "gone"}]
    /\ cpc \in [Command -> {"idle", "probe", "try", "drop", "read", "found", "stale",
                            "stalelock", "removing", "removed", "waiting", "reported"}]
    /\ target \in [Command -> Daemon \cup {None}]

LockInit ==
    /\ exists = LockFileExists /\ holder = None /\ info = None
    /\ daemon = [d \in Daemon |-> "new"]
    /\ cpc = [c \in Command |-> "idle"]
    /\ target = [c \in Command |-> None]
-----------------------------------------------------------------------------
\* A step of daemon d, and one of command c.
Moves(d, from, to) ==
    /\ daemon[d] = from
    /\ daemon' = [daemon EXCEPT ![d] = to]
    /\ UNCHANGED <<cpc, target>>

Does(c, from, to) ==
    /\ cpc[c] = from
    /\ cpc' = [cpc EXCEPT ![c] = to]
    /\ UNCHANGED daemon

\* InstanceLock.acquire(): open, flock, then daemon.json.
Open(d) == Moves(d, "new", "opened") /\ exists' = TRUE /\ UNCHANGED <<holder, info>>

\* Mutant: a lock that is taken is not noticed.
FlockAnyway(d) ==
    /\ Moves(d, "opened", "locked")
    /\ holder' = d
    /\ UNCHANGED <<exists, info>>

Flock(d) ==
    /\ holder = None
    /\ Moves(d, "opened", "locked")
    /\ holder' = d
    /\ UNCHANGED <<exists, info>>

AlreadyRunning(d) ==
    /\ holder # None
    /\ Moves(d, "opened", "gone")
    /\ UNCHANGED <<exists, holder, info>>

WriteInfo(d) == Moves(d, "locked", "running") /\ info' = d /\ UNCHANGED <<exists, holder>>

\* Daemon.run() returns or raises.
Return(d) == Moves(d, "running", "returned") /\ UNCHANGED <<exists, holder, info>>

\* InstanceLock.release()
UnlinkInfo(d) ==
    Moves(d, "returned", "unlinked") /\ info' = None /\ UNCHANGED <<exists, holder>>

Unlock(d) == Moves(d, "unlinked", "gone") /\ holder' = None /\ UNCHANGED <<exists, info>>

\* The process dies; the kernel frees the lock, daemon.json stays.
Crash(d) ==
    /\ daemon[d] \in Held
    /\ Moves(d, daemon[d], "gone")
    /\ holder' = None
    /\ UNCHANGED <<exists, info>>
-----------------------------------------------------------------------------
Begin(c) ==
    /\ Does(c, "idle", "probe")
    /\ target' = [target EXCEPT ![c] = None]
    /\ UNCHANGED <<exists, holder, info>>

\* lock_held(): _probe() without on_free.  A missing file means nobody holds it.
ProbeOpen(c) ==
    /\ Does(c, "probe", IF exists THEN "try" ELSE "stale")
    /\ UNCHANGED <<exists, holder, info, target>>

ProbeLock(c) ==
    /\ Does(c, "try", IF holder = None THEN "drop" ELSE "read")
    /\ holder' = IF holder = None THEN c ELSE holder
    /\ UNCHANGED <<exists, info, target>>

ProbeDrop(c) ==
    Does(c, "drop", "stale") /\ holder' = None /\ UNCHANGED <<exists, info, target>>

\* read_info() after lock_held()
ReadInfo(c) ==
    /\ Does(c, "read", IF info = None THEN "stale" ELSE "found")
    /\ target' = [target EXCEPT ![c] = info]
    /\ UNCHANGED <<exists, holder, info>>

\* clear_stale(): _probe() with on_free, which also runs when the file is missing.
StaleOpen(c) ==
    /\ Does(c, "stale", IF exists THEN "stalelock" ELSE "removing")
    /\ UNCHANGED <<exists, holder, info, target>>

\* Mutant: daemon.json is removed whoever holds the lock.
StaleLockSkipped(c) ==
    /\ Does(c, "stalelock", "removing")
    /\ UNCHANGED <<exists, holder, info, target>>

StaleLock(c) ==
    /\ Does(c, "stalelock", IF holder = None THEN "removing" ELSE "idle")
    /\ holder' = IF holder = None THEN c ELSE holder
    /\ UNCHANGED <<exists, info, target>>

RemoveInfo(c) ==
    Does(c, "removing", "removed") /\ info' = None /\ UNCHANGED <<exists, holder, target>>

\* os.close(fd), if there was one
StaleDrop(c) ==
    /\ Does(c, "removed", "idle")
    /\ holder' = IF holder = c THEN None ELSE holder
    /\ UNCHANGED <<exists, info, target>>

\* `status` shows the daemon it found, `start` refuses.
Report(c) == Does(c, "found", "idle") /\ UNCHANGED <<exists, holder, info, target>>

\* `stop` sends SIGTERM; ProcessLookupError ends it.
Signal(c) ==
    /\ Does(c, "found", IF daemon[target[c]] = "gone" THEN "idle" ELSE "waiting")
    /\ UNCHANGED <<exists, holder, info, target>>

\* Mutant: `stop` takes the first answer for the last.
StoppedUnheard(c) ==
    Does(c, "waiting", "reported") /\ UNCHANGED <<exists, holder, info, target>>

\* `stop` polls until lock_held() is false, or gives up.
Stopped(c) ==
    /\ holder = None
    /\ Does(c, "waiting", "reported")
    /\ holder' = c
    /\ UNCHANGED <<exists, info, target>>

StillRunning(c) ==
    Does(c, "waiting", "idle") /\ UNCHANGED <<exists, holder, info, target>>

StoppedDrop(c) ==
    Does(c, "reported", "idle") /\ holder' = None /\ UNCHANGED <<exists, info, target>>
-----------------------------------------------------------------------------
DaemonStep(d) ==
    \/ Open(d) \/ Flock(d) \/ AlreadyRunning(d) \/ WriteInfo(d) \/ Return(d)
    \/ UnlinkInfo(d) \/ Unlock(d) \/ Crash(d)

CommandStep(c) ==
    \/ Begin(c) \/ ProbeOpen(c) \/ ProbeLock(c) \/ ProbeDrop(c) \/ ReadInfo(c)
    \/ StaleOpen(c) \/ StaleLock(c) \/ RemoveInfo(c) \/ StaleDrop(c)
    \/ Report(c) \/ Signal(c) \/ Stopped(c) \/ StillRunning(c) \/ StoppedDrop(c)

LockNext == (\E d \in Daemon : DaemonStep(d)) \/ (\E c \in Command : CommandStep(c))

LockSpec == LockInit /\ [][LockNext]_lockVars
-----------------------------------------------------------------------------
\* At most one daemon is past acquire() and not past release(), whatever crashes
\* and whichever commands hold the lock for a moment to see if it is free.
SingleDaemon == \A d, e \in Daemon : daemon[d] \in Held /\ daemon[e] \in Held => d = e

\* `stop` says "daemon stopped" of a daemon that has given up its lock for good.
StoppedIsGone == \A c \in Command : cpc[c] = "reported" => daemon[target[c]] = "gone"

\* clear_stale: "Done while holding the lock so a daemon starting right now is not
\* clobbered" (instance.py): a running daemon's daemon.json stays.
NotClobbered == \A d \in Daemon : daemon[d] = "running" => info = d
-----------------------------------------------------------------------------
\* The inductive invariant: who holds the lock in which of its steps, and, once
\* daemon.lock exists, that daemon.json is only removed by who holds the lock.
LockInv ==
    /\ LockTypeOK
    /\ \A d \in Daemon : daemon[d] \in Held => holder = d
    /\ \A c \in Command : cpc[c] \in {"drop", "reported"} => holder = c
    /\ \A c \in Command : cpc[c] \in {"found", "waiting", "reported"} =>
         target[c] \in Daemon /\ daemon[target[c]] \in Held \cup {"gone"}
    /\ info # None => daemon[info] \in Held \cup {"gone"}
    /\ LockFileExists =>
         /\ exists
         /\ \A c \in Command : cpc[c] \in {"removing", "removed"} => holder = c
         /\ NotClobbered
=============================================================================
