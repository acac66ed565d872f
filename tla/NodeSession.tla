---------------------------- MODULE NodeSession ----------------------------
(***************************************************************************)
(* NodeSession (collector/session.py): one ssh process group at a time,    *)
(* that runs a probe on the node, until stop().  With the probes' lock     *)
(* (ProbeLock): a connection that is cut leaves its probe running, and the *)
(* probe of the next session takes the lock over.                          *)
(*                                                                         *)
(* Times are compared, not measured: a young session is healthy after      *)
(* healthy_after, a healthy one ends at max_lifetime.  Both are long       *)
(* compared with the takeover of the lock, and so is silence_timeout; a    *)
(* running probe is never silent for that long.  How long a wait between   *)
(* two sessions is, which depends on the failures so far, is left out.     *)
(***************************************************************************)
EXTENDS ProbeLock, Sequences

CONSTANTS MaxFaults     \* bound: connections cut, probes stalled, clients that hang

ASSUME SessionAssumption == MaxFaults \in Nat

VARIABLES pc, outcome,
          bye, healthy,   \* _bye_reason is set; uptime >= healthy_after
          stopped,
          group,          \* the ssh process group: none, alive, closed (stdout only), deaf
                          \* (to SIGTERM), leaving (on SIGTERM), dying (on SIGKILL)
          link,           \* the connection: up, cut
          cur, out,       \* this session's probe; lines on their way
          faults,
          reported, spins \* history: last lifecycle event; spawns without a pause

sessionVars == <<pc, outcome, bye, healthy, stopped, group, link, cur, out, faults,
                 reported, spins>>
vars == <<lockVars, sessionVars>>

Init ==
    /\ LockInit
    /\ pc = "run" /\ outcome = "none"
    /\ bye = FALSE /\ healthy = FALSE
    /\ stopped = FALSE
    /\ group = "none" /\ link = "cut"
    /\ cur = None /\ out = <<>>
    /\ faults = 0
    /\ reported = "none" /\ spins = 0

Streaming == cur # None /\ link = "up" /\ Alive(cur) /\ probe[cur].pc = "run" /\ ~probe[cur].stuck
-----------------------------------------------------------------------------
(***************************************************************************)
(* The node: a probe says hello, then line after line, perhaps bye, until  *)
(* its stdin is closed or it is signalled.  A probe whose connection has   *)
(* been cut does not know.                                                 *)
(***************************************************************************)
Attached(p) == p = cur /\ link = "up"
Say(p, line) == out' = IF Attached(p) THEN Append(out, line) ELSE out
Room(p) == Attached(p) => out = <<>>

Hello(p) ==
    /\ probe[p].pc = "hello" /\ ~probe[p].termed /\ Room(p)
    /\ Say(p, "hello")
    /\ probe' = [probe EXCEPT ![p].pc = "run"]
    /\ UNCHANGED <<flock, lockfile, pc, outcome, bye, healthy, stopped, group, link, cur,
                   faults, reported, spins>>

Sample(p) ==
    /\ probe[p].pc = "run" /\ ~probe[p].stuck /\ Attached(p) /\ Room(p)
    /\ Say(p, "line")
    /\ UNCHANGED <<lockVars, pc, outcome, bye, healthy, stopped, group, link, cur, faults,
                   reported, spins>>

\* rss_limit: a bye, then the end of the probe.
Bye(p) ==
    /\ probe[p].pc = "run" /\ ~probe[p].stuck /\ Room(p)
    /\ Say(p, "bye")
    /\ Exit(p)
    /\ UNCHANGED <<pc, outcome, bye, healthy, stopped, group, link, cur, faults, reported,
                   spins>>

\* It has the lock and learns that it is to go: a signal, or stdin is at EOF.
Leave(p) ==
    /\ probe[p].pc \in {"hello", "run"} /\ ~probe[p].stuck
    /\ probe[p].termed \/ (Attached(p) /\ pc \notin {"stream", "grace"})
    /\ Exit(p)
    /\ UNCHANGED sessionVars

\* sshd has noticed that the connection is gone; nobody knows when it will.
Orphaned(p) ==
    /\ probe[p].pc \in {"hello", "run"} /\ ~probe[p].stuck /\ ~Attached(p)
    /\ Exit(p)
    /\ UNCHANGED sessionVars

Contend(p) == (Acquire(p) \/ NoPid(p)) /\ UNCHANGED sessionVars

(***************************************************************************)
(* Faults, at most MaxFaults, and their ends.                              *)
(***************************************************************************)
Fault == faults < MaxFaults /\ faults' = faults + 1

Cut ==
    /\ Fault /\ link = "up" /\ link' = "cut"
    /\ UNCHANGED <<lockVars, pc, outcome, bye, healthy, stopped, group, cur, out, reported,
                   spins>>

Stall(p) ==
    /\ Fault /\ probe[p].pc = "run"
    /\ probe' = [probe EXCEPT ![p].stuck = TRUE]
    /\ UNCHANGED <<flock, lockfile, pc, outcome, bye, healthy, stopped, group, link, cur,
                   out, reported, spins>>

Resume(p) ==
    /\ probe[p].stuck
    /\ probe' = [probe EXCEPT ![p].stuck = FALSE]
    /\ UNCHANGED <<flock, lockfile, sessionVars>>

\* ssh, or something it started, no longer heeds SIGTERM.
Hang ==
    /\ Fault /\ group = "alive" /\ group' = "deaf"
    /\ UNCHANGED <<lockVars, pc, outcome, bye, healthy, stopped, link, cur, out, reported,
                   spins>>

\* ssh follows the remote command, or notices the cut; its stdout may be closed
\* before it exits.
SshEnds ==
    /\ group \in {"alive", "closed"}
    /\ link = "cut" \/ (cur # None /\ ~Alive(cur))
    /\ group' \in {"closed", "none"} \ {group}
    /\ UNCHANGED <<lockVars, pc, outcome, bye, healthy, stopped, link, cur, out, faults,
                   reported, spins>>

\* The group vanishes after a signal, nobody knows when: a process in
\* uninterruptible sleep stays, even when killed.
GroupExits ==
    /\ group \in {"leaving", "dying"}
    /\ group' = "none" /\ link' = "cut"
    /\ UNCHANGED <<lockVars, pc, outcome, bye, healthy, stopped, cur, out, faults, reported,
                   spins>>
-----------------------------------------------------------------------------
(***************************************************************************)
(* run() and _session().                                                   *)
(***************************************************************************)
Stop ==
    /\ ~stopped /\ stopped' = TRUE
    /\ UNCHANGED <<lockVars, pc, outcome, bye, healthy, group, link, cur, out, faults,
                   reported, spins>>

\* The head of the loop.
Loop ==
    /\ pc = "run"
    /\ pc' = IF stopped THEN "done" ELSE "spawn"
    /\ UNCHANGED <<lockVars, outcome, bye, healthy, stopped, group, link, cur, out, faults,
                   reported, spins>>

\* create_subprocess_exec, then session_started; stop() may have come first.
\* Pids are only compared, so it does not matter which of the unused ones it is.
Spawned(p) ==
    /\ pc = "spawn" /\ Unused(p)
    /\ p = CHOOSE q \in Probe : Unused(q)
    /\ pc' = "stream" /\ outcome' = "none"
    /\ bye' = FALSE
    /\ group' = "alive" /\ link' = "up"
    /\ cur' = p /\ out' = <<>>
    /\ probe' = [probe EXCEPT ![p] = [Unborn EXCEPT !.pc = "try"]]
    /\ reported' = "started" /\ spins' = spins + 1
    /\ UNCHANGED <<flock, lockfile, healthy, stopped, faults>>

SpawnFailed ==
    /\ pc = "spawn" /\ Fault
    /\ pc' = "next" /\ outcome' = "spawn_failed"
    /\ reported' = "lost" /\ spins' = spins + 1
    /\ UNCHANGED <<lockVars, bye, healthy, stopped, group, link, cur, out>>

\* _handle_line, from _stream and, while the probe leaves, from _pump.
Line ==
    /\ pc \in {"stream", "settle"} /\ out # <<>>
    /\ bye' = (bye \/ Head(out) = "bye")
    /\ out' = Tail(out)
    /\ UNCHANGED <<lockVars, pc, outcome, healthy, stopped, group, link, cur, faults,
                   reported, spins>>

Grow ==
    /\ pc = "stream" /\ ~healthy /\ Streaming
    /\ healthy' = TRUE
    /\ UNCHANGED <<lockVars, pc, outcome, bye, stopped, group, link, cur, out, faults,
                   reported, spins>>

\* How _pump ends, and what _stream makes of it.
StreamOutcome(how) == IF bye \/ how = "deadline" THEN "rotate" ELSE how

StreamEnds(how) ==
    /\ outcome' = StreamOutcome(how)
    /\ pc' = CASE outcome' = "rotate" -> "settle"
               [] outcome' = "eof"    -> "grace"
               [] OTHER               -> "term"
    /\ UNCHANGED <<lockVars, bye, healthy, stopped, group, link, cur, out, faults, reported,
                   spins>>

Eof == pc = "stream" /\ out = <<>> /\ group \in {"closed", "none"} /\ StreamEnds("eof")
Silence ==
    /\ pc = "stream" /\ out = <<>>
    /\ link = "cut" \/ ~Alive(cur) \/ probe[cur].stuck
    /\ StreamEnds("silence")
Deadline == pc = "stream" /\ healthy /\ StreamEnds("deadline")

\* stop() cancels _pump, and with it a line that has just been read.
StopLate ==  \* Mutant: a line that arrives swallows the cancellation
    /\ pc = "stream" /\ stopped /\ out = <<>>
    /\ pc' = "settle" /\ outcome' = "stop"
    /\ UNCHANGED <<lockVars, bye, healthy, stopped, group, link, cur, out, faults, reported,
                   spins>>

StreamStopped ==
    /\ pc = "stream" /\ stopped
    /\ pc' = "settle" /\ outcome' = "stop"
    /\ out' \in {out, <<>>}
    /\ UNCHANGED <<lockVars, bye, healthy, stopped, group, link, cur, faults, reported,
                   spins>>

\* stdin is closed and _pump goes on, to EOF or for ROTATE_EOF_WAIT_SEC.
Settled ==
    /\ pc = "settle"
    /\ (out = <<>> /\ group \in {"closed", "none"}) \/ link = "cut" \/ group = "deaf" \/ probe[cur].stuck
    /\ pc' = "term"
    /\ UNCHANGED <<lockVars, outcome, bye, healthy, stopped, group, link, cur, out, faults,
                   reported, spins>>

\* EXIT_GRACE_SEC for the process to exit.
Graced ==
    /\ pc = "grace"
    /\ pc' = "term"
    /\ outcome' = IF group = "none" THEN "exit" ELSE "eof"
    /\ UNCHANGED <<lockVars, bye, healthy, stopped, group, link, cur, out, faults, reported,
                   spins>>

(***************************************************************************)
(* _end_process_group: SIGTERM, TERM_GRACE_SEC for the group to go, then   *)
(* SIGKILL, KILL_WAIT_SEC; what is still there is left behind.             *)
(***************************************************************************)
SigTerm ==
    /\ pc = "term"
    /\ pc' = "termed"
    /\ group' = IF group \in {"alive", "closed"} THEN "leaving" ELSE group
    /\ UNCHANGED <<lockVars, outcome, bye, healthy, stopped, link, cur, out, faults, reported,
                   spins>>

\* The grace is over; the group may have gone just then.
SigKill ==
    /\ pc = "termed"
    /\ pc' = "killed"
    /\ group' = IF group = "none" THEN group ELSE "dying"
    /\ UNCHANGED <<lockVars, outcome, bye, healthy, stopped, link, cur, out, faults, reported,
                   spins>>

WaitedOnce ==  \* Mutant: what the first wait says is ignored and nothing is killed
    pc \in {"termed", "killed"}

\* _group_gone: the group has gone, or the second wait is over.
GroupGone == pc = "killed" \/ (pc = "termed" /\ group = "none")

GroupEnded ==
    /\ GroupGone
    /\ pc' = "report"
    /\ UNCHANGED <<lockVars, outcome, bye, healthy, stopped, group, link, cur, out, faults,
                   reported, spins>>

EndEvent(o) == IF o = "rotate" THEN "rotated" ELSE IF o = "stop" THEN reported ELSE "lost"

Report ==
    /\ pc = "report"
    /\ pc' = "next"
    /\ reported' = EndEvent(outcome)
    /\ spins' = IF healthy \/ (outcome = "rotate" /\ ~bye) THEN 0 ELSE spins
    /\ UNCHANGED <<lockVars, outcome, bye, healthy, stopped, group, link, cur, out, faults>>

\* run() again: at once, or after a wait.
RotateAtOnce(o) == o = "rotate"  \* Mutant
AtOnce(o) == o = "rotate" /\ (~bye \/ healthy)

Resumed ==
    /\ pc = "next"
    /\ pc' = IF stopped THEN "done" ELSE IF AtOnce(outcome) THEN "run" ELSE "wait"
    /\ cur' = None /\ out' = <<>> /\ healthy' = FALSE
    /\ outcome' = IF stopped THEN outcome ELSE "none"
    /\ UNCHANGED <<lockVars, bye, stopped, group, link, faults, reported, spins>>

\* The delay is over, or stop() ends it.
Waited ==
    /\ pc = "wait"
    /\ pc' = "run"
    /\ spins' = 0
    /\ UNCHANGED <<lockVars, outcome, bye, healthy, stopped, group, link, cur, out, faults,
                   reported>>

Own ==
    \/ Loop \/ \E p \in Probe : Spawned(p)
    \/ Line \/ Eof \/ Silence \/ StreamStopped
    \/ Settled \/ Graced \/ SigTerm \/ SigKill \/ GroupEnded \/ Report \/ Resumed \/ Waited

Ended == pc = "done" /\ UNCHANGED vars

Next ==
    \/ Own \/ SpawnFailed \/ Grow \/ Deadline \/ Stop \/ SshEnds \/ GroupExits
    \/ Cut \/ Hang \/ Ended
    \/ \E p \in Probe : Contend(p) \/ Hello(p) \/ Sample(p) \/ Bye(p) \/ Leave(p) \/ Orphaned(p)
                        \/ Stall(p) \/ Resume(p)

Spec == Init /\ [][Next]_vars

\* The event loop and the node's kernel run everything that can run, timers
\* fire and ssh follows its remote command; nothing makes sshd notice a cut.
Fairness ==
    /\ WF_vars(Own) /\ WF_vars(StreamStopped) /\ WF_vars(Settled) /\ WF_vars(SshEnds)
    /\ \A p \in Probe : /\ WF_vars((Acquire(p) /\ UNCHANGED sessionVars) \/ Hello(p))
                        /\ WF_vars(Sample(p))
                        /\ WF_vars(Leave(p) \/ Resume(p))

FairSpec == Spec /\ Fairness
-----------------------------------------------------------------------------
\* Types, and: session_started is followed by one session_lost or
\* session_rotated before the next, unless stop() ended the session; by then its
\* ssh process group is gone, or SIGKILL has been sent to it.  A session whose probe
\* said bye is never reported as lost, however it ended.
SessionsEnd ==
    /\ pc \in {"run", "spawn", "stream", "settle", "grace", "term", "termed", "killed",
              "report", "next", "wait", "done"}
    /\ outcome \in {"none", "spawn_failed", "exit", "eof", "silence", "rotate", "stop"}
    /\ faults \in 0..MaxFaults
    /\ pc \in {"run", "spawn", "next", "wait", "done"} =>
          /\ reported = "started" => stopped /\ outcome = "stop"
          /\ group \in {"none", "dying"}
    /\ pc = "report" /\ bye => outcome \in {"rotate", "stop"}

\* No tight reconnect loop: between two spawns there is a healthy session, a
\* session that ran for max_lifetime, or a wait.
NoTightLoop == spins <= 1

\* Once the faults are over, sessions stream again and again, whatever probes
\* the earlier ones have left on the node, unless the session is stopped.
StreamsAgain == []<>(stopped \/ (Streaming /\ flock = cur))

\* stop() ends run(), also while the probe keeps sending.
StopEnds == stopped ~> pc = "done"
=============================================================================
