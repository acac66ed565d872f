--------------------------- MODULE MCNodePipeline ---------------------------
(***************************************************************************)
(* A small instance of NodePipeline: a user with a terminal and a job on a *)
(* gpu, two owners without a name, a daemon, and a database of a user that *)
(* is classified as a system process.                                      *)
(***************************************************************************)
EXTENDS NodePipeline

Proc(uid, username, sshd, cat, cpu_state, idle, gpu) ==
    [uid |-> uid, username |-> username, sshd |-> sshd, category |-> cat,
     cpu_state |-> cpu_state, idle |-> idle, gpu |-> gpu]

MCRaw == << Proc(1000, "ann", "pts", "shell", "idle", "5m-1h", -1),
            Proc(1000, "ann", "no", "python", "active", "<5m", 2),
            Proc(1001, "", "notty", "shell", "idle", "<5m", -1),
            Proc(1002, "", "no", "python", "unknown", "unknown", 1),
            Proc(1001, "", "no", "system", "idle", ">1d", -1),
            Proc(0, "root", "no", "other", "active", "<5m", -1) >>

MCCensuses == {[processes |-> {1, 2, 6}, gpu_status |-> "ok"],
               [processes |-> {2, 3, 4, 5}, gpu_status |-> "failed"]}

\* One family may be missing, the other is reset.
MCReadings == {[net |-> 1, cpu |-> 1], [cpu |-> 0]}
=============================================================================
