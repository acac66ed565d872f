-------------------------- MODULE MCDatabaseWriter --------------------------
(***************************************************************************)
(* Batches for TLC.  Node n reboots between times 1 and 2; its label and   *)
(* its live columns carry the time they were set at.                       *)
(***************************************************************************)
EXTENDS DatabaseWriter

Up(n, t, boot) == [kind |-> "live_node", node |-> n, ts |-> t,
                   cols |-> [label |-> t, state |-> t, boot_id |-> boot, load |-> t]]
Down(n, t) == [kind |-> "live_node", node |-> n, ts |-> t, cols |-> [label |-> t, state |-> t]]
Hello(n, t, boot) == [kind |-> "node_hardware", node |-> n, ts |-> t, boot_id |-> boot,
                      cols |-> [boot_id |-> boot]]
Census(n, t, pids) == [kind |-> "live_processes", node |-> n, ts |-> t, processes |-> pids]
Minute(k, t, c) == [kind |-> "summary", key |-> k, ts |-> t, count |-> c]
Event(k, t) == [kind |-> "event", key |-> k, ts |-> t]

CONSTANTS a, b

\* A first batch of node a; what a restarted collector sends of the same
\* minute; two censuses of both nodes, in either order; and a batch that needs
\* two new partitions, with a row that is too old.
SomeBatches == {
    <<Census(a, 1, <<1, 2>>), Up(a, 1, 1), Minute("m", 1, 2), Event("e", 1)>>,
    <<Hello(a, 2, 2), Event("f", 2), Minute("m", 1, 1), Down(a, 2), Census(a, 2, <<2>>), Census(b, 2, <<1>>)>>,
    <<Census(b, 3, <<3>>), Census(a, 1, <<1>>), Census(a, 3, <<3, 3>>)>>,
    <<Up(a, 2, None), Event("f", 2), Minute("n", 2, 1), Minute("old", 0, 1)>>}
=============================================================================
