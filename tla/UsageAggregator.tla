-------------------------- MODULE UsageAggregator ---------------------------
(***************************************************************************)
(* UsageAggregator (pipeline/usage.py) and the enrichment of the rows it   *)
(* is given (pipeline/enrich.py): the processes of the censuses of an      *)
(* interval, summed up for each user and for the node.                     *)
(*                                                                         *)
(* A census is a set of processes; Raw gives the row the probe sends for   *)
(* each, with the bucket of its idle time instead of the time.  A breakdown *)
(* counts its keys.  Cpu seconds, memory, threads and the counts by state  *)
(* and by activity are summed like the counts that are here, and left out. *)
(***************************************************************************)
EXTENDS Integers, FiniteSets, FiniteSetsExt

CONSTANTS Raw,          \* process -> the row the probe sends for it
          Censuses,     \* the censuses: the processes they find, and their gpu_status
          MinUserUid, IntervalLen

ASSUME UsageAssumption == IntervalLen \in Nat \ {0}

VARIABLE interval   \* <<>>, or <<the open _Interval>>
-----------------------------------------------------------------------------
(***************************************************************************)
(* enrich.py                                                               *)
(***************************************************************************)
\* An empty username is one the probe could not look up.
user_key(p) == IF Raw[p].username # "" THEN <<"name", Raw[p].username>> ELSE <<"uid", Raw[p].uid>>

\* What a user's sshd sessions in a census say of their presence.
owner_presence(procs, user) ==
    LET ttys == {Raw[p].sshd : p \in {q \in procs : user_key(q) = user}}
    IN  IF "pts" \in ttys THEN "interactive" ELSE IF "notty" \in ttys THEN "connected" ELSE "absent"

category(p) == IF Raw[p].uid < MinUserUid THEN "system" ELSE Raw[p].category
dormancy(p, procs) == <<Raw[p].cpu_state, Raw[p].idle, owner_presence(procs, user_key(p))>>

is_user_process(p) == Raw[p].uid >= MinUserUid /\ category(p) # "system"
-----------------------------------------------------------------------------
(***************************************************************************)
(* _CensusTally and _Tally                                                 *)
(***************************************************************************)
Count(S, key) == [k \in {key[p] : p \in S} |-> Cardinality({p \in S : key[p] = k})]

Cell(table, k) == IF k \in DOMAIN table THEN table[k] ELSE 0
merge(into, other) == [k \in DOMAIN into \cup DOMAIN other |-> Cell(into, k) + Cell(other, k)]

\* gpu_mem_mb, of a census whose query succeeded; the probe sends -1 for None.
GpuMem(S, measured) ==
    IF measured THEN MapThenSumSet(LAMBDA p : Raw[p].gpu, {p \in S : Raw[p].gpu >= 0}) ELSE 0

CensusTally(S, procs, measured) ==
    [n |-> Cardinality(S), n_max |-> Cardinality(S),
     unmeasured |-> Cardinality({p \in S : Raw[p].cpu_state = "unknown"}),
     gpu |-> GpuMem(S, measured), gpu_max |-> GpuMem(S, measured),
     by_category |-> Count(S, [p \in S |-> category(p)]),
     by_dormancy |-> Count(S, [p \in S |-> dormancy(p, procs)]),
     cat_dorm |-> Count(S, [p \in S |-> <<category(p), dormancy(p, procs)>>])]

NoTally == [n |-> 0, n_max |-> 0, unmeasured |-> 0, gpu |-> 0, gpu_max |-> 0,
            by_category |-> <<>>, by_dormancy |-> <<>>, cat_dorm |-> <<>>]

fold(t, c) ==
    [n |-> t.n + c.n, n_max |-> Max({t.n_max, c.n}),
     unmeasured |-> t.unmeasured + c.unmeasured,
     gpu |-> t.gpu + c.gpu, gpu_max |-> Max({t.gpu_max, c.gpu}),
     by_category |-> merge(t.by_category, c.by_category),
     by_dormancy |-> merge(t.by_dormancy, c.by_dormancy),
     cat_dorm |-> merge(t.cat_dorm, c.cat_dorm)]
-----------------------------------------------------------------------------
(***************************************************************************)
(* _Interval.add, and UsageAggregator.add_census and flush.                *)
(***************************************************************************)
Opened(start) == [start |-> start, samples |-> 0, gpu_samples |-> 0, node |-> NoTally,
                  users |-> <<>>, user_sum |-> 0, user_max |-> 0]

\* The tallies of one census: the node's, and its users'.
TalliesOf(procs, measured) ==
    LET mine == {p \in procs : is_user_process(p)}
        Of(u) == {p \in mine : user_key(p) = u}
    IN [node |-> CensusTally(mine, procs, measured),
        users |-> [u \in {user_key(p) : p \in mine} |-> CensusTally(Of(u), procs, measured)]]

Tallies == [msg \in Censuses |-> TalliesOf(msg.processes, msg.gpu_status = "ok")]

\* Mutant: a user seen again starts anew.
UsersAnew(users, here) ==
    [u \in DOMAIN users \cup DOMAIN here |->
        IF u \notin DOMAIN here THEN users[u] ELSE fold(NoTally, here[u])]

\* Every user of the census is folded in, a new one as well.
Users(users, here) ==
    [u \in DOMAIN users \cup DOMAIN here |->
        IF u \notin DOMAIN here THEN users[u]
        ELSE fold(IF u \in DOMAIN users THEN users[u] ELSE NoTally, here[u])]

\* Mutant: a census that did not measure the gpus is not counted.
AddToMeasured(iv, msg) ==
    LET t == Tallies[msg]
        count == Cardinality(DOMAIN t.users)
        measured == IF msg.gpu_status = "ok" THEN 1 ELSE 0
    IN [iv EXCEPT !.samples = @ + measured, !.gpu_samples = @ + measured,
                  !.node = fold(@, t.node), !.users = Users(@, t.users),
                  !.user_sum = @ + count, !.user_max = Max({@, count})]

AddTo(iv, msg) ==
    LET t == Tallies[msg]
        count == Cardinality(DOMAIN t.users)
    IN [start |-> iv.start,
        samples |-> iv.samples + 1,
        gpu_samples |-> IF msg.gpu_status = "ok" THEN iv.gpu_samples + 1 ELSE iv.gpu_samples,
        node |-> fold(iv.node, t.node),
        users |-> Users(iv.users, t.users),
        user_sum |-> iv.user_sum + count,
        user_max |-> Max({iv.user_max, count})]

Ends(start) == interval # <<>> /\ start > interval[1].start

AddProcesses(msg, start) ==
    LET iv == IF interval = <<>> \/ Ends(start) THEN Opened(start) ELSE interval[1]
    IN interval' = <<AddTo(iv, msg)>>
-----------------------------------------------------------------------------
(***************************************************************************)
(* What is said of an interval, open or flushed.                           *)
(***************************************************************************)
Derived(t, i) == LET K == DOMAIN t.cat_dorm
                 IN [k \in {x[i] : x \in K} |->
                        MapThenSumSet(LAMBDA x : t.cat_dorm[x], {x \in K : x[i] = k})]

SumOver(users, Of(_)) == FoldSet(LAMBDA u, table : merge(table, Of(users[u])), <<>>, DOMAIN users)

AddsUp(iv) ==
    /\ iv.node.n = MapThenSumSet(LAMBDA u : iv.users[u].n, DOMAIN iv.users)
    /\ iv.node.gpu = MapThenSumSet(LAMBDA u : iv.users[u].gpu, DOMAIN iv.users)
    /\ iv.node.by_category = SumOver(iv.users, LAMBDA t : Derived(t, 1))
    /\ iv.node.by_dormancy = SumOver(iv.users, LAMBDA t : Derived(t, 2))

AveragesInRange(iv) ==
    /\ iv.user_sum <= iv.user_max * iv.samples
    /\ \A t \in {iv.node} \cup {iv.users[u] : u \in DOMAIN iv.users} :
          /\ t.n <= t.n_max * iv.samples
          /\ t.gpu <= t.gpu_max * iv.gpu_samples
          /\ t.unmeasured <= t.n
=============================================================================
