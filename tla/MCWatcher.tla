----------------------------- MODULE MCWatcher -----------------------------
(* Values for TLC's runs of Watcher. *)
EXTENDS Watcher

CONSTANT Bystander  \* bound: a PID whose processes only start and exit

\* A user process as the filters of the runs admit it.
Plain == [f \in Fields |-> IF f \in {"exe", "netns", "gid"} THEN 1 ELSE 0]

\* Every field of every process as of a plain one, but for those that a run varies.
Flat == [f \in Fields |-> {Plain[f]}]

MCCapVals == [Flat EXCEPT !["uid"] = {1}, !["cap_eff"] = {1, 2}]
MCUidVals == [Flat EXCEPT !["uid"] = {0, 1}]
MCNetnsVals == [MCUidVals EXCEPT !["netns"] = {1, 2}]

\* Bound: a process differs from a plain one in its owner, in its namespace or by
\* having no executable, in one of them at a time; a bystander is a plain one.
MCUsual(pid) ==
    IF pid = Bystander
    THEN ~procs[pid].kthread /\ procs[pid].val = Plain
    ELSE Cardinality({f \in Fields : procs[pid].val[f] # Plain[f]}) <= 1

MCMachine == \A pid \in DOMAIN procs : MCUsual(pid)

\* Bound: the client goes on receiving; WatcherLive has one that closes stop.
MCNext == (Machine /\ MCMachine') \/ Tick \/ PollStep \/ Receive

MCSpec == Init /\ [][MCNext]_vars
=============================================================================
