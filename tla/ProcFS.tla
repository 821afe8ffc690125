------------------------------- MODULE ProcFS -------------------------------
(***************************************************************************)
(* The processes of the machine as /proc shows them to procsec: the        *)
(* environment of every module that scans /proc.  Nothing here is code of  *)
(* the repository; it is what src/proc and src/monitor rely on.            *)
(*                                                                         *)
(* A field's values are numbers and 0 is the Go zero value that a reader   *)
(* keeps when a read fails: uid 0 (root), exe "" , netns 0, CapEff 0.      *)
(***************************************************************************)
EXTENDS Naturals, FiniteSets

CONSTANTS
    Pids,             \* the PIDs the kernel hands out, each of them reusable
    Vals,             \* for every field, the values a live process can have
    InspectableUids,  \* owners whose exe and ns links procsec may resolve
    MaxBirths         \* bound: process creations in a behaviour

\* Fields of proc.Process that Watcher compares: one read of status, one of exe.
CheapFields == {"uid", "gid", "exe"}
\* Fields of StatusExtra that Watcher compares.
StatusFields == {"cap_eff", "seccomp", "no_new_privs"}
Fields == CheapFields \cup StatusFields \cup {"netns"}

Values == [Fields -> Nat]

ASSUME ValsAssumption ==
    /\ Vals \in [Fields -> SUBSET Nat]
    /\ 0 \notin Vals["exe"] /\ 0 \notin Vals["netns"]
ASSUME BirthsAssumption == MaxBirths \in Nat

\* What a fresh user process, and a fresh kernel thread, may look like.
Contexts == {v \in [Fields -> {0} \cup UNION {Vals[f] : f \in Fields}] :
                \A f \in Fields \ {"exe"} : v[f] \in Vals[f]}
UserContexts == {v \in Contexts : v["exe"] \in Vals["exe"]}
KernelContexts == {v \in Contexts : v["exe"] = 0 /\ v["uid"] = 0}

VARIABLES
    procs,   \* the running processes, by PID; a process is [gen, kthread, val]
    births   \* how many processes were created so far

fsVars == <<procs, births>>

\* gen numbers the incarnations of all PIDs; no reader sees it.
Process == [gen : Nat, kthread : BOOLEAN, val : Values]

(***************************************************************************)
(* Partial functions as Go maps: insert or overwrite, and delete.          *)
(***************************************************************************)
Put(f, k, v) == [x \in DOMAIN f \cup {k} |-> IF x = k THEN v ELSE f[x]]
Drop(f, k) == [x \in DOMAIN f \ {k} |-> f[x]]

Running(pid) == pid \in DOMAIN procs

\* A zombie keeps its status file but has lost its exe and namespaces.
Zombie(p) == ~p.kthread /\ p.val["exe"] = 0

\* ptrace access, which readlink of exe and of ns/* needs.
Inspectable(p) == p.val["uid"] \in InspectableUids /\ ~Zombie(p)

FSTypeOK ==
    /\ DOMAIN procs \subseteq Pids
    /\ procs \in [DOMAIN procs -> Process]
    /\ births \in Nat

FSInit ==
    /\ procs = [pid \in {} |-> 0]
    /\ births = 0

-----------------------------------------------------------------------------
(* What the machine may do between any two steps of a reader. *)

\* fork, or a kernel thread being created; the PID may have been used before.
Birth(pid) ==
    /\ ~Running(pid)
    /\ births < MaxBirths
    /\ \E k \in BOOLEAN :
          \E v \in IF k THEN KernelContexts ELSE UserContexts :
             procs' = Put(procs, pid, [gen |-> births + 1, kthread |-> k, val |-> v])
    /\ births' = births + 1

\* setuid, setgid, execve, capset, seccomp, prctl, setns: one field changes.
Change(pid, f) ==
    /\ Running(pid)
    /\ ~procs[pid].kthread
    /\ ~Zombie(procs[pid])
    /\ \E v \in Vals[f] \ {procs[pid].val[f]} :
          procs' = [procs EXCEPT ![pid].val[f] = v]
    /\ UNCHANGED births

\* exit without being reaped yet.
BecomeZombie(pid) ==
    /\ Running(pid)
    /\ ~procs[pid].kthread
    /\ ~Zombie(procs[pid])
    /\ procs' = [procs EXCEPT ![pid].val["exe"] = 0]
    /\ UNCHANGED births

\* The PID leaves /proc and can be handed out again.
Reap(pid) ==
    /\ Running(pid)
    /\ procs' = Drop(procs, pid)
    /\ UNCHANGED births

FSNext ==
    \E pid \in Pids :
        \/ Birth(pid)
        \/ \E f \in Fields : Change(pid, f)
        \/ BecomeZombie(pid)
        \/ Reap(pid)
=============================================================================
