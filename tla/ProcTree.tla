------------------------------ MODULE ProcTree ------------------------------
(***************************************************************************)
(* `procsec tree` and the ancestry chain of `procsec inspect`: ReadAll     *)
(* reads one process after the other while processes fork, exit and hand   *)
(* their PIDs on, and the tree is built from what was read.                *)
(*                                                                         *)
(* A list of processes is a function from PIDs to records here: BuildTree  *)
(* and SubtreeAt sort what they return, so the order read does not matter. *)
(***************************************************************************)
EXTENDS Naturals, FiniteSets, Sequences, SequencesExt

CONSTANTS
    Pids,        \* the PIDs handed out, but for init's
    Uids,        \* owners
    MaxBirths,   \* bound: forks in a behaviour
    ReadErrors   \* reads may fail though the process runs

InitPid == 1
\* The kernel hands out PIDs below pid_max.
ASSUME PidsAssumption == Pids \subseteq Nat \ {0, InitPid} /\ IsFiniteSet(Pids)
ASSUME UidsAssumption == Uids \subseteq Nat /\ 0 \in Uids
ASSUME TreeBoundsAssumption == MaxBirths \in Nat /\ ReadErrors \in BOOLEAN

VARIABLES
    procs,    \* the running processes: [gen, ppid, uid]
    births,   \* forks so far
    phase,    \* "start", "reading" or "read": where ReadAll is
    todo,     \* PIDs listed and not read yet
    read      \* what ReadAll has read: [gen, ppid, uid, pgen]

treeVars == <<procs, births, phase, todo, read>>

AllPids == Pids \cup {InitPid}

\* gen numbers the incarnations of all PIDs, pgen is the parent's; no reader
\* sees either.  PPID 0 is a parent outside the PID namespace.
Process == [gen : Nat, ppid : AllPids \cup {0}, uid : Uids]
Record == [gen : Nat, ppid : AllPids \cup {0}, uid : Uids, pgen : Nat]

TreeTypeOK ==
    /\ DOMAIN procs \subseteq AllPids /\ procs \in [DOMAIN procs -> Process]
    /\ births \in Nat
    /\ phase \in {"start", "reading", "read"}
    /\ todo \subseteq AllPids
    /\ DOMAIN read \subseteq AllPids /\ read \in [DOMAIN read -> Record]

TreeInit ==
    /\ procs = [pid \in {InitPid} |-> [gen |-> 0, ppid |-> 0, uid |-> 0]]
    /\ births = 0
    /\ phase = "start"
    /\ todo = {}
    /\ read = [pid \in {} |-> 0]

-----------------------------------------------------------------------------
(* The machine. *)

Running(pid) == pid \in DOMAIN procs

\* fork, or a process that enters the PID namespace from outside (PPID 0).
Fork(parent, pid) ==
    /\ Running(parent) \/ parent = 0
    /\ ~Running(pid)
    /\ births < MaxBirths
    /\ \E u \in Uids :
          procs' = [q \in DOMAIN procs \cup {pid} |->
              IF q = pid THEN [gen |-> births + 1, ppid |-> parent, uid |-> u] ELSE procs[q]]
    /\ births' = births + 1

\* exit and reap: the children go to init, or to the parent if it is a subreaper.
Exit(pid) ==
    /\ Running(pid)
    /\ \E reaper \in {InitPid, procs[pid].ppid} \cap DOMAIN procs :
          procs' = [q \in DOMAIN procs \ {pid} |->
              IF procs[q].ppid = pid THEN [procs[q] EXCEPT !.ppid = reaper] ELSE procs[q]]
    /\ UNCHANGED births

Machine ==
    /\ phase # "read"
    /\ \E pid \in Pids : Exit(pid) \/ \E parent \in AllPids \cup {0} : Fork(parent, pid)
    /\ UNCHANGED <<phase, todo, read>>

-----------------------------------------------------------------------------
(* ReadAll. *)

\* Mutant: the names that are no numbers are taken for PID 0.
NumericOrZero == DOMAIN procs \cup {0}

\* The entries of /proc that are numbers.
Numeric == DOMAIN procs

ListPIDs ==
    /\ phase = "start"
    /\ phase' = "reading"
    /\ todo' = Numeric
    /\ UNCHANGED <<procs, births, read>>

ReadProcess(pid) ==
    /\ phase = "reading"
    /\ pid \in todo
    /\ Running(pid)
    /\ read' = [q \in DOMAIN read \cup {pid} |->
          IF q # pid THEN read[q]
          ELSE LET p == procs[pid] IN
               [gen |-> p.gen, ppid |-> p.ppid, uid |-> p.uid,
                pgen |-> IF Running(p.ppid) THEN procs[p.ppid].gen ELSE 0]]
    /\ todo' = todo \ {pid}
    /\ UNCHANGED <<procs, births, phase>>

SkipProcess(pid) ==
    /\ phase = "reading"
    /\ pid \in todo
    /\ ~Running(pid) \/ ReadErrors
    /\ todo' = todo \ {pid}
    /\ UNCHANGED <<procs, births, phase, read>>

EndReadAll ==
    /\ phase = "reading"
    /\ todo = {}
    /\ phase' = "read"
    /\ UNCHANGED <<procs, births, todo, read>>

TreeNext ==
    \/ Machine
    \/ ListPIDs \/ EndReadAll
    \/ \E pid \in AllPids : ReadProcess(pid) \/ SkipProcess(pid)

TreeSpec == TreeInit /\ [][TreeNext]_treeVars

-----------------------------------------------------------------------------
(* tree.go, over what was read. *)

\* Mutant: a process whose parent was not read is no root.
RootsOfInit == {p \in DOMAIN read : read[p].ppid = p \/ read[p].ppid = 0}

\* BuildTree's roots.
Roots == {p \in DOMAIN read : \/ read[p].ppid \notin DOMAIN read
                              \/ read[p].ppid = p
                              \/ read[p].ppid = 0}

\* The children that SubtreeAt attaches; BuildTree's, for the PIDs that occur.
Children(p) == {c \in DOMAIN read \ {p} : read[c].ppid = p}

\* The nodes that the recursion of sortTree and PrintTree meets from `from`.
Beneath(from) ==
    LET down[n \in 0..Cardinality(DOMAIN read)] ==
            IF n = 0 THEN from ELSE down[n - 1] \cup UNION {Children(p) : p \in down[n - 1]}
    IN  down[Cardinality(DOMAIN read)]

Forest == Beneath(Roots)

\* SubtreeAt sorts under every node of the list, whatever node is asked for: its
\* recursion comes to an end if it never meets the node that it is under.
SortEnds == \A p \in DOMAIN read : p \notin Beneath(Children(p))

\* Mutant: the subtree ends with the children.
SubtreeShallow(pid) == [ends |-> SortEnds, nodes |-> {pid} \cup Children(pid)]

\* What SubtreeAt returns, if it does; it overflows the stack otherwise.
SubtreeAt(pid) == [ends |-> SortEnds, nodes |-> IF SortEnds THEN Beneath({pid}) ELSE {}]

\* Mutant: Ancestors goes on without looking at seen.
ClimbAlways(chain, pid, parent) == parent \in DOMAIN read

\* Mutant: the stop at init comes before init is added to the chain.
ClimbBelowInit(chain, pid, parent) ==
    parent \in DOMAIN read \ ({pid, InitPid} \cup ToSet(chain))

\* Ancestors goes on to a parent that was read and not seen, but not above init.
Climb(chain, pid, parent) ==
    /\ parent \in DOMAIN read
    /\ parent \notin {pid} \cup ToSet(chain)
    /\ chain # << >> => Last(chain) # InitPid

Ancestors(pid) ==
    LET up[n \in 0..Cardinality(AllPids)] ==
            IF n = 0 THEN << >>
            ELSE LET chain == up[n - 1]
                     parent == read[IF chain = << >> THEN pid ELSE Last(chain)].ppid
                 IN  IF Climb(chain, pid, parent) THEN Append(chain, parent) ELSE chain
    IN  up[Cardinality(AllPids)]

\* Mutant: only a node's own children count, not what is beneath them.
KeepParents(p, uid, kept) == read[p].uid = uid \/ \E c \in Children(p) : read[c].uid = uid

\* A node stays if it is the owner's or one of its pruned children stays.
Keep(p, uid, kept) == read[p].uid = uid \/ \E c \in Children(p) : c \in kept

\* pruneTreeToUID over the forest, from the leaves up.
Pruned(uid) ==
    LET kept[n \in 0..Cardinality(DOMAIN read)] ==
            IF n = 0 THEN {} ELSE {p \in Forest : Keep(p, uid, kept[n - 1])}
    IN  kept[Cardinality(DOMAIN read)]

-----------------------------------------------------------------------------
\* No PID that some process names as its parent changed hands before it was read.
NoReuse ==
    \A p \in DOMAIN read :
        read[p].ppid \in DOMAIN read => read[read[p].ppid].gen = read[p].pgen

\* With p or one of them, the set has its parent, if that was read.
Closed(pids, p) ==
    \A q \in pids \cup {p} :
        read[q].ppid \in DOMAIN read \ {q} => read[q].ppid \in pids

(* Without PID reuse in the middle of a scan, no set of processes closes on
   itself: each has a root, or a process whose parent is outside of it.  This
   is what the recursions of tree.go need to end, although the records are of
   different moments and exits move children around in between. *)
NoCycle ==
    NoReuse => \A S \in SUBSET DOMAIN read :
        S # {} => \E p \in S : p \in Roots \/ read[p].ppid \notin S

(* Without PID reuse, `tree` shows every process that was read, those whose
   parent was gone too. *)
TreeComplete == phase = "read" /\ NoReuse => Forest = DOMAIN read

(* inspect and tree agree: the ancestry chain of a process in the tree is the
   path to its root: its parent, that one's parent and so on until one that
   was not read, each ancestor once. *)
ChainIsPath ==
    phase = "read" =>
        \A p \in Forest :
            LET chain == Ancestors(p)
            IN  /\ \A i \in DOMAIN chain : chain[i] = read[IF i = 1 THEN p ELSE chain[i - 1]].ppid
                /\ Closed(ToSet(chain), p)
                /\ Len(chain) = Cardinality(ToSet(chain))

(* Ancestors ends on every input, a cycle of parents too: no PID twice. *)
ChainEnds ==
    phase = "read" =>
        \A p \in DOMAIN read : Len(Ancestors(p)) = Cardinality(ToSet(Ancestors(p)) \ {p})

(* `tree --pid`, `tree` and `inspect` agree: where the tree shows every process
   that was read, `tree --pid` returns for each, and beneath a process are
   those that have it in their ancestry chain. *)
SubtreeIsBeneath ==
    phase = "read" /\ Forest = DOMAIN read =>
        \A p \in DOMAIN read :
            SubtreeAt(p) = [ends |-> TRUE,
                            nodes |-> {p} \cup {q \in DOMAIN read : p \in ToSet(Ancestors(q))}]

(* `tree --user` shows the owner's processes and all their ancestors, and
   nothing else. *)
PruneKeepsAncestry ==
    phase = "read" => \A u \in Uids :
        Pruned(u) = UNION {{p} \cup ToSet(Ancestors(p)) : p \in {q \in Forest : read[q].uid = u}}

(* Comment of BuildTree: a flat process list becomes a forest, whatever raced
   the scan.  Every process that was read should be in it. *)
TreeShowsAll == phase = "read" => Forest = DOMAIN read
=============================================================================
