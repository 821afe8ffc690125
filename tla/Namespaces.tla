----------------------------- MODULE Namespaces -----------------------------
(***************************************************************************)
(* `procsec ns <PID> [PID2]`: ReadNamespaces resolves the links of         *)
(* /proc/<pid>/ns one by one, first of one PID and then of the other, and  *)
(* CompareNamespaces sorts the types of namespace by what it got.          *)
(***************************************************************************)
EXTENDS Naturals

CONSTANTS
    NsTypes,     \* nsTypes
    Supported,   \* those that this kernel has
    Ids,         \* inode numbers of namespaces
    MaxShifts    \* bound: steps of the two processes, and readlinks that fail

ASSUME NsAssumption ==
    /\ Supported \subseteq NsTypes /\ Supported # {}
    /\ Ids \subseteq Nat
    /\ MaxShifts \in Nat

Sides == {"a", "b"}  \* the first and the second PID of the command line

VARIABLES
    tasks,    \* what runs under either PID: its links and whether they resolve
    shifts,   \* steps of the two processes, and readlinks that failed, so far
    at,       \* the side whose links are read, or "start", "compare", "gone"
    pair,     \* a second PID was given
    links,    \* the types whose links are still to be read of this side
    got,      \* the Namespaces map of either side
    held,     \* history: namespaces that the PID's processes had since the start
    unseen,   \* history: PIDs with a link that did not resolve at some moment
    kept      \* history: types whose links have been the same since the start

nsVars == <<tasks, shifts, at, pair, links, got, held, unseen, kept>>

\* open: the process is there, no zombie, and of an owner that procsec may trace.
Task == [open : BOOLEAN, ns : [Supported -> Ids]]

NsTypeOK ==
    /\ tasks \in [Sides -> Task]
    /\ shifts \in Nat
    /\ at \in Sides \cup {"start", "compare", "gone"}
    /\ pair \in BOOLEAN
    /\ links \subseteq NsTypes
    /\ DOMAIN got = Sides
    /\ \A s \in Sides : DOMAIN got[s] \subseteq Supported /\ got[s] \in [DOMAIN got[s] -> Ids]
    /\ held \in [Sides -> SUBSET (Supported \X Ids)]
    /\ unseen \subseteq Sides
    /\ kept \in [Sides -> SUBSET Supported]

Nothing == [t \in {} |-> 0]
HasNow(s) == {<<t, tasks[s].ns[t]>> : t \in Supported}

NsInit ==
    /\ tasks \in [Sides -> Task]
    /\ shifts = 0
    /\ at = "start"
    /\ pair = FALSE
    /\ links = {}
    /\ got = [s \in Sides |-> Nothing]
    /\ held = [s \in Sides |-> {}]
    /\ unseen = {}
    /\ kept = [s \in Sides |-> {}]

-----------------------------------------------------------------------------
(* The machine. *)

Shift == shifts < MaxShifts /\ shifts' = shifts + 1

\* setns, unshare, setuid, exit, or another process that takes the PID.
TaskBecomes(s, task) ==
    /\ Shift
    /\ task # tasks[s]
    /\ tasks' = [tasks EXCEPT ![s] = task]
    /\ held' = [held EXCEPT ![s] = @ \cup {<<t, task.ns[t]>> : t \in Supported}]
    /\ unseen' = IF task.open THEN unseen ELSE unseen \cup {s}
    /\ kept' = [kept EXCEPT ![s] = IF task.open
                                   THEN {t \in @ : task.ns[t] = tasks[s].ns[t]} ELSE {}]
    /\ UNCHANGED <<at, pair, links, got>>

NsMachine == at \notin {"compare", "gone"} /\ \E s \in Sides, task \in Task : TaskBecomes(s, task)

-----------------------------------------------------------------------------
(* cmdNS. *)

BeginNs(two) ==
    /\ at = "start"
    /\ at' = "a"
    /\ pair' = two
    /\ links' = NsTypes
    /\ held' = [s \in Sides |-> HasNow(s)]
    /\ unseen' = {s \in Sides : ~tasks[s].open}
    /\ kept' = [s \in Sides |-> IF tasks[s].open THEN Supported ELSE {}]
    /\ UNCHANGED <<tasks, shifts, got>>

ReadNsLink(t) ==
    /\ at \in Sides
    /\ t \in links \cap Supported
    /\ tasks[at].open
    /\ links' = links \ {t}
    /\ got' = [got EXCEPT ![at] = [u \in DOMAIN @ \cup {t} |->
                                      IF u = t THEN tasks[at].ns[t] ELSE @[u]]]
    /\ UNCHANGED <<tasks, shifts, at, pair, held, unseen, kept>>

\* type unsupported on this kernel, or permission denied, or the process gone.
NsLinkFails(t) ==
    /\ at \in Sides
    /\ t \in links
    /\ links' = links \ {t}
    /\ IF t \in Supported /\ tasks[at].open
       THEN /\ Shift
            /\ unseen' = unseen \cup {at}
            /\ kept' = [kept EXCEPT ![at] = @ \ {t}]
       ELSE UNCHANGED <<shifts, unseen, kept>>
    /\ UNCHANGED <<tasks, at, pair, got, held>>

\* Mutant: one link that fails is as good as none.
FoundAll(s) == DOMAIN got[s] = NsTypes

Found(s) == DOMAIN got[s] # {}

\* ReadNamespaces returns: ErrProcessGone if it resolved no link at all.
EndNamespaces ==
    /\ at \in Sides
    /\ links = {}
    /\ IF ~Found(at) THEN at' = "gone" /\ UNCHANGED links
       ELSE IF pair /\ at = "a" THEN at' = "b" /\ links' = NsTypes
       ELSE at' = "compare" /\ UNCHANGED links
    /\ UNCHANGED <<tasks, shifts, pair, got, held, unseen, kept>>

NsNext ==
    \/ NsMachine
    \/ \E two \in BOOLEAN : BeginNs(two)
    \/ \E t \in NsTypes : ReadNsLink(t) \/ NsLinkFails(t)
    \/ EndNamespaces

NsSpec == NsInit /\ [][NsNext]_nsVars

-----------------------------------------------------------------------------
(* CompareNamespaces. *)

\* Mutant: a type that both have is taken for shared.
SharedByType == DOMAIN got["a"] \cap DOMAIN got["b"]

Shared == {t \in DOMAIN got["a"] \cap DOMAIN got["b"] : got["a"][t] = got["b"][t]}
Differ == {t \in DOMAIN got["a"] \cap DOMAIN got["b"] : got["a"][t] # got["b"][t]}
OnlyA == DOMAIN got["a"] \ DOMAIN got["b"]
OnlyB == DOMAIN got["b"] \ DOMAIN got["a"]

-----------------------------------------------------------------------------
(* Properties. *)

Printed == at = "compare" /\ pair

(* Types whose links of both PIDs were readable and the same from start to end are
   put where they belong, shared or different, whatever the other links, the
   processes before them and the kernel's missing types did. *)
SteadyCompared ==
    Printed => \A t \in kept["a"] \cap kept["b"] :
        IF tasks["a"].ns[t] = tasks["b"].ns[t] THEN t \in Shared \ Differ ELSE t \in Differ \ Shared

(* Absence has a cause: a type is shown for one PID alone, and a PID is said to
   run no more, only if some link of a PID did not resolve, because its process
   was gone, not traceable, or the readlink failed; and what is called shared was
   in truth a namespace of both PIDs, though maybe at different moments. *)
AbsentWasUnseen ==
    /\ Printed /\ OnlyA # {} => "b" \in unseen
    /\ Printed /\ OnlyB # {} => "a" \in unseen
    /\ at = "gone" => unseen # {}
    /\ Printed => \A t \in Shared : \E i \in Ids : <<t, i>> \in held["a"] \cap held["b"]
=============================================================================
