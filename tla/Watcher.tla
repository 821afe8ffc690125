------------------------------ MODULE Watcher ------------------------------
(***************************************************************************)
(* monitor.Watcher: the goroutine behind `procsec watch`.  Run polls /proc *)
(* on a ticker; poll reads one process at a time while the machine goes on *)
(* running, compares each with the snapshot it keeps, and blocks on the    *)
(* events channel whenever the client is behind.                           *)
(*                                                                         *)
(* One action per read of /proc (the status file, the exe link, the status *)
(* file again, the ns links) and per send.  Time is counted in poll        *)
(* intervals.  The order in which a poll visits PIDs is left open.         *)
(***************************************************************************)
EXTENDS ProcFS, Sequences

CONSTANTS
    Cap,            \* capacity of the events channel
    Deep,           \* DeepCheckInterval in poll intervals, 0: --no-context
    FilterUids,     \* Filter.UID: {} for nil, else a singleton
    FilterExes,     \* Filter.Exe: {} for "", else the paths that contain it
    ExcludeKernel,  \* Filter.ExcludeKernel
    ReadErrors      \* reads may fail though the process runs (EMFILE, ENOMEM)

ASSUME CapAssumption == Cap \in Nat \ {0}
ASSUME DeepAssumption == Deep \in Nat
ASSUME FilterAssumption ==
    /\ FilterUids \subseteq Nat /\ FilterExes \subseteq Nat \ {0}
    /\ ExcludeKernel \in BOOLEAN /\ ReadErrors \in BOOLEAN

VARIABLES
    pc,       \* where Run and poll are
    ticked,   \* a tick waits in ticker.C, which holds one
    elapsed,  \* intervals since the last poll took its time stamp, up to Deep
    todo,     \* PIDs of ListPIDs that the scan has not finished with
    seen,     \* seen: PIDs read and matched by the filter in this poll
    cur,      \* the process under examination, by its PID; empty between two
    changes,  \* changes found so far by detectContextChange
    known,    \* known: the tracked snapshots, by PID
    chan,     \* events sent and not yet received
    stop,     \* the stop channel is closed
    told      \* history: what the events sent so far say is running, by PID; of
              \* a namespace no event could list yet, the first one that was read

runVars == <<ticked, elapsed>>
pollVars == <<todo, seen, cur, changes>>
vars == <<procs, births, pc, ticked, elapsed, todo, seen, cur, changes, known,
          chan, stop, told>>

Stream == INSTANCE WatchStream WITH live <- DOMAIN told

\* proc.Process with the deep fields of its snapshot, and lastDeepCheck as an age.
Snapshot == [gen : Nat, kthread : BOOLEAN, val : Values, age : 0..Deep]
ContextChange == [field : Fields, old : Nat, new : Nat]
PCs == {"start", "select", "scan", "exe", "extra", "ns", "started", "changed", "done"}

TypeOK ==
    /\ FSTypeOK
    /\ pc \in PCs
    /\ ticked \in BOOLEAN
    /\ elapsed \in 0..Deep
    /\ todo \subseteq Pids /\ seen \subseteq Pids
    /\ DOMAIN cur \subseteq Pids /\ cur \in [DOMAIN cur -> Process]
    /\ changes \subseteq ContextChange
    /\ DOMAIN known \subseteq Pids /\ known \in [DOMAIN known -> Snapshot]
    /\ chan \in Seq(Stream!Event) /\ Len(chan) <= Cap
    /\ stop \in BOOLEAN
    /\ DOMAIN told \subseteq Pids /\ told \in [DOMAIN told -> Process]

Init ==
    /\ FSInit
    /\ pc = "start"
    /\ ticked = FALSE
    /\ elapsed = 0
    /\ todo = {} /\ seen = {}
    /\ cur = [pid \in {} |-> 0]
    /\ changes = {}
    /\ known = [pid \in {} |-> 0]
    /\ chan = << >>
    /\ stop = FALSE
    /\ told = [pid \in {} |-> 0]

-----------------------------------------------------------------------------
Younger(a, b) == IF a <= b THEN a ELSE b

KernelThread(p) == p.kthread /\ p.val["exe"] = 0

Matches(p) ==
    /\ ~(ExcludeKernel /\ KernelThread(p))
    /\ FilterUids # {} => p.val["uid"] \in FilterUids
    /\ FilterExes # {} => p.val["exe"] \in FilterExes

Due(pid) == Deep > 0 /\ known[pid].age >= Deep

\* Mutant: the whole snapshot is replaced, deep fields included.
OverwriteAll(snap, p) == [snap EXCEPT !.gen = p.gen, !.kthread = p.kthread, !.val = p.val]

\* existing.Process = *p: the cheap fields only, the deep ones stay.
Overwrite(snap, p) ==
    [snap EXCEPT !.gen = p.gen, !.kthread = p.kthread,
                 !.val = [f \in Fields |-> IF f \in CheapFields THEN p.val[f] ELSE @[f]]]

ChangeOf(f, old, new) == [field |-> f, old |-> old[f], new |-> new[f]]

\* The uid, gid and exe comparisons of detectContextChange.
CheapChanges(old, new) ==
    {ChangeOf(f, old, new) : f \in {g \in CheapFields :
        old[g] # new[g] /\ (g = "exe" => old[g] # 0 /\ new[g] # 0)}}

\* Mutant: a lost capability is not reported, only a gained one.
StatusGains(old, new) ==
    {ChangeOf(f, old, new) : f \in {g \in StatusFields : old[g] < new[g]}}

StatusChanges(old, new) ==
    {ChangeOf(f, old, new) : f \in {g \in StatusFields : old[g] # new[g]}}

\* The results a readlink of exe, or of ns/net, can have; 0 when it fails.
LinkSeen(pid, f) ==
    (IF Running(pid) /\ Inspectable(procs[pid]) THEN {procs[pid].val[f]} ELSE {0})
        \cup (IF ReadErrors THEN {0} ELSE {})

-----------------------------------------------------------------------------
(* Run: the ticker, the select, and the start of a poll. *)

Tick ==
    /\ pc # "done"
    /\ ticked' = TRUE
    /\ elapsed' = Younger(elapsed + 1, Deep)
    /\ UNCHANGED <<procs, births, pc, pollVars, known, chan, stop, told>>

\* Mutant: only the PIDs that are tracked already are examined.
ListKnown == DOMAIN procs \cap DOMAIN known

Listed == DOMAIN procs

\* Mutant: the time since the last poll is not added up to DeepCheckInterval.
AgedFresh(snap) == [snap EXCEPT !.age = 0]

\* The time since lastDeepCheck, by the time stamp of a poll that begins.
Aged(snap) == [snap EXCEPT !.age = Younger(@ + elapsed, Deep)]

MayPoll == pc = "start" \/ (pc = "select" /\ ticked)
TakeTick == ticked' = IF pc = "select" THEN FALSE ELSE ticked

\* ListPIDs and now := time.Now().
BeginPoll ==
    /\ MayPoll
    /\ TakeTick
    /\ pc' = "scan"
    /\ todo' = Listed
    /\ seen' = {}
    /\ known' = [pid \in DOMAIN known |-> Aged(known[pid])]
    /\ elapsed' = 0
    /\ UNCHANGED <<procs, births, cur, changes, chan, stop, told>>

\* ListPIDs fails: poll returns and the next tick tries again.
ListFails ==
    /\ ReadErrors
    /\ MayPoll
    /\ TakeTick
    /\ pc' = "select"
    /\ UNCHANGED <<procs, births, elapsed, pollVars, known, chan, stop, told>>

\* Mutant: a pending tick is always served before stop.
ReturnIdle == pc = "select" /\ stop /\ ~ticked

MayReturn == pc = "select" /\ stop

ReturnOnStop ==
    /\ MayReturn
    /\ pc' = "done"
    /\ UNCHANGED <<procs, births, runVars, pollVars, known, chan, stop, told>>

-----------------------------------------------------------------------------
(* The scan: ReadProcess, the filter, and what follows for each PID. *)

\* ReadProcess fails: the PID is not marked seen.
ReadFails(pid) ==
    /\ pc = "scan"
    /\ pid \in todo
    /\ ~Running(pid) \/ ReadErrors
    /\ todo' = todo \ {pid}
    /\ UNCHANGED <<procs, births, pc, runVars, seen, cur, changes, known, chan, stop, told>>

\* readStatus: the owner and the parent; the deep fields of the snapshot are
\* still zero and exe is not read yet.
ReadStatus(pid) ==
    /\ pc = "scan"
    /\ pid \in todo
    /\ Running(pid)
    /\ cur' = Put(cur, pid, [procs[pid] EXCEPT
          !.val = [f \in Fields |-> IF f \in {"uid", "gid"} THEN @[f] ELSE 0]])
    /\ pc' = "exe"
    /\ UNCHANGED <<procs, births, runVars, todo, seen, changes, known, chan, stop, told>>

\* The PID needs nothing more in this poll.
Finish(pid) ==
    /\ pc' = "scan"
    /\ todo' = todo \ {pid}
    /\ cur' = Drop(cur, pid)
    /\ changes' = {}

WithExe(pid, e) == [cur[pid] EXCEPT !.val["exe"] = e]

\* Mutant: seen[pid] = true is forgotten for a PID that is known already.
MarkNew(pid) == seen' = IF pid \in DOMAIN known THEN seen ELSE seen \cup {pid}

Mark(pid) == seen' = seen \cup {pid}

\* Mutant: the filter is applied only when a PID is first seen.
KeptOnce(pid, e) == pid \in DOMAIN known \/ Matches(WithExe(pid, e))

Kept(pid, e) == Matches(WithExe(pid, e))

Track(pid, p) ==
    known' = Put(known, pid, [gen |-> p.gen, kthread |-> p.kthread, val |-> p.val, age |-> 0])

FilterOut(pid) ==
    /\ pc = "exe"
    /\ pid \in DOMAIN cur
    /\ \E e \in LinkSeen(pid, "exe") : ~Kept(pid, e)
    /\ Finish(pid)
    /\ UNCHANGED <<procs, births, runVars, seen, known, chan, stop, told>>

\* A PID that is not in known: a snapshot is started for it.
Unknown(pid) ==
    /\ pc = "exe"
    /\ pid \in DOMAIN cur \ DOMAIN known
    /\ \E e \in LinkSeen(pid, "exe") :
          /\ Kept(pid, e)
          /\ cur' = [cur EXCEPT ![pid] = WithExe(pid, e)]
          /\ IF Deep > 0
             THEN pc' = "extra" /\ UNCHANGED known
             ELSE pc' = "started" /\ Track(pid, WithExe(pid, e))
    /\ Mark(pid)
    /\ UNCHANGED <<procs, births, runVars, todo, changes, chan, stop, told>>

\* A known PID whose deep check is not due: only existing.Process = *p.
Refresh(pid) ==
    /\ pc = "exe"
    /\ pid \in DOMAIN cur \cap DOMAIN known
    /\ ~Due(pid)
    /\ \E e \in LinkSeen(pid, "exe") :
          /\ Kept(pid, e)
          /\ known' = [known EXCEPT ![pid] = Overwrite(@, WithExe(pid, e))]
    /\ Mark(pid)
    /\ Finish(pid)
    /\ UNCHANGED <<procs, births, runVars, chan, stop, told>>

\* A known PID whose deep check is due: detectContextChange begins.
BeginDeepCheck(pid) ==
    /\ pc = "exe"
    /\ pid \in DOMAIN cur \cap DOMAIN known
    /\ Due(pid)
    /\ \E e \in LinkSeen(pid, "exe") :
          /\ Kept(pid, e)
          /\ cur' = [cur EXCEPT ![pid] = WithExe(pid, e)]
          /\ changes' = CheapChanges(known[pid].val, WithExe(pid, e).val)
    /\ Mark(pid)
    /\ pc' = "extra"
    /\ UNCHANGED <<procs, births, runVars, todo, known, chan, stop, told>>

-----------------------------------------------------------------------------
(* The deep reads: ReadStatusExtra, then ReadNamespaces, each best effort. *)

WithStatus(old, new) == [f \in Fields |-> IF f \in StatusFields THEN new[f] ELSE old[f]]

\* The process may have gone, or its PID been reused, since ReadProcess.
ExtraMissed(pid) ==
    /\ pc = "extra"
    /\ pid \in DOMAIN cur
    /\ ~Running(pid) \/ ReadErrors
    /\ pc' = "ns"
    /\ UNCHANGED <<procs, births, runVars, pollVars, known, chan, stop, told>>

ExtraOfNew(pid) ==
    /\ pc = "extra"
    /\ pid \in DOMAIN cur \ DOMAIN known
    /\ Running(pid)
    /\ cur' = [cur EXCEPT ![pid].val = WithStatus(@, procs[pid].val)]
    /\ pc' = "ns"
    /\ UNCHANGED <<procs, births, runVars, todo, seen, changes, known, chan, stop, told>>

\* The snapshot takes the new values at once, before the event is sent.
ExtraOfKnown(pid) ==
    /\ pc = "extra"
    /\ pid \in DOMAIN cur \cap DOMAIN known
    /\ Running(pid)
    /\ changes' = changes \cup StatusChanges(known[pid].val, procs[pid].val)
    /\ known' = [known EXCEPT ![pid].val = WithStatus(@, procs[pid].val)]
    /\ pc' = "ns"
    /\ UNCHANGED <<procs, births, runVars, todo, seen, cur, chan, stop, told>>

NsOfNew(pid) ==
    /\ pc = "ns"
    /\ pid \in DOMAIN cur \ DOMAIN known
    /\ \E n \in LinkSeen(pid, "netns") :
          Track(pid, [cur[pid] EXCEPT !.val["netns"] = n])
    /\ pc' = "started"
    /\ UNCHANGED <<procs, births, runVars, pollVars, chan, stop, told>>

\* Mutant: a namespace that could not be read before counts as one that changed.
NetnsChangesFrom0(pid, n) ==
    IF n \notin {0, known[pid].val["netns"]}
    THEN {[field |-> "netns", old |-> known[pid].val["netns"], new |-> n]}
    ELSE {}

\* An unread namespace (0) on either side is no change; a read one is kept.
NetnsChanges(pid, n) ==
    IF n # 0 /\ known[pid].val["netns"] # 0 /\ n # known[pid].val["netns"]
    THEN {[field |-> "netns", old |-> known[pid].val["netns"], new |-> n]}
    ELSE {}

\* Mutant: a failed namespace read overwrites the one to compare with.
DeepCheckedAlways(pid, n) == [known[pid] EXCEPT !.age = 0, !.val["netns"] = n]

DeepChecked(pid, n) ==
    [known[pid] EXCEPT !.age = 0, !.val["netns"] = IF n # 0 THEN n ELSE @]

FirstNetns(pid, n) == [told EXCEPT ![pid].val["netns"] = IF @ = 0 THEN n ELSE @]

\* The end of detectContextChange, with something to report.
NsReports(pid) ==
    /\ pc = "ns"
    /\ pid \in DOMAIN cur \cap DOMAIN known
    /\ \E n \in LinkSeen(pid, "netns") :
          /\ changes' = changes \cup NetnsChanges(pid, n)
          /\ known' = [known EXCEPT ![pid] = DeepChecked(pid, n)]
          /\ told' = FirstNetns(pid, n)
    /\ changes' # {}
    /\ pc' = "changed"
    /\ UNCHANGED <<procs, births, runVars, todo, seen, cur, chan, stop>>

\* The end of detectContextChange, with nothing to report.
NsSilent(pid) ==
    /\ pc = "ns"
    /\ pid \in DOMAIN cur \cap DOMAIN known
    /\ \E n \in LinkSeen(pid, "netns") :
          /\ changes \cup NetnsChanges(pid, n) = {}
          /\ known' = [known EXCEPT ![pid] = Overwrite(DeepChecked(pid, n), cur[pid])]
          /\ told' = FirstNetns(pid, n)
    /\ Finish(pid)
    /\ UNCHANGED <<procs, births, runVars, seen, chan, stop>>

-----------------------------------------------------------------------------
(* The sends. *)

\* What a ContextChanged event tells: a fresh Process, and the listed changes.
Telling(pid) ==
    [cur[pid] EXCEPT !.val = [f \in Fields |->
        IF f \in CheapFields THEN @[f]
        ELSE IF \E c \in changes : c.field = f
             THEN (CHOOSE c \in changes : c.field = f).new
             ELSE told[pid].val[f]]]

SendStarted(pid) ==
    /\ pc = "started"
    /\ pid \in DOMAIN cur
    /\ Stream!Send("Started", pid)
    /\ told' = Put(told, pid, [cur[pid] EXCEPT !.val = known[pid].val])
    /\ Finish(pid)
    /\ UNCHANGED <<procs, births, runVars, seen, known>>

SendChanged(pid) ==
    /\ pc = "changed"
    /\ pid \in DOMAIN cur
    /\ Stream!Send("ContextChanged", pid)
    /\ told' = [told EXCEPT ![pid] = Telling(pid)]
    /\ known' = [known EXCEPT ![pid] = Overwrite(@, cur[pid])]
    /\ Finish(pid)
    /\ UNCHANGED <<procs, births, runVars, seen>>

\* Mutant: delete(w.known, pid) is forgotten.
Remember(pid) == UNCHANGED known

Forget(pid) == known' = Drop(known, pid)

\* The sweep over known once every listed PID was examined.
SendExited(pid) ==
    /\ pc = "scan"
    /\ todo = {}
    /\ pid \in DOMAIN known \ seen
    /\ Stream!Send("Exited", pid)
    /\ told' = Drop(told, pid)
    /\ Forget(pid)
    /\ UNCHANGED <<procs, births, pc, runVars, pollVars>>

\* Mutant: the sweep may leave PIDs that it did not report.
SweptAny == pc = "scan" /\ todo = {}

Swept == pc = "scan" /\ todo = {} /\ DOMAIN known \subseteq seen

EndPoll ==
    /\ Swept
    /\ pc' = "select"
    /\ seen' = {}
    /\ UNCHANGED <<procs, births, runVars, todo, cur, changes, known, chan, stop, told>>

-----------------------------------------------------------------------------
Scan(pid) ==
    \/ ReadFails(pid) \/ ReadStatus(pid)
    \/ FilterOut(pid) \/ Unknown(pid) \/ Refresh(pid) \/ BeginDeepCheck(pid)

DeepReads(pid) ==
    \/ ExtraMissed(pid) \/ ExtraOfNew(pid) \/ ExtraOfKnown(pid)
    \/ NsOfNew(pid) \/ NsReports(pid) \/ NsSilent(pid)

Sends(pid) == SendStarted(pid) \/ SendChanged(pid) \/ SendExited(pid)

\* The goroutine's own steps while it is inside poll, or about to enter it.
PollStep ==
    \/ BeginPoll \/ ListFails \/ EndPoll
    \/ \E pid \in Pids : Scan(pid) \/ DeepReads(pid) \/ Sends(pid)

watcherVars == <<pc, ticked, elapsed, todo, seen, cur, changes, known, told>>

\* The client: main receives events, until it closes stop.
Receive == UNCHANGED <<procs, births, watcherVars>> /\ Stream!TakeEvent
CloseStop == UNCHANGED <<procs, births, watcherVars>> /\ Stream!CloseStop

Machine == FSNext /\ UNCHANGED <<watcherVars, chan, stop>>

Next == Machine \/ Tick \/ PollStep \/ ReturnOnStop \/ Receive \/ CloseStop

Spec == Init /\ [][Next]_vars

(***************************************************************************)
(* Goroutines that can run do run, the ticker fires, the client loops.     *)
(* Go's select picks at random among the ready cases, so a stop that stays *)
(* ready at select after select is taken in the end: strong fairness.      *)
(***************************************************************************)
Fairness ==
    /\ WF_vars(PollStep)
    /\ WF_vars(Tick)
    /\ WF_vars(Receive)
    /\ SF_vars(ReturnOnStop)

FairSpec == Spec /\ Fairness

-----------------------------------------------------------------------------
(* Safety. *)

(* The client can rely on the order of the events it receives: for every PID
   a Started, then ContextChanged events, then an Exited, and never two
   Started or two Exited in a row, whatever processes do between the reads of
   a poll.  This is the implementation relation to WatchStream. *)
Promise == Stream!StreamSpec

(* The known map and the events already sent agree: Run tracks exactly the
   PIDs whose Started it sent and whose Exited it did not, but for the one
   whose Started is blocked on a full channel (lines 178 and 179). *)
KnownIsTold ==
    DOMAIN known = DOMAIN told \cup (IF pc = "started" THEN DOMAIN cur ELSE {})

(* No capability, seccomp or no_new_privs change that a deep check sees is
   dropped or told twice: the snapshot differs from what the events told only
   by changes that the pending event lists, each with the told value as its
   old value.  detectContextChange updates the snapshot before the send, and a
   plain poll overwrites the rest of it (line 190). *)
StatusTold ==
    \A pid \in DOMAIN told, f \in StatusFields :
        \/ known[pid].val[f] = told[pid].val[f]
        \/ /\ pid \in DOMAIN cur
           /\ \E c \in changes : /\ c.field = f
                                 /\ c.old = told[pid].val[f]
                                 /\ c.new = known[pid].val[f]

(* A network namespace change that two reads of a tracked PID show is told
   once, from the namespace last told to the one now in the snapshot; reads
   that failed in between lose nothing, and a first namespace that comes after
   failed reads is taken over without being told as a change (lines 237-243). *)
NetnsTold ==
    \A pid \in DOMAIN told :
        LET heard == told[pid].val["netns"]
            kept == known[pid].val["netns"]
            pending == {c \in changes : pid \in DOMAIN cur /\ c.field = "netns"}
        IN  \/ pending = {} /\ heard = kept
            \/ /\ pending = {[field |-> "netns", old |-> heard, new |-> kept]}
               /\ heard \notin {0, kept}

(* Every event is about a process that the filter lets through, the Exited
   ones too, although they carry the snapshot of an earlier poll. *)
FilterRespected == \A pid \in DOMAIN known : Matches(known[pid])

(* An Exited event is sent only when the process that was last seen under the
   PID is gone: never for one that still runs. *)
ExitedMeansGone ==
    [][\A pid \in Pids : SendExited(pid) =>
          ~(Running(pid) /\ procs[pid].gen = known[pid].gen)]_vars

-----------------------------------------------------------------------------
(* Liveness. *)

\* The process of incarnation g runs under the PID; an event told of it.
Lives(pid, g) == Running(pid) /\ procs[pid].gen = g
ToldOf(pid, g) == pid \in DOMAIN told /\ told[pid].gen = g

(* README, "Live monitoring": every process start is reported as it happens. *)
EveryStartReported ==
    \A pid \in Pids, g \in 1..MaxBirths :
        Lives(pid, g) ~> ToldOf(pid, g) \/ ~Lives(pid, g) \/ stop

(* A process that keeps running is reported, the process itself and not another
   one under its PID, unless its PID was taken over while Run still tracked or
   examined the one before, or the client stops. *)
StartReported ==
    \A pid \in Pids, g \in 1..MaxBirths :
        Lives(pid, g) /\ pid \notin DOMAIN known \cup DOMAIN cur
            ~> ToldOf(pid, g) \/ ~Lives(pid, g) \/ stop

(* A reported process that left /proc is reported as exited, unless its PID is
   taken again or the client stops. *)
ExitReported ==
    \A pid \in Pids : pid \in DOMAIN told /\ ~Running(pid)
                        ~> pid \notin DOMAIN told \/ Running(pid) \/ stop

\* Field f of a reported process has value v, and the events told another one.
Untold(pid, f, v) ==
    /\ pid \in DOMAIN told /\ Running(pid)
    /\ procs[pid].val[f] = v /\ told[pid].val[f] # v

(* A capability, seccomp or no_new_privs value that a reported process keeps is
   told in the end: deep checks come round however long the client blocks. *)
StatusChangeReported ==
    \A pid \in Pids, f \in StatusFields : \A v \in Vals[f] :
        Untold(pid, f, v) ~> ~Untold(pid, f, v) \/ stop

(* README, "Live monitoring": a still-running PID whose UID or GID changes
   mid-life is flagged. *)
OwnerChangeReported ==
    \A pid \in Pids, f \in {"uid", "gid"} : \A v \in Vals[f] :
        Untold(pid, f, v) ~> ~Untold(pid, f, v) \/ Zombie(procs[pid]) \/ stop

\* A send waits for room in the channel.
Blocked ==
    /\ Len(chan) = Cap
    /\ \/ pc \in {"started", "changed"}
       \/ pc = "scan" /\ todo = {} /\ DOMAIN known \ seen # {}

(* Run returns once stop is closed, unless a send is blocked for good on the
   full channel that the client no longer receives from. *)
StopEndsRun == stop ~> (pc = "done" \/ []Blocked)
=============================================================================
