------------------------------ MODULE Baseline ------------------------------
(***************************************************************************)
(* `procsec snapshot`, `procsec diff` and the comparison that `procsec     *)
(* watch --baseline` begins with, and `procsec ps`: one procsec saves what *)
(* runs to a file, another loads it and compares, both while the machine   *)
(* goes on, and either may be killed or fail between any two steps.        *)
(*                                                                         *)
(* A text is a sequence of characters, a character a number: the bar, the  *)
(* digits of a UID, a byte that is no UTF-8, and what is put in its place. *)
(***************************************************************************)
EXTENDS Naturals, Sequences

CONSTANTS
    Pids,        \* the PIDs the kernel hands out, each of them reusable
    Looks,       \* what a process may look like in /proc
    SaverSees,   \* owners whose exe link the saving procsec may resolve
    ViewerSees,  \* and the comparing one
    Filters,     \* what ps with its flags, zombies and root may ask for
    End,         \* the closing brackets of the JSON document
    MaxMoves     \* bound: steps of the machine, reads that fail, and saves

Bar == 0
Bad == 1       \* a byte that is not part of valid UTF-8
Replaced == 2  \* U+FFFD, as encoding/json writes it

Text == Seq(Nat)
Digits(uid) == << uid + 3 >>
States == {"none", "R", "S", "D", "T", "I", "Z"}

\* child: its parent is kthreadd, or it is.  kernel: it is a kernel thread, in truth.
Look == [name : Text, exe : Text, args : Text, uid : Nat, state : States,
         child : BOOLEAN, kernel : BOOLEAN]
Process == [pid : Nat, name : Text, exe : Text, args : Text, uid : Nat,
            state : States, child : BOOLEAN]
SnapshotEntry == [name : Text, exe : Text, uid : Nat]
\* text: the texts that contain Filter.Name, kernel: {TRUE} for --kernel.  {} is unset.
Filter == [text : SUBSET Text, uids : SUBSET Nat, states : SUBSET States,
           kernel : SUBSET BOOLEAN]
Token == SnapshotEntry \cup {End}

ASSUME PidsAssumption == Pids \subseteq Nat
ASSUME LooksAssumption == Looks \subseteq Look /\ End \notin SnapshotEntry
\* kthreadd and its children have no executable.
ASSUME KernelAssumption == \A look \in Looks : look.kernel => look.exe = << >> /\ look.child
ASSUME FiltersAssumption == Filters \subseteq Filter
ASSUME BaselineBounds == MaxMoves \in Nat

Tools == {"saver", "viewer"}
Spans == {"taken", "file", "base", "live"}

VARIABLES
    procs,   \* the running processes, by PID
    moves,   \* steps of the machine, and reads that failed, and saves, so far
    file,    \* what is in the snapshot's file: << >> also if there is none
    pc,      \* where each tool is
    todo,    \* PIDs that its ReadAll has listed and not finished with
    cur,     \* the process under construction in its ReadProcess
    list,    \* what its ReadAll has read
    data,    \* what the viewer's ReadFile has read of the file
    base,    \* the entries of the baseline that the viewer has loaded
    asked,   \* the viewer's command
    doc,     \* history: the document of the last save that reached the file
    torn,    \* history: the file was truncated while the viewer read it
    steady   \* history: PIDs that did not change, and were read without an
             \* error, since the scan behind what a tool or the file holds

toolVars == <<file, pc, todo, cur, list, data, base, asked, doc, torn>>
baselineVars == <<procs, moves, toolVars, steady>>

Nobody == [pid |-> 0, name |-> << >>, exe |-> << >>, args |-> << >>, uid |-> 0,
           state |-> "none", child |-> FALSE]

BaselineTypeOK ==
    /\ DOMAIN procs \subseteq Pids /\ procs \in [DOMAIN procs -> Looks]
    /\ moves \in Nat
    /\ file \in Seq(Token) /\ doc \in Seq(Token) /\ data \in Seq(Token)
    /\ pc \in [Tools -> {"idle", "scan", "exe", "args", "write", "load", "list", "report"}]
    /\ todo \in [Tools -> SUBSET Pids]
    /\ cur \in [Tools -> Process]
    /\ list \in [Tools -> Seq(Process)]
    /\ base \in Seq(SnapshotEntry)
    /\ asked \in {"diff", "ps"}
    /\ torn \in BOOLEAN
    /\ steady \in [Spans -> SUBSET Pids]

BaselineInit ==
    /\ procs \in UNION {[running -> Looks] : running \in SUBSET Pids}
    /\ moves = 0
    /\ file = << >> /\ doc = << >> /\ data = << >>
    /\ pc = [t \in Tools |-> "idle"]
    /\ todo = [t \in Tools |-> {}]
    /\ cur = [t \in Tools |-> Nobody]
    /\ list = [t \in Tools |-> << >>]
    /\ base = << >>
    /\ asked = "diff"
    /\ torn = FALSE
    /\ steady = [s \in Spans |-> {}]

-----------------------------------------------------------------------------
(* The machine. *)

Running(pid) == pid \in DOMAIN procs

Unsteady(pid) == steady' = [s \in Spans |-> steady[s] \ {pid}]

\* fork, or a PID handed out again.
Birth(pid) ==
    /\ ~Running(pid)
    /\ \E look \in Looks : procs' = [q \in DOMAIN procs \cup {pid} |->
                                        IF q = pid THEN look ELSE procs[q]]

\* execve, prctl, setuid, exit before wait: not for zombies and kernel threads.
Become(pid) ==
    /\ Running(pid)
    /\ procs[pid].state # "Z" /\ ~procs[pid].kernel
    /\ \E look \in Looks : /\ ~look.kernel
                           /\ look # procs[pid]
                           /\ procs' = [procs EXCEPT ![pid] = look]

Reap(pid) ==
    /\ Running(pid)
    /\ procs' = [q \in DOMAIN procs \ {pid} |-> procs[q]]

Move == moves < MaxMoves /\ moves' = moves + 1

BaselineMachine(pid) ==
    /\ Move
    /\ Birth(pid) \/ Become(pid) \/ Reap(pid)
    /\ Unsteady(pid)
    /\ UNCHANGED toolVars

-----------------------------------------------------------------------------
(* ReadAll, of either tool. *)

Sees(t) == IF t = "saver" THEN SaverSees ELSE ViewerSees

\* Both tools can read the exe link of a process that looks so, or neither.
Alike(look) == look.uid \in SaverSees <=> look.uid \in ViewerSees

\* A read of tool t failed although the process runs, or it is gone.
Unread(t, pid) ==
    steady' = [s \in Spans |->
        IF s \in (IF t = "saver" THEN {"taken"} ELSE {"base", "live"})
        THEN steady[s] \ {pid} ELSE steady[s]]

\* ReadDir sorts the names, and ReadAll goes through them in this order.
Visits(t, pid) == pid \in todo[t] /\ \A q \in todo[t] : pid <= q

\* gone, or permission denied -- skip, don't abort.
SkipProcess(t, pid) ==
    /\ pc[t] = "scan"
    /\ Visits(t, pid)
    /\ IF Running(pid) THEN Move ELSE UNCHANGED moves
    /\ todo' = [todo EXCEPT ![t] = @ \ {pid}]
    /\ Unread(t, pid)
    /\ UNCHANGED <<procs, file, pc, cur, list, data, base, asked, doc, torn>>

\* readStatus.
ReadStatus(t, pid) ==
    /\ pc[t] = "scan"
    /\ Visits(t, pid)
    /\ Running(pid)
    /\ pc' = [pc EXCEPT ![t] = "exe"]
    /\ cur' = [cur EXCEPT ![t] =
          [pid |-> pid, name |-> procs[pid].name, exe |-> << >>, args |-> << >>,
           uid |-> procs[pid].uid, state |-> procs[pid].state, child |-> procs[pid].child]]
    /\ UNCHANGED <<procs, moves, file, todo, list, data, base, asked, doc, torn, steady>>

\* Kernel threads and zombies have no exe, and a foreign owner's is denied.
Resolves(t, pid) == Running(pid) /\ procs[pid].uid \in Sees(t)

\* readExe: best effort.
ReadExe(t) ==
    /\ pc[t] = "exe"
    /\ pc' = [pc EXCEPT ![t] = "args"]
    /\ \/ /\ Resolves(t, cur[t].pid)
          /\ cur' = [cur EXCEPT ![t].exe = procs[cur[t].pid].exe]
          /\ UNCHANGED <<moves, steady>>
       \/ /\ ~Resolves(t, cur[t].pid)
          /\ UNCHANGED <<moves, cur, steady>>
       \/ /\ Resolves(t, cur[t].pid)
          /\ Move
          /\ Unread(t, cur[t].pid)
          /\ UNCHANGED cur
    /\ UNCHANGED <<procs, file, todo, list, data, base, asked, doc, torn>>

\* readCmdline, best effort, and the end of ReadProcess and of the loop body.
ReadCmdline(t) ==
    /\ pc[t] = "args"
    /\ pc' = [pc EXCEPT ![t] = "scan"]
    /\ \/ /\ Running(cur[t].pid)
          /\ list' = [list EXCEPT ![t] = Append(@, [cur[t] EXCEPT !.args = procs[cur[t].pid].args])]
          /\ UNCHANGED <<moves, steady>>
       \/ /\ IF Running(cur[t].pid) THEN Move ELSE UNCHANGED moves
          /\ list' = [list EXCEPT ![t] = Append(@, cur[t])]
          /\ Unread(t, cur[t].pid)
    /\ todo' = [todo EXCEPT ![t] = @ \ {cur[t].pid}]
    /\ cur' = [cur EXCEPT ![t] = Nobody]
    /\ UNCHANGED <<procs, file, data, base, asked, doc, torn>>

ReadAll(t) ==
    \/ \E pid \in Pids : SkipProcess(t, pid) \/ ReadStatus(t, pid)
    \/ ReadExe(t) \/ ReadCmdline(t)

-----------------------------------------------------------------------------
(* snapshot: TakeSnapshot, and SaveSnapshot through os.WriteFile. *)

\* Mutant: the whole Process is put into the snapshot.
EntryWhole(p) == p

EntryOf(p) == [name |-> p.name, exe |-> p.exe, uid |-> p.uid]
Entries(ps) == [i \in DOMAIN ps |-> EntryOf(ps[i])]

\* What json.Marshal makes of a text, and Unmarshal gives back.
Encoded(text) == [i \in DOMAIN text |-> IF text[i] = Bad THEN Replaced ELSE text[i]]
Marshal(e) == [e EXCEPT !.name = Encoded(@), !.exe = Encoded(@)]
Document(es) == Append([i \in DOMAIN es |-> Marshal(es[i])], End)

BeginTake ==
    /\ pc["saver"] = "idle"
    /\ Move
    /\ pc' = [pc EXCEPT !["saver"] = "scan"]
    /\ todo' = [todo EXCEPT !["saver"] = DOMAIN procs]
    /\ steady' = [steady EXCEPT !["taken"] = DOMAIN procs]
    /\ UNCHANGED <<procs, file, cur, list, data, base, asked, doc, torn>>

\* os.WriteFile opens the file with O_TRUNC, whatever was in it.
OpenForWriting ==
    /\ pc["saver"] = "scan" /\ todo["saver"] = {}
    /\ pc' = [pc EXCEPT !["saver"] = "write"]
    /\ file' = << >>
    /\ doc' = Document(Entries(list["saver"]))
    /\ list' = [list EXCEPT !["saver"] = << >>]
    /\ torn' = (pc["viewer"] = "load")
    /\ steady' = [steady EXCEPT !["file"] = steady["taken"], !["taken"] = {}]
    /\ UNCHANGED <<procs, moves, todo, cur, data, base, asked>>

\* The kernel copies the document page by page.
WritePart ==
    /\ pc["saver"] = "write"
    /\ \E n \in Len(file) + 1 .. Len(doc) : file' = SubSeq(doc, 1, n)
    /\ UNCHANGED <<procs, moves, pc, todo, cur, list, data, base, asked, doc, torn, steady>>

Saved ==
    /\ pc["saver"] = "write"
    /\ file = doc
    /\ pc' = [pc EXCEPT !["saver"] = "idle"]
    /\ UNCHANGED <<procs, moves, file, todo, cur, list, data, base, asked, doc, torn, steady>>

-----------------------------------------------------------------------------
(* diff and watch --baseline: LoadSnapshot, ReadAll, DiffAgainstSnapshot. *)

OpenBaseline ==
    /\ pc["viewer"] = "idle"
    /\ asked' = "diff"
    /\ torn' = FALSE
    /\ pc' = [pc EXCEPT !["viewer"] = "load"]
    /\ UNCHANGED <<procs, moves, file, todo, cur, list, data, base, doc, steady>>

\* One read of os.ReadFile's loop, which the kernel serves page by page.
ReadPart ==
    /\ pc["viewer"] = "load"
    /\ \E n \in Len(data) + 1 .. Len(file) : data' = data \o SubSeq(file, Len(data) + 1, n)
    /\ UNCHANGED <<procs, moves, file, pc, todo, cur, list, base, asked, doc, torn, steady>>

\* Mutant: a document that breaks off between two entries is taken as it is.
UnmarshalsPrefix(tokens) == \A i \in 1 .. Len(tokens) - 1 : tokens[i] # End

\* json.Unmarshal accepts the tokens: the document ends, and nothing follows.
Unmarshals(tokens) ==
    /\ Len(tokens) > 0
    /\ \A i \in DOMAIN tokens : tokens[i] = End <=> i = Len(tokens)

\* The end of the file: Unmarshal, or an error that ends the command.
Loaded ==
    /\ pc["viewer"] = "load"
    /\ Len(data) >= Len(file)
    /\ data' = << >>
    /\ IF Unmarshals(data)
       THEN /\ pc' = [pc EXCEPT !["viewer"] = "list"]
            /\ base' = SubSeq(data, 1, Len(data) - 1)
            /\ steady' = [steady EXCEPT !["base"] = IF torn THEN {} ELSE steady["file"]]
       ELSE /\ pc' = [pc EXCEPT !["viewer"] = "idle"]
            /\ UNCHANGED <<base, steady>>
    /\ UNCHANGED <<procs, moves, file, todo, cur, list, asked, doc, torn>>

\* ps, zombies and root have no baseline.
BeginPs ==
    /\ pc["viewer"] = "idle"
    /\ asked' = "ps"
    /\ pc' = [pc EXCEPT !["viewer"] = "list"]
    /\ UNCHANGED <<procs, moves, file, todo, cur, list, data, base, doc, torn, steady>>

ListLive ==
    /\ pc["viewer"] = "list"
    /\ pc' = [pc EXCEPT !["viewer"] = "scan"]
    /\ todo' = [todo EXCEPT !["viewer"] = DOMAIN procs]
    /\ steady' = [steady EXCEPT !["live"] = DOMAIN procs]
    /\ UNCHANGED <<procs, moves, file, cur, list, data, base, asked, doc, torn>>

Report ==
    /\ pc["viewer"] = "scan" /\ todo["viewer"] = {}
    /\ pc' = [pc EXCEPT !["viewer"] = "report"]
    /\ UNCHANGED <<procs, moves, file, todo, cur, list, data, base, asked, doc, torn, steady>>

\* The command has ended: printed its answer, failed, or was killed.
Ends(t) ==
    /\ pc[t] # "idle"
    /\ pc' = [pc EXCEPT ![t] = "idle"]
    /\ todo' = [todo EXCEPT ![t] = {}]
    /\ cur' = [cur EXCEPT ![t] = Nobody]
    /\ list' = [list EXCEPT ![t] = << >>]
    /\ data' = IF t = "viewer" THEN << >> ELSE data
    /\ base' = IF t = "viewer" THEN << >> ELSE base
    /\ steady' = [s \in Spans |->
          IF s \in (IF t = "saver" THEN {"taken"} ELSE {"base", "live"}) THEN {} ELSE steady[s]]
    /\ UNCHANGED <<procs, moves, file, asked, doc, torn>>

BaselineNext ==
    \/ \E pid \in Pids : BaselineMachine(pid)
    \/ \E t \in Tools : ReadAll(t) \/ Ends(t)
    \/ BeginTake \/ OpenForWriting \/ WritePart \/ Saved
    \/ OpenBaseline \/ ReadPart \/ Loaded
    \/ BeginPs \/ ListLive \/ Report

BaselineSpec == BaselineInit /\ [][BaselineNext]_baselineVars
-----------------------------------------------------------------------------
(* DiffAgainstSnapshot, over what was read. *)

\* Mutant: the UID is left out of the key.
KeyOfImage(e) == e.name \o << Bar >> \o e.exe

Key(e) == e.name \o << Bar >> \o e.exe \o << Bar >> \o Digits(e.uid)

LiveEntries == Entries(list["viewer"])
BaseSet == {Key(base[i]) : i \in DOMAIN base}
LiveSet == {Key(LiveEntries[i]) : i \in DOMAIN LiveEntries}

\* Mutant: only what the baseline does not have is entered into liveSet.
MissingFromNew == {i \in DOMAIN base : Key(base[i]) \notin LiveSet \ BaseSet}

\* diff.New and diff.Missing, as positions in the two lists.
New == {i \in DOMAIN LiveEntries : Key(LiveEntries[i]) \notin BaseSet}
Missing == {i \in DOMAIN base : Key(base[i]) \notin LiveSet}

-----------------------------------------------------------------------------
(* Filter.Apply, over what was read. *)

\* Mutant: the parent alone makes a kernel thread.
KernelByParent(p) == p.pid = 2 \/ p.child

IsKernelThread(p) == p.exe = << >> /\ (p.pid = 2 \/ p.child)

Selects(f, p, kernel) ==
    /\ f.text # {} => {p.name, p.args} \cap f.text # {}
    /\ f.uids # {} => p.uid \in f.uids
    /\ f.states # {} => p.state \in f.states
    /\ f.kernel # {} => kernel \in f.kernel

Apply(f) ==
    {i \in DOMAIN list["viewer"] :
        Selects(f, list["viewer"][i], IsKernelThread(list["viewer"][i]))}

-----------------------------------------------------------------------------
(* Properties. *)

Compared == pc["viewer"] = "report" /\ asked = "diff"
Filtered == pc["viewer"] = "report" /\ asked = "ps"

\* How the viewer reads a process that looks so, without an error.
View(look) ==
    [name |-> look.name, uid |-> look.uid,
     exe |-> IF look.uid \in ViewerSees THEN look.exe ELSE << >>]

\* The process with this PID is no difference from the baseline.
NoDifference(pid) ==
    /\ \A i \in New : list["viewer"][i].pid # pid
    /\ \A i \in Missing : base[i] # View(procs[pid])

\* JSON keeps the texts of a process that looks so.
Encodable(look) == Bad \notin {look.name[i] : i \in DOMAIN look.name}
                        \cup {look.exe[i] : i \in DOMAIN look.exe}

(* A process that ran on unchanged from the scan of the snapshot to the end of
   the comparison is neither new nor missing, whatever else happened: other
   processes that came and went, saves that were killed, PIDs that were reused.
   Its exe must be readable to both runs or to neither, and its name and exe
   be text that JSON can hold. *)
SteadyNeverDiffers ==
    Compared => \A pid \in steady["base"] :
        Alike(procs[pid]) /\ Encodable(procs[pid]) => NoDifference(pid)

(* LoadSnapshot gives the last snapshot that a save began to write, whole, or an
   error: never a part of one, and never an earlier one, although the file is
   written in place and saves are killed half way.  Only a save that truncates
   the file during the load can mix two of them. *)
LoadedIsLatest ==
    [][pc["viewer"] = "load" /\ pc'["viewer"] = "list" /\ ~torn
          => Append(base', End) = doc]_baselineVars

\* Nothing happened, and no read failed, from ListPIDs to the report.
Quiet ==
    /\ DOMAIN procs \subseteq steady["live"]
    /\ \A i \in DOMAIN list["viewer"] : list["viewer"][i].pid \in steady["live"]

\* No text that could be taken for the separator of a key.
Plain(e) == Bar \notin {e.name[i] : i \in DOMAIN e.name} \cup {e.exe[i] : i \in DOMAIN e.exe}

(* On a quiet machine the comparison is exact: a process is new if and only if
   the baseline has no entry of its name, exe and UID, and an entry is missing if
   and only if no process has these; but for names and paths with a bar, which
   may be taken for each other. *)
QuietDiffExact ==
    Compared /\ Quiet =>
        /\ \A pid \in DOMAIN procs : Plain(procs[pid]) =>
              ((\E i \in New : list["viewer"][i].pid = pid)
                  <=> ~\E i \in DOMAIN base : base[i] = View(procs[pid]))
        /\ \A i \in DOMAIN base : Plain(base[i]) =>
              (i \in Missing <=> ~\E pid \in DOMAIN procs : View(procs[pid]) = base[i])

(* Whatever ps, zombies or root ask for, they show a process that did not change
   during the scan if and only if it is what they ask for, by its true nature for
   --kernel: but for a process beneath PID 2, or PID 2, whose exe cannot be
   resolved, which is taken for a kernel thread. *)
SteadyListed ==
    Filtered => \A pid \in steady["live"], f \in Filters :
        LET look == procs[pid]
            doubtful == ~look.kernel /\ View(look).exe = << >> /\ (look.child \/ pid = 2)
        IN  f.kernel = {} \/ ~doubtful =>
               (Selects(f, look, look.kernel)
                   <=> \E i \in Apply(f) : list["viewer"][i].pid = pid)
=============================================================================
