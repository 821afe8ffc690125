--------------------------- MODULE BaselineProofs ---------------------------
(***************************************************************************)
(* Proofs about Baseline: what a diff concludes from a baseline and a scan *)
(* that were both made while the machine ran, for every set of processes   *)
(* and looks, and every number of saves, kills and failed reads.           *)
(***************************************************************************)
EXTENDS Baseline, SequenceTheorems, TLAPS

Scanning == {"scan", "exe", "args"}

-----------------------------------------------------------------------------
(* Documents. *)

LEMMA MarshalType ==
    ASSUME NEW e \in SnapshotEntry
    PROVE  Marshal(e) \in SnapshotEntry
<1>1. \A text \in Text : Encoded(text) \in Text
  <2> SUFFICES ASSUME NEW text \in Seq(Nat) PROVE Encoded(text) \in Seq(Nat)
    BY DEF Text
  <2>1. DOMAIN text = 1..Len(text) /\ Len(text) \in Nat /\ \A i \in 1..Len(text) : text[i] \in Nat
    OBVIOUS
  <2> QED
    BY <2>1 DEF Encoded, Replaced
<1> QED
  BY <1>1 DEF Marshal, SnapshotEntry

LEMMA EntriesType ==
    ASSUME NEW ps \in Seq(Process)
    PROVE  /\ Entries(ps) \in Seq(SnapshotEntry)
           /\ DOMAIN Entries(ps) = DOMAIN ps
           /\ Len(Entries(ps)) = Len(ps)
           /\ \A i \in DOMAIN ps : Entries(ps)[i] = EntryOf(ps[i])
<1>1. DOMAIN ps = 1..Len(ps) /\ Len(ps) \in Nat /\ \A i \in 1..Len(ps) : ps[i] \in Process
  OBVIOUS
<1>2. \A p \in Process : EntryOf(p) \in SnapshotEntry
  BY DEF EntryOf, Process, SnapshotEntry
<1>3. Entries(ps) = [i \in 1..Len(ps) |-> EntryOf(ps[i])]
  BY <1>1 DEF Entries
<1> QED
  BY <1>1, <1>2, <1>3

\* A document is its entries, marshalled, and then its end.
IsDocument(d) ==
    d # << >> =>
        /\ d[Len(d)] = End
        /\ \A i \in 1 .. Len(d) - 1 : d[i] \in SnapshotEntry

LEMMA DocumentType ==
    ASSUME NEW es \in Seq(SnapshotEntry)
    PROVE  /\ Document(es) \in Seq(Token)
           /\ IsDocument(Document(es))
           /\ Len(Document(es)) = Len(es) + 1
           /\ \A i \in 1..Len(es) : Document(es)[i] = Marshal(es[i])
<1> DEFINE marshalled == [i \in DOMAIN es |-> Marshal(es[i])]
<1>1. DOMAIN es = 1..Len(es) /\ Len(es) \in Nat /\ \A i \in 1..Len(es) : es[i] \in SnapshotEntry
  OBVIOUS
<1>2. /\ marshalled \in Seq(SnapshotEntry) /\ Len(marshalled) = Len(es)
      /\ \A i \in 1..Len(es) : marshalled[i] = Marshal(es[i])
  BY <1>1, MarshalType
<1>3. marshalled \in Seq(Token) /\ End \in Token
  BY <1>2, SeqMonotonic DEF Token
<1> HIDE DEF marshalled
<1>4. /\ Append(marshalled, End) \in Seq(Token)
      /\ Len(Append(marshalled, End)) = Len(es) + 1
      /\ \A i \in 1..Len(es) : Append(marshalled, End)[i] = marshalled[i]
      /\ Append(marshalled, End)[Len(es) + 1] = End
  BY <1>2, <1>3, AppendProperties
<1>5. Document(es) = Append(marshalled, End)
  BY DEF Document, marshalled
<1>6. \A i \in 1..Len(es) : marshalled[i] \in SnapshotEntry
  BY <1>1, <1>2
<1>7. IsDocument(Document(es))
  BY <1>1, <1>4, <1>5, <1>6 DEF IsDocument
<1> QED
  BY <1>2, <1>4, <1>5, <1>7

\* What Unmarshal accepts is entries and then the end.
LEMMA UnmarshalsSplits ==
    ASSUME NEW tokens \in Seq(Token), Unmarshals(tokens)
    PROVE  /\ SubSeq(tokens, 1, Len(tokens) - 1) \in Seq(SnapshotEntry)
           /\ Len(SubSeq(tokens, 1, Len(tokens) - 1)) = Len(tokens) - 1
           /\ \A i \in 1 .. Len(tokens) - 1 : SubSeq(tokens, 1, Len(tokens) - 1)[i] = tokens[i]
           /\ tokens[Len(tokens)] = End
           /\ Append(SubSeq(tokens, 1, Len(tokens) - 1), End) = tokens
<1>1. DOMAIN tokens = 1..Len(tokens) /\ Len(tokens) \in Nat /\ Len(tokens) > 0
  BY DEF Unmarshals
<1>2. \A i \in 1..Len(tokens) : tokens[i] \in Token
  BY ElementOfSeq
<1>3. \A i \in 1 .. Len(tokens) - 1 : tokens[i] \in SnapshotEntry
  <2> SUFFICES ASSUME NEW i \in 1 .. Len(tokens) - 1 PROVE tokens[i] \in SnapshotEntry
    OBVIOUS
  <2>0. Len(tokens) \in Nat
    BY <1>1
  <2>1. i \in 1..Len(tokens) /\ i # Len(tokens)
    BY <2>0
  <2>2. tokens[i] # End
    BY <1>1, <2>1 DEF Unmarshals
  <2> QED
    BY <1>2, <2>1, <2>2 DEF Token
<1>4. /\ SubSeq(tokens, 1, Len(tokens) - 1) \in Seq(SnapshotEntry)
      /\ Len(SubSeq(tokens, 1, Len(tokens) - 1)) = Len(tokens) - 1
      /\ \A i \in 1 .. Len(tokens) - 1 : SubSeq(tokens, 1, Len(tokens) - 1)[i] = tokens[i]
  BY <1>1, <1>3
<1>5. tokens[Len(tokens)] = End
  <2>1. Len(tokens) \in DOMAIN tokens
    BY <1>1
  <2> QED
    BY <2>1 DEF Unmarshals
<1> DEFINE front == SubSeq(tokens, 1, Len(tokens) - 1)
<1>6. front \in Seq(Token) /\ End \in Token
  BY <1>4, SeqMonotonic DEF Token
<1>7. Append(front, End) = tokens
  <2> HIDE DEF front
  <2>1. Len(front) = Len(tokens) - 1 /\ \A i \in 1 .. Len(tokens) - 1 : front[i] = tokens[i]
    BY <1>4 DEF front
  <2>2. /\ Append(front, End) \in Seq(Token)
        /\ Len(Append(front, End)) = Len(front) + 1
        /\ \A i \in 1..Len(front) : Append(front, End)[i] = front[i]
        /\ Append(front, End)[Len(front) + 1] = End
    BY <1>6, AppendProperties
  <2>3. Len(Append(front, End)) = Len(tokens)
    BY <1>1, <2>1, <2>2
  <2>4. \A i \in 1..Len(tokens) : Append(front, End)[i] = tokens[i]
    BY <1>1, <1>5, <2>1, <2>2
  <2> QED
    BY <2>2, <2>3, <2>4, SeqEqual
<1> QED
  BY <1>4, <1>5, <1>7

-----------------------------------------------------------------------------
(* Type correctness. *)

LEMMA NobodyType == Nobody \in Process
<1>1. << >> \in Text
  BY DEF Text
<1> QED
  BY <1>1 DEF Nobody, Process, States

LEMMA BaselineInitial == BaselineInit => BaselineTypeOK
<1> SUFFICES ASSUME BaselineInit PROVE BaselineTypeOK
  OBVIOUS
<1>1. DOMAIN procs \subseteq Pids /\ procs \in [DOMAIN procs -> Looks]
  BY DEF BaselineInit
<1>2. cur \in [Tools -> Process] /\ todo \in [Tools -> SUBSET Pids] /\ steady \in [Spans -> SUBSET Pids]
  BY NobodyType DEF BaselineInit
<1>3. file \in Seq(Token) /\ doc \in Seq(Token) /\ data \in Seq(Token) /\ base \in Seq(SnapshotEntry)
  BY DEF BaselineInit
<1>4. list \in [Tools -> Seq(Process)]
  BY DEF BaselineInit
<1> QED
  BY <1>1, <1>2, <1>3, <1>4 DEF BaselineInit, BaselineTypeOK

LEMMA UnreadType ==
    ASSUME BaselineTypeOK, NEW t \in Tools, NEW pid, Unread(t, pid)
    PROVE  steady' \in [Spans -> SUBSET Pids]
BY DEF BaselineTypeOK, Unread

LEMMA MachineType ==
    ASSUME BaselineTypeOK, NEW pid \in Pids, BaselineMachine(pid)
    PROVE  BaselineTypeOK'
<1>1. DOMAIN procs' \subseteq Pids /\ procs' \in [DOMAIN procs' -> Looks]
  <2>1. CASE Birth(pid)
    BY <2>1 DEF Birth, BaselineTypeOK
  <2>2. CASE Become(pid)
    BY <2>2 DEF Become, BaselineTypeOK, Running
  <2>3. CASE Reap(pid)
    BY <2>3 DEF Reap, BaselineTypeOK
  <2> QED
    BY <2>1, <2>2, <2>3 DEF BaselineMachine
<1>2. moves' \in Nat /\ steady' \in [Spans -> SUBSET Pids]
  BY DEF BaselineTypeOK, BaselineMachine, Move, Unsteady
<1> QED
  BY <1>1, <1>2 DEF BaselineTypeOK, BaselineMachine, toolVars

LEMMA ReadAllType ==
    ASSUME BaselineTypeOK, NEW t \in Tools, ReadAll(t)
    PROVE  BaselineTypeOK'
<1>1. CASE \E pid \in Pids : SkipProcess(t, pid)
  <2> PICK pid \in Pids : SkipProcess(t, pid)
    BY <1>1
  <2>1. moves' \in Nat /\ todo' \in [Tools -> SUBSET Pids] /\ steady' \in [Spans -> SUBSET Pids]
    BY UnreadType DEF SkipProcess, BaselineTypeOK, Move
  <2> QED
    BY <2>1 DEF SkipProcess, BaselineTypeOK
<1>2. CASE \E pid \in Pids : ReadStatus(t, pid)
  <2> PICK pid \in Pids : ReadStatus(t, pid)
    BY <1>2
  <2>1. procs[pid] \in Look /\ pid \in Nat
    BY PidsAssumption, LooksAssumption DEF ReadStatus, Running, BaselineTypeOK
  <2>2. [pid |-> pid, name |-> procs[pid].name, exe |-> << >>, args |-> << >>,
         uid |-> procs[pid].uid, state |-> procs[pid].state, child |-> procs[pid].child] \in Process
    BY <2>1 DEF Look, Process, Text
  <2>3. cur' \in [Tools -> Process]
    BY <2>2 DEF ReadStatus, BaselineTypeOK
  <2> QED
    BY <2>3 DEF ReadStatus, BaselineTypeOK
<1>3. CASE ReadExe(t)
  <2>1. moves' \in Nat /\ steady' \in [Spans -> SUBSET Pids]
    BY <1>3, UnreadType DEF ReadExe, BaselineTypeOK, Move
  <2>2. cur' \in [Tools -> Process]
    <3>1. CASE Resolves(t, cur[t].pid) /\ cur' = [cur EXCEPT ![t].exe = procs[cur[t].pid].exe]
      <4>1. procs[cur[t].pid].exe \in Text /\ cur[t] \in Process
        BY <3>1, LooksAssumption DEF Resolves, Running, BaselineTypeOK, Look
      <4> QED
        BY <3>1, <4>1 DEF BaselineTypeOK, Process
    <3>2. CASE UNCHANGED cur
      BY <3>2 DEF BaselineTypeOK
    <3> QED
      BY <1>3, <3>1, <3>2 DEF ReadExe
  <2> QED
    BY <1>3, <2>1, <2>2 DEF ReadExe, BaselineTypeOK
<1>4. CASE ReadCmdline(t)
  <2>1. moves' \in Nat /\ steady' \in [Spans -> SUBSET Pids] /\ todo' \in [Tools -> SUBSET Pids]
    BY <1>4, UnreadType DEF ReadCmdline, BaselineTypeOK, Move
  <2>2. cur' \in [Tools -> Process]
    BY <1>4, NobodyType DEF ReadCmdline, BaselineTypeOK
  <2>3. list' \in [Tools -> Seq(Process)]
    <3>1. CASE Running(cur[t].pid) /\ list' = [list EXCEPT ![t] =
                  Append(@, [cur[t] EXCEPT !.args = procs[cur[t].pid].args])]
      <4>1. procs[cur[t].pid].args \in Text /\ cur[t] \in Process /\ list[t] \in Seq(Process)
        BY <3>1, LooksAssumption DEF Running, BaselineTypeOK, Look
      <4>2. [cur[t] EXCEPT !.args = procs[cur[t].pid].args] \in Process
        BY <4>1 DEF Process
      <4>3. Append(list[t], [cur[t] EXCEPT !.args = procs[cur[t].pid].args]) \in Seq(Process)
        BY <4>1, <4>2
      <4> QED
        BY <3>1, <4>3 DEF BaselineTypeOK
    <3>2. CASE list' = [list EXCEPT ![t] = Append(@, cur[t])]
      <4>1. Append(list[t], cur[t]) \in Seq(Process)
        BY DEF BaselineTypeOK
      <4> QED
        BY <3>2, <4>1 DEF BaselineTypeOK
    <3> QED
      BY <1>4, <3>1, <3>2 DEF ReadCmdline
  <2> QED
    BY <1>4, <2>1, <2>2, <2>3 DEF ReadCmdline, BaselineTypeOK
<1> QED
  BY <1>1, <1>2, <1>3, <1>4 DEF ReadAll

\* The saver's own steps.
LEMMA SaveType ==
    ASSUME BaselineTypeOK, BeginTake \/ OpenForWriting \/ WritePart \/ Saved
    PROVE  BaselineTypeOK'
<1>1. CASE BeginTake
  BY <1>1 DEF BeginTake, BaselineTypeOK, Move, Tools, Spans
<1>2. CASE OpenForWriting
  <2>1. list["saver"] \in Seq(Process)
    BY DEF BaselineTypeOK, Tools
  <2>2. doc' \in Seq(Token)
    BY <1>2, <2>1, EntriesType, DocumentType DEF OpenForWriting
  <2>3. << >> \in Seq(Process) /\ << >> \in Seq(Token)
    OBVIOUS
  <2>4. list' \in [Tools -> Seq(Process)] /\ file' \in Seq(Token)
    BY <1>2, <2>3 DEF OpenForWriting, BaselineTypeOK
  <2>5. steady' \in [Spans -> SUBSET Pids]
    BY <1>2 DEF OpenForWriting, BaselineTypeOK, Spans
  <2> QED
    BY <1>2, <2>2, <2>4, <2>5 DEF OpenForWriting, BaselineTypeOK
<1>3. CASE WritePart
  <2> PICK n \in Len(file) + 1 .. Len(doc) : file' = SubSeq(doc, 1, n)
    BY <1>3 DEF WritePart
  <2>1. file' \in Seq(Token)
    BY DEF BaselineTypeOK
  <2> QED
    BY <1>3, <2>1 DEF WritePart, BaselineTypeOK
<1>4. CASE Saved
  BY <1>4 DEF Saved, BaselineTypeOK
<1> QED
  BY <1>1, <1>2, <1>3, <1>4

\* The viewer's.
LEMMA ViewType ==
    ASSUME BaselineTypeOK,
           OpenBaseline \/ ReadPart \/ Loaded \/ BeginPs \/ ListLive \/ Report
    PROVE  BaselineTypeOK'
<1>1. CASE OpenBaseline
  BY <1>1 DEF OpenBaseline, BaselineTypeOK
<1>2. CASE ReadPart
  <2> PICK n \in Len(data) + 1 .. Len(file) : data' = data \o SubSeq(file, Len(data) + 1, n)
    BY <1>2 DEF ReadPart
  <2>1. Len(data) \in Nat /\ data \in Seq(Token) /\ file \in Seq(Token)
    BY DEF BaselineTypeOK
  <2>2. SubSeq(file, Len(data) + 1, n) \in Seq(Token)
    BY <2>1
  <2>3. data' \in Seq(Token)
    BY <2>1, <2>2
  <2> QED
    BY <1>2, <2>3 DEF ReadPart, BaselineTypeOK
<1>3. CASE Loaded
  <2>1. data \in Seq(Token) /\ data' \in Seq(Token)
    BY <1>3 DEF Loaded, BaselineTypeOK
  <2>3. steady' \in [Spans -> SUBSET Pids]
    <3>1. (IF torn THEN {} ELSE steady["file"]) \in SUBSET Pids
      BY DEF BaselineTypeOK, Spans
    <3> QED
      BY <1>3, <3>1 DEF Loaded, BaselineTypeOK
  <2>2. base' \in Seq(SnapshotEntry)
    BY <1>3, <2>1, UnmarshalsSplits DEF Loaded, BaselineTypeOK
  <2> QED
    BY <1>3, <2>1, <2>2, <2>3 DEF Loaded, BaselineTypeOK
<1>4. CASE BeginPs
  BY <1>4 DEF BeginPs, BaselineTypeOK
<1>5. CASE ListLive
  BY <1>5 DEF ListLive, BaselineTypeOK, Tools, Spans
<1>6. CASE Report
  BY <1>6 DEF Report, BaselineTypeOK
<1> QED
  BY <1>1, <1>2, <1>3, <1>4, <1>5, <1>6

LEMMA EndsType ==
    ASSUME BaselineTypeOK, NEW t \in Tools, Ends(t)
    PROVE  BaselineTypeOK'
<1>1. << >> \in Seq(Process) /\ << >> \in Seq(Token) /\ << >> \in Seq(SnapshotEntry)
  OBVIOUS
<1>2. list' \in [Tools -> Seq(Process)] /\ cur' \in [Tools -> Process]
  BY <1>1, NobodyType DEF Ends, BaselineTypeOK
<1>3. data' \in Seq(Token) /\ base' \in Seq(SnapshotEntry)
  BY <1>1 DEF Ends, BaselineTypeOK
<1>4. steady' \in [Spans -> SUBSET Pids] /\ todo' \in [Tools -> SUBSET Pids]
  BY DEF Ends, BaselineTypeOK
<1> QED
  BY <1>2, <1>3, <1>4 DEF Ends, BaselineTypeOK

LEMMA TypeStep == BaselineTypeOK /\ [BaselineNext]_baselineVars => BaselineTypeOK'
<1>1. BaselineTypeOK /\ UNCHANGED baselineVars => BaselineTypeOK'
  BY DEF BaselineTypeOK, baselineVars, toolVars
<1> QED
  BY <1>1, MachineType, ReadAllType, SaveType, ViewType, EndsType DEF BaselineNext

(* The state of `snapshot`, `diff` and `ps` has its type in every behaviour. *)
THEOREM BaselineTypeCorrect == BaselineSpec => []BaselineTypeOK
BY BaselineInitial, TypeStep, PTL DEF BaselineSpec

-----------------------------------------------------------------------------
(* The file holds a part of the last document, and so does what was read of it. *)

Prefix(a, b) == Len(a) <= Len(b) /\ \A i \in 1..Len(a) : a[i] = b[i]

DocInv ==
    /\ IsDocument(doc)
    /\ Prefix(file, doc)
    /\ pc["viewer"] = "load" /\ ~torn => Prefix(data, doc)
    /\ pc["viewer"] # "load" => data = << >>

LEMMA DocInitial == BaselineInit => DocInv
<1> SUFFICES ASSUME BaselineInit PROVE DocInv
  OBVIOUS
<1>1. pc["viewer"] = "idle"
  BY DEF BaselineInit, Tools
<1> QED
  BY <1>1 DEF BaselineInit, DocInv, IsDocument, Prefix

\* A tool that reads /proc leaves all of it alone.
LEMMA ScanKeepsDoc ==
    ASSUME BaselineTypeOK, DocInv, NEW t \in Tools, ReadAll(t)
    PROVE  DocInv' /\ (pc'["viewer"] = "list" => pc["viewer"] = "list")
<1>1. UNCHANGED <<file, doc, data, torn>>
  BY DEF ReadAll, SkipProcess, ReadStatus, ReadExe, ReadCmdline
<1>2. /\ pc'["viewer"] = "load" <=> pc["viewer"] = "load"
      /\ pc'["viewer"] = "list" => pc["viewer"] = "list"
  BY DEF ReadAll, SkipProcess, ReadStatus, ReadExe, ReadCmdline, BaselineTypeOK, Tools
<1> QED
  BY <1>1, <1>2 DEF DocInv, IsDocument, Prefix

LEMMA SaveKeepsDoc ==
    ASSUME BaselineTypeOK, DocInv, BeginTake \/ OpenForWriting \/ WritePart \/ Saved
    PROVE  DocInv' /\ pc'["viewer"] = pc["viewer"]
<1>1. pc'["viewer"] = pc["viewer"] /\ UNCHANGED data
  BY DEF BeginTake, OpenForWriting, WritePart, Saved, BaselineTypeOK, Tools
<1>2. CASE BeginTake \/ Saved
  <2>1. UNCHANGED <<file, doc, torn>>
    BY <1>2 DEF BeginTake, Saved
  <2> QED
    BY <1>1, <2>1 DEF DocInv, IsDocument, Prefix
<1>3. CASE OpenForWriting
  <2>1. list["saver"] \in Seq(Process)
    BY DEF BaselineTypeOK, Tools
  <2>2. IsDocument(doc)' /\ doc' \in Seq(Token)
    BY <1>3, <2>1, EntriesType, DocumentType DEF OpenForWriting, IsDocument
  <2>3. file' = << >> /\ Len(doc') \in Nat /\ torn' = (pc["viewer"] = "load")
    BY <1>3, <2>2 DEF OpenForWriting
  <2>4. Prefix(file', doc')
    BY <2>3 DEF Prefix
  <2>5. pc["viewer"] = "load" => torn'
    BY <2>3
  <2> QED
    BY <1>1, <2>2, <2>4, <2>5 DEF DocInv, Prefix
<1>4. CASE WritePart
  <2> PICK n \in Len(file) + 1 .. Len(doc) : file' = SubSeq(doc, 1, n)
    BY <1>4 DEF WritePart
  <2>1. doc \in Seq(Token) /\ Len(doc) \in Nat /\ Len(file) \in Nat /\ n \in Nat /\ 1 <= n /\ n <= Len(doc)
    BY DEF BaselineTypeOK
  <2>2. \A i \in 1..n : doc[i] \in Token
    BY <2>1, ElementOfSeq
  <2>3. Len(file') = n /\ \A i \in 1..n : file'[i] = doc[i]
    BY <2>1, <2>2, SubSeqProperties
  <2>4. UNCHANGED <<doc, torn>>
    BY <1>4 DEF WritePart
  <2> QED
    BY <1>1, <2>1, <2>3, <2>4 DEF DocInv, IsDocument, Prefix
<1> QED
  BY <1>1, <1>2, <1>3, <1>4

\* What is loaded without a tear is the whole of the last document.
LEMMA LoadedWhole ==
    ASSUME BaselineTypeOK, DocInv, Loaded, Unmarshals(data), ~torn
    PROVE  data = doc
<1>1. Prefix(data, doc) /\ data \in Seq(Token) /\ doc \in Seq(Token) /\ Len(data) \in Nat /\ Len(doc) \in Nat
  BY DEF DocInv, Loaded, BaselineTypeOK
<1>2. Len(data) > 0 /\ data[Len(data)] = End
  BY UnmarshalsSplits, <1>1 DEF Unmarshals
<1>3. Len(data) <= Len(doc) /\ doc[Len(data)] = End
  BY <1>1, <1>2 DEF Prefix
<1>4. \A i \in 1 .. Len(doc) - 1 : doc[i] # End
  BY <1>1, <1>3, <1>2, LooksAssumption DEF DocInv, IsDocument
<1>5. Len(data) = Len(doc)
  BY <1>1, <1>2, <1>3, <1>4
<1> QED
  BY <1>1, <1>5, SeqEqual DEF Prefix

LEMMA ViewKeepsDoc ==
    ASSUME BaselineTypeOK, DocInv,
           OpenBaseline \/ ReadPart \/ Loaded \/ BeginPs \/ ListLive \/ Report
    PROVE  DocInv'
<1>1. UNCHANGED <<file, doc>>
  BY DEF OpenBaseline, ReadPart, Loaded, BeginPs, ListLive, Report
<1>2. CASE OpenBaseline
  <2>1. data = << >> /\ pc'["viewer"] = "load" /\ Len(doc) \in Nat /\ UNCHANGED data
    BY <1>2 DEF OpenBaseline, DocInv, BaselineTypeOK, Tools
  <2> QED
    BY <1>1, <2>1 DEF DocInv, IsDocument, Prefix
<1>3. CASE ReadPart
  <2>1. UNCHANGED torn /\ pc' = pc /\ pc["viewer"] = "load"
    BY <1>3 DEF ReadPart
  <2>2. ASSUME ~torn PROVE Prefix(data', doc)
    <3> PICK n \in Len(data) + 1 .. Len(file) : data' = data \o SubSeq(file, Len(data) + 1, n)
      BY <1>3 DEF ReadPart
    <3>1. /\ data \in Seq(Token) /\ file \in Seq(Token) /\ Len(data) \in Nat /\ Len(file) \in Nat
          /\ Len(doc) \in Nat /\ n \in Nat /\ Len(data) + 1 <= n /\ n <= Len(file)
      BY DEF BaselineTypeOK
    <3>2. \A i \in Len(data) + 1 .. n : file[i] \in Token
      BY <3>1, ElementOfSeq
    <3> DEFINE part == SubSeq(file, Len(data) + 1, n)
    <3>3. /\ part \in Seq(Token) /\ Len(part) = n - Len(data)
          /\ \A i \in 1 .. n - Len(data) : part[i] = file[Len(data) + i]
      BY <3>1, <3>2, SubSeqProperties
    <3> HIDE DEF part
    <3>4. /\ Len(data \o part) = n
          /\ \A i \in 1..n : (data \o part)[i] = IF i <= Len(data) THEN data[i] ELSE file[i]
      BY <3>1, <3>3, ConcatProperties
    <3>5. Prefix(data, doc) /\ Prefix(file, doc)
      BY <2>1, <2>2 DEF DocInv
    <3>6. \A i \in 1..n : (data \o part)[i] = doc[i]
      BY <3>1, <3>4, <3>5 DEF Prefix
    <3>7. Len(data \o part) <= Len(doc)
      BY <3>1, <3>4, <3>5 DEF Prefix
    <3> QED
      BY <3>4, <3>6, <3>7 DEF Prefix, part
  <2> QED
    BY <1>1, <2>1, <2>2 DEF DocInv, IsDocument, Prefix
<1>4. CASE Loaded
  <2>1. data' = << >> /\ pc'["viewer"] # "load"
    BY <1>4 DEF Loaded, BaselineTypeOK, Tools
  <2> QED
    BY <1>1, <2>1 DEF DocInv, IsDocument, Prefix
<1>5. CASE BeginPs \/ ListLive \/ Report
  <2>1. data' = data /\ pc'["viewer"] # "load" /\ pc["viewer"] # "load"
    BY <1>5 DEF BeginPs, ListLive, Report, BaselineTypeOK, Tools
  <2> QED
    BY <1>1, <2>1 DEF DocInv, IsDocument, Prefix
<1> QED
  BY <1>2, <1>3, <1>4, <1>5

LEMMA EndsKeepsDoc ==
    ASSUME BaselineTypeOK, DocInv, NEW t \in Tools, Ends(t)
    PROVE  DocInv' /\ (pc'["viewer"] # "list" \/ pc'["viewer"] = pc["viewer"])
<1>1. UNCHANGED <<file, doc, torn>>
  BY DEF Ends
<1>2. CASE t = "viewer"
  <2>1. data' = << >> /\ pc'["viewer"] = "idle"
    BY <1>2 DEF Ends, BaselineTypeOK
  <2> QED
    BY <1>1, <2>1 DEF DocInv, IsDocument, Prefix
<1>3. CASE t = "saver"
  <2>1. data' = data /\ pc'["viewer"] = pc["viewer"]
    BY <1>3 DEF Ends, BaselineTypeOK, Tools
  <2> QED
    BY <1>1, <2>1 DEF DocInv, IsDocument, Prefix
<1> QED
  BY <1>2, <1>3 DEF Tools

LEMMA DocStep == BaselineTypeOK /\ DocInv /\ [BaselineNext]_baselineVars => DocInv'
<1> SUFFICES ASSUME BaselineTypeOK, DocInv, [BaselineNext]_baselineVars PROVE DocInv'
  OBVIOUS
<1>1. ASSUME UNCHANGED toolVars PROVE DocInv'
  <2>1. UNCHANGED <<file, doc, data, torn, pc>>
    BY <1>1 DEF toolVars
  <2> QED
    BY <2>1 DEF DocInv, IsDocument, Prefix
<1>2. (\E pid \in Pids : BaselineMachine(pid)) \/ UNCHANGED baselineVars => UNCHANGED toolVars
  BY DEF BaselineMachine, baselineVars
<1> QED
  BY <1>1, <1>2, ScanKeepsDoc, SaveKeepsDoc, ViewKeepsDoc, EndsKeepsDoc DEF BaselineNext

LEMMA LatestStep ==
    ASSUME BaselineTypeOK, DocInv, BaselineNext,
           pc["viewer"] = "load", pc'["viewer"] = "list", ~torn
    PROVE  Append(base', End) = doc
<1>1. CASE Loaded
  <2>1. Unmarshals(data) /\ base' = SubSeq(data, 1, Len(data) - 1)
    BY <1>1 DEF Loaded, BaselineTypeOK, Tools
  <2> QED
    BY <1>1, <2>1, LoadedWhole, UnmarshalsSplits DEF BaselineTypeOK
<1>2. CASE \E pid \in Pids : BaselineMachine(pid)
  BY <1>2 DEF BaselineMachine, toolVars
<1>3. CASE OpenBaseline \/ ReadPart \/ BeginPs \/ ListLive \/ Report
  BY <1>3 DEF OpenBaseline, ReadPart, BeginPs, ListLive, Report, BaselineTypeOK, Tools
<1> QED
  BY <1>1, <1>2, <1>3, ScanKeepsDoc, SaveKeepsDoc, EndsKeepsDoc DEF BaselineNext

(* LoadSnapshot gives the last snapshot that a save began to write, whole, or an
   error, unless a save truncates the file in the middle of the load. *)
THEOREM LoadsTheLatest == BaselineSpec => LoadedIsLatest
<1>1. BaselineTypeOK /\ DocInv /\ [BaselineNext]_baselineVars
        => [pc["viewer"] = "load" /\ pc'["viewer"] = "list" /\ ~torn
              => Append(base', End) = doc]_baselineVars
  BY LatestStep
<1> QED
  BY <1>1, BaselineInitial, TypeStep, DocInitial, DocStep, PTL DEF BaselineSpec, LoadedIsLatest

-----------------------------------------------------------------------------
(* What is steady is read as it is, saved as it is read, and loaded. *)

\* How tool t reads a process that looks so, without an error.
ViewOf(t, look) ==
    [name |-> look.name, exe |-> IF look.uid \in Sees(t) THEN look.exe ELSE << >>, uid |-> look.uid]

\* The span whose processes tool t must have read without an error.
SpanOf(t) == IF t = "saver" THEN "taken" ELSE "base"
SteadyFor(t) == steady[SpanOf(t)]

\* What was steady runs.
SteadyRun == \A s \in Spans : steady[s] \subseteq DOMAIN procs

\* It is listed and to be read, or was read.
SteadyRead ==
    \A t \in Tools : pc[t] \in Scanning \cup {"report"} =>
        \A pid \in SteadyFor(t) : pid \in todo[t] \/ \E i \in DOMAIN list[t] : list[t][i].pid = pid

\* It was read as it is, and so far as ReadProcess got, the one in hand too.
SteadyAsIs ==
    \A t \in Tools : \A i \in DOMAIN list[t] :
        list[t][i].pid \in SteadyFor(t) => EntryOf(list[t][i]) = ViewOf(t, procs[list[t][i].pid])
SteadyInHand ==
    \A t \in Tools : cur[t].pid \in SteadyFor(t) =>
        LET look == procs[cur[t].pid] IN
        /\ pc[t] = "exe" => EntryOf(cur[t]) = [name |-> look.name, exe |-> << >>, uid |-> look.uid]
        /\ pc[t] = "args" => EntryOf(cur[t]) = ViewOf(t, look)

\* It is in the document, and in the baseline that was loaded from it.
SteadySaved ==
    \A pid \in steady["file"] :
        \E i \in 1 .. Len(doc) - 1 : doc[i] = Marshal(ViewOf("saver", procs[pid]))
SteadyLoaded ==
    \A pid \in steady["base"] :
        \E i \in DOMAIN base : base[i] = Marshal(ViewOf("saver", procs[pid]))

\* Where a tool is between two scans it has no list and nothing steady.
Between ==
    /\ \A t \in Tools : pc[t] \notin Scanning \cup {"report"} => list[t] = << >>
    /\ pc["saver"] \notin Scanning => steady["taken"] = {}
    /\ pc["viewer"] \in {"idle", "load"} => steady["base"] = {}
    /\ pc["viewer"] = "report" => todo["viewer"] = {}

SteadyInv ==
    /\ BaselineTypeOK /\ DocInv
    /\ SteadyRun /\ SteadyRead /\ SteadyAsIs /\ SteadyInHand
    /\ SteadySaved /\ SteadyLoaded /\ Between

LEMMA SteadyInitial == BaselineInit => SteadyInv
<1> SUFFICES ASSUME BaselineInit PROVE SteadyInv
  OBVIOUS
<1>1. \A s \in Spans : steady[s] = {}
  BY DEF BaselineInit
<1>2. \A t \in Tools : pc[t] = "idle" /\ list[t] = << >> /\ todo[t] = {} /\ SteadyFor(t) = {}
  BY <1>1 DEF BaselineInit, SteadyFor, SpanOf, Spans
<1>3. steady["taken"] = {} /\ steady["base"] = {} /\ steady["file"] = {}
  BY <1>1 DEF Spans
<1> QED
  BY <1>1, <1>2, <1>3, BaselineInitial, DocInitial
     DEF SteadyInv, SteadyRun, SteadyRead, SteadyAsIs, SteadyInHand, SteadySaved, SteadyLoaded,
         Between, Tools, Scanning

\* A step of the machine takes its PID out of every span and leaves the others' looks alone.
LEMMA MachineKeepsSteady ==
    ASSUME SteadyInv, NEW pid \in Pids, BaselineMachine(pid)
    PROVE  SteadyInv'
<1>1. BaselineTypeOK' /\ DocInv'
  BY TypeStep, DocStep DEF SteadyInv, BaselineNext
<1>2. UNCHANGED <<pc, todo, cur, list, doc, base>>
  BY DEF BaselineMachine, toolVars
<1>3. \A s \in Spans : steady'[s] = steady[s] \ {pid}
  BY DEF BaselineMachine, Unsteady
<1>4. \A q \in DOMAIN procs : q # pid => q \in DOMAIN procs' /\ procs'[q] = procs[q]
  BY DEF BaselineMachine, Birth, Become, Reap
<1>5. SteadyRun'
  BY <1>3, <1>4 DEF SteadyInv, SteadyRun
<1>6. \A t \in Tools : SteadyFor(t)' = SteadyFor(t) \ {pid}
  BY <1>3 DEF SteadyFor, SpanOf, Spans
<1>7. \A s \in Spans : \A q \in steady'[s] : q \in steady[s] /\ procs'[q] = procs[q]
  BY <1>3, <1>4 DEF SteadyInv, SteadyRun
<1>8. \A t \in Tools : \A q \in SteadyFor(t)' : q \in SteadyFor(t) /\ procs'[q] = procs[q]
  BY <1>7 DEF SteadyFor, SpanOf, Spans
<1>9. SteadyRead' /\ Between'
  BY <1>2, <1>3, <1>6 DEF SteadyInv, SteadyRead, Between, Spans
<1>10. SteadyAsIs' /\ SteadyInHand'
  BY <1>2, <1>8 DEF SteadyInv, SteadyAsIs, SteadyInHand, ViewOf
<1>11. SteadySaved' /\ SteadyLoaded'
  <2>1. "file" \in Spans /\ "base" \in Spans
    BY DEF Spans
  <2> QED
    BY <1>2, <1>7, <2>1 DEF SteadyInv, SteadySaved, SteadyLoaded, ViewOf
<1> QED
  BY <1>1, <1>5, <1>9, <1>10, <1>11 DEF SteadyInv

\* A read that fails takes its PID out of the reader's spans.
LEMMA UnreadSpans ==
    ASSUME BaselineTypeOK, NEW t \in Tools, NEW pid, Unread(t, pid)
    PROVE  /\ \A s \in Spans : steady'[s] \subseteq steady[s]
           /\ SteadyFor(t)' = SteadyFor(t) \ {pid}
           /\ \A u \in Tools : u # t => SteadyFor(u)' = SteadyFor(u)
           /\ steady'["file"] = steady["file"]
BY DEF BaselineTypeOK, Unread, SteadyFor, SpanOf, Spans, Tools

\* What a scan does not touch.
LEMMA ScanLeaves ==
    ASSUME SteadyInv, UNCHANGED <<procs, doc, base>>,
           \A s \in Spans : steady'[s] \subseteq steady[s]
    PROVE  SteadyRun' /\ SteadySaved' /\ SteadyLoaded'
<1>1. "file" \in Spans /\ "base" \in Spans
  BY DEF Spans
<1>2. SteadyRun'
  BY DEF SteadyInv, SteadyRun
<1>3. SteadySaved' /\ SteadyLoaded'
  BY <1>1 DEF SteadyInv, SteadySaved, SteadyLoaded, ViewOf
<1> QED
  BY <1>2, <1>3

LEMMA SkipKeepsSteady ==
    ASSUME SteadyInv, NEW t \in Tools, NEW pid \in Pids, SkipProcess(t, pid)
    PROVE  SteadyInv'
<1> USE DEF SteadyInv
<1>1. BaselineTypeOK' /\ DocInv'
  BY TypeStep, DocStep DEF BaselineNext, ReadAll
<1>2. UNCHANGED <<procs, pc, cur, list, doc, base>> /\ pc[t] = "scan"
  BY DEF SkipProcess
<1>3. /\ \A s \in Spans : steady'[s] \subseteq steady[s]
      /\ SteadyFor(t)' = SteadyFor(t) \ {pid}
      /\ \A u \in Tools : u # t => SteadyFor(u)' = SteadyFor(u)
  BY UnreadSpans DEF SkipProcess
<1>4. SteadyRun' /\ SteadySaved' /\ SteadyLoaded'
  BY <1>2, <1>3, ScanLeaves
<1>5. /\ todo'[t] = todo[t] \ {pid}
      /\ \A u \in Tools : u # t => todo'[u] = todo[u]
  BY DEF SkipProcess, BaselineTypeOK
<1>6. SteadyRead'
  BY <1>2, <1>3, <1>5 DEF SteadyRead
<1>7. SteadyAsIs' /\ SteadyInHand'
  BY <1>2, <1>3 DEF SteadyAsIs, SteadyInHand, ViewOf
<1>8. Between'
  <2>1. "taken" \in Spans /\ "base" \in Spans
    BY DEF Spans
  <2> QED
    BY <1>2, <1>3, <1>5, <2>1 DEF Between, Tools
<1> QED
  BY <1>1, <1>4, <1>6, <1>7, <1>8

LEMMA ReadStatusKeepsSteady ==
    ASSUME SteadyInv, NEW t \in Tools, NEW pid \in Pids, ReadStatus(t, pid)
    PROVE  SteadyInv'
<1> USE DEF SteadyInv
<1>1. BaselineTypeOK' /\ DocInv'
  BY TypeStep, DocStep DEF BaselineNext, ReadAll
<1>2. UNCHANGED <<procs, todo, list, doc, base, steady>> /\ pc[t] = "scan"
  BY DEF ReadStatus
<1>3. SteadyRun' /\ SteadySaved' /\ SteadyLoaded'
  BY <1>2, ScanLeaves
<1>4. /\ pc'[t] = "exe" /\ \A u \in Tools : u # t => pc'[u] = pc[u]
      /\ cur'[t].pid = pid
      /\ EntryOf(cur'[t]) = [name |-> procs[pid].name, exe |-> << >>, uid |-> procs[pid].uid]
      /\ \A u \in Tools : u # t => cur'[u] = cur[u]
  BY DEF ReadStatus, BaselineTypeOK, EntryOf
<1>5. SteadyRead' /\ SteadyAsIs'
  BY <1>2, <1>4 DEF SteadyRead, SteadyAsIs, SteadyFor, ViewOf, Scanning
<1>6. SteadyInHand'
  BY <1>2, <1>4 DEF SteadyInHand, SteadyFor, ViewOf
<1>7. Between'
  BY <1>2, <1>4 DEF Between, Scanning, Tools
<1> QED
  BY <1>1, <1>3, <1>5, <1>6, <1>7

LEMMA ReadExeKeepsSteady ==
    ASSUME SteadyInv, NEW t \in Tools, ReadExe(t)
    PROVE  SteadyInv'
<1> USE DEF SteadyInv
<1>1. BaselineTypeOK' /\ DocInv'
  BY TypeStep, DocStep DEF BaselineNext, ReadAll
<1>2. UNCHANGED <<procs, todo, list, doc, base>> /\ pc[t] = "exe"
  BY DEF ReadExe
<1>3. /\ pc'[t] = "args" /\ \A u \in Tools : u # t => pc'[u] = pc[u]
      /\ \A u \in Tools : u # t => cur'[u] = cur[u]
      /\ \A u \in Tools : cur'[u].pid = cur[u].pid
  <2>1. pc'[t] = "args" /\ \A u \in Tools : u # t => pc'[u] = pc[u]
    BY DEF ReadExe, BaselineTypeOK
  <2>2. CASE UNCHANGED cur
    BY <2>1, <2>2
  <2>3. CASE cur' = [cur EXCEPT ![t].exe = procs[cur[t].pid].exe]
    <3>1. cur \in [Tools -> Process]
      BY DEF BaselineTypeOK
    <3> QED
      BY <2>1, <2>3, <3>1 DEF Process
  <2> QED
    BY <2>2, <2>3 DEF ReadExe
<1>4. /\ \A s \in Spans : steady'[s] \subseteq steady[s]
      /\ \A u \in Tools : SteadyFor(u)' \subseteq SteadyFor(u)
  BY UnreadSpans DEF ReadExe, SteadyFor
<1>5. SteadyRun' /\ SteadySaved' /\ SteadyLoaded'
  BY <1>2, <1>4, ScanLeaves
<1>6. SteadyRead' /\ SteadyAsIs'
  BY <1>2, <1>3, <1>4 DEF SteadyRead, SteadyAsIs, ViewOf, Scanning
<1>7. SteadyInHand'
  <2> DEFINE q == cur[t].pid
  <2>1. ASSUME q \in SteadyFor(t)' PROVE EntryOf(cur'[t]) = ViewOf(t, procs[q])
    <3>1. q \in SteadyFor(t) /\ Running(q)
      BY <1>4, <2>1 DEF SteadyRun, SteadyFor, SpanOf, Spans, Running
    <3>2. EntryOf(cur[t]) = [name |-> procs[q].name, exe |-> << >>, uid |-> procs[q].uid]
      BY <1>2, <3>1 DEF SteadyInHand
    <3>3. CASE Resolves(t, q) /\ cur' = [cur EXCEPT ![t].exe = procs[q].exe]
      <4>1. /\ cur'[t].name = cur[t].name /\ cur'[t].uid = cur[t].uid
            /\ cur'[t].exe = procs[q].exe
        BY <3>3 DEF BaselineTypeOK, Process
      <4> QED
        BY <3>2, <3>3, <4>1 DEF EntryOf, ViewOf, Resolves
    <3>4. CASE ~Resolves(t, q) /\ UNCHANGED cur
      BY <3>1, <3>2, <3>4 DEF EntryOf, ViewOf, Resolves
    <3>5. CASE Unread(t, q)
      BY <2>1, <3>5, UnreadSpans
    <3> QED
      BY <3>3, <3>4, <3>5 DEF ReadExe
  <2>2. \A u \in Tools : u # t => SteadyFor(u)' \subseteq SteadyFor(u)
    BY <1>4
  <2> QED
    BY <1>2, <1>3, <2>1, <2>2 DEF SteadyInHand, ViewOf
<1>8. Between'
  <2>1. "taken" \in Spans /\ "base" \in Spans
    BY DEF Spans
  <2> QED
    BY <1>2, <1>3, <1>4, <2>1 DEF Between, Scanning, Tools
<1> QED
  BY <1>1, <1>5, <1>6, <1>7, <1>8

LEMMA ReadCmdlineKeepsSteady ==
    ASSUME SteadyInv, NEW t \in Tools, ReadCmdline(t)
    PROVE  SteadyInv'
<1> USE DEF SteadyInv
<1> DEFINE q == cur[t].pid
<1>1. BaselineTypeOK' /\ DocInv'
  BY TypeStep, DocStep DEF BaselineNext, ReadAll
<1>2. /\ UNCHANGED <<procs, doc, base>> /\ pc[t] = "args" /\ pc'[t] = "scan"
      /\ \A u \in Tools : u # t => /\ pc'[u] = pc[u] /\ todo'[u] = todo[u]
                                    /\ list'[u] = list[u] /\ cur'[u] = cur[u]
      /\ todo'[t] = todo[t] \ {q}
  BY DEF ReadCmdline, BaselineTypeOK
<1>3. PICK p \in Process : /\ p.pid = q /\ EntryOf(p) = EntryOf(cur[t])
                           /\ list'[t] = Append(list[t], p)
  <2>1. CASE Running(q) /\ list' = [list EXCEPT ![t] = Append(@, [cur[t] EXCEPT !.args = procs[q].args])]
    <3>1. procs[q].args \in Text /\ cur[t] \in Process
      BY <2>1, LooksAssumption DEF Running, BaselineTypeOK, Look
    <3>2. /\ [cur[t] EXCEPT !.args = procs[q].args] \in Process
          /\ [cur[t] EXCEPT !.args = procs[q].args].pid = q
          /\ EntryOf([cur[t] EXCEPT !.args = procs[q].args]) = EntryOf(cur[t])
      BY <3>1 DEF Process, EntryOf
    <3> QED
      BY <2>1, <3>2 DEF BaselineTypeOK
  <2>2. CASE list' = [list EXCEPT ![t] = Append(@, cur[t])]
    BY <2>2 DEF BaselineTypeOK
  <2> QED
    BY <2>1, <2>2 DEF ReadCmdline
<1>4. /\ DOMAIN list'[t] = 1 .. Len(list[t]) + 1 /\ DOMAIN list[t] = 1..Len(list[t])
      /\ Len(list[t]) \in Nat
      /\ \A i \in 1..Len(list[t]) : list'[t][i] = list[t][i]
      /\ list'[t][Len(list[t]) + 1] = p
  <2>1. list[t] \in Seq(Process)
    BY DEF BaselineTypeOK
  <2> QED
    BY <1>3, <2>1, AppendProperties
<1>5. /\ \A s \in Spans : steady'[s] \subseteq steady[s]
      /\ \A u \in Tools : SteadyFor(u)' \subseteq SteadyFor(u)
  BY UnreadSpans DEF ReadCmdline, SteadyFor
<1>6. SteadyRun' /\ SteadySaved' /\ SteadyLoaded'
  BY <1>2, <1>5, ScanLeaves
<1>7. SteadyRead'
  <2>1. ASSUME NEW pid \in SteadyFor(t)'
        PROVE  pid \in todo'[t] \/ \E i \in DOMAIN list'[t] : list'[t][i].pid = pid
    <3>1. CASE pid = q
      BY <1>3, <1>4, <3>1
    <3>2. CASE pid # q
      <4>1. pid \in todo[t] \/ \E i \in DOMAIN list[t] : list[t][i].pid = pid
        BY <1>2, <1>5 DEF SteadyRead, Scanning
      <4> QED
        BY <1>2, <1>4, <3>2, <4>1
    <3> QED
      BY <3>1, <3>2
  <2> QED
    BY <1>2, <1>5, <2>1 DEF SteadyRead
<1>8. SteadyAsIs'
  <2>1. ASSUME NEW i \in DOMAIN list'[t], list'[t][i].pid \in SteadyFor(t)'
        PROVE  EntryOf(list'[t][i]) = ViewOf(t, procs[list'[t][i].pid])
    <3>1. CASE i = Len(list[t]) + 1
      <4>1. list'[t][i] = p /\ q \in SteadyFor(t)
        BY <1>3, <1>4, <1>5, <2>1, <3>1
      <4> QED
        BY <1>2, <1>3, <4>1 DEF SteadyInHand
    <3>2. CASE i # Len(list[t]) + 1
      <4>1. i \in DOMAIN list[t] /\ list'[t][i] = list[t][i]
        BY <1>4, <3>2
      <4> QED
        BY <1>5, <2>1, <4>1 DEF SteadyAsIs
    <3> QED
      BY <3>1, <3>2
  <2> QED
    BY <1>2, <1>5, <2>1 DEF SteadyAsIs, ViewOf
<1>9. SteadyInHand'
  BY <1>2, <1>5 DEF SteadyInHand, ViewOf
<1>10. Between'
  <2>1. "taken" \in Spans /\ "base" \in Spans
    BY DEF Spans
  <2> QED
    BY <1>2, <1>5, <2>1 DEF Between, Scanning, Tools
<1> QED
  BY <1>1, <1>6, <1>7, <1>8, <1>9, <1>10

LEMMA BeginTakeKeepsSteady ==
    ASSUME SteadyInv, BeginTake
    PROVE  SteadyInv'
<1> USE DEF SteadyInv
<1>1. BaselineTypeOK' /\ DocInv'
  BY TypeStep, DocStep DEF BaselineNext
<1>2. /\ UNCHANGED <<procs, cur, list, doc, base>>
      /\ pc["saver"] = "idle" /\ pc'["saver"] = "scan" /\ todo'["saver"] = DOMAIN procs
      /\ pc'["viewer"] = pc["viewer"] /\ todo'["viewer"] = todo["viewer"]
      /\ steady'["taken"] = DOMAIN procs
      /\ \A s \in Spans : s # "taken" => steady'[s] = steady[s]
  BY DEF BeginTake, BaselineTypeOK, Tools, Spans
<1>3. SteadyFor("saver")' = DOMAIN procs /\ SteadyFor("viewer")' = SteadyFor("viewer")
  BY <1>2 DEF SteadyFor, SpanOf, Spans
<1>4. list["saver"] = << >>
  BY <1>2 DEF Between, Tools, Scanning
<1>5. SteadyRun' /\ SteadySaved' /\ SteadyLoaded'
  BY <1>2 DEF SteadyRun, SteadySaved, SteadyLoaded, Spans, ViewOf
<1>6. SteadyRead' /\ SteadyAsIs' /\ SteadyInHand'
  BY <1>2, <1>3, <1>4 DEF SteadyRead, SteadyAsIs, SteadyInHand, ViewOf, Tools
<1>7. Between'
  BY <1>2 DEF Between, Tools, Scanning, Spans
<1> QED
  BY <1>1, <1>5, <1>6, <1>7

LEMMA OpenForWritingKeepsSteady ==
    ASSUME SteadyInv, OpenForWriting
    PROVE  SteadyInv'
<1> USE DEF SteadyInv
<1>1. BaselineTypeOK' /\ DocInv'
  BY TypeStep, DocStep DEF BaselineNext
<1>2. /\ UNCHANGED <<procs, todo, cur, base>>
      /\ pc["saver"] = "scan" /\ pc'["saver"] = "write" /\ todo["saver"] = {}
      /\ pc'["viewer"] = pc["viewer"]
      /\ list'["saver"] = << >> /\ list'["viewer"] = list["viewer"]
      /\ steady'["taken"] = {} /\ steady'["file"] = steady["taken"]
      /\ \A s \in Spans : s \notin {"taken", "file"} => steady'[s] = steady[s]
  BY DEF OpenForWriting, BaselineTypeOK, Tools, Spans
<1>3. SteadyFor("saver")' = {} /\ SteadyFor("viewer")' = SteadyFor("viewer")
  BY <1>2 DEF SteadyFor, SpanOf, Spans
<1>4. SteadyRun' /\ SteadyLoaded'
  BY <1>2 DEF SteadyRun, SteadyLoaded, Spans, ViewOf
<1>5. SteadySaved'
  <2> SUFFICES ASSUME NEW pid \in steady["taken"]
               PROVE  \E i \in 1 .. Len(doc') - 1 : doc'[i] = Marshal(ViewOf("saver", procs[pid]))
    BY <1>2 DEF SteadySaved, ViewOf
  <2>1. list["saver"] \in Seq(Process) /\ DOMAIN list["saver"] = 1..Len(list["saver"])
    BY DEF BaselineTypeOK, Tools
  <2>2. PICK i \in DOMAIN list["saver"] : list["saver"][i].pid = pid
    BY <1>2 DEF SteadyRead, SteadyFor, SpanOf, Scanning, Tools
  <2>3. EntryOf(list["saver"][i]) = ViewOf("saver", procs[pid])
    BY <2>2 DEF SteadyAsIs, SteadyFor, SpanOf, Tools
  <2> DEFINE es == Entries(list["saver"])
  <2>4. es \in Seq(SnapshotEntry) /\ Len(es) = Len(list["saver"]) /\ es[i] = ViewOf("saver", procs[pid])
    BY <2>1, <2>2, <2>3, EntriesType
  <2>5. doc' = Document(es)
    BY DEF OpenForWriting
  <2> HIDE DEF es
  <2>6. Len(doc') = Len(es) + 1 /\ \A k \in 1..Len(es) : doc'[k] = Marshal(es[k])
    BY <2>4, <2>5, DocumentType
  <2>7. i \in 1..Len(es) /\ Len(es) \in Nat
    BY <2>1, <2>2, <2>4
  <2>8. i \in 1 .. Len(doc') - 1
    BY <2>6, <2>7
  <2> QED
    BY <2>4, <2>6, <2>7, <2>8
<1>6. SteadyRead' /\ SteadyAsIs' /\ SteadyInHand'
  BY <1>2, <1>3 DEF SteadyRead, SteadyAsIs, SteadyInHand, ViewOf, Tools
<1>7. Between'
  BY <1>2 DEF Between, Tools, Scanning, Spans
<1> QED
  BY <1>1, <1>4, <1>5, <1>6, <1>7

\* Steps that leave lists, spans, document and baseline alone, and no tool to scan.
LEMMA RestKeepsSteady ==
    ASSUME SteadyInv, BaselineNext, UNCHANGED <<procs, todo, cur, list, doc, base, steady>>,
           \A t \in Tools : \/ pc'[t] = pc[t]
                           \/ /\ pc[t] \notin Scanning \cup {"report"}
                              /\ pc'[t] \notin Scanning \cup {"report"}
                              /\ t = "viewer" /\ pc'[t] \in {"idle", "load"}
                                    => pc[t] \in {"idle", "load"}
    PROVE  SteadyInv'
<1> USE DEF SteadyInv
<1>1. BaselineTypeOK' /\ DocInv'
  BY TypeStep, DocStep
<1>2. SteadyRun' /\ SteadySaved' /\ SteadyLoaded'
  BY ScanLeaves
<1>3. \A t \in Tools : SteadyFor(t)' = SteadyFor(t)
  BY DEF SteadyFor
<1>4. SteadyRead' /\ SteadyAsIs'
  BY <1>3 DEF SteadyRead, SteadyAsIs, ViewOf
<1>5. SteadyInHand'
  BY <1>3 DEF SteadyInHand, ViewOf, Scanning
<1>6. Between'
  BY DEF Between, Tools, Scanning
<1> QED
  BY <1>1, <1>2, <1>4, <1>5, <1>6

LEMMA LoadedKeepsSteady ==
    ASSUME SteadyInv, Loaded
    PROVE  SteadyInv'
<1> USE DEF SteadyInv
<1>1. BaselineTypeOK' /\ DocInv'
  BY TypeStep, DocStep DEF BaselineNext
<1>2. CASE ~Unmarshals(data)
  <2>1. /\ UNCHANGED <<procs, todo, cur, list, doc, base, steady>>
        /\ pc["viewer"] = "load" /\ pc'["viewer"] = "idle" /\ pc'["saver"] = pc["saver"]
    BY <1>2 DEF Loaded, BaselineTypeOK, Tools
  <2> QED
    BY <2>1, RestKeepsSteady DEF BaselineNext, Scanning, Tools
<1>3. CASE Unmarshals(data)
  <2>1. /\ UNCHANGED <<procs, todo, cur, list, doc>>
        /\ pc["viewer"] = "load" /\ pc'["viewer"] = "list" /\ pc'["saver"] = pc["saver"]
        /\ base' = SubSeq(data, 1, Len(data) - 1)
        /\ steady'["base"] = IF torn THEN {} ELSE steady["file"]
        /\ \A s \in Spans : s # "base" => steady'[s] = steady[s]
    BY <1>3 DEF Loaded, BaselineTypeOK, Tools, Spans
  <2>2. SteadyFor("saver")' = SteadyFor("saver") /\ list["viewer"] = << >>
    BY <2>1 DEF SteadyFor, SpanOf, Spans, Between, Scanning, Tools
  <2>3. SteadyRun' /\ SteadySaved'
    BY <2>1 DEF SteadyRun, SteadySaved, Spans, ViewOf
  <2>4. SteadyLoaded'
    <3> SUFFICES ASSUME ~torn, NEW pid \in steady["file"]
                 PROVE  \E i \in DOMAIN base' : base'[i] = Marshal(ViewOf("saver", procs[pid]))
      BY <2>1 DEF SteadyLoaded, ViewOf
    <3>1. data = doc /\ data \in Seq(Token) /\ Len(data) \in Nat
      BY <1>3, LoadedWhole DEF BaselineTypeOK
    <3>2. /\ base' \in Seq(SnapshotEntry) /\ Len(base') = Len(data) - 1
          /\ \A i \in 1 .. Len(data) - 1 : base'[i] = data[i]
      BY <1>3, <2>1, <3>1, UnmarshalsSplits
    <3>3. DOMAIN base' = 1 .. Len(doc) - 1 /\ \A i \in 1 .. Len(doc) - 1 : base'[i] = doc[i]
      BY <3>1, <3>2
    <3> QED
      BY <3>3 DEF SteadySaved
  <2>5. SteadyRead' /\ SteadyAsIs' /\ SteadyInHand'
    BY <2>1, <2>2 DEF SteadyRead, SteadyAsIs, SteadyInHand, ViewOf, Tools, Scanning
  <2>6. Between'
    BY <2>1 DEF Between, Tools, Scanning, Spans
  <2> QED
    BY <1>1, <2>3, <2>4, <2>5, <2>6
<1> QED
  BY <1>2, <1>3

LEMMA ListLiveKeepsSteady ==
    ASSUME SteadyInv, ListLive
    PROVE  SteadyInv'
<1> USE DEF SteadyInv
<1>1. BaselineTypeOK' /\ DocInv'
  BY TypeStep, DocStep DEF BaselineNext
<1>2. /\ UNCHANGED <<procs, cur, list, doc, base>>
      /\ pc["viewer"] = "list" /\ pc'["viewer"] = "scan" /\ todo'["viewer"] = DOMAIN procs
      /\ pc'["saver"] = pc["saver"] /\ todo'["saver"] = todo["saver"]
      /\ steady'["live"] = DOMAIN procs
      /\ \A s \in Spans : s # "live" => steady'[s] = steady[s]
  BY DEF ListLive, BaselineTypeOK, Tools, Spans
<1>3. \A t \in Tools : SteadyFor(t)' = SteadyFor(t)
  BY <1>2 DEF SteadyFor, SpanOf, Spans, Tools
<1>4. list["viewer"] = << >> /\ SteadyFor("viewer") \subseteq DOMAIN procs
  BY <1>2 DEF Between, Tools, Scanning, SteadyFor, SpanOf, SteadyRun, Spans
<1>5. SteadyRun' /\ SteadySaved' /\ SteadyLoaded'
  BY <1>2 DEF SteadyRun, SteadySaved, SteadyLoaded, Spans, ViewOf
<1>6. SteadyRead' /\ SteadyAsIs' /\ SteadyInHand'
  BY <1>2, <1>3, <1>4 DEF SteadyRead, SteadyAsIs, SteadyInHand, ViewOf, Tools
<1>7. Between'
  BY <1>2 DEF Between, Tools, Scanning, Spans
<1> QED
  BY <1>1, <1>5, <1>6, <1>7

LEMMA ReportKeepsSteady ==
    ASSUME SteadyInv, Report
    PROVE  SteadyInv'
<1> USE DEF SteadyInv
<1>1. BaselineTypeOK' /\ DocInv'
  BY TypeStep, DocStep DEF BaselineNext
<1>2. /\ UNCHANGED <<procs, todo, cur, list, doc, base, steady>>
      /\ pc["viewer"] = "scan" /\ pc'["viewer"] = "report" /\ todo["viewer"] = {}
      /\ pc'["saver"] = pc["saver"]
  BY DEF Report, BaselineTypeOK, Tools
<1>3. SteadyRun' /\ SteadySaved' /\ SteadyLoaded'
  BY <1>2, ScanLeaves
<1>4. \A t \in Tools : SteadyFor(t)' = SteadyFor(t)
  BY <1>2 DEF SteadyFor
<1>5. SteadyRead'
  BY <1>2, <1>4 DEF SteadyRead, Tools, Scanning
<1>6. SteadyAsIs' /\ SteadyInHand'
  BY <1>2, <1>4 DEF SteadyAsIs, SteadyInHand, ViewOf, Tools
<1>7. Between'
  BY <1>2 DEF Between, Tools, Scanning
<1> QED
  BY <1>1, <1>3, <1>5, <1>6, <1>7

LEMMA EndsKeepsSteady ==
    ASSUME SteadyInv, NEW t \in Tools, Ends(t)
    PROVE  SteadyInv'
<1> USE DEF SteadyInv
<1>1. BaselineTypeOK' /\ DocInv'
  BY TypeStep, DocStep DEF BaselineNext
<1>2. /\ UNCHANGED <<procs, doc>>
      /\ pc'[t] = "idle" /\ list'[t] = << >> /\ SteadyFor(t)' = {}
      /\ \A u \in Tools : u # t => /\ pc'[u] = pc[u] /\ todo'[u] = todo[u] /\ cur'[u] = cur[u]
                                   /\ list'[u] = list[u] /\ SteadyFor(u)' = SteadyFor(u)
      /\ \A s \in Spans : steady'[s] \subseteq steady[s]
      /\ base' = base \/ steady'["base"] = {}
  BY DEF Ends, BaselineTypeOK, SteadyFor, SpanOf, Spans, Tools
<1>3. SteadyRun' /\ SteadySaved' /\ SteadyLoaded'
  BY <1>2 DEF SteadyRun, SteadySaved, SteadyLoaded, Spans, ViewOf
<1>4. SteadyRead' /\ SteadyAsIs' /\ SteadyInHand'
  BY <1>2 DEF SteadyRead, SteadyAsIs, SteadyInHand, ViewOf, Scanning
<1>5. Between'
  <2>1. \A u \in Tools : pc'[u] \notin Scanning \cup {"report"} => list'[u] = << >>
    BY <1>2 DEF Between
  <2>2. pc'["saver"] \notin Scanning => steady'["taken"] = {}
    BY <1>2 DEF Between, SteadyFor, SpanOf, Tools
  <2>3. pc'["viewer"] \in {"idle", "load"} => steady'["base"] = {}
    BY <1>2 DEF Between, SteadyFor, SpanOf, Tools
  <2>4. pc'["viewer"] = "report" => todo'["viewer"] = {}
    BY <1>2 DEF Between, Tools
  <2> QED
    BY <2>1, <2>2, <2>3, <2>4 DEF Between
<1> QED
  BY <1>1, <1>3, <1>4, <1>5

LEMMA SteadyStep == SteadyInv /\ [BaselineNext]_baselineVars => SteadyInv'
<1> SUFFICES ASSUME SteadyInv, [BaselineNext]_baselineVars PROVE SteadyInv'
  OBVIOUS
<1>1. CASE \E pid \in Pids : BaselineMachine(pid)
  BY <1>1, MachineKeepsSteady
<1>2. CASE \E t \in Tools : ReadAll(t)
  BY <1>2, SkipKeepsSteady, ReadStatusKeepsSteady, ReadExeKeepsSteady, ReadCmdlineKeepsSteady DEF ReadAll
<1>3. CASE WritePart \/ Saved \/ OpenBaseline \/ ReadPart \/ BeginPs
  <2>1. BaselineNext /\ UNCHANGED <<procs, todo, cur, list, doc, base, steady>>
    BY <1>3 DEF BaselineNext, WritePart, Saved, OpenBaseline, ReadPart, BeginPs
  <2>2. \A t \in Tools : \/ pc'[t] = pc[t]
                          \/ /\ pc[t] \notin Scanning \cup {"report"}
                             /\ pc'[t] \notin Scanning \cup {"report"}
                             /\ t = "viewer" /\ pc'[t] \in {"idle", "load"}
                                   => pc[t] \in {"idle", "load"}
    BY <1>3 DEF WritePart, Saved, OpenBaseline, ReadPart, BeginPs, SteadyInv, BaselineTypeOK, Tools, Scanning
  <2> QED
    BY <2>1, <2>2, RestKeepsSteady
<1>4. CASE UNCHANGED baselineVars
  <2>1. UNCHANGED <<procs, pc, todo, cur, list, doc, base, steady>>
    BY <1>4 DEF baselineVars, toolVars
  <2>2. BaselineTypeOK' /\ DocInv'
    BY <1>4, TypeStep, DocStep DEF SteadyInv
  <2> QED
    BY <2>1, <2>2 DEF SteadyInv, SteadyRun, SteadyRead, SteadyAsIs, SteadyInHand, SteadySaved,
                      SteadyLoaded, Between, SteadyFor, ViewOf
<1> QED
  BY <1>1, <1>2, <1>3, <1>4, BeginTakeKeepsSteady, OpenForWritingKeepsSteady, LoadedKeepsSteady,
     ListLiveKeepsSteady, ReportKeepsSteady, EndsKeepsSteady DEF BaselineNext

\* What JSON can hold is marshalled as it is.
LEMMA MarshalSame ==
    ASSUME NEW look \in Look, Encodable(look)
    PROVE  Marshal(ViewOf("saver", look)) = ViewOf("saver", look)
<1>1. look.name \in Seq(Nat) /\ look.exe \in Seq(Nat)
  BY DEF Look, Text
<1>2. /\ look.name = [i \in DOMAIN look.name |-> look.name[i]]
      /\ look.exe = [i \in DOMAIN look.exe |-> look.exe[i]]
  BY <1>1
<1>3. Encoded(look.name) = look.name /\ Encoded(look.exe) = look.exe
  BY <1>2 DEF Encodable, Encoded
<1>4. Encoded(<< >>) = << >>
  BY DEF Encoded
<1> DEFINE e == ViewOf("saver", look)
<1>5. /\ e = [name |-> e.name, exe |-> e.exe, uid |-> e.uid]
      /\ Encoded(e.name) = e.name /\ Encoded(e.exe) = e.exe
  BY <1>3, <1>4 DEF ViewOf
<1> HIDE DEF e
<1>6. Marshal(e) = e
  BY <1>5 DEF Marshal
<1> QED
  BY <1>6 DEF e

(* A process that ran on unchanged from the scan of the snapshot to the end of the
   comparison is no difference, whatever the machine, the saves and the failures
   of reads of other processes did in between. *)
THEOREM SteadyAreNoDifference == BaselineSpec => []SteadyNeverDiffers
<1>1. SteadyInv => SteadyNeverDiffers
  <2> SUFFICES ASSUME SteadyInv, Compared, NEW pid \in steady["base"],
                      Alike(procs[pid]), Encodable(procs[pid])
               PROVE  NoDifference(pid)
    BY DEF SteadyNeverDiffers
  <2> DEFINE look == procs[pid]
  <2> DEFINE shown == View(look)
  <2>1. look \in Look
    BY LooksAssumption DEF SteadyInv, SteadyRun, BaselineTypeOK, Spans
  <2>2. ViewOf("saver", look) = shown /\ ViewOf("viewer", look) = shown
    BY DEF Alike, View, ViewOf, Sees
  <2>3. PICK b \in DOMAIN base : base[b] = shown
    BY <2>1, <2>2, MarshalSame DEF SteadyInv, SteadyLoaded
  <2>4. /\ list["viewer"] \in Seq(Process) /\ DOMAIN LiveEntries = DOMAIN list["viewer"]
        /\ \A i \in DOMAIN list["viewer"] : LiveEntries[i] = EntryOf(list["viewer"][i])
    BY EntriesType DEF SteadyInv, BaselineTypeOK, Tools, LiveEntries
  <2>5. \A i \in DOMAIN list["viewer"] : list["viewer"][i].pid = pid => LiveEntries[i] = shown
    BY <2>2, <2>4 DEF SteadyInv, SteadyAsIs, SteadyFor, SpanOf, Tools
  <2>6. PICK j \in DOMAIN list["viewer"] : list["viewer"][j].pid = pid
    BY DEF SteadyInv, SteadyRead, Between, Compared, SteadyFor, SpanOf, Tools, Scanning
  <2>7. Key(shown) \in BaseSet
    BY <2>3 DEF BaseSet
  <2>8. Key(shown) \in LiveSet
    BY <2>4, <2>5, <2>6 DEF LiveSet
  <2>9. \A i \in New : list["viewer"][i].pid # pid
    BY <2>4, <2>5, <2>7 DEF New
  <2>10. \A i \in Missing : base[i] # View(procs[pid])
    BY <2>8 DEF Missing
  <2> QED
    BY <2>9, <2>10 DEF NoDifference
<1> QED
  BY <1>1, SteadyInitial, SteadyStep, PTL DEF BaselineSpec

-----------------------------------------------------------------------------
(* What is steady during the scan is listed as it is: the same argument for all
   fields of a process, and for the span that begins with the scan. *)

Seen(p, look) ==
    p.name = look.name /\ p.uid = look.uid /\ p.state = look.state /\ p.child = look.child

LiveRead ==
    pc["viewer"] \in Scanning \cup {"report"} =>
        \A pid \in steady["live"] :
            \/ pid \in todo["viewer"]
            \/ \E i \in DOMAIN list["viewer"] : list["viewer"][i].pid = pid
LiveAsIs ==
    \A i \in DOMAIN list["viewer"] :
        LET p == list["viewer"][i] IN
        p.pid \in steady["live"] =>
            /\ Seen(p, procs[p.pid])
            /\ p.exe = View(procs[p.pid]).exe /\ p.args = procs[p.pid].args
LiveInHand ==
    LET p == cur["viewer"] IN
    p.pid \in steady["live"] =>
        /\ pc["viewer"] \in {"exe", "args"} => Seen(p, procs[p.pid])
        /\ pc["viewer"] = "exe" => p.exe = << >>
        /\ pc["viewer"] = "args" => p.exe = View(procs[p.pid]).exe

LiveInv ==
    /\ LiveRead /\ LiveAsIs /\ LiveInHand
    /\ pc["viewer"] \notin Scanning \cup {"report"} => steady["live"] = {}

LEMMA LiveInitial == BaselineInit => LiveInv
  BY DEF BaselineInit, LiveInv, LiveRead, LiveAsIs, LiveInHand, Tools, Spans, Scanning

\* A step that leaves the viewer's scan and what is steady alone.
LEMMA LiveLeaves ==
    ASSUME LiveInv, UNCHANGED procs, steady'["live"] = steady["live"],
           list'["viewer"] = list["viewer"], todo'["viewer"] = todo["viewer"],
           cur'["viewer"] = cur["viewer"],
           \/ pc'["viewer"] = pc["viewer"]
           \/ {pc["viewer"], pc'["viewer"]} \cap (Scanning \cup {"report"}) = {}
    PROVE  LiveInv'
<1>1. LiveAsIs' /\ LiveRead'
  BY DEF LiveInv, LiveRead, LiveAsIs, Scanning
<1>2. LiveInHand'
  BY DEF LiveInv, LiveInHand, Scanning
<1> QED
  BY <1>1, <1>2 DEF LiveInv

LEMMA MachineKeepsLive ==
    ASSUME SteadyInv, LiveInv, NEW pid \in Pids, BaselineMachine(pid)
    PROVE  LiveInv'
<1>1. UNCHANGED <<pc, todo, cur, list>>
  BY DEF BaselineMachine, toolVars
<1>2. steady'["live"] = steady["live"] \ {pid}
  BY DEF BaselineMachine, Unsteady, Spans
<1>3. \A q \in steady'["live"] : procs'[q] = procs[q]
  BY <1>2 DEF BaselineMachine, Birth, Become, Reap, SteadyInv, SteadyRun, Spans
<1> QED
  BY <1>1, <1>2, <1>3 DEF LiveInv, LiveRead, LiveAsIs, LiveInHand

LEMMA SaverScanKeepsLive ==
    ASSUME SteadyInv, LiveInv, ReadAll("saver")
    PROVE  LiveInv'
<1>1. PICK pid : \/ SkipProcess("saver", pid) \/ ReadStatus("saver", pid)
                 \/ ReadExe("saver") \/ ReadCmdline("saver")
  BY DEF ReadAll
<1>2. UNCHANGED procs /\ steady'["live"] = steady["live"]
  BY <1>1 DEF SkipProcess, ReadStatus, ReadExe, ReadCmdline, Unread, Spans
<1>3. /\ list'["viewer"] = list["viewer"] /\ todo'["viewer"] = todo["viewer"]
      /\ cur'["viewer"] = cur["viewer"] /\ pc'["viewer"] = pc["viewer"]
  BY <1>1 DEF SkipProcess, ReadStatus, ReadExe, ReadCmdline, SteadyInv, BaselineTypeOK, Tools
<1> QED
  BY <1>2, <1>3, LiveLeaves

LEMMA UnreadLive ==
    ASSUME BaselineTypeOK, NEW pid, Unread("viewer", pid)
    PROVE  steady'["live"] = steady["live"] \ {pid}
  BY DEF Unread, Spans

LEMMA SkipKeepsLive ==
    ASSUME SteadyInv, LiveInv, NEW pid \in Pids, SkipProcess("viewer", pid)
    PROVE  LiveInv'
<1>1. UNCHANGED <<procs, pc, cur, list>> /\ todo'["viewer"] = todo["viewer"] \ {pid}
  BY DEF SkipProcess, SteadyInv, BaselineTypeOK, Tools
<1>2. steady'["live"] = steady["live"] \ {pid}
  BY UnreadLive DEF SkipProcess, SteadyInv
<1> QED
  BY <1>1, <1>2 DEF LiveInv, LiveRead, LiveAsIs, LiveInHand

LEMMA ReadStatusKeepsLive ==
    ASSUME SteadyInv, LiveInv, NEW pid \in Pids, ReadStatus("viewer", pid)
    PROVE  LiveInv'
<1>1. UNCHANGED <<procs, todo, list, steady>>
  BY DEF ReadStatus
<1>2. /\ pc["viewer"] = "scan" /\ pc'["viewer"] = "exe"
      /\ cur'["viewer"] =
            [pid |-> pid, name |-> procs[pid].name, exe |-> << >>, args |-> << >>,
             uid |-> procs[pid].uid, state |-> procs[pid].state, child |-> procs[pid].child]
  BY DEF ReadStatus, SteadyInv, BaselineTypeOK, Tools
<1>3. cur'["viewer"].pid = pid /\ cur'["viewer"].exe = << >> /\ Seen(cur'["viewer"], procs[pid])
  BY <1>2 DEF Seen
<1>4. LiveInHand'
  BY <1>1, <1>2, <1>3 DEF LiveInHand, Seen
<1> QED
  BY <1>1, <1>2, <1>4 DEF LiveInv, LiveRead, LiveAsIs, Scanning

LEMMA ReadExeKeepsLive ==
    ASSUME SteadyInv, LiveInv, ReadExe("viewer")
    PROVE  LiveInv'
<1> DEFINE p == cur["viewer"]
<1>1. /\ UNCHANGED <<procs, todo, list>> /\ pc["viewer"] = "exe" /\ pc'["viewer"] = "args"
      /\ p \in Process
  BY DEF ReadExe, SteadyInv, BaselineTypeOK, Tools
<1>2. steady'["live"] \subseteq steady["live"]
  BY UnreadLive DEF ReadExe, SteadyInv
<1>3. LiveInHand'
  <2>1. cur'["viewer"].pid = p.pid /\ (Seen(p, procs[p.pid]) => Seen(cur'["viewer"], procs[p.pid]))
    <3>1. CASE UNCHANGED cur
      BY <3>1
    <3>2. CASE cur' = [cur EXCEPT !["viewer"].exe = procs[p.pid].exe]
      <4>1. cur'["viewer"] = [p EXCEPT !.exe = procs[p.pid].exe]
        BY <3>2 DEF SteadyInv, BaselineTypeOK, Tools
      <4> QED
        BY <1>1, <4>1 DEF Seen, Process
    <3> QED
      BY <3>1, <3>2 DEF ReadExe
  <2>2. ASSUME p.pid \in steady'["live"]
        PROVE  /\ Seen(cur'["viewer"], procs[p.pid])
               /\ cur'["viewer"].exe = View(procs[p.pid]).exe
    <3>1. Running(p.pid) /\ Seen(p, procs[p.pid]) /\ p.exe = << >>
      BY <1>1, <1>2, <2>2 DEF LiveInv, LiveInHand, SteadyInv, SteadyRun, Spans, Running
    <3>2. CASE Resolves("viewer", p.pid) /\ cur' = [cur EXCEPT !["viewer"].exe = procs[p.pid].exe]
      <4>1. cur'["viewer"].exe = procs[p.pid].exe
        BY <1>1, <3>2 DEF SteadyInv, BaselineTypeOK, Tools, Process
      <4> QED
        BY <2>1, <3>1, <3>2, <4>1 DEF View, Resolves, Sees
    <3>3. CASE ~Resolves("viewer", p.pid) /\ UNCHANGED cur
      BY <3>1, <3>3 DEF View, Resolves, Sees
    <3>4. CASE Unread("viewer", p.pid)
      BY <2>2, <3>4, UnreadLive DEF SteadyInv
    <3> QED
      BY <3>2, <3>3, <3>4 DEF ReadExe
  <2> QED
    BY <1>1, <2>1, <2>2 DEF LiveInHand
<1>4. LiveRead' /\ LiveAsIs'
  BY <1>1, <1>2 DEF LiveInv, LiveRead, LiveAsIs, Scanning
<1> QED
  BY <1>1, <1>3, <1>4 DEF LiveInv, Scanning

LEMMA ReadCmdlineKeepsLive ==
    ASSUME SteadyInv, LiveInv, ReadCmdline("viewer")
    PROVE  LiveInv'
<1> DEFINE q == cur["viewer"].pid
<1> DEFINE old == list["viewer"]
<1>1. /\ UNCHANGED procs /\ pc["viewer"] = "args" /\ pc'["viewer"] = "scan"
      /\ todo'["viewer"] = todo["viewer"] \ {q}
      /\ cur["viewer"] \in Process /\ old \in Seq(Process)
  BY DEF ReadCmdline, SteadyInv, BaselineTypeOK, Tools
<1>2. steady'["live"] \subseteq steady["live"]
  BY UnreadLive DEF ReadCmdline, SteadyInv
<1>3. PICK p \in Process :
        /\ list'["viewer"] = Append(old, p)
        /\ p.pid = q /\ p.exe = cur["viewer"].exe
        /\ Seen(cur["viewer"], procs[q]) => Seen(p, procs[q])
        /\ q \in steady'["live"] => p.args = procs[q].args
  <2>1. CASE /\ Running(q)
             /\ list' = [list EXCEPT !["viewer"] = Append(@, [cur["viewer"] EXCEPT !.args = procs[q].args])]
    <3> DEFINE r == [cur["viewer"] EXCEPT !.args = procs[q].args]
    <3>1. procs[q].args \in Text
      BY <2>1, LooksAssumption DEF Running, SteadyInv, BaselineTypeOK, Look
    <3>2. /\ r \in Process /\ r.pid = q /\ r.exe = cur["viewer"].exe /\ r.args = procs[q].args
          /\ r.name = cur["viewer"].name /\ r.uid = cur["viewer"].uid
          /\ r.state = cur["viewer"].state /\ r.child = cur["viewer"].child
      BY <1>1, <3>1 DEF Process
    <3>3. list'["viewer"] = Append(old, r)
      BY <2>1 DEF SteadyInv, BaselineTypeOK, Tools
    <3> HIDE DEF r
    <3> QED
      BY <3>2, <3>3 DEF Seen
  <2>2. CASE list' = [list EXCEPT !["viewer"] = Append(@, cur["viewer"])] /\ Unread("viewer", q)
    <3>1. list'["viewer"] = Append(old, cur["viewer"]) /\ q \notin steady'["live"]
      BY <2>2, UnreadLive DEF SteadyInv, BaselineTypeOK, Tools
    <3> QED
      BY <1>1, <3>1
  <2> QED
    BY <2>1, <2>2 DEF ReadCmdline
<1>4. /\ Len(old) \in Nat /\ DOMAIN old = 1..Len(old)
      /\ DOMAIN list'["viewer"] = 1..Len(old) + 1
      /\ \A i \in 1..Len(old) : list'["viewer"][i] = old[i]
      /\ list'["viewer"][Len(old) + 1] = p
  BY <1>1, <1>3, AppendProperties
<1>5. LiveRead'
  <2>1. ASSUME NEW pid \in steady'["live"]
        PROVE  \/ pid \in todo'["viewer"]
               \/ \E i \in DOMAIN list'["viewer"] : list'["viewer"][i].pid = pid
    <3>1. CASE pid = q
      BY <1>3, <1>4, <3>1
    <3>2. CASE pid # q
      <4>1. pid \in todo["viewer"] \/ \E i \in DOMAIN old : old[i].pid = pid
        BY <1>1, <1>2, <2>1 DEF LiveInv, LiveRead, Scanning
      <4> QED
        BY <1>1, <1>4, <3>2, <4>1
    <3> QED BY <3>1, <3>2
  <2> QED BY <2>1 DEF LiveRead
<1>6. LiveAsIs'
  <2>1. ASSUME NEW i \in DOMAIN list'["viewer"], list'["viewer"][i].pid \in steady'["live"]
        PROVE  LET r == list'["viewer"][i] IN
               /\ Seen(r, procs[r.pid])
               /\ r.exe = View(procs[r.pid]).exe /\ r.args = procs[r.pid].args
    <3>1. CASE i = Len(old) + 1
      <4>1. list'["viewer"][i] = p /\ q \in steady["live"] /\ q \in steady'["live"]
        BY <1>2, <1>3, <1>4, <2>1, <3>1
      <4>2. Seen(cur["viewer"], procs[q]) /\ cur["viewer"].exe = View(procs[q]).exe
        BY <1>1, <4>1 DEF LiveInv, LiveInHand
      <4> QED
        BY <1>3, <4>1, <4>2
    <3>2. CASE i \in DOMAIN old
      <4>1. list'["viewer"][i] = old[i] /\ old[i].pid \in steady["live"]
        BY <1>2, <1>4, <2>1, <3>2
      <4> QED
        BY <3>2, <4>1 DEF LiveInv, LiveAsIs
    <3> QED BY <1>4, <3>1, <3>2
  <2> QED BY <1>1, <2>1 DEF LiveAsIs
<1>7. LiveInHand'
  BY <1>1 DEF LiveInHand
<1> QED
  BY <1>1, <1>5, <1>6, <1>7 DEF LiveInv, Scanning

LEMMA LiveStep == SteadyInv /\ LiveInv /\ [BaselineNext]_baselineVars => LiveInv'
<1> SUFFICES ASSUME SteadyInv, LiveInv, [BaselineNext]_baselineVars PROVE LiveInv'
  OBVIOUS
<1>1. CASE \E pid \in Pids : BaselineMachine(pid)
  BY <1>1, MachineKeepsLive
<1>2. CASE \E t \in Tools : ReadAll(t)
  BY <1>2, SaverScanKeepsLive, SkipKeepsLive, ReadStatusKeepsLive, ReadExeKeepsLive,
     ReadCmdlineKeepsLive DEF ReadAll, Tools
<1>3. CASE \/ BeginTake \/ OpenForWriting \/ WritePart \/ Saved
           \/ OpenBaseline \/ ReadPart \/ Loaded \/ BeginPs
  <2>1. UNCHANGED procs /\ steady'["live"] = steady["live"]
    BY <1>3 DEF BeginTake, OpenForWriting, WritePart, Saved, OpenBaseline, ReadPart, Loaded,
                BeginPs, SteadyInv, BaselineTypeOK, Spans
  <2>2. /\ list'["viewer"] = list["viewer"] /\ todo'["viewer"] = todo["viewer"]
        /\ cur'["viewer"] = cur["viewer"]
    BY <1>3 DEF BeginTake, OpenForWriting, WritePart, Saved, OpenBaseline, ReadPart, Loaded,
                BeginPs, SteadyInv, BaselineTypeOK, Tools
  <2>3. \/ pc'["viewer"] = pc["viewer"]
        \/ pc["viewer"] \in {"idle", "load"} /\ pc'["viewer"] \in {"idle", "load", "list"}
    BY <1>3 DEF BeginTake, OpenForWriting, WritePart, Saved, OpenBaseline, ReadPart, Loaded,
                BeginPs, SteadyInv, BaselineTypeOK, Tools
  <2> QED
    BY <2>1, <2>2, <2>3, LiveLeaves DEF Scanning
<1>4. CASE ListLive
  <2>1. /\ UNCHANGED <<procs, cur, list>> /\ pc'["viewer"] = "scan"
        /\ todo'["viewer"] = DOMAIN procs /\ steady'["live"] = DOMAIN procs
        /\ list["viewer"] = << >>
    BY <1>4 DEF ListLive, SteadyInv, BaselineTypeOK, Between, Tools, Spans, Scanning
  <2> QED
    BY <2>1 DEF LiveInv, LiveRead, LiveAsIs, LiveInHand, Scanning
<1>5. CASE Report
  <2>1. /\ UNCHANGED <<procs, todo, cur, list, steady>>
        /\ pc["viewer"] = "scan" /\ pc'["viewer"] = "report"
    BY <1>5 DEF Report, SteadyInv, BaselineTypeOK, Tools
  <2> QED
    BY <2>1 DEF LiveInv, LiveRead, LiveAsIs, LiveInHand, Scanning
<1>6. CASE Ends("saver")
  <2>1. /\ UNCHANGED procs /\ steady'["live"] = steady["live"]
        /\ list'["viewer"] = list["viewer"] /\ todo'["viewer"] = todo["viewer"]
        /\ cur'["viewer"] = cur["viewer"] /\ pc'["viewer"] = pc["viewer"]
    BY <1>6 DEF Ends, SteadyInv, BaselineTypeOK, Tools, Spans
  <2> QED
    BY <2>1, LiveLeaves
<1>7. CASE Ends("viewer")
  <2>1. steady'["live"] = {}
    BY <1>7 DEF Ends, Spans
  <2> QED
    BY <2>1 DEF LiveInv, LiveRead, LiveAsIs, LiveInHand
<1>8. CASE UNCHANGED baselineVars
  BY <1>8, LiveLeaves DEF baselineVars, toolVars
<1> QED
  BY <1>1, <1>2, <1>3, <1>4, <1>5, <1>6, <1>7, <1>8 DEF BaselineNext, Tools

(* ps, zombies and root show a process that did not change during the scan if and
   only if it is what they were asked for, but for --kernel and the processes
   beneath PID 2 that may be taken for kernel threads: for every filter, every
   number of processes, and whatever the others did during the scan. *)
THEOREM SteadyAreListed == BaselineSpec => []SteadyListed
<1>1. SteadyInv /\ LiveInv => SteadyListed
  <2> SUFFICES ASSUME SteadyInv, LiveInv, Filtered, NEW pid \in steady["live"], NEW f \in Filters,
                      \/ f.kernel = {}
                      \/ ~(/\ ~procs[pid].kernel /\ View(procs[pid]).exe = << >>
                           /\ procs[pid].child \/ pid = 2)
               PROVE  Selects(f, procs[pid], procs[pid].kernel)
                        <=> \E i \in Apply(f) : list["viewer"][i].pid = pid
    BY DEF SteadyListed
  <2> DEFINE look == procs[pid]
  <2>1. look \in Looks /\ look \in Look
    BY LooksAssumption DEF SteadyInv, SteadyRun, BaselineTypeOK, Spans
  <2>2. PICK j \in DOMAIN list["viewer"] : list["viewer"][j].pid = pid
    BY DEF SteadyInv, LiveInv, LiveRead, Between, Filtered
  <2>3. ASSUME NEW i \in DOMAIN list["viewer"], list["viewer"][i].pid = pid
        PROVE  i \in Apply(f) <=> Selects(f, look, look.kernel)
    <3> DEFINE p == list["viewer"][i]
    <3>1. /\ p.name = look.name /\ p.uid = look.uid /\ p.state = look.state
          /\ p.child = look.child /\ p.exe = View(look).exe /\ p.args = look.args
      BY <2>3 DEF LiveInv, LiveAsIs, Seen
    <3>2. f.kernel = {} \/ (IsKernelThread(p) <=> look.kernel)
      <4>1. look.kernel => look.exe = << >> /\ look.child
        BY <2>1, KernelAssumption
      <4>2. look.kernel => View(look).exe = << >>
        BY <4>1 DEF View
      <4> QED
        BY <2>3, <3>1, <4>1, <4>2 DEF IsKernelThread
    <3>3. Selects(f, p, IsKernelThread(p)) <=> Selects(f, look, look.kernel)
      <4>1. IsKernelThread(p) \in BOOLEAN /\ look.kernel \in BOOLEAN
        BY <2>1 DEF IsKernelThread, Look
      <4>2. f.kernel = {} \/ IsKernelThread(p) = look.kernel
        BY <3>2, <4>1
      <4> QED
        BY <3>1, <4>2 DEF Selects
    <3> QED
      BY <2>3, <3>3 DEF Apply
  <2> QED
    BY <2>2, <2>3 DEF Apply
<1> QED
  BY <1>1, SteadyInitial, SteadyStep, LiveInitial, LiveStep, PTL DEF BaselineSpec

-----------------------------------------------------------------------------
(* The keys of DiffAgainstSnapshot. *)

\* Where the items of two sequences are in the one made of them.
LEMMA Joined ==
    ASSUME NEW n \in Nat, NEW x \in Nat, NEW s \in [1..n -> Nat], NEW t \in [1..x -> Nat]
    PROVE  /\ s \o t \in [1 .. n + x -> Nat]
           /\ \A i \in 1..n : (s \o t)[i] = s[i]
           /\ \A i \in 1..x : (s \o t)[n + i] = t[i]
<1>1. s \in Seq(Nat) /\ t \in Seq(Nat) /\ Len(s) = n /\ Len(t) = x
  OBVIOUS
<1>2. /\ s \o t \in Seq(Nat) /\ Len(s \o t) = Len(s) + Len(t)
      /\ \A i \in 1 .. Len(s) + Len(t) : (s \o t)[i] = IF i <= Len(s) THEN s[i] ELSE t[i - Len(s)]
  BY <1>1, ConcatProperties, Zenon
<1>3. s \o t \in [1 .. n + x -> Nat]
  BY <1>1, <1>2, LenProperties
<1>4. ASSUME NEW i \in 1..n
      PROVE  (s \o t)[i] = s[i]
  BY <1>1, <1>2
<1>5. ASSUME NEW i \in 1..x
      PROVE  (s \o t)[n + i] = t[i]
  <2>1. n + i \in 1 .. n + x /\ ~(n + i <= n) /\ (n + i) - n = i
    OBVIOUS
  <2> QED
    BY <1>1, <1>2, <2>1
<1> QED
  BY <1>3, <1>4, <1>5

LEMMA Closed ==
    ASSUME NEW n \in Nat, NEW s \in [1..n -> Nat], NEW c \in Nat
    PROVE  \E k \in [1 .. n + 1 -> Nat] :
               /\ k = s \o << c >>
               /\ \A i \in 1..n : k[i] = s[i]
               /\ k[n + 1] = c
<1>1. /\ << c >> \in [1..1 -> Nat] /\ << c >>[1] = c
      /\ 1 \in Nat /\ 1 \in 1..1
  OBVIOUS
<1>2. /\ s \o << c >> \in [1 .. n + 1 -> Nat]
      /\ \A i \in 1..n : (s \o << c >>)[i] = s[i]
      /\ \A i \in 1..1 : (s \o << c >>)[n + i] = << c >>[i]
  BY <1>1, Joined, Zenon
<1>3. (s \o << c >>)[n + 1] = c
  BY <1>1, <1>2, Zenon
<1> QED
  BY <1>2, <1>3, Zenon

\* The parts of a key and where they are.
Parts(key, e, n, x) ==
    /\ key \in [1 .. n + x + 3 -> Nat]
    /\ \A i \in 1..n : key[i] = e.name[i]
    /\ key[n + 1] = Bar
    /\ \A i \in 1..x : key[n + 1 + i] = e.exe[i]
    /\ key[n + x + 3] = e.uid + 3

LEMMA KeyParts ==
    ASSUME NEW e \in SnapshotEntry, NEW n \in Nat, NEW x \in Nat,
           e.name \in [1..n -> Nat], e.exe \in [1..x -> Nat]
    PROVE  Parts(Key(e), e, n, x)
<1>1. e.uid + 3 \in Nat /\ Bar \in Nat
  BY DEF SnapshotEntry, Bar
<1>3. PICK k1 \in [1 .. n + 1 -> Nat] :
          /\ k1 = e.name \o << Bar >>
          /\ \A i \in 1..n : k1[i] = e.name[i]
          /\ k1[n + 1] = Bar
  BY <1>1, Closed, Zenon
<1>4. PICK k2 \in [1 .. n + 1 + x -> Nat] :
          /\ k2 = k1 \o e.exe
          /\ \A i \in 1 .. n + 1 : k2[i] = k1[i]
          /\ \A i \in 1..x : k2[n + 1 + i] = e.exe[i]
  <2>1. n + 1 \in Nat
    OBVIOUS
  <2> QED
    BY <2>1, Joined, Zenon
<1>5. PICK k3 \in [1 .. n + 1 + x + 1 -> Nat] :
          /\ k3 = k2 \o << Bar >>
          /\ \A i \in 1 .. n + 1 + x : k3[i] = k2[i]
          /\ k3[n + 1 + x + 1] = Bar
  <2>1. n + 1 + x \in Nat
    OBVIOUS
  <2> QED
    BY <1>1, <2>1, Closed, Zenon
<1>6. PICK k4 \in [1 .. n + 1 + x + 1 + 1 -> Nat] :
          /\ k4 = k3 \o << e.uid + 3 >>
          /\ \A i \in 1 .. n + 1 + x + 1 : k4[i] = k3[i]
          /\ k4[n + 1 + x + 1 + 1] = e.uid + 3
  <2>1. n + 1 + x + 1 \in Nat
    OBVIOUS
  <2> QED
    BY <1>1, <2>1, Closed, Zenon
<1>7. Key(e) = k4
  BY <1>3, <1>4, <1>5, <1>6 DEF Key, Digits
<1>8. n + 1 + x + 1 + 1 = n + x + 3
  OBVIOUS
<1>9. ASSUME NEW i \in 1..n
      PROVE  k4[i] = e.name[i]
  <2>1. i \in 1 .. n + 1 /\ i \in 1 .. n + 1 + x /\ i \in 1 .. n + 1 + x + 1
    OBVIOUS
  <2> QED
    <3>1. k4[i] = k3[i] /\ k3[i] = k2[i]
      BY <1>5, <1>6, <2>1
    <3>2. k2[i] = k1[i] /\ k1[i] = e.name[i]
      BY <1>3, <1>4, <2>1
    <3> QED
      BY <3>1, <3>2
<1>10. k4[n + 1] = Bar
  <2>1. n + 1 \in 1 .. n + 1 /\ n + 1 \in 1 .. n + 1 + x /\ n + 1 \in 1 .. n + 1 + x + 1
    OBVIOUS
  <2> QED
    BY <1>3, <1>4, <1>5, <1>6, <2>1, Zenon
<1>11. ASSUME NEW i \in 1..x
       PROVE  k4[n + 1 + i] = e.exe[i]
  <2>1. n + 1 + i \in 1 .. n + 1 + x /\ n + 1 + i \in 1 .. n + 1 + x + 1
    OBVIOUS
  <2> QED
    BY <1>4, <1>5, <1>6, <2>1
<1> QED
  BY <1>6, <1>7, <1>8, <1>9, <1>10, <1>11 DEF Parts

\* An entry without bars shares its key with no other entry.
LEMMA PlainKeyUnique ==
    ASSUME NEW e \in SnapshotEntry, NEW f \in SnapshotEntry, Plain(e), Key(e) = Key(f)
    PROVE  e = f
<1>1. /\ e.name \in Seq(Nat) /\ e.exe \in Seq(Nat) /\ f.name \in Seq(Nat) /\ f.exe \in Seq(Nat)
      /\ e.uid \in Nat /\ f.uid \in Nat
  BY DEF SnapshotEntry, Text
<1>2. \A s \in Seq(Nat) : \E n \in Nat : s \in [1..n -> Nat]
  BY LenProperties
<1>3. PICK n \in Nat, x \in Nat : e.name \in [1..n -> Nat] /\ e.exe \in [1..x -> Nat]
  BY <1>1, <1>2
<1>4. PICK m \in Nat, y \in Nat : f.name \in [1..m -> Nat] /\ f.exe \in [1..y -> Nat]
  BY <1>1, <1>2
<1>5. PICK key : Parts(key, e, n, x) /\ Parts(key, f, m, y)
  <2>1. Parts(Key(e), e, n, x) /\ Parts(Key(f), f, m, y)
    BY <1>3, <1>4, KeyParts
  <2> QED
    BY <2>1
<1>6. /\ key \in [1 .. n + x + 3 -> Nat]
      /\ \A i \in 1..n : key[i] = e.name[i]
      /\ key[n + 1] = Bar
      /\ \A i \in 1..x : key[n + 1 + i] = e.exe[i]
      /\ key[n + x + 3] = e.uid + 3
  BY <1>5 DEF Parts
<1>7. /\ key \in [1 .. m + y + 3 -> Nat]
      /\ \A i \in 1..m : key[i] = f.name[i]
      /\ key[m + 1] = Bar
      /\ \A i \in 1..y : key[m + 1 + i] = f.exe[i]
      /\ key[m + y + 3] = f.uid + 3
  BY <1>5 DEF Parts
<1>8. /\ \A i \in 1..n : e.name[i] # Bar
      /\ \A i \in 1..x : e.exe[i] # Bar
  BY <1>3 DEF Plain
<1>9. n + x = m + y
  <2>1. 1 .. n + x + 3 = 1 .. m + y + 3
    BY <1>6, <1>7
  <2>2. n + x + 3 \in 1 .. n + x + 3 /\ m + y + 3 \in 1 .. m + y + 3
    OBVIOUS
  <2>3. n + x + 3 \in 1 .. m + y + 3 /\ m + y + 3 \in 1 .. n + x + 3
    BY <2>1, <2>2
  <2> QED
    BY <2>3
<1>10. ~(m < n)
  <2>1. m < n => m + 1 \in 1..n
    OBVIOUS
  <2> QED
    BY <1>6, <1>7, <1>8, <2>1
<1>11. ~(n < m)
  <2>1. n < m => m - n \in 1..x /\ n + 1 + (m - n) = m + 1
    BY <1>9
  <2>2. m - n \in 1..x => key[n + 1 + (m - n)] # Bar
    BY <1>6, <1>8, Zenon
  <2> QED
    BY <1>7, <2>1, <2>2
<1>12. m = n
  BY <1>10, <1>11
<1>13. y = x
  BY <1>9, <1>12
<1>14. e.uid = f.uid
  <2>1. e.uid + 3 = f.uid + 3
    BY <1>6, <1>7, <1>12, <1>13
  <2>2. \A a, b \in Nat : a + 3 = b + 3 => a = b
    OBVIOUS
  <2> QED
    BY <1>1, <2>1, <2>2, Zenon
<1>15. e.name = f.name
  <2>1. \A i \in 1..n : e.name[i] = f.name[i]
    BY <1>6, <1>7, <1>12
  <2> QED
    BY <1>3, <1>4, <1>12, <2>1
<1>16. e.exe = f.exe
  <2>1. \A i \in 1..x : e.exe[i] = f.exe[i]
    BY <1>6, <1>7, <1>12, <1>13
  <2> QED
    BY <1>3, <1>4, <1>13, <2>1
<1> QED
  BY <1>14, <1>15, <1>16 DEF SnapshotEntry

(* On a quiet machine the comparison is exact, for every set of processes and
   every baseline: what is new and what is missing are differences, and all of
   them, but for entries with a bar in their texts. *)
THEOREM QuietDiffHolds == BaselineSpec => []QuietDiffExact
<1>1. SteadyInv /\ LiveInv => QuietDiffExact
  <2> SUFFICES ASSUME SteadyInv, LiveInv, Compared, Quiet
               PROVE  /\ \A pid \in DOMAIN procs : Plain(procs[pid]) =>
                            ((\E i \in New : list["viewer"][i].pid = pid)
                                <=> ~\E i \in DOMAIN base : base[i] = View(procs[pid]))
                      /\ \A i \in DOMAIN base : Plain(base[i]) =>
                            (i \in Missing <=> ~\E pid \in DOMAIN procs : View(procs[pid]) = base[i])
    BY DEF QuietDiffExact
  <2> DEFINE read == list["viewer"]
  <2>1. /\ read \in Seq(Process) /\ DOMAIN LiveEntries = DOMAIN read
        /\ \A i \in DOMAIN read : LiveEntries[i] = EntryOf(read[i])
        /\ base \in Seq(SnapshotEntry) /\ \A i \in DOMAIN base : base[i] \in SnapshotEntry
    BY EntriesType DEF SteadyInv, BaselineTypeOK, Tools, LiveEntries
  <2>2. \A pid \in DOMAIN procs :
            /\ procs[pid] \in Look /\ View(procs[pid]) \in SnapshotEntry
            /\ Plain(procs[pid]) => Plain(View(procs[pid]))
    <3>1. \A pid \in DOMAIN procs : procs[pid] \in Look
      BY LooksAssumption DEF SteadyInv, BaselineTypeOK
    <3>2. << >> \in Text /\ DOMAIN << >> = {}
      BY DEF Text
    <3> QED
      BY <3>1, <3>2 DEF View, Look, SnapshotEntry, Plain
  <2>3. \A i \in DOMAIN read :
            /\ read[i].pid \in DOMAIN procs
            /\ LiveEntries[i] = View(procs[read[i].pid])
    <3> SUFFICES ASSUME NEW i \in DOMAIN read
                 PROVE  read[i].pid \in DOMAIN procs /\ LiveEntries[i] = View(procs[read[i].pid])
      OBVIOUS
    <3>1. read[i].pid \in steady["live"]
      BY DEF Quiet
    <3>2. read[i].pid \in DOMAIN procs
      BY <3>1 DEF SteadyInv, SteadyRun, Spans
    <3>3. /\ read[i].name = procs[read[i].pid].name /\ read[i].uid = procs[read[i].pid].uid
          /\ read[i].exe = View(procs[read[i].pid]).exe
      BY <3>1 DEF LiveInv, LiveAsIs, Seen
    <3> QED
      BY <2>1, <3>2, <3>3 DEF EntryOf, View
  <2>4. \A pid \in DOMAIN procs : \E i \in DOMAIN read : read[i].pid = pid
    BY DEF Quiet, SteadyInv, LiveInv, LiveRead, Between, Compared
  <2>5. \A key : key \in LiveSet <=> \E pid \in DOMAIN procs : key = Key(View(procs[pid]))
    <3>1. LiveSet = {Key(LiveEntries[i]) : i \in DOMAIN read}
      BY <2>1 DEF LiveSet
    <3>2. ASSUME NEW i \in DOMAIN read
          PROVE  \E pid \in DOMAIN procs : Key(LiveEntries[i]) = Key(View(procs[pid]))
      BY <2>3
    <3>3. ASSUME NEW pid \in DOMAIN procs
          PROVE  \E i \in DOMAIN read : Key(View(procs[pid])) = Key(LiveEntries[i])
      <4>1. PICK i \in DOMAIN read : read[i].pid = pid
        BY <2>4
      <4>2. LiveEntries[i] = View(procs[pid])
        BY <2>3, <4>1
      <4> QED
        BY <4>2
    <3> HIDE DEF read
    <3> QED
      BY <3>1, <3>2, <3>3, Zenon
  <2>6. ASSUME NEW pid \in DOMAIN procs, Plain(procs[pid])
        PROVE  (\E i \in New : read[i].pid = pid)
                  <=> ~\E i \in DOMAIN base : base[i] = View(procs[pid])
    <3>1. PICK j \in DOMAIN read : read[j].pid = pid
      BY <2>4
    <3>2. \A i \in DOMAIN read : read[i].pid = pid => LiveEntries[i] = View(procs[pid])
      BY <2>3
    <3>3. (\E i \in New : read[i].pid = pid) <=> Key(View(procs[pid])) \notin BaseSet
      BY <2>1, <3>1, <3>2 DEF New
    <3>4. \A i \in DOMAIN base : Key(base[i]) = Key(View(procs[pid])) => base[i] = View(procs[pid])
      BY <2>1, <2>2, <2>6, PlainKeyUnique
    <3> QED
      BY <3>3, <3>4 DEF BaseSet
  <2>7. ASSUME NEW i \in DOMAIN base, Plain(base[i])
        PROVE  i \in Missing <=> ~\E pid \in DOMAIN procs : View(procs[pid]) = base[i]
    <3>1. \A pid \in DOMAIN procs : Key(View(procs[pid])) = Key(base[i]) => View(procs[pid]) = base[i]
      BY <2>1, <2>2, <2>7, PlainKeyUnique
    <3> QED
      BY <2>5, <3>1 DEF Missing
  <2> QED
    BY <2>6, <2>7
<1> QED
  BY <1>1, SteadyInitial, SteadyStep, LiveInitial, LiveStep, PTL DEF BaselineSpec
=============================================================================
