--------------------------- MODULE WatcherProofs ---------------------------
(***************************************************************************)
(* Proofs about Watcher for every set of PIDs, every set of field values,  *)
(* every filter, channel capacity and DeepCheckInterval: its inductive     *)
(* invariant, and what its clients rely on: the event stream, the deep     *)
(* fields, the filter, and what an Exited event means.                     *)
(***************************************************************************)
EXTENDS Watcher, TLAPS

(***************************************************************************)
(* Types of what the model computes for one process.                       *)
(***************************************************************************)

(* Every environment step keeps the /proc table well typed. *)
LEMMA MachineType ==
    ASSUME FSTypeOK, FSNext
    PROVE  FSTypeOK'
<1> USE DEF FSTypeOK, Process
<1>1. ASSUME NEW pid \in Pids, Birth(pid) PROVE FSTypeOK'
  <2>1. PICK k \in BOOLEAN : \E v \in IF k THEN KernelContexts ELSE UserContexts :
            procs' = Put(procs, pid, [gen |-> births + 1, kthread |-> k, val |-> v])
    BY <1>1 DEF Birth
  <2>2. PICK v \in Contexts :
            procs' = Put(procs, pid, [gen |-> births + 1, kthread |-> k, val |-> v])
    BY <2>1 DEF KernelContexts, UserContexts
  <2>3. v \in Values
    BY <2>2, ValsAssumption DEF Contexts, Values
  <2>4. [gen |-> births + 1, kthread |-> k, val |-> v] \in Process
    BY <2>3
  <2>5. /\ DOMAIN procs' = DOMAIN procs \cup {pid}
        /\ procs' \in [DOMAIN procs' -> Process]
    BY <2>2, <2>4 DEF Put
  <2> QED
    BY <1>1, <2>5, BirthsAssumption DEF Birth
<1>2. ASSUME NEW pid \in Pids, NEW f \in Fields, Change(pid, f) PROVE FSTypeOK'
  <2>1. PICK v \in Vals[f] : procs' = [procs EXCEPT ![pid].val[f] = v]
    BY <1>2 DEF Change
  <2>2. v \in Nat /\ pid \in DOMAIN procs
    BY <1>2, <2>1, ValsAssumption DEF Change, Running
  <2>3. [procs[pid] EXCEPT !.val[f] = v] \in Process
    BY <2>2 DEF Values
  <2> QED
    BY <1>2, <2>1, <2>2, <2>3 DEF Change
<1>3. ASSUME NEW pid \in Pids, BecomeZombie(pid) PROVE FSTypeOK'
  <2>1. pid \in DOMAIN procs
    BY <1>3 DEF BecomeZombie, Running
  <2>2. [procs[pid] EXCEPT !.val["exe"] = 0] \in Process
    BY <2>1 DEF Values
  <2> QED
    BY <1>3, <2>1, <2>2 DEF BecomeZombie
<1>4. ASSUME NEW pid \in Pids, Reap(pid) PROVE FSTypeOK'
  BY <1>4 DEF Reap, Drop
<1> QED BY <1>1, <1>2, <1>3, <1>4 DEF FSNext

(* A link read yields a number: the field's value or 0. *)
LEMMA LinkSeenType ==
    ASSUME FSTypeOK, NEW pid, NEW f \in Fields
    PROVE  LinkSeen(pid, f) \subseteq Nat
  BY DEF FSTypeOK, LinkSeen, Running, Process, Values

(* Overwriting the cheap fields keeps a snapshot well typed. *)
LEMMA OverwriteType ==
    ASSUME NEW s \in Snapshot, NEW p \in Process
    PROVE  /\ Overwrite(s, p) \in Snapshot
           /\ Overwrite(s, p).age = s.age
           /\ \A f \in Fields \ CheapFields : Overwrite(s, p).val[f] = s.val[f]
  BY DEF Overwrite, Snapshot, Process, Values

(* The exe link's target is stored in the process under examination. *)
LEMMA WithExeType ==
    ASSUME NEW pid \in DOMAIN cur, cur \in [DOMAIN cur -> Process], NEW e \in Nat
    PROVE  WithExe(pid, e) \in Process
  BY DEF WithExe, Process, Values

(* detectContextChange lists well-typed changes. *)
LEMMA ChangesType ==
    ASSUME NEW a \in Values, NEW b \in Values
    PROVE  /\ CheapChanges(a, b) \subseteq ContextChange
           /\ StatusChanges(a, b) \subseteq ContextChange
  BY DEF CheapChanges, StatusChanges, ChangeOf, ContextChange, Values, CheapFields,
         StatusFields, Fields

(* The status file's deep fields, over a snapshot's other fields. *)
LEMMA WithStatusType ==
    ASSUME NEW a \in Values, NEW b \in Values
    PROVE  /\ WithStatus(a, b) \in Values
           /\ \A f \in StatusFields : WithStatus(a, b)[f] = b[f]
           /\ \A f \in Fields \ StatusFields : WithStatus(a, b)[f] = a[f]
  BY DEF WithStatus, Values, StatusFields, Fields

(* The first namespace read of a told PID is taken over, and nothing else. *)
LEMMA FirstNetnsIs ==
    ASSUME told \in [DOMAIN told -> Process], NEW pid \in DOMAIN told, NEW n \in Nat
    PROVE  /\ DOMAIN FirstNetns(pid, n) = DOMAIN told
           /\ FirstNetns(pid, n) \in [DOMAIN told -> Process]
           /\ \A q \in DOMAIN told \ {pid} : FirstNetns(pid, n)[q] = told[q]
           /\ \A f \in Fields \ {"netns"} : FirstNetns(pid, n)[pid].val[f] = told[pid].val[f]
           /\ FirstNetns(pid, n)[pid].val["netns"] =
                 IF told[pid].val["netns"] = 0 THEN n ELSE told[pid].val["netns"]
<1> DEFINE m == IF told[pid].val["netns"] = 0 THEN n ELSE told[pid].val["netns"]
           p == [told[pid] EXCEPT !.val["netns"] = m]
<1>1. told[pid] \in Process /\ "netns" \in Fields
  BY DEF Fields
<1>2. m \in Nat
  BY <1>1 DEF Process, Values
<1>3. FirstNetns(pid, n) = [told EXCEPT ![pid] = p]
  BY DEF FirstNetns
<1> HIDE DEF m
<1>4. /\ p \in Process /\ p.val["netns"] = m
      /\ \A f \in Fields \ {"netns"} : p.val[f] = told[pid].val[f]
  BY <1>1, <1>2 DEF Process, Values
<1> HIDE DEF p
<1>5. /\ DOMAIN FirstNetns(pid, n) = DOMAIN told
      /\ FirstNetns(pid, n) \in [DOMAIN told -> Process]
      /\ \A q \in DOMAIN told \ {pid} : FirstNetns(pid, n)[q] = told[q]
      /\ FirstNetns(pid, n)[pid] = p
  BY <1>3, <1>4
<1> QED BY <1>4, <1>5 DEF m

(***************************************************************************)
(* The inductive invariant.  TypeOK alone is not inductive: a send reads   *)
(* known[pid] and told[pid] of the process under examination, so one has   *)
(* to know which of the two maps hold it where.                            *)
(***************************************************************************)
Busy == {"exe", "extra", "ns", "started", "changed"}

\* At most one process is under examination, and only inside the scan.
OneCur ==
    /\ \A p, q \in DOMAIN cur : p = q
    /\ pc \notin Busy => DOMAIN cur = {}

\* Where the process under examination stands in known and told.
CurTracked ==
    /\ pc = "started" => DOMAIN cur \subseteq DOMAIN known \ DOMAIN told
    /\ pc = "changed" => DOMAIN cur \subseteq DOMAIN told
    /\ changes # {} => pc \in {"extra", "ns", "changed"} /\ DOMAIN cur \subseteq DOMAIN told

Shape == OneCur /\ KnownIsTold /\ CurTracked

IInv == TypeOK /\ Shape

(* The initial state satisfies the inductive invariant. *)
LEMMA InitIInv == Init => IInv
<1> SUFFICES ASSUME Init PROVE IInv
  OBVIOUS
<1>1. /\ DOMAIN procs = {} /\ DOMAIN cur = {} /\ DOMAIN known = {} /\ DOMAIN told = {}
      /\ procs \in [{} -> Process] /\ cur \in [{} -> Process]
      /\ known \in [{} -> Snapshot] /\ told \in [{} -> Process]
  BY DEF Init, FSInit
<1>2. chan \in Seq(Stream!Event) /\ Len(chan) <= Cap
  BY CapAssumption DEF Init
<1>3. FSTypeOK
  BY <1>1 DEF Init, FSInit, FSTypeOK
<1>4. ticked \in BOOLEAN /\ stop \in BOOLEAN
  BY Zenon DEF Init
<1>5. pc \in PCs /\ elapsed \in 0..Deep /\ todo = {} /\ seen = {} /\ changes = {}
  BY DeepAssumption DEF Init, PCs
<1>6. TypeOK
  BY <1>1, <1>2, <1>3, <1>4, <1>5 DEF TypeOK
<1>7. Shape
  BY <1>1 DEF Init, Shape, OneCur, KnownIsTold, CurTracked
<1> QED BY <1>6, <1>7 DEF IInv

(* Steps of the machine change nothing the watcher keeps. *)
LEMMA MachineIInv ==
    ASSUME IInv, Machine
    PROVE  IInv'
<1>1. FSTypeOK'
  BY MachineType DEF IInv, TypeOK, Machine
<1> QED
  BY <1>1 DEF IInv, TypeOK, Machine, watcherVars, Shape, OneCur, KnownIsTold, CurTracked

(* Run's own steps: the ticker, the begin and the end of a poll, the return. *)
LEMMA RunIInv ==
    ASSUME IInv, Tick \/ BeginPoll \/ ListFails \/ EndPoll \/ ReturnOnStop
    PROVE  IInv'
<1> USE DEF IInv, TypeOK, FSTypeOK, PCs
<1>1. CASE Tick
  BY <1>1, DeepAssumption DEF Tick, Younger, pollVars, Shape, OneCur, KnownIsTold, CurTracked
<1>2. CASE BeginPoll
  <2>1. ASSUME NEW s \in Snapshot PROVE Aged(s) \in Snapshot
    <3>1. s.age \in 0..Deep
      BY DEF Snapshot
    <3>2. Younger(s.age + elapsed, Deep) \in 0..Deep
      BY <3>1, DeepAssumption DEF Younger
    <3> QED
      BY <3>2 DEF Aged, Snapshot
  <2>2. DOMAIN known' = DOMAIN known /\ known' \in [DOMAIN known -> Snapshot]
    BY <1>2, <2>1 DEF BeginPoll
  <2>3. TypeOK'
    <3>1. ticked' \in BOOLEAN
      BY <1>2, Zenon DEF BeginPoll, TakeTick
    <3>2. elapsed' \in 0..Deep /\ todo' \subseteq Pids
      BY <1>2, DeepAssumption DEF BeginPoll, Listed
    <3> QED
      BY <1>2, <2>2, <3>1, <3>2 DEF BeginPoll
  <2>4. Shape'
    BY <1>2, <2>2 DEF BeginPoll, MayPoll, Shape, OneCur, KnownIsTold, CurTracked, Busy
  <2> QED BY <2>3, <2>4
<1>3. CASE ListFails
  BY <1>3 DEF ListFails, MayPoll, TakeTick, pollVars, Shape, OneCur, KnownIsTold, CurTracked, Busy
<1>4. CASE EndPoll
  BY <1>4 DEF EndPoll, Swept, runVars, Shape, OneCur, KnownIsTold, CurTracked, Busy
<1>5. CASE ReturnOnStop
  BY <1>5 DEF ReturnOnStop, MayReturn, runVars, pollVars, Shape, OneCur, KnownIsTold,
              CurTracked, Busy
<1> QED BY <1>1, <1>2, <1>3, <1>4, <1>5

(* Finish empties the examination: the shape of the scan between two PIDs. *)
LEMMA FinishType ==
    ASSUME IInv, NEW pid \in DOMAIN cur, Finish(pid)
    PROVE  /\ pc' = "scan" /\ todo' \subseteq Pids /\ changes' = {}
           /\ DOMAIN cur' = {} /\ cur' \in [DOMAIN cur' -> Process]
  BY DEF IInv, TypeOK, Shape, OneCur, Finish, Drop

(* The steps of the scan: a read of status, a read of exe, and what follows. *)
LEMMA ScanIInv ==
    ASSUME IInv, NEW pid \in Pids, Scan(pid)
    PROVE  IInv'
<1> USE DEF IInv, TypeOK, PCs
<1>0. \A e \in LinkSeen(pid, "exe") : pid \in DOMAIN cur => WithExe(pid, e) \in Process
  BY LinkSeenType, WithExeType DEF Fields, CheapFields
<1>1. CASE ReadFails(pid)
  BY <1>1 DEF ReadFails, FSTypeOK, runVars, Shape, OneCur, KnownIsTold, CurTracked
<1>2. CASE ReadStatus(pid)
  <2> DEFINE p == [procs[pid] EXCEPT
                     !.val = [f \in Fields |-> IF f \in {"uid", "gid"} THEN @[f] ELSE 0]]
  <2>1. p \in Process
    <3>1. procs[pid] \in Process
      BY <1>2 DEF ReadStatus, Running, FSTypeOK
    <3>2. [f \in Fields |-> IF f \in {"uid", "gid"} THEN procs[pid].val[f] ELSE 0] \in Values
      BY <3>1 DEF Process, Values
    <3> QED BY <3>1, <3>2 DEF Process
  <2>2. cur' = Put(cur, pid, p) /\ DOMAIN cur = {}
    BY <1>2 DEF ReadStatus, Shape, OneCur, Busy
  <2> HIDE DEF p
  <2>3. DOMAIN cur' = {pid} /\ cur' \in [DOMAIN cur' -> Process]
    BY <2>1, <2>2 DEF Put
  <2>4. TypeOK'
    BY <1>2, <2>3 DEF ReadStatus, FSTypeOK, runVars
  <2>5. Shape'
    BY <1>2, <2>3 DEF ReadStatus, Shape, OneCur, KnownIsTold, CurTracked, Busy
  <2> QED BY <2>4, <2>5
<1>3. CASE FilterOut(pid)
  <2>1. Finish(pid) /\ pid \in DOMAIN cur
    BY <1>3 DEF FilterOut
  <2>2. TypeOK'
    BY <1>3, <2>1, FinishType DEF FilterOut, FSTypeOK, runVars
  <2>3. Shape'
    BY <1>3, <2>1, FinishType DEF FilterOut, Shape, OneCur, KnownIsTold, CurTracked
  <2> QED BY <2>2, <2>3
<1>4. CASE Unknown(pid)
  <2>1. PICK e \in LinkSeen(pid, "exe") :
          /\ cur' = [cur EXCEPT ![pid] = WithExe(pid, e)]
          /\ IF Deep > 0
             THEN pc' = "extra" /\ UNCHANGED known
             ELSE pc' = "started" /\ Track(pid, WithExe(pid, e))
    BY <1>4 DEF Unknown
  <2>2. pid \in DOMAIN cur /\ pid \notin DOMAIN known /\ WithExe(pid, e) \in Process
    BY <1>0, <1>4 DEF Unknown
  <2>3. DOMAIN cur' = {pid} /\ cur' \in [DOMAIN cur' -> Process]
    BY <2>1, <2>2 DEF Shape, OneCur
  <2>4. seen' \subseteq Pids /\ changes = {}
    BY <1>4 DEF Unknown, Mark, Shape, CurTracked
  <2>5. CASE Deep > 0
    <3>1. TypeOK'
      BY <1>4, <2>1, <2>3, <2>4, <2>5 DEF Unknown, FSTypeOK, runVars
    <3>2. Shape'
      BY <1>4, <2>1, <2>3, <2>4, <2>5
         DEF Unknown, Shape, OneCur, KnownIsTold, CurTracked, Busy
    <3> QED BY <3>1, <3>2
  <2>6. CASE ~(Deep > 0)
    <3>1. /\ DOMAIN known' = DOMAIN known \cup {pid}
          /\ known' \in [DOMAIN known' -> Snapshot]
      BY <2>1, <2>2, <2>6, DeepAssumption DEF Track, Put, Snapshot, Process
    <3>2. TypeOK'
      BY <1>4, <2>1, <2>3, <2>4, <2>6, <3>1 DEF Unknown, FSTypeOK, runVars
    <3>3. Shape'
      BY <1>4, <2>1, <2>2, <2>3, <2>4, <2>6, <3>1
         DEF Unknown, Shape, OneCur, KnownIsTold, CurTracked, Busy
    <3> QED BY <3>2, <3>3
  <2> QED BY <2>5, <2>6
<1>5. CASE Refresh(pid)
  <2>1. PICK e \in LinkSeen(pid, "exe") :
            known' = [known EXCEPT ![pid] = Overwrite(@, WithExe(pid, e))]
    BY <1>5 DEF Refresh
  <2>2. Finish(pid) /\ pid \in DOMAIN cur /\ pid \in DOMAIN known
    BY <1>5 DEF Refresh
  <2>3. Overwrite(known[pid], WithExe(pid, e)) \in Snapshot
    BY <1>0, <2>2, OverwriteType
  <2>4. DOMAIN known' = DOMAIN known /\ known' \in [DOMAIN known -> Snapshot]
    BY <2>1, <2>2, <2>3
  <2>5. TypeOK'
    BY <1>5, <2>2, <2>4, FinishType DEF Refresh, Mark, FSTypeOK, runVars
  <2>6. Shape'
    BY <1>5, <2>2, <2>4, FinishType DEF Refresh, Shape, OneCur, KnownIsTold, CurTracked
  <2> QED BY <2>5, <2>6
<1>6. CASE BeginDeepCheck(pid)
  <2>1. PICK e \in LinkSeen(pid, "exe") :
          /\ cur' = [cur EXCEPT ![pid] = WithExe(pid, e)]
          /\ changes' = CheapChanges(known[pid].val, WithExe(pid, e).val)
    BY <1>6 DEF BeginDeepCheck
  <2>2. pid \in DOMAIN cur /\ pid \in DOMAIN known /\ WithExe(pid, e) \in Process
    BY <1>0, <1>6 DEF BeginDeepCheck
  <2>3. DOMAIN cur' = {pid} /\ cur' \in [DOMAIN cur' -> Process]
    BY <2>1, <2>2 DEF Shape, OneCur
  <2>4. changes' \subseteq ContextChange
    BY <2>1, <2>2, ChangesType DEF Snapshot, Process
  <2>5. DOMAIN known = DOMAIN told
    BY <1>6 DEF BeginDeepCheck, Shape, KnownIsTold
  <2>6. TypeOK'
    BY <1>6, <2>3, <2>4 DEF BeginDeepCheck, Mark, FSTypeOK, runVars
  <2>7. Shape'
    BY <1>6, <2>2, <2>3, <2>5
       DEF BeginDeepCheck, Shape, OneCur, KnownIsTold, CurTracked, Busy
  <2> QED BY <2>6, <2>7
<1> QED BY <1>1, <1>2, <1>3, <1>4, <1>5, <1>6 DEF Scan

(* The deep reads: status once more, then the namespaces. *)
LEMMA DeepReadsIInv ==
    ASSUME IInv, NEW pid \in Pids, DeepReads(pid)
    PROVE  IInv'
<1> USE DEF IInv, TypeOK, PCs
<1>0. /\ LinkSeen(pid, "netns") \subseteq Nat
      /\ pid \in DOMAIN cur => DOMAIN cur = {pid} /\ cur[pid] \in Process
      /\ pid \in DOMAIN known => known[pid] \in Snapshot
      /\ Running(pid) => procs[pid].val \in Values
  BY LinkSeenType DEF Fields, Shape, OneCur, Running, FSTypeOK, Process
<1>1. CASE ExtraMissed(pid)
  BY <1>1 DEF ExtraMissed, FSTypeOK, runVars, pollVars, Shape, OneCur, KnownIsTold,
              CurTracked, Busy
<1>2. CASE ExtraOfNew(pid)
  <2>1. WithStatus(cur[pid].val, procs[pid].val) \in Values
    BY <1>0, <1>2, WithStatusType DEF ExtraOfNew, Process
  <2>2. DOMAIN cur' = {pid} /\ cur' \in [DOMAIN cur' -> Process]
    BY <1>0, <1>2, <2>1 DEF ExtraOfNew, Process
  <2>3. TypeOK'
    BY <1>2, <2>2 DEF ExtraOfNew, FSTypeOK, runVars
  <2>4. Shape'
    BY <1>0, <1>2, <2>2 DEF ExtraOfNew, Shape, OneCur, KnownIsTold, CurTracked, Busy
  <2> QED BY <2>3, <2>4
<1>3. CASE ExtraOfKnown(pid)
  <2>1. /\ WithStatus(known[pid].val, procs[pid].val) \in Values
        /\ StatusChanges(known[pid].val, procs[pid].val) \subseteq ContextChange
    BY <1>0, <1>3, WithStatusType, ChangesType DEF ExtraOfKnown, Snapshot
  <2>2. DOMAIN known' = DOMAIN known /\ known' \in [DOMAIN known -> Snapshot]
    BY <1>0, <1>3, <2>1 DEF ExtraOfKnown, Snapshot
  <2>3. TypeOK'
    BY <1>3, <2>1, <2>2 DEF ExtraOfKnown, FSTypeOK, runVars
  <2>4. Shape'
    BY <1>0, <1>3, <2>2 DEF ExtraOfKnown, Shape, OneCur, KnownIsTold, CurTracked, Busy
  <2> QED BY <2>3, <2>4
<1>4. CASE NsOfNew(pid)
  <2>1. PICK n \in Nat : Track(pid, [cur[pid] EXCEPT !.val["netns"] = n])
    BY <1>0, <1>4 DEF NsOfNew
  <2> DEFINE p == [cur[pid] EXCEPT !.val["netns"] = n]
  <2>2. p \in Process
    BY <1>0, <1>4 DEF NsOfNew, Process, Values
  <2>3. Track(pid, p)
    BY <2>1
  <2> HIDE DEF p
  <2>4. /\ DOMAIN known' = DOMAIN known \cup {pid}
        /\ known' \in [DOMAIN known' -> Snapshot]
    BY <2>2, <2>3, DeepAssumption DEF Track, Put, Snapshot, Process
  <2>5. TypeOK'
    BY <1>4, <2>4 DEF NsOfNew, FSTypeOK, runVars, pollVars
  <2>6. Shape'
    BY <1>0, <1>4, <2>4
       DEF NsOfNew, pollVars, Shape, OneCur, KnownIsTold, CurTracked, Busy
  <2> QED BY <2>5, <2>6
<1>5. \A n \in Nat : pid \in DOMAIN known =>
          /\ NetnsChanges(pid, n) \subseteq ContextChange
          /\ DeepChecked(pid, n) \in Snapshot
  <2> TAKE n \in Nat
  <2> HAVE pid \in DOMAIN known
  <2>1. known[pid] \in Snapshot /\ "netns" \in Fields
    BY <1>0 DEF Fields
  <2>2. known[pid].val["netns"] \in Nat
    BY <2>1 DEF Snapshot, Values
  <2>3. NetnsChanges(pid, n) \subseteq ContextChange
    BY <2>1, <2>2 DEF NetnsChanges, ContextChange
  <2>4. DeepChecked(pid, n) \in Snapshot
    <3> DEFINE m == IF n # 0 THEN n ELSE known[pid].val["netns"]
    <3>1. DeepChecked(pid, n) = [known[pid] EXCEPT !.age = 0, !.val["netns"] = m]
      BY DEF DeepChecked
    <3>2. [known[pid].val EXCEPT !["netns"] = m] \in Values
      BY <2>1, <2>2 DEF Snapshot, Values
    <3>3. DeepChecked(pid, n) = [gen |-> known[pid].gen, kthread |-> known[pid].kthread,
              val |-> [known[pid].val EXCEPT !["netns"] = m], age |-> 0]
      BY <2>1, <3>1 DEF Snapshot
    <3> HIDE DEF m
    <3> QED
      BY <2>1, <3>3, <3>2, DeepAssumption DEF Snapshot
  <2> QED BY <2>3, <2>4
<1>6. CASE NsReports(pid)
  <2>1. PICK n \in Nat :
          /\ changes' = changes \cup NetnsChanges(pid, n)
          /\ known' = [known EXCEPT ![pid] = DeepChecked(pid, n)]
          /\ told' = FirstNetns(pid, n)
    BY <1>0, <1>6 DEF NsReports
  <2>2. DOMAIN known' = DOMAIN known /\ known' \in [DOMAIN known -> Snapshot]
    BY <1>5, <1>6, <2>1 DEF NsReports
  <2>3. changes' \subseteq ContextChange
    BY <1>5, <1>6, <2>1 DEF NsReports
  <2>4. DOMAIN told' = DOMAIN told /\ told' \in [DOMAIN told -> Process]
    BY <1>6, <2>1, FirstNetnsIs DEF NsReports, Shape, KnownIsTold
  <2>5. TypeOK'
    BY <1>6, <2>2, <2>3, <2>4 DEF NsReports, FSTypeOK, runVars
  <2>6. Shape'
    BY <1>0, <1>6, <2>2, <2>4 DEF NsReports, Shape, OneCur, KnownIsTold, CurTracked, Busy
  <2> QED BY <2>5, <2>6
<1>7. CASE NsSilent(pid)
  <2>1. PICK n \in Nat :
          /\ known' = [known EXCEPT ![pid] = Overwrite(DeepChecked(pid, n), cur[pid])]
          /\ told' = FirstNetns(pid, n)
    BY <1>0, <1>7 DEF NsSilent
  <2>2. Overwrite(DeepChecked(pid, n), cur[pid]) \in Snapshot
    BY <1>0, <1>5, <1>7, OverwriteType DEF NsSilent
  <2>3. DOMAIN known' = DOMAIN known /\ known' \in [DOMAIN known -> Snapshot]
    BY <1>7, <2>1, <2>2 DEF NsSilent
  <2>4. Finish(pid) /\ pid \in DOMAIN cur
    BY <1>7 DEF NsSilent
  <2>5. DOMAIN told' = DOMAIN told /\ told' \in [DOMAIN told -> Process]
    BY <1>7, <2>1, FirstNetnsIs DEF NsSilent, Shape, KnownIsTold
  <2>6. TypeOK'
    BY <1>7, <2>3, <2>4, <2>5, FinishType DEF NsSilent, FSTypeOK, runVars
  <2>7. Shape'
    BY <1>7, <2>3, <2>4, <2>5, FinishType DEF NsSilent, Shape, OneCur, KnownIsTold, CurTracked
  <2> QED BY <2>6, <2>7
<1> QED BY <1>1, <1>2, <1>3, <1>4, <1>6, <1>7 DEF DeepReads

(* A send adds one event to a channel that had room. *)
LEMMA SendType ==
    ASSUME TypeOK, NEW k \in Stream!Kinds, NEW pid \in Pids, Stream!Send(k, pid)
    PROVE  chan' \in Seq(Stream!Event) /\ Len(chan') <= Cap /\ stop' = stop
<1>1. [kind |-> k, pid |-> pid] \in Stream!Event
  BY DEF Stream!Event
<1> QED
  BY <1>1, CapAssumption DEF TypeOK, Stream!Send, Stream!Ev

(* The sends: the three kinds of events, and the steps of the client. *)
LEMMA SendsIInv ==
    ASSUME IInv, NEW pid \in Pids, Sends(pid)
    PROVE  IInv'
<1> USE DEF IInv, TypeOK, PCs
<1>0. /\ pid \in DOMAIN cur => DOMAIN cur = {pid} /\ cur[pid] \in Process
      /\ pid \in DOMAIN known => known[pid] \in Snapshot
      /\ pid \in DOMAIN told => told[pid] \in Process
      /\ {"Started", "ContextChanged", "Exited"} = Stream!Kinds
  BY DEF Shape, OneCur, Stream!Kinds
<1>1. CASE SendStarted(pid)
  <2> DEFINE p == [cur[pid] EXCEPT !.val = known[pid].val]
  <2>1. Finish(pid) /\ pid \in DOMAIN cur /\ pid \in DOMAIN known
    BY <1>1 DEF SendStarted, Shape, CurTracked
  <2>2. p \in Process /\ told' = Put(told, pid, p)
    BY <1>0, <1>1, <2>1 DEF SendStarted, Process, Snapshot
  <2> HIDE DEF p
  <2>3. DOMAIN told' = DOMAIN told \cup {pid} /\ told' \in [DOMAIN told' -> Process]
    BY <2>2 DEF Put
  <2>4. chan' \in Seq(Stream!Event) /\ Len(chan') <= Cap /\ stop' = stop
    BY <1>0, <1>1, SendType DEF SendStarted
  <2>5. TypeOK'
    BY <1>1, <2>1, <2>3, <2>4, FinishType DEF SendStarted, FSTypeOK, runVars
  <2>6. Shape'
    BY <1>0, <1>1, <2>1, <2>3, FinishType
       DEF SendStarted, Shape, OneCur, KnownIsTold, CurTracked
  <2> QED BY <2>5, <2>6
<1>2. CASE SendChanged(pid)
  <2>1. Finish(pid) /\ pid \in DOMAIN cur /\ pid \in DOMAIN known /\ pid \in DOMAIN told
    BY <1>2 DEF SendChanged, Shape, CurTracked, KnownIsTold
  <2>2. Telling(pid) \in Process
    <3>1. ASSUME NEW f \in Fields, \E c \in changes : c.field = f
          PROVE  (CHOOSE c \in changes : c.field = f).new \in Nat
      BY <3>1 DEF ContextChange
    <3> QED
      BY <1>0, <2>1, <3>1 DEF Telling, Process, Values
  <2>3. DOMAIN told' = DOMAIN told /\ told' \in [DOMAIN told -> Process]
    BY <1>2, <2>1, <2>2 DEF SendChanged
  <2>4. Overwrite(known[pid], cur[pid]) \in Snapshot
    BY <1>0, <2>1, OverwriteType
  <2>5. DOMAIN known' = DOMAIN known /\ known' \in [DOMAIN known -> Snapshot]
    BY <1>2, <2>1, <2>4 DEF SendChanged
  <2>6. chan' \in Seq(Stream!Event) /\ Len(chan') <= Cap /\ stop' = stop
    BY <1>0, <1>2, SendType DEF SendChanged
  <2>7. TypeOK'
    BY <1>2, <2>1, <2>3, <2>5, <2>6, FinishType DEF SendChanged, FSTypeOK, runVars
  <2>8. Shape'
    BY <1>2, <2>1, <2>3, <2>5, FinishType
       DEF SendChanged, Shape, OneCur, KnownIsTold, CurTracked
  <2> QED BY <2>7, <2>8
<1>3. CASE SendExited(pid)
  <2>1. /\ DOMAIN told' = DOMAIN told \ {pid} /\ told' \in [DOMAIN told' -> Process]
        /\ DOMAIN known' = DOMAIN known \ {pid} /\ known' \in [DOMAIN known' -> Snapshot]
    BY <1>3 DEF SendExited, Forget, Drop
  <2>2. chan' \in Seq(Stream!Event) /\ Len(chan') <= Cap /\ stop' = stop
    BY <1>0, <1>3, SendType DEF SendExited
  <2>3. TypeOK'
    BY <1>3, <2>1, <2>2 DEF SendExited, FSTypeOK, runVars, pollVars
  <2>4. Shape'
    BY <1>3, <2>1 DEF SendExited, pollVars, Shape, OneCur, KnownIsTold, CurTracked, Busy
  <2> QED BY <2>3, <2>4
<1> QED BY <1>1, <1>2, <1>3 DEF Sends

(* The client takes the oldest event, or closes stop. *)
LEMMA ClientIInv ==
    ASSUME IInv, Receive \/ CloseStop
    PROVE  IInv'
<1>1. chan' \in Seq(Stream!Event) /\ Len(chan') <= Cap
  BY CapAssumption DEF IInv, TypeOK, Receive, CloseStop, Stream!TakeEvent, Stream!CloseStop
<1>2. stop' \in BOOLEAN
  BY DEF IInv, TypeOK, Receive, CloseStop, Stream!TakeEvent, Stream!CloseStop
<1>3. UNCHANGED <<procs, births, watcherVars>>
  BY DEF Receive, CloseStop
<1> QED
  BY <1>1, <1>2, <1>3
     DEF watcherVars, IInv, TypeOK, FSTypeOK, Shape, OneCur, KnownIsTold, CurTracked

(* Every step of the specification keeps the inductive invariant. *)
LEMMA NextIInv == IInv /\ [Next]_vars => IInv'
<1> SUFFICES ASSUME IInv, [Next]_vars PROVE IInv'
  OBVIOUS
<1>1. CASE Machine
  BY <1>1, MachineIInv
<1>2. CASE Tick \/ ReturnOnStop
  BY <1>2, RunIInv
<1>3. CASE PollStep
  BY <1>3, RunIInv, ScanIInv, DeepReadsIInv, SendsIInv DEF PollStep
<1>4. CASE Receive \/ CloseStop
  BY <1>4, ClientIInv
<1>5. CASE UNCHANGED vars
  BY <1>5 DEF vars, IInv, TypeOK, FSTypeOK, Shape, OneCur, KnownIsTold, CurTracked
<1> QED BY <1>1, <1>2, <1>3, <1>4, <1>5 DEF Next

(* The inductive invariant holds in every state of every behaviour. *)
THEOREM Invariance == Spec => []IInv
  BY InitIInv, NextIInv, PTL DEF Spec

(* Type correctness: the tables, the channel within its capacity and the
   history keep their types, whatever the machine does between two reads. *)
THEOREM TypeCorrect == Spec => []TypeOK
<1>1. IInv => TypeOK
  BY DEF IInv
<1> QED BY <1>1, Invariance, PTL

(* Run tracks exactly the PIDs whose Started was sent and whose Exited was
   not, but for the one whose Started is being sent. *)
THEOREM TracksWhatItTold == Spec => []KnownIsTold
<1>1. IInv => KnownIsTold
  BY DEF IInv, Shape
<1> QED BY <1>1, Invariance, PTL


(***************************************************************************)
(* Watcher implements WatchStream: every step that sends is one of the     *)
(* three sends, and every other step leaves the stream alone.              *)
(***************************************************************************)

(* Started is sent for a PID that is not live, the others for one that is. *)
LEMMA SendsImplement ==
    ASSUME IInv, NEW pid \in Pids, Sends(pid)
    PROVE  Stream!StreamNext
<1>1. CASE SendStarted(pid)
  <2>1. pid \notin DOMAIN told
    BY <1>1 DEF SendStarted, IInv, Shape, CurTracked
  <2>2. DOMAIN told' = DOMAIN told \cup {pid}
    BY <1>1 DEF SendStarted, Put
  <2> QED
    BY <1>1, <2>1, <2>2
       DEF SendStarted, Stream!StreamNext, Stream!Emit, Stream!EmitStarted
<1>2. CASE SendChanged(pid)
  <2>1. pid \in DOMAIN told
    BY <1>2 DEF SendChanged, IInv, Shape, CurTracked
  <2>2. DOMAIN told' = DOMAIN told
    BY <1>2 DEF SendChanged
  <2> QED
    BY <1>2, <2>1, <2>2
       DEF SendChanged, Stream!StreamNext, Stream!Emit, Stream!EmitContextChanged
<1>3. CASE SendExited(pid)
  <2>1. pid \in DOMAIN told
    BY <1>3 DEF SendExited, IInv, Shape, KnownIsTold
  <2>2. DOMAIN told' = DOMAIN told \ {pid}
    BY <1>3 DEF SendExited, Drop
  <2> QED
    BY <1>3, <2>1, <2>2
       DEF SendExited, Stream!StreamNext, Stream!Emit, Stream!EmitExited
<1> QED BY <1>1, <1>2, <1>3 DEF Sends

(* Steps of the scan and the deep reads send nothing, and only the namespace
   links tell more of a PID that is told already. *)
LEMMA ScanSilent ==
    ASSUME NEW pid \in Pids, Scan(pid) \/ DeepReads(pid)
    PROVE  /\ UNCHANGED <<chan, stop>> /\ DOMAIN told' = DOMAIN told
           /\ NsReports(pid) \/ NsSilent(pid) \/ UNCHANGED told
<1>1. CASE Scan(pid)
  BY <1>1 DEF Scan, ReadFails, ReadStatus, FilterOut, Unknown, Refresh, BeginDeepCheck
<1>2. CASE DeepReads(pid)
  BY <1>2 DEF DeepReads, ExtraMissed, ExtraOfNew, ExtraOfKnown, NsOfNew, NsReports, NsSilent,
              FirstNetns
<1> QED BY <1>1, <1>2

(* Every step of Watcher is a step of WatchStream or leaves it unchanged. *)
LEMMA StepImplements ==
    ASSUME IInv, [Next]_vars
    PROVE  [Stream!StreamNext]_(Stream!streamVars)
<1> USE DEF Stream!streamVars
<1>1. CASE Machine
  BY <1>1 DEF Machine, watcherVars
<1>2. CASE Tick \/ ReturnOnStop
  BY <1>2 DEF Tick, ReturnOnStop
<1>3. CASE BeginPoll \/ ListFails \/ EndPoll
  BY <1>3 DEF BeginPoll, ListFails, EndPoll
<1>4. ASSUME NEW pid \in Pids, Scan(pid) \/ DeepReads(pid)
      PROVE  [Stream!StreamNext]_(Stream!streamVars)
  BY <1>4, ScanSilent
<1>5. ASSUME NEW pid \in Pids, Sends(pid)
      PROVE  [Stream!StreamNext]_(Stream!streamVars)
  BY <1>5, SendsImplement
<1>6. CASE Receive \/ CloseStop
  BY <1>6 DEF Receive, CloseStop, Stream!StreamNext
<1>7. CASE UNCHANGED vars
  BY <1>7 DEF vars
<1> QED BY <1>1, <1>2, <1>3, <1>4, <1>5, <1>6, <1>7 DEF Next, PollStep

(* The client can rely on the order of the events: per PID a Started, then
   ContextChanged events, then an Exited, and nothing lost or overtaken in the
   bounded channel. *)
THEOREM KeepsPromise == Spec => Promise
<1>1. Init => Stream!StreamInit
  BY DEF Init, Stream!StreamInit
<1> QED
  BY <1>1, Invariance, StepImplements, PTL DEF Spec, Promise, Stream!StreamSpec

(***************************************************************************)
(* Deep fields: what the events told is what the snapshot holds, up to the *)
(* changes listed for the pending event.                                   *)
(***************************************************************************)

\* A listed change of a deep field leads to the value in the snapshot.
ChangesReal ==
    \A c \in changes, pid \in DOMAIN cur :
        c.field \in StatusFields =>
            pc \in {"ns", "changed"} /\ c.new = known[pid].val[c.field]

StatusInv == StatusTold /\ ChangesReal

(* A step that leaves the deep fields that were told and those of the tracked
   snapshots alone keeps the agreement when it lists no change. *)
LEMMA StatusKept ==
    ASSUME IInv, StatusInv, changes = {}, changes' = {}, DOMAIN told' = DOMAIN told,
           \A pid \in DOMAIN told, f \in StatusFields : told'[pid].val[f] = told[pid].val[f],
           DOMAIN known \subseteq DOMAIN known',
           \A pid \in DOMAIN known, f \in StatusFields :
               known'[pid].val[f] = known[pid].val[f]
    PROVE  StatusInv'
<1>1. \A pid \in DOMAIN told : pid \in DOMAIN known
  BY DEF IInv, Shape, KnownIsTold
<1> QED BY <1>1 DEF StatusInv, StatusTold, ChangesReal

(* The scan: no deep field of a tracked snapshot is touched. *)
LEMMA ScanStatus ==
    ASSUME IInv, StatusInv, NEW pid \in Pids, Scan(pid)
    PROVE  StatusInv'
<1> USE DEF IInv
<1>0. /\ changes = {} /\ told' = told
      /\ \A f \in StatusFields : f \in Fields \ CheapFields
  BY DEF Scan, ReadFails, ReadStatus, FilterOut, Unknown, Refresh, BeginDeepCheck,
         Shape, CurTracked, StatusFields, Fields, CheapFields
<1>1. CASE ReadFails(pid) \/ ReadStatus(pid) \/ FilterOut(pid)
  BY <1>0, <1>1, StatusKept DEF ReadFails, ReadStatus, FilterOut, Finish
<1>2. CASE Unknown(pid)
  BY <1>0, <1>2, StatusKept DEF Unknown, Track, Put
<1>3. CASE Refresh(pid)
  <2>1. PICK e \in LinkSeen(pid, "exe") :
            known' = [known EXCEPT ![pid] = Overwrite(@, WithExe(pid, e))]
    BY <1>3 DEF Refresh
  <2>2. known[pid] \in Snapshot /\ WithExe(pid, e) \in Process
    BY <1>3, LinkSeenType, WithExeType DEF Refresh, TypeOK, Fields, CheapFields
  <2>3. \A q \in DOMAIN known, f \in StatusFields : known'[q].val[f] = known[q].val[f]
    BY <1>0, <2>1, <2>2, OverwriteType
  <2> QED
    BY <1>0, <1>3, <2>1, <2>3, StatusKept DEF Refresh, Finish
<1>4. CASE BeginDeepCheck(pid)
  <2>1. \A c \in changes' : c.field \notin StatusFields
    BY <1>4 DEF BeginDeepCheck, CheapChanges, ChangeOf, CheapFields, StatusFields
  <2> QED
    BY <1>0, <1>4, <2>1 DEF BeginDeepCheck, StatusInv, StatusTold, ChangesReal
<1> QED BY <1>1, <1>2, <1>3, <1>4 DEF Scan

(* The deep reads: a value is stored and listed in one step. *)
LEMMA DeepReadsStatus ==
    ASSUME IInv, StatusInv, NEW pid \in Pids, DeepReads(pid)
    PROVE  StatusInv'
<1> USE DEF IInv
<1>0. /\ DOMAIN told' = DOMAIN told
      /\ NsReports(pid) \/ NsSilent(pid) \/ told' = told
      /\ pid \in DOMAIN cur => DOMAIN cur = {pid} /\ cur[pid] \in Process
      /\ pid \in DOMAIN known => known[pid] \in Snapshot
      /\ "netns" \notin StatusFields /\ StatusFields \subseteq Fields
      /\ StatusFields \cap CheapFields = {}
      /\ DOMAIN told \subseteq DOMAIN known
  BY ScanSilent DEF TypeOK, Shape, OneCur, KnownIsTold, StatusFields, Fields, CheapFields
<1>1. CASE ExtraMissed(pid)
  BY <1>1 DEF ExtraMissed, pollVars, StatusInv, StatusTold, ChangesReal
<1>2. CASE ExtraOfNew(pid)
  <2>1. changes = {}
    BY <1>0, <1>2 DEF ExtraOfNew, Shape, CurTracked
  <2> QED BY <1>0, <1>2, <2>1, StatusKept DEF ExtraOfNew
<1>3. CASE ExtraOfKnown(pid)
  <2>1. /\ pid \in DOMAIN cur /\ pid \in DOMAIN known /\ pc = "extra"
        /\ procs[pid].val \in Values /\ known[pid].val \in Values
    BY <1>0, <1>3 DEF ExtraOfKnown, Running, TypeOK, FSTypeOK, Process, Snapshot
  <2>2. \A c \in changes : c.field \notin StatusFields
    BY <1>0, <2>1 DEF StatusInv, ChangesReal
  <2>3. /\ DOMAIN known' = DOMAIN known
        /\ \A f \in StatusFields : known'[pid].val[f] = procs[pid].val[f]
        /\ \A q \in DOMAIN known \ {pid} : known'[q] = known[q]
    BY <1>0, <1>3, <2>1, WithStatusType DEF ExtraOfKnown, Snapshot
  <2>4. changes' = changes \cup StatusChanges(known[pid].val, procs[pid].val)
    BY <1>3 DEF ExtraOfKnown
  <2>5. ASSUME NEW q \in DOMAIN told, NEW f \in StatusFields,
               known'[q].val[f] # told[q].val[f]
        PROVE  q = pid /\ ChangeOf(f, known[pid].val, procs[pid].val) \in changes'
                       /\ known[pid].val[f] = told[pid].val[f]
    <3>1. known[q].val[f] = told[q].val[f]
      BY <2>2 DEF StatusInv, StatusTold
    <3>2. q = pid
      BY <1>0, <2>3, <2>5, <3>1
    <3> QED
      BY <2>3, <2>4, <2>5, <3>1, <3>2 DEF StatusChanges
  <2>6. cur' = cur /\ pc' = "ns" /\ told' = told
    BY <1>3 DEF ExtraOfKnown
  <2>7. StatusTold'
    <3> SUFFICES ASSUME NEW q \in DOMAIN told, NEW f \in StatusFields,
                        known'[q].val[f] # told[q].val[f]
                 PROVE  /\ q \in DOMAIN cur
                        /\ \E c \in changes' : /\ c.field = f
                                               /\ c.old = told[q].val[f]
                                               /\ c.new = known'[q].val[f]
      BY <1>0, <2>6 DEF StatusTold
    <3> DEFINE c == ChangeOf(f, known[pid].val, procs[pid].val)
    <3>1. q = pid /\ c \in changes' /\ known[pid].val[f] = told[pid].val[f]
      BY <2>5
    <3>2. c.field = f /\ c.old = known[pid].val[f] /\ c.new = procs[pid].val[f]
      BY DEF ChangeOf
    <3> HIDE DEF c
    <3> QED BY <2>1, <2>3, <3>1, <3>2
  <2>8. ChangesReal'
    <3> SUFFICES ASSUME NEW c \in changes', c.field \in StatusFields
                 PROVE  c.new = known'[pid].val[c.field]
      BY <1>0, <2>1, <2>6 DEF ChangesReal
    <3>1. PICK f \in StatusFields : c = ChangeOf(f, known[pid].val, procs[pid].val)
      BY <2>2, <2>4 DEF StatusChanges
    <3> QED BY <2>3, <3>1 DEF ChangeOf
  <2> QED BY <2>7, <2>8 DEF StatusInv
<1>4. CASE NsOfNew(pid)
  <2>1. changes = {}
    BY <1>0, <1>4 DEF NsOfNew, Shape, CurTracked
  <2> QED BY <1>0, <1>4, <2>1, StatusKept DEF NsOfNew, Track, Put, pollVars
<1>5. \A n \in Nat, f \in StatusFields : pid \in DOMAIN known =>
          DeepChecked(pid, n).val[f] = known[pid].val[f]
  BY <1>0 DEF DeepChecked, Snapshot, Values
<1>6. CASE NsReports(pid)
  <2>1. PICK n \in Nat :
          /\ changes' = changes \cup NetnsChanges(pid, n)
          /\ known' = [known EXCEPT ![pid] = DeepChecked(pid, n)]
          /\ told' = FirstNetns(pid, n)
    BY <1>6, LinkSeenType DEF NsReports, TypeOK, Fields
  <2>2. \A q \in DOMAIN known, f \in StatusFields : known'[q].val[f] = known[q].val[f]
    BY <1>5, <1>6, <2>1 DEF NsReports
  <2>3. \A c \in NetnsChanges(pid, n) : c.field \notin StatusFields
    BY <1>0 DEF NetnsChanges
  <2>4. \A q \in DOMAIN told, f \in StatusFields : told'[q].val[f] = told[q].val[f]
    BY <1>0, <1>6, <2>1, FirstNetnsIs DEF NsReports, TypeOK, Shape, KnownIsTold
  <2>5. StatusTold'
    BY <1>0, <1>6, <2>1, <2>2, <2>4 DEF NsReports, StatusInv, StatusTold
  <2>6. ChangesReal'
    BY <1>0, <1>6, <2>1, <2>2, <2>3 DEF NsReports, StatusInv, ChangesReal
  <2> QED BY <2>5, <2>6 DEF StatusInv
<1>7. CASE NsSilent(pid)
  <2>1. PICK n \in Nat :
          /\ changes \cup NetnsChanges(pid, n) = {}
          /\ known' = [known EXCEPT ![pid] = Overwrite(DeepChecked(pid, n), cur[pid])]
          /\ told' = FirstNetns(pid, n)
    BY <1>7, LinkSeenType DEF NsSilent, TypeOK, Fields
  <2>2. \A f \in StatusFields : Overwrite(DeepChecked(pid, n), cur[pid]).val[f] = known[pid].val[f]
    BY <1>0, <1>5, <1>7 DEF NsSilent, Overwrite, DeepChecked, Snapshot, Process, Values
  <2>3. \A q \in DOMAIN known, f \in StatusFields : known'[q].val[f] = known[q].val[f]
    BY <1>7, <2>1, <2>2 DEF NsSilent
  <2>4. \A q \in DOMAIN told, f \in StatusFields : told'[q].val[f] = told[q].val[f]
    <3>1. pid \in DOMAIN told /\ told \in [DOMAIN told -> Process]
      BY <1>7 DEF NsSilent, TypeOK, Shape, KnownIsTold
    <3> QED BY <1>0, <2>1, <3>1, FirstNetnsIs
  <2> QED
    BY <1>0, <1>7, <2>1, <2>3, <2>4, StatusKept DEF NsSilent, Finish
<1> QED BY <1>1, <1>2, <1>3, <1>4, <1>6, <1>7 DEF DeepReads

(* The sends: what was listed is told, and nothing is listed any more. *)
LEMMA SendsStatus ==
    ASSUME IInv, StatusInv, NEW pid \in Pids, Sends(pid)
    PROVE  StatusInv'
<1> USE DEF IInv
<1>0. /\ pid \in DOMAIN cur => DOMAIN cur = {pid} /\ cur[pid] \in Process
      /\ pid \in DOMAIN known => known[pid] \in Snapshot
      /\ StatusFields \subseteq Fields /\ StatusFields \cap CheapFields = {}
      /\ DOMAIN told \subseteq DOMAIN known
  BY DEF TypeOK, Shape, OneCur, KnownIsTold, StatusFields, Fields, CheapFields
<1>1. CASE SendStarted(pid)
  <2>1. changes = {} /\ changes' = {} /\ known' = known
    BY <1>1 DEF SendStarted, Finish, Shape, CurTracked
  <2>2. pid \in DOMAIN cur
    BY <1>1 DEF SendStarted
  <2>3. /\ DOMAIN told' = DOMAIN told \cup {pid}
        /\ told'[pid].val = known[pid].val
        /\ \A q \in DOMAIN told \ {pid} : told'[q] = told[q]
    BY <1>0, <1>1, <2>2 DEF SendStarted, Put, Process
  <2> QED
    BY <2>1, <2>3 DEF StatusInv, StatusTold, ChangesReal
<1>2. CASE SendChanged(pid)
  <2>1. pid \in DOMAIN cur /\ pid \in DOMAIN told /\ pid \in DOMAIN known
    BY <1>0, <1>2 DEF SendChanged, Shape, CurTracked
  <2>2. ASSUME NEW f \in StatusFields
        PROVE  Telling(pid).val[f] = known[pid].val[f]
    <3>1. Telling(pid).val[f] =
            IF \E c \in changes : c.field = f
            THEN (CHOOSE c \in changes : c.field = f).new
            ELSE told[pid].val[f]
      BY <1>0, <2>1 DEF Telling, Process
    <3>2. CASE \E c \in changes : c.field = f
      <4> DEFINE d == CHOOSE c \in changes : c.field = f
      <4>1. d \in changes /\ d.field = f
        BY <3>2
      <4> HIDE DEF d
      <4>2. d.new = known[pid].val[f]
        BY <2>1, <4>1 DEF StatusInv, ChangesReal
      <4> QED BY <3>1, <3>2, <4>2 DEF d
    <3>3. CASE ~\E c \in changes : c.field = f
      BY <2>1, <3>1, <3>3 DEF StatusInv, StatusTold
    <3> QED BY <3>2, <3>3
  <2>3. \A f \in StatusFields : Overwrite(known[pid], cur[pid]).val[f] = known[pid].val[f]
    BY <1>0, <2>1, OverwriteType
  <2>4. /\ told' = [told EXCEPT ![pid] = Telling(pid)]
        /\ known' = [known EXCEPT ![pid] = Overwrite(@, cur[pid])]
        /\ changes' = {}
    BY <1>2 DEF SendChanged, Finish
  <2>5. ASSUME NEW q \in DOMAIN told', NEW f \in StatusFields
        PROVE  known'[q].val[f] = told'[q].val[f]
    <3>1. CASE q = pid
      BY <2>1, <2>2, <2>3, <2>4, <3>1
    <3>2. CASE q # pid
      BY <1>0, <2>1, <2>4, <3>2 DEF StatusInv, StatusTold
    <3> QED BY <3>1, <3>2
  <2> QED BY <2>4, <2>5 DEF StatusInv, StatusTold, ChangesReal
<1>3. CASE SendExited(pid)
  <2>1. DOMAIN cur = {} /\ changes = {} /\ cur' = cur /\ changes' = {}
    BY <1>3 DEF SendExited, pollVars, Shape, OneCur, CurTracked, Busy
  <2>2. \A q \in DOMAIN told' : told'[q] = told[q] /\ known'[q] = known[q] /\ q \in DOMAIN told
    BY <1>0, <1>3 DEF SendExited, Forget, Drop
  <2> QED BY <2>1, <2>2 DEF StatusInv, StatusTold, ChangesReal
<1> QED BY <1>1, <1>2, <1>3 DEF Sends

(* No capability, seccomp or no_new_privs change that a deep check saw is lost
   or told twice. *)
THEOREM StatusToldHolds == Spec => []StatusTold
<1>1. Init => StatusInv
  BY DEF Init, StatusInv, StatusTold, ChangesReal
<1>2. IInv /\ StatusInv /\ [Next]_vars => StatusInv'
  <2> SUFFICES ASSUME IInv, StatusInv, [Next]_vars PROVE StatusInv'
    OBVIOUS
  <2> USE DEF StatusInv, StatusTold, ChangesReal
  <2>1. CASE Machine \/ Receive \/ CloseStop
    BY <2>1 DEF Machine, Receive, CloseStop, watcherVars
  <2>2. CASE Tick \/ ListFails
    <3>1. CASE Tick
      BY <2>2, <3>1 DEF Tick, pollVars
    <3>2. CASE ListFails
      BY <3>2 DEF ListFails, MayPoll, pollVars, IInv, Shape, OneCur, Busy
    <3> QED BY <2>2, <3>1, <3>2
  <2>3. CASE ReturnOnStop \/ EndPoll
    BY <2>3 DEF ReturnOnStop, MayReturn, EndPoll, Swept, pollVars, IInv, Shape, OneCur, Busy
  <2>4. CASE BeginPoll
    <3>1. DOMAIN known' = DOMAIN known /\ \A q \in DOMAIN known : known'[q].val = known[q].val
      BY <2>4 DEF BeginPoll, Aged, IInv, TypeOK, Snapshot
    <3>2. changes = {} /\ changes' = {} /\ told' = told
      BY <2>4 DEF BeginPoll, MayPoll, IInv, Shape, CurTracked
    <3> QED BY <3>1, <3>2, StatusKept
  <2>5. CASE \E pid \in Pids : Scan(pid) \/ DeepReads(pid) \/ Sends(pid)
    BY <2>5, ScanStatus, DeepReadsStatus, SendsStatus
  <2>6. CASE UNCHANGED vars
    BY <2>6 DEF vars
  <2> QED BY <2>1, <2>2, <2>3, <2>4, <2>5, <2>6 DEF Next, PollStep
<1>3. StatusInv => StatusTold
  BY DEF StatusInv
<1> QED BY <1>1, <1>2, <1>3, Invariance, PTL DEF Spec

(***************************************************************************)
(* The namespace: what was told is what the snapshot holds, but for a      *)
(* change in the event about to be sent, and a read that failed forgets    *)
(* nothing.                                                                *)
(***************************************************************************)

\* A namespace change is listed only in the event about to be sent.
NetnsPending == \A c \in changes : c.field = "netns" => pc = "changed"

NetnsInv == NetnsTold /\ NetnsPending

(* Nothing is pending before an event is about to be sent. *)
LEMMA NetnsSettled ==
    ASSUME NetnsInv, pc # "changed"
    PROVE  /\ \A c \in changes : c.field # "netns"
           /\ \A q \in DOMAIN told : told[q].val["netns"] = known[q].val["netns"]
BY DEF NetnsInv, NetnsTold, NetnsPending

(* It is enough that snapshots and events agree and nothing is listed. *)
LEMMA NetnsAgreed ==
    ASSUME \A c \in changes' : c.field # "netns",
           \A q \in DOMAIN told' : told'[q].val["netns"] = known'[q].val["netns"]
    PROVE  NetnsInv'
<1>1. NetnsPending'
  BY DEF NetnsPending
<1>2. {c \in changes' : c.field = "netns"} = {}
  OBVIOUS
<1>3. NetnsTold'
  BY <1>2 DEF NetnsTold
<1> QED BY <1>1, <1>3 DEF NetnsInv

LEMMA ScanNetns ==
    ASSUME IInv, NetnsInv, NEW pid \in Pids, Scan(pid)
    PROVE  NetnsInv'
<1> USE DEF IInv
<1>0. /\ told' = told /\ "netns" \in Fields \ CheapFields /\ pc # "changed"
      /\ DOMAIN told \subseteq DOMAIN known
  BY DEF Scan, ReadFails, ReadStatus, FilterOut, Unknown, Refresh, BeginDeepCheck,
         Shape, KnownIsTold, Fields, CheapFields
<1>1. \A c \in changes' : c.field # "netns"
  <2>1. CASE BeginDeepCheck(pid)
    BY <2>1 DEF BeginDeepCheck, CheapChanges, ChangeOf, CheapFields
  <2>2. CASE ~BeginDeepCheck(pid)
    BY <1>0, <2>2, NetnsSettled DEF Scan, ReadFails, ReadStatus, FilterOut, Unknown, Refresh, Finish
  <2> QED BY <2>1, <2>2
<1>2. \A q \in DOMAIN told : known'[q].val["netns"] = known[q].val["netns"]
  <2>1. CASE ReadFails(pid) \/ ReadStatus(pid) \/ FilterOut(pid) \/ BeginDeepCheck(pid)
    BY <2>1 DEF ReadFails, ReadStatus, FilterOut, BeginDeepCheck
  <2>2. CASE Unknown(pid)
    BY <1>0, <2>2 DEF Unknown, Track, Put
  <2>3. CASE Refresh(pid)
    <3>1. PICK e \in LinkSeen(pid, "exe") :
              known' = [known EXCEPT ![pid] = Overwrite(@, WithExe(pid, e))]
      BY <2>3 DEF Refresh
    <3>2. known[pid] \in Snapshot /\ WithExe(pid, e) \in Process
      BY <2>3, LinkSeenType, WithExeType DEF Refresh, TypeOK, Fields, CheapFields
    <3> QED BY <1>0, <3>1, <3>2, OverwriteType
  <2> QED BY <2>1, <2>2, <2>3 DEF Scan
<1> QED BY <1>0, <1>1, <1>2, NetnsSettled, NetnsAgreed

(* The end of a deep check: the namespace in the snapshot afterwards. *)
LEMMA DeepCheckedNetns ==
    ASSUME NEW pid \in DOMAIN known, known[pid] \in Snapshot, NEW n \in Nat
    PROVE  /\ DeepChecked(pid, n) \in Snapshot
           /\ DeepChecked(pid, n).val["netns"] =
                 IF n # 0 THEN n ELSE known[pid].val["netns"]
<1> DEFINE m == IF n # 0 THEN n ELSE known[pid].val["netns"]
<1>1. "netns" \in Fields /\ known[pid].val["netns"] \in Nat
  BY DEF Snapshot, Values, Fields
<1>2. DeepChecked(pid, n) = [known[pid] EXCEPT !.age = 0, !.val["netns"] = m]
  BY DEF DeepChecked
<1>3. /\ [known[pid].val EXCEPT !["netns"] = m] \in Values
      /\ [known[pid].val EXCEPT !["netns"] = m]["netns"] = m
  BY <1>1 DEF Snapshot, Values
<1>4. DeepChecked(pid, n) = [gen |-> known[pid].gen, kthread |-> known[pid].kthread,
          val |-> [known[pid].val EXCEPT !["netns"] = m], age |-> 0]
  BY <1>1, <1>2 DEF Snapshot
<1>5. DeepChecked(pid, n).val["netns"] = m
  BY <1>3, <1>4
<1>6. DeepChecked(pid, n) \in Snapshot
  <2> HIDE DEF m
  <2> QED BY <1>3, <1>4, DeepAssumption DEF Snapshot
<1> QED BY <1>5, <1>6

(* The reads of the links: a namespace that differs from the one told is listed
   and kept in one step, and one that nothing was told of is told with it. *)
LEMMA NsReadNetns ==
    ASSUME IInv, NetnsInv, NEW pid \in Pids, NsReports(pid) \/ NsSilent(pid)
    PROVE  NetnsInv'
<1> USE DEF IInv
<1>1. PICK n \in Nat :
        /\ told' = FirstNetns(pid, n)
        /\ \/ /\ NsReports(pid)
              /\ changes' = changes \cup NetnsChanges(pid, n)
              /\ known' = [known EXCEPT ![pid] = DeepChecked(pid, n)]
           \/ /\ NsSilent(pid)
              /\ changes \cup NetnsChanges(pid, n) = {}
              /\ known' = [known EXCEPT ![pid] = Overwrite(DeepChecked(pid, n), cur[pid])]
  BY LinkSeenType DEF NsReports, NsSilent, TypeOK, Fields
<1>2. /\ pid \in DOMAIN cur /\ DOMAIN cur = {pid} /\ cur[pid] \in Process /\ pc = "ns"
      /\ pid \in DOMAIN known /\ known[pid] \in Snapshot
      /\ DOMAIN told = DOMAIN known /\ told \in [DOMAIN told -> Process]
      /\ "netns" \in Fields \ CheapFields
  BY DEF NsReports, NsSilent, TypeOK, Shape, OneCur, KnownIsTold, Fields, CheapFields
<1> DEFINE was == known[pid].val["netns"]
           now == IF n # 0 THEN n ELSE was
<1>3. /\ \A c \in changes : c.field # "netns"
      /\ \A q \in DOMAIN told : told[q].val["netns"] = known[q].val["netns"]
  BY <1>2, NetnsSettled
<1>4. /\ DOMAIN told' = DOMAIN told
      /\ \A q \in DOMAIN told \ {pid} : told'[q] = told[q]
      /\ told'[pid].val["netns"] = IF was = 0 THEN n ELSE was
  BY <1>1, <1>2, <1>3, FirstNetnsIs
<1>5. /\ known'[pid].val["netns"] = now
      /\ \A q \in DOMAIN known \ {pid} : known'[q] = known[q]
  <2>1. DeepChecked(pid, n) \in Snapshot /\ DeepChecked(pid, n).val["netns"] = now
    BY <1>2, DeepCheckedNetns
  <2>2. Overwrite(DeepChecked(pid, n), cur[pid]).val["netns"] = now
    BY <1>2, <2>1, OverwriteType
  <2> QED BY <1>1, <1>2, <2>1, <2>2
<1>6. CASE n \in {0, was} \/ was = 0
  <2>1. NetnsChanges(pid, n) = {}
    BY <1>6 DEF NetnsChanges
  <2>2. \A c \in changes' : c.field # "netns"
    BY <1>1, <1>3, <2>1 DEF NsSilent, Finish
  <2>3. told'[pid].val["netns"] = known'[pid].val["netns"]
    BY <1>4, <1>5, <1>6
  <2> HIDE DEF was, now
  <2>4. \A q \in DOMAIN told' : told'[q].val["netns"] = known'[q].val["netns"]
    BY <1>2, <1>3, <1>4, <1>5, <2>3
  <2> QED BY <2>2, <2>4, NetnsAgreed
<1>7. CASE n \notin {0, was} /\ was # 0
  <2> DEFINE c == [field |-> "netns", old |-> was, new |-> n]
  <2>1. NetnsChanges(pid, n) = {c}
    BY <1>7 DEF NetnsChanges
  <2>2. changes' = changes \cup {c} /\ pc' = "changed" /\ cur' = cur
    BY <1>1, <2>1 DEF NsReports
  <2>3. told'[pid].val["netns"] = was /\ known'[pid].val["netns"] = n
    BY <1>4, <1>5, <1>7
  <2>4. c.field = "netns"
    OBVIOUS
  <2>5. {d \in changes' : d.field = "netns"} = {c}
    <3> HIDE DEF c
    <3> QED BY <1>3, <2>2, <2>4
  <2>6. ASSUME NEW q \in DOMAIN told' \ {pid}
        PROVE  /\ {d \in changes' : q \in DOMAIN cur' /\ d.field = "netns"} = {}
               /\ told'[q].val["netns"] = known'[q].val["netns"]
    BY <1>2, <1>3, <1>4, <1>5, <2>2
  <2>7. {d \in changes' : pid \in DOMAIN cur' /\ d.field = "netns"} = {c}
    BY <1>2, <2>2, <2>5
  <2>8. NetnsTold'
    <3> SUFFICES ASSUME NEW q \in DOMAIN told'
                 PROVE  LET heard == told'[q].val["netns"]
                            kept == known'[q].val["netns"]
                            pending == {d \in changes' : q \in DOMAIN cur' /\ d.field = "netns"}
                        IN  \/ pending = {} /\ heard = kept
                            \/ /\ pending = {[field |-> "netns", old |-> heard, new |-> kept]}
                               /\ heard \notin {0, kept}
      BY DEF NetnsTold
    <3>1. CASE q # pid
      BY <2>6, <3>1
    <3>2. CASE q = pid
      BY <1>7, <2>3, <2>7, <3>2
    <3> QED BY <3>1, <3>2
  <2>9. NetnsPending'
    BY <2>2 DEF NetnsPending
  <2> QED BY <2>8, <2>9 DEF NetnsInv
<1> QED BY <1>6, <1>7

LEMMA DeepReadsNetns ==
    ASSUME IInv, NetnsInv, NEW pid \in Pids, DeepReads(pid)
    PROVE  NetnsInv'
<1> USE DEF IInv
<1>1. CASE NsReports(pid) \/ NsSilent(pid)
  BY <1>1, NsReadNetns
<1>2. CASE ~(NsReports(pid) \/ NsSilent(pid))
  <2>1. /\ told' = told /\ pc \in {"extra", "ns"} /\ pid \in DOMAIN cur
        /\ ExtraMissed(pid) \/ ExtraOfNew(pid) \/ ExtraOfKnown(pid) \/ NsOfNew(pid)
    BY <1>2 DEF DeepReads, ExtraMissed, ExtraOfNew, ExtraOfKnown, NsOfNew
  <2>2. /\ "netns" \in Fields \ (StatusFields \cup CheapFields)
        /\ DOMAIN told = DOMAIN known
    BY <2>1 DEF Shape, KnownIsTold, StatusFields, Fields, CheapFields
  <2>3. \A c \in changes' : c.field # "netns"
    <3>1. CASE ExtraOfKnown(pid)
      BY <2>1, <2>2, <3>1, NetnsSettled DEF ExtraOfKnown, StatusChanges, ChangeOf
    <3>2. CASE ~ExtraOfKnown(pid)
      BY <2>1, <3>2, NetnsSettled DEF ExtraMissed, ExtraOfNew, NsOfNew, pollVars
    <3> QED BY <3>1, <3>2
  <2>4. \A q \in DOMAIN told : known'[q].val["netns"] = known[q].val["netns"]
    <3>1. CASE ExtraOfKnown(pid)
      <4>1. pid \in DOMAIN known /\ procs[pid].val \in Values /\ known[pid] \in Snapshot
        BY <3>1 DEF ExtraOfKnown, Running, TypeOK, FSTypeOK, Process
      <4>2. WithStatus(known[pid].val, procs[pid].val)["netns"] = known[pid].val["netns"]
        BY <2>2, <4>1, WithStatusType DEF Snapshot
      <4> QED BY <3>1, <4>1, <4>2 DEF ExtraOfKnown, Snapshot
    <3>2. CASE ~ExtraOfKnown(pid)
      BY <2>1, <2>2, <3>2 DEF ExtraMissed, ExtraOfNew, NsOfNew, Track, Put
    <3> QED BY <3>1, <3>2
  <2> QED BY <2>1, <2>3, <2>4, NetnsSettled, NetnsAgreed
<1> QED BY <1>1, <1>2

LEMMA SendsNetns ==
    ASSUME IInv, NetnsInv, NEW pid \in Pids, Sends(pid)
    PROVE  NetnsInv'
<1> USE DEF IInv
<1>0. /\ pid \in DOMAIN cur => DOMAIN cur = {pid} /\ cur[pid] \in Process
      /\ pid \in DOMAIN known => known[pid] \in Snapshot
      /\ "netns" \in Fields \ CheapFields
      /\ DOMAIN told \subseteq DOMAIN known
  BY DEF TypeOK, Shape, OneCur, KnownIsTold, Fields, CheapFields
<1>1. CASE SendStarted(pid)
  <2>1. changes' = {} /\ known' = known /\ pid \in DOMAIN cur /\ pc = "started"
    BY <1>1 DEF SendStarted, Finish
  <2>2. /\ DOMAIN told' = DOMAIN told \cup {pid}
        /\ told'[pid].val = known[pid].val
        /\ \A q \in DOMAIN told \ {pid} : told'[q] = told[q]
    BY <1>0, <1>1, <2>1 DEF SendStarted, Put, Process
  <2> QED
    BY <2>1, <2>2, NetnsSettled, NetnsAgreed
<1>2. CASE SendChanged(pid)
  <2>1. pid \in DOMAIN cur /\ pid \in DOMAIN told /\ pid \in DOMAIN known
    BY <1>0, <1>2 DEF SendChanged, Shape, CurTracked
  <2>2. Telling(pid).val["netns"] = known[pid].val["netns"]
    <3>1. Telling(pid).val["netns"] =
            IF \E c \in changes : c.field = "netns"
            THEN (CHOOSE c \in changes : c.field = "netns").new
            ELSE told[pid].val["netns"]
      BY <1>0, <2>1 DEF Telling, Process
    <3>2. CASE \E c \in changes : c.field = "netns"
      <4> DEFINE d == CHOOSE c \in changes : c.field = "netns"
      <4>1. d \in changes /\ d.field = "netns"
        BY <3>2
      <4> HIDE DEF d
      <4>2. d.new = known[pid].val["netns"]
        BY <2>1, <4>1 DEF NetnsInv, NetnsTold
      <4> QED BY <3>1, <3>2, <4>2 DEF d
    <3>3. CASE ~\E c \in changes : c.field = "netns"
      BY <2>1, <3>1, <3>3 DEF NetnsInv, NetnsTold
    <3> QED BY <3>2, <3>3
  <2>3. Overwrite(known[pid], cur[pid]).val["netns"] = known[pid].val["netns"]
    BY <1>0, <2>1, OverwriteType
  <2>4. /\ told' = [told EXCEPT ![pid] = Telling(pid)]
        /\ known' = [known EXCEPT ![pid] = Overwrite(@, cur[pid])]
        /\ changes' = {}
    BY <1>2 DEF SendChanged, Finish
  <2>5. ASSUME NEW q \in DOMAIN told'
        PROVE  told'[q].val["netns"] = known'[q].val["netns"]
    <3>1. CASE q = pid
      BY <2>1, <2>2, <2>3, <2>4, <3>1
    <3>2. CASE q # pid
      BY <1>0, <2>1, <2>4, <3>2 DEF NetnsInv, NetnsTold
    <3> QED BY <3>1, <3>2
  <2> QED BY <2>4, <2>5, NetnsAgreed
<1>3. CASE SendExited(pid)
  <2>1. changes' = changes /\ pc = "scan"
    BY <1>3 DEF SendExited, pollVars
  <2>2. \A q \in DOMAIN told' : told'[q] = told[q] /\ known'[q] = known[q] /\ q \in DOMAIN told
    BY <1>0, <1>3 DEF SendExited, Forget, Drop
  <2> QED BY <2>1, <2>2, NetnsSettled, NetnsAgreed
<1> QED BY <1>1, <1>2, <1>3 DEF Sends

(* The network namespace last told is the snapshot's, but for the one change in the
   event about to be sent, however many reads failed in between. *)
THEOREM NetnsToldHolds == Spec => []NetnsTold
<1>1. Init => NetnsInv
  BY DEF Init, NetnsInv, NetnsTold, NetnsPending
<1>2. IInv /\ NetnsInv /\ [Next]_vars => NetnsInv'
  <2> SUFFICES ASSUME IInv, NetnsInv, [Next]_vars PROVE NetnsInv'
    OBVIOUS
  <2> USE DEF NetnsInv, NetnsTold, NetnsPending
  <2>1. CASE Machine \/ Receive \/ CloseStop
    BY <2>1 DEF Machine, Receive, CloseStop, watcherVars
  <2>2. CASE Tick
    BY <2>2 DEF Tick, pollVars
  <2>3. CASE ListFails
    BY <2>3 DEF ListFails, MayPoll, pollVars, IInv, Shape, OneCur, Busy
  <2>4. CASE ReturnOnStop \/ EndPoll
    BY <2>4 DEF ReturnOnStop, MayReturn, EndPoll, Swept, pollVars, IInv, Shape, OneCur, Busy
  <2>5. CASE BeginPoll
    <3>1. DOMAIN known' = DOMAIN known /\ \A q \in DOMAIN known : known'[q].val = known[q].val
      BY <2>5 DEF BeginPoll, Aged, IInv, TypeOK, Snapshot
    <3>2. changes' = {} /\ told' = told /\ pc # "changed" /\ DOMAIN told \subseteq DOMAIN known
      BY <2>5 DEF BeginPoll, MayPoll, IInv, Shape, CurTracked, KnownIsTold
    <3> QED BY <3>1, <3>2, NetnsSettled, NetnsAgreed
  <2>6. CASE \E pid \in Pids : Scan(pid) \/ DeepReads(pid) \/ Sends(pid)
    BY <2>6, ScanNetns, DeepReadsNetns, SendsNetns
  <2>7. CASE UNCHANGED vars
    BY <2>7 DEF vars
  <2> QED BY <2>1, <2>2, <2>3, <2>4, <2>5, <2>6, <2>7 DEF Next, PollStep
<1>3. NetnsInv => NetnsTold
  BY DEF NetnsInv
<1> QED BY <1>1, <1>2, <1>3, Invariance, PTL DEF Spec

(***************************************************************************)
(* What an Exited event means, when no filter is set and reads fail only   *)
(* for processes that are gone: a PID that the sweep finds unseen was not  *)
(* listed, or was gone when it was read, and whoever took the PID since    *)
(* then is another process.                                                *)
(***************************************************************************)
Unfiltered == FilterUids = {} /\ FilterExes = {} /\ ~ExcludeKernel /\ ~ReadErrors

\* The process the snapshot of pid is about has left /proc.
Departed(pid) == ~(Running(pid) /\ procs[pid].gen = known[pid].gen)

\* Incarnations are numbered upwards: a later one never has a tracked number.
GensBounded ==
    /\ \A pid \in DOMAIN procs : procs[pid].gen <= births
    /\ \A pid \in DOMAIN known : known[pid].gen <= births
    /\ \A pid \in DOMAIN cur : cur[pid].gen <= births

InPoll == pc \notin {"start", "select", "done"}

UnseenDeparted ==
    /\ pc \in Busy \ {"exe"} => DOMAIN cur \subseteq seen
    /\ InPoll => \A pid \in DOMAIN known \ (seen \cup todo \cup DOMAIN cur) : Departed(pid)

GoneInv == GensBounded /\ UnseenDeparted

(* Steps of the machine: a departed process does not come back. *)
LEMMA MachineGone ==
    ASSUME IInv, GoneInv, Machine
    PROVE  GoneInv'
<1> USE DEF IInv, TypeOK, FSTypeOK
<1>0. UNCHANGED watcherVars
  BY DEF Machine
<1>1. ASSUME NEW pid \in Pids, Birth(pid) PROVE GoneInv'
  <2>1. PICK k \in BOOLEAN, v \in Contexts :
            procs' = Put(procs, pid, [gen |-> births + 1, kthread |-> k, val |-> v])
    BY <1>1 DEF Birth, KernelContexts, UserContexts
  <2>2. /\ pid \notin DOMAIN procs /\ births' = births + 1
        /\ DOMAIN procs' = DOMAIN procs \cup {pid} /\ procs'[pid].gen = births + 1
        /\ \A q \in DOMAIN procs : procs'[q] = procs[q]
    BY <1>1, <2>1 DEF Birth, Running, Put
  <2>3. /\ \A q \in DOMAIN procs : procs[q].gen \in Nat
        /\ \A q \in DOMAIN known : known[q].gen \in Nat
        /\ \A q \in DOMAIN cur : cur[q].gen \in Nat
    BY DEF Process, Snapshot
  <2>4. GensBounded'
    BY <1>0, <2>2, <2>3 DEF GoneInv, GensBounded, watcherVars
  <2>5. \A q \in DOMAIN known : Departed(q) => Departed(q)'
    BY <1>0, <2>2, <2>3 DEF GoneInv, GensBounded, Departed, Running, watcherVars
  <2> QED
    BY <1>0, <2>4, <2>5 DEF GoneInv, UnseenDeparted, InPoll, watcherVars
<1>2. ASSUME NEW pid \in Pids, NEW p, pid \in DOMAIN procs,
             procs' = [procs EXCEPT ![pid] = p], p.gen = procs[pid].gen, births' = births
      PROVE  GoneInv'
  BY <1>0, <1>2 DEF GoneInv, GensBounded, UnseenDeparted, Departed, Running, InPoll, watcherVars
<1>3. ASSUME NEW pid \in Pids, NEW f \in Fields, Change(pid, f) PROVE GoneInv'
  <2>1. PICK v : procs' = [procs EXCEPT ![pid].val[f] = v]
    BY <1>3 DEF Change
  <2> DEFINE p == [procs[pid] EXCEPT !.val[f] = v]
  <2>2. pid \in DOMAIN procs /\ births' = births /\ procs' = [procs EXCEPT ![pid] = p]
    BY <1>3, <2>1 DEF Change, Running
  <2>3. p.gen = procs[pid].gen
    BY <2>2 DEF Process
  <2> QED BY <1>2, <2>2, <2>3
<1>4. ASSUME NEW pid \in Pids, BecomeZombie(pid) PROVE GoneInv'
  <2> DEFINE p == [procs[pid] EXCEPT !.val["exe"] = 0]
  <2>1. pid \in DOMAIN procs /\ births' = births /\ procs' = [procs EXCEPT ![pid] = p]
    BY <1>4 DEF BecomeZombie, Running
  <2>2. p.gen = procs[pid].gen
    BY <2>1 DEF Process
  <2> QED BY <1>2, <2>1, <2>2
<1>5. ASSUME NEW pid \in Pids, Reap(pid) PROVE GoneInv'
  BY <1>0, <1>5 DEF Reap, Drop, GoneInv, GensBounded, UnseenDeparted, Departed, Running,
                    InPoll, watcherVars
<1> QED BY <1>1, <1>3, <1>4, <1>5 DEF Machine, FSNext

(* The scan marks a PID seen, or found its process gone. *)
LEMMA ScanGone ==
    ASSUME Unfiltered, IInv, GoneInv, NEW pid \in Pids, Scan(pid)
    PROVE  GoneInv'
<1> USE DEF GoneInv, GensBounded
<1>0. /\ UNCHANGED <<procs, births>>
      /\ \A p : Matches(p)
      /\ pid \in DOMAIN cur => DOMAIN cur = {pid}
  BY DEF Scan, ReadFails, ReadStatus, FilterOut, Unknown, Refresh, BeginDeepCheck,
         Unfiltered, Matches, IInv, Shape, OneCur
<1>1. CASE ReadFails(pid)
  BY <1>0, <1>1
     DEF ReadFails, Unfiltered, UnseenDeparted, Departed, Running, Busy, InPoll
<1>2. CASE ReadStatus(pid)
  <2>1. DOMAIN cur' = DOMAIN cur \cup {pid} /\ cur'[pid].gen = procs[pid].gen
        /\ \A q \in DOMAIN cur \ {pid} : cur'[q] = cur[q]
    BY <1>2 DEF ReadStatus, Put, Running, IInv, TypeOK, FSTypeOK, Process
  <2>2. GensBounded'
    BY <1>0, <1>2, <2>1 DEF ReadStatus, Running
  <2> QED
    BY <1>0, <1>2, <2>1, <2>2 DEF ReadStatus, UnseenDeparted, Departed, Running, Busy, InPoll
<1>3. CASE FilterOut(pid)
  BY <1>0, <1>3 DEF FilterOut, Kept
<1>4. CASE Unknown(pid)
  <2>1. /\ DOMAIN cur' = {pid} /\ cur'[pid].gen = cur[pid].gen
        /\ \A q \in DOMAIN known : known'[q] = known[q]
        /\ DOMAIN known' \subseteq DOMAIN known \cup {pid}
        /\ pid \in DOMAIN known' => known'[pid].gen = cur[pid].gen
    BY <1>0, <1>4 DEF Unknown, Track, Put, WithExe, IInv, TypeOK, Process
  <2>2. GensBounded'
    BY <1>0, <1>4, <2>1 DEF Unknown
  <2> QED
    BY <1>0, <1>4, <2>1, <2>2 DEF Unknown, Mark, UnseenDeparted, Departed, Running, Busy, InPoll
<1>5. CASE Refresh(pid)
  <2>1. /\ DOMAIN known' = DOMAIN known /\ DOMAIN cur' = {}
        /\ known'[pid].gen = cur[pid].gen
        /\ \A q \in DOMAIN known \ {pid} : known'[q] = known[q]
    <3>1. PICK e \in LinkSeen(pid, "exe") :
              known' = [known EXCEPT ![pid] = Overwrite(@, WithExe(pid, e))]
      BY <1>5 DEF Refresh
    <3>2. /\ pid \in DOMAIN known /\ pid \in DOMAIN cur
          /\ known[pid] \in Snapshot /\ cur[pid] \in Process
      BY <1>5 DEF Refresh, IInv, TypeOK
    <3>3. Overwrite(known[pid], WithExe(pid, e)).gen = cur[pid].gen
      BY <3>2 DEF Overwrite, WithExe, Snapshot, Process
    <3>4. DOMAIN cur' = {}
      BY <1>0, <1>5, <3>2 DEF Refresh, Finish, Drop
    <3> QED BY <3>1, <3>2, <3>3, <3>4
  <2>2. GensBounded'
    BY <1>0, <1>5, <2>1 DEF Refresh
  <2> QED
    BY <1>0, <1>5, <2>1, <2>2
       DEF Refresh, Finish, Mark, UnseenDeparted, Departed, Running, Busy, InPoll
<1>6. CASE BeginDeepCheck(pid)
  <2>1. DOMAIN cur' = {pid} /\ cur'[pid].gen = cur[pid].gen /\ known' = known
    BY <1>0, <1>6 DEF BeginDeepCheck, WithExe, IInv, TypeOK, Process
  <2> QED
    BY <1>0, <1>6, <2>1 DEF BeginDeepCheck, Mark, UnseenDeparted, Departed, Running, Busy, InPoll
<1> QED BY <1>1, <1>2, <1>3, <1>4, <1>5, <1>6 DEF Scan

(* The deep reads change no PID or generation that the argument looks at. *)
LEMMA DeepReadsGone ==
    ASSUME Unfiltered, IInv, GoneInv, NEW pid \in Pids, DeepReads(pid)
    PROVE  GoneInv'
<1> USE DEF GoneInv, GensBounded
<1>0. /\ UNCHANGED <<procs, births, seen>>
      /\ pid \in DOMAIN cur /\ DOMAIN cur = {pid} /\ pid \in seen
      /\ cur[pid] \in Process
      /\ pid \in DOMAIN known => known[pid] \in Snapshot
      /\ InPoll /\ InPoll'
  <2>1. /\ UNCHANGED <<procs, births, seen>> /\ pid \in DOMAIN cur
        /\ pc \in {"extra", "ns"} /\ pc' \in {"ns", "started", "changed", "scan"}
    BY DEF DeepReads, ExtraMissed, ExtraOfNew, ExtraOfKnown, NsOfNew, NsReports, NsSilent,
           Finish, pollVars
  <2> QED
    BY <2>1 DEF IInv, TypeOK, Shape, OneCur, UnseenDeparted, Busy, InPoll
<1>1. ASSUME DOMAIN cur' = {pid} \/ (DOMAIN cur' = {} /\ todo' = todo \ {pid}),
             todo' = todo \/ todo' = todo \ {pid},
             pid \in DOMAIN cur' => cur'[pid].gen = cur[pid].gen,
             DOMAIN known' \subseteq DOMAIN known \cup {pid},
             \A q \in DOMAIN known \ {pid} : known'[q] = known[q],
             pid \in DOMAIN known' => known'[pid].gen <= births
      PROVE  GoneInv'
  <2>1. GensBounded'
    BY <1>0, <1>1
  <2>2. \A q \in DOMAIN known' \ {pid} : Departed(q) => Departed(q)'
    BY <1>0, <1>1 DEF Departed, Running
  <2> QED
    BY <1>0, <1>1, <2>1, <2>2 DEF UnseenDeparted
<1>2. CASE ExtraMissed(pid)
  BY <1>0, <1>1, <1>2 DEF ExtraMissed, pollVars
<1>3. CASE ExtraOfNew(pid)
  <2>1. DOMAIN cur' = {pid} /\ cur'[pid].gen = cur[pid].gen
    BY <1>0, <1>3 DEF ExtraOfNew, Process
  <2> QED BY <1>0, <1>1, <1>3, <2>1 DEF ExtraOfNew
<1>4. CASE ExtraOfKnown(pid)
  <2>1. DOMAIN known' = DOMAIN known /\ known'[pid].gen = known[pid].gen
        /\ \A q \in DOMAIN known \ {pid} : known'[q] = known[q]
    BY <1>0, <1>4 DEF ExtraOfKnown, Snapshot
  <2> QED BY <1>0, <1>1, <1>4, <2>1 DEF ExtraOfKnown
<1>5. CASE NsOfNew(pid)
  <2>1. PICK n : Track(pid, [cur[pid] EXCEPT !.val["netns"] = n])
    BY <1>5 DEF NsOfNew
  <2>2. known'[pid].gen = cur[pid].gen /\ DOMAIN known' = DOMAIN known \cup {pid}
        /\ \A q \in DOMAIN known \ {pid} : known'[q] = known[q]
    BY <1>0, <2>1 DEF Track, Put, Process
  <2> QED BY <1>0, <1>1, <1>5, <2>2 DEF NsOfNew, pollVars
<1>6. CASE NsReports(pid)
  <2>1. PICK n : known' = [known EXCEPT ![pid] = DeepChecked(pid, n)]
    BY <1>6 DEF NsReports
  <2>2. DOMAIN known' = DOMAIN known /\ known'[pid].gen = known[pid].gen
        /\ \A q \in DOMAIN known \ {pid} : known'[q] = known[q]
    BY <1>0, <1>6, <2>1 DEF NsReports, DeepChecked, Snapshot
  <2> QED BY <1>0, <1>1, <1>6, <2>2 DEF NsReports
<1>7. CASE NsSilent(pid)
  <2>1. PICK n : known' = [known EXCEPT ![pid] = Overwrite(DeepChecked(pid, n), cur[pid])]
    BY <1>7 DEF NsSilent
  <2>2. Overwrite(DeepChecked(pid, n), cur[pid]).gen = cur[pid].gen
    BY <1>0, <1>7 DEF NsSilent, Overwrite, DeepChecked, Snapshot
  <2>3. DOMAIN cur' = {} /\ todo' = todo \ {pid}
    BY <1>0, <1>7 DEF NsSilent, Finish, Drop
  <2> QED BY <1>0, <1>1, <1>7, <2>1, <2>2, <2>3 DEF NsSilent
<1> QED BY <1>2, <1>3, <1>4, <1>5, <1>6, <1>7 DEF DeepReads

(* The sends end the examination of a PID that is seen, or forget one. *)
LEMMA SendsGone ==
    ASSUME IInv, GoneInv, NEW pid \in Pids, Sends(pid)
    PROVE  GoneInv'
<1> USE DEF GoneInv, GensBounded
<1>1. CASE SendStarted(pid)
  <2>1. DOMAIN cur = {pid} /\ pid \in seen /\ DOMAIN cur' = {} /\ todo' = todo \ {pid}
    BY <1>1 DEF SendStarted, Finish, Drop, IInv, Shape, OneCur, UnseenDeparted, Busy
  <2> QED
    BY <1>1, <2>1 DEF SendStarted, Finish, UnseenDeparted, Departed, Running, InPoll
<1>2. CASE SendChanged(pid)
  <2>1. DOMAIN cur = {pid} /\ pid \in seen /\ DOMAIN cur' = {} /\ todo' = todo \ {pid}
        /\ pid \in DOMAIN known /\ known[pid] \in Snapshot
    BY <1>2 DEF SendChanged, Finish, Drop, IInv, TypeOK, Shape, OneCur, CurTracked,
                KnownIsTold, UnseenDeparted, Busy
  <2>2. known' = [known EXCEPT ![pid] = Overwrite(@, cur[pid])]
    BY <1>2 DEF SendChanged
  <2>3. Overwrite(known[pid], cur[pid]).gen = cur[pid].gen
    BY <2>1 DEF Overwrite, Snapshot
  <2> QED
    BY <1>2, <2>1, <2>2, <2>3
       DEF SendChanged, Finish, UnseenDeparted, Departed, Running, InPoll
<1>3. CASE SendExited(pid)
  BY <1>3 DEF SendExited, Forget, Drop, pollVars, UnseenDeparted, Departed, Running, InPoll
<1> QED BY <1>1, <1>2, <1>3 DEF Sends

(* Every step keeps GoneInv. *)
LEMMA NextGone ==
    ASSUME Unfiltered, IInv, GoneInv, [Next]_vars
    PROVE  GoneInv'
<1> USE DEF GoneInv, GensBounded, UnseenDeparted, Departed, Running, InPoll
<1>1. CASE Tick \/ ReturnOnStop
  BY <1>1 DEF Tick, ReturnOnStop, MayReturn, pollVars, runVars, Busy
<1>2. CASE BeginPoll
  <2>1. DOMAIN known' = DOMAIN known /\ \A q \in DOMAIN known : known'[q].gen = known[q].gen
    BY <1>2 DEF BeginPoll, Aged, IInv, TypeOK, Snapshot
  <2>2. DOMAIN cur = {}
    BY <1>2 DEF BeginPoll, MayPoll, IInv, Shape, OneCur, Busy
  <2> QED
    BY <1>2, <2>1, <2>2 DEF BeginPoll, Listed
<1>3. CASE ListFails
  BY <1>3 DEF ListFails, Unfiltered
<1>4. CASE EndPoll
  BY <1>4 DEF EndPoll, Busy
<1>5. CASE Receive \/ CloseStop
  BY <1>5 DEF Receive, CloseStop, watcherVars
<1>6. CASE UNCHANGED vars
  BY <1>6 DEF vars
<1> HIDE DEF GoneInv, GensBounded, UnseenDeparted, Departed, Running, InPoll
<1>7. CASE Machine
  BY <1>7, MachineGone
<1>8. CASE \E pid \in Pids : Scan(pid) \/ DeepReads(pid) \/ Sends(pid)
  BY <1>8, ScanGone, DeepReadsGone, SendsGone
<1> QED BY <1>1, <1>2, <1>3, <1>4, <1>5, <1>6, <1>7, <1>8 DEF Next, PollStep

(* With no filter and no failing read, an Exited event is about a process that
   is gone, however PIDs are reused between the reads of a poll. *)
THEOREM ExitedHolds == ASSUME Unfiltered PROVE Spec => ExitedMeansGone
<1>1. Init => GoneInv
  BY DEF Init, FSInit, GoneInv, GensBounded, UnseenDeparted, InPoll, Busy
<1>2. IInv /\ GoneInv /\ [Next]_vars => GoneInv'
  BY NextGone
<1>3. ASSUME IInv, GoneInv, NEW pid \in Pids, SendExited(pid)
      PROVE  ~(Running(pid) /\ procs[pid].gen = known[pid].gen)
  <2>1. DOMAIN cur = {}
    BY <1>3 DEF SendExited, IInv, Shape, OneCur, Busy
  <2> QED
    BY <1>3, <2>1 DEF SendExited, GoneInv, UnseenDeparted, Departed, InPoll
<1>4. IInv /\ GoneInv =>
        \A pid \in Pids : SendExited(pid) => ~(Running(pid) /\ procs[pid].gen = known[pid].gen)
  BY <1>3
<1> QED BY <1>1, <1>2, <1>4, Invariance, PTL DEF Spec, ExitedMeansGone

(***************************************************************************)
(* The filter.  Matches looks at the owner, the executable and kthread     *)
(* only, which the deep reads leave alone.                                 *)
(***************************************************************************)
SameIdentity(p, q) ==
    p.kthread = q.kthread /\ p.val["uid"] = q.val["uid"] /\ p.val["exe"] = q.val["exe"]

\* Once exe is read, the process under examination was let through.
CurMatches == pc \in Busy \ {"exe"} => \A pid \in DOMAIN cur : Matches(cur[pid])

FilterInv == FilterRespected /\ CurMatches

(* The filter decides by identity alone. *)
LEMMA SameMatch ==
    ASSUME NEW p, NEW q, SameIdentity(p, q), Matches(p)
    PROVE  Matches(q)
  BY DEF SameIdentity, Matches, KernelThread

\* The names of the fields that make up the identity.
LEMMA IdentityFields ==
    /\ "uid" \in CheapFields /\ "exe" \in CheapFields
    /\ "uid" \in Fields /\ "exe" \in Fields /\ "netns" \in Fields
    /\ "uid" \notin StatusFields /\ "exe" \notin StatusFields
  BY DEF CheapFields, Fields, StatusFields

(* existing.Process = *p gives a snapshot the identity of the fresh process. *)
LEMMA OverwriteIdentity ==
    ASSUME NEW s \in Snapshot, NEW p \in Process
    PROVE  SameIdentity(p, Overwrite(s, p))
  BY IdentityFields DEF SameIdentity, Overwrite, Snapshot, Process, Values

(* The end of a deep check keeps a snapshot's identity. *)
LEMMA DeepCheckedIdentity ==
    ASSUME NEW pid, NEW n \in Nat, known[pid] \in Snapshot
    PROVE  DeepChecked(pid, n) \in Snapshot /\ SameIdentity(known[pid], DeepChecked(pid, n))
<1> DEFINE m == IF n # 0 THEN n ELSE known[pid].val["netns"]
<1>1. known[pid].val \in Values /\ m \in Nat /\ 0 \in 0..Deep
  BY IdentityFields, DeepAssumption DEF Snapshot, Values
<1>2. DeepChecked(pid, n) = [known[pid] EXCEPT !.age = 0, !.val["netns"] = m]
  BY DEF DeepChecked, Snapshot
<1> HIDE DEF m
<1>3. [known[pid].val EXCEPT !["netns"] = m] \in Values
  BY <1>1 DEF Values
<1>4. DeepChecked(pid, n) \in Snapshot
  BY <1>1, <1>2, <1>3 DEF Snapshot
<1>5. SameIdentity(known[pid], DeepChecked(pid, n))
  BY <1>1, <1>2, IdentityFields DEF SameIdentity, Snapshot, Values
<1> QED BY <1>4, <1>5

(* The second read of the status file keeps the identity. *)
LEMMA WithStatusIdentity ==
    ASSUME NEW a, a \in Process \cup Snapshot, NEW v \in Values
    PROVE  SameIdentity(a, [a EXCEPT !.val = WithStatus(@, v)])
  BY IdentityFields DEF SameIdentity, WithStatus, Process, Snapshot, Values

(* A step that leaves the maps alone, but for the examined PID, keeps the
   filter's invariant when what it stores matches. *)
LEMMA FilterKept ==
    ASSUME FilterInv, NEW pid \in Pids, pid \in DOMAIN cur => DOMAIN cur = {pid},
           DOMAIN known' \subseteq DOMAIN known \cup {pid},
           \A q \in DOMAIN known \ {pid} : known'[q] = known[q],
           pid \in DOMAIN known' => Matches(known'[pid]),
           \/ pc' \notin Busy \ {"exe"}
           \/ DOMAIN cur' = {}
           \/ DOMAIN cur' \subseteq {pid} /\ Matches(cur'[pid])
    PROVE  FilterInv'
  BY DEF FilterInv, FilterRespected, CurMatches

(* Every step of the scan keeps it. *)
LEMMA ScanFilter ==
    ASSUME IInv, FilterInv, NEW pid \in Pids, Scan(pid)
    PROVE  FilterInv'
<1> USE DEF IInv, Busy
<1>0. /\ pid \in DOMAIN cur => DOMAIN cur = {pid} /\ cur[pid] \in Process
      /\ pid \in DOMAIN known => known[pid] \in Snapshot /\ Matches(known[pid])
      /\ LinkSeen(pid, "exe") \subseteq Nat
  BY LinkSeenType DEF TypeOK, Shape, OneCur, FilterInv, FilterRespected, Fields, CheapFields
<1>1. CASE ReadFails(pid) \/ ReadStatus(pid) \/ FilterOut(pid)
  BY <1>1 DEF ReadFails, ReadStatus, FilterOut, Finish, FilterInv, FilterRespected, CurMatches,
              Shape, OneCur
<1>2. CASE Unknown(pid)
  <2>1. PICK e \in LinkSeen(pid, "exe") :
          /\ Kept(pid, e)
          /\ cur' = [cur EXCEPT ![pid] = WithExe(pid, e)]
          /\ known' = known \/ Track(pid, WithExe(pid, e))
    BY <1>2 DEF Unknown
  <2> DEFINE s == [gen |-> WithExe(pid, e).gen, kthread |-> WithExe(pid, e).kthread,
                   val |-> WithExe(pid, e).val, age |-> 0]
  <2>2. Matches(s) /\ Matches(cur'[pid])
    BY <1>0, <1>2, <2>1, SameMatch DEF Unknown, Kept, SameIdentity
  <2>3. pid \notin DOMAIN known /\ DOMAIN cur' = {pid}
    BY <1>0, <1>2, <2>1 DEF Unknown
  <2>4. known' = known \/ known' = Put(known, pid, s)
    BY <2>1 DEF Track
  <2> HIDE DEF s
  <2> QED BY <1>0, <2>2, <2>3, <2>4, FilterKept DEF Put
<1>3. CASE Refresh(pid)
  <2>1. PICK e \in LinkSeen(pid, "exe") :
          Kept(pid, e) /\ known' = [known EXCEPT ![pid] = Overwrite(@, WithExe(pid, e))]
    BY <1>3 DEF Refresh
  <2>2. pid \in DOMAIN known /\ pid \in DOMAIN cur /\ WithExe(pid, e) \in Process
    BY <1>0, <1>3, <2>1, WithExeType DEF Refresh, TypeOK
  <2>3. Matches(Overwrite(known[pid], WithExe(pid, e)))
    BY <1>0, <2>1, <2>2, SameMatch, OverwriteIdentity DEF Kept
  <2>4. DOMAIN cur' = {}
    BY <1>0, <1>3, <2>2 DEF Refresh, Finish, Drop
  <2> QED BY <1>0, <2>1, <2>2, <2>3, <2>4, FilterKept
<1>4. CASE BeginDeepCheck(pid)
  <2>1. PICK e \in LinkSeen(pid, "exe") :
          Kept(pid, e) /\ cur' = [cur EXCEPT ![pid] = WithExe(pid, e)]
    BY <1>4 DEF BeginDeepCheck
  <2>2. pid \in DOMAIN cur /\ known' = known
    BY <1>4 DEF BeginDeepCheck
  <2> QED BY <1>0, <2>1, <2>2, FilterKept DEF Kept
<1> QED BY <1>1, <1>2, <1>3, <1>4 DEF Scan

(* The deep reads leave the identity of what they touch alone. *)
LEMMA DeepReadsFilter ==
    ASSUME IInv, FilterInv, NEW pid \in Pids, DeepReads(pid)
    PROVE  FilterInv'
<1> USE DEF IInv, Busy
<1>0. /\ pid \in DOMAIN cur /\ DOMAIN cur = {pid}
      /\ cur[pid] \in Process /\ Matches(cur[pid])
      /\ pid \in DOMAIN known => known[pid] \in Snapshot /\ Matches(known[pid])
      /\ LinkSeen(pid, "netns") \subseteq Nat
  <2>1. pid \in DOMAIN cur /\ pc \in {"extra", "ns"}
    BY DEF DeepReads, ExtraMissed, ExtraOfNew, ExtraOfKnown, NsOfNew, NsReports, NsSilent
  <2>2. LinkSeen(pid, "netns") \subseteq Nat
    BY LinkSeenType, IdentityFields DEF TypeOK
  <2> QED
    BY <2>1, <2>2 DEF TypeOK, Shape, OneCur, FilterInv, FilterRespected, CurMatches
<1>1. CASE ExtraMissed(pid)
  BY <1>0, <1>1 DEF ExtraMissed, pollVars, FilterInv, FilterRespected, CurMatches
<1>2. CASE ExtraOfNew(pid)
  <2>1. procs[pid].val \in Values
    BY <1>2 DEF ExtraOfNew, Running, TypeOK, FSTypeOK, Process
  <2>2. Matches([cur[pid] EXCEPT !.val = WithStatus(@, procs[pid].val)])
    BY <1>0, <2>1, WithStatusIdentity, SameMatch
  <2> QED
    BY <1>0, <1>2, <2>2, FilterKept DEF ExtraOfNew
<1>3. CASE ExtraOfKnown(pid)
  <2>1. procs[pid].val \in Values /\ pid \in DOMAIN known
    BY <1>3 DEF ExtraOfKnown, Running, TypeOK, FSTypeOK, Process
  <2>2. Matches([known[pid] EXCEPT !.val = WithStatus(@, procs[pid].val)])
    BY <1>0, <2>1, WithStatusIdentity, SameMatch
  <2> QED
    BY <1>0, <1>3, <2>1, <2>2, FilterKept DEF ExtraOfKnown
<1>4. CASE NsOfNew(pid)
  <2>1. PICK n : Track(pid, [cur[pid] EXCEPT !.val["netns"] = n])
    BY <1>4 DEF NsOfNew
  <2> DEFINE p == [cur[pid] EXCEPT !.val["netns"] = n]
             s == [gen |-> p.gen, kthread |-> p.kthread, val |-> p.val, age |-> 0]
  <2>2. SameIdentity(cur[pid], s)
    BY <1>0, IdentityFields DEF SameIdentity, Process, Values
  <2>3. Matches(s)
    BY <1>0, <2>2, SameMatch
  <2>4. known' = Put(known, pid, s) /\ cur' = cur
    BY <1>4, <2>1 DEF Track, NsOfNew, pollVars
  <2> HIDE DEF s
  <2> QED BY <1>0, <2>3, <2>4, FilterKept DEF Put
<1>5. CASE NsReports(pid)
  <2>1. PICK n \in Nat : known' = [known EXCEPT ![pid] = DeepChecked(pid, n)]
    BY <1>0, <1>5 DEF NsReports
  <2>2. pid \in DOMAIN known /\ Matches(DeepChecked(pid, n))
    BY <1>0, <1>5, DeepCheckedIdentity, SameMatch DEF NsReports
  <2> QED BY <1>0, <1>5, <2>1, <2>2, FilterKept DEF NsReports
<1>6. CASE NsSilent(pid)
  <2>1. PICK n \in Nat : known' = [known EXCEPT ![pid] = Overwrite(DeepChecked(pid, n), cur[pid])]
    BY <1>0, <1>6 DEF NsSilent
  <2>2. pid \in DOMAIN known /\ Matches(Overwrite(DeepChecked(pid, n), cur[pid]))
    BY <1>0, <1>6, DeepCheckedIdentity, OverwriteIdentity, SameMatch DEF NsSilent
  <2>3. DOMAIN cur' = {}
    BY <1>0, <1>6 DEF NsSilent, Finish, Drop
  <2> QED BY <1>0, <2>1, <2>2, <2>3, FilterKept
<1> QED BY <1>1, <1>2, <1>3, <1>4, <1>5, <1>6 DEF DeepReads

(* The sends store only what was let through. *)
LEMMA SendsFilter ==
    ASSUME IInv, FilterInv, NEW pid \in Pids, Sends(pid)
    PROVE  FilterInv'
<1> USE DEF IInv, Busy
<1>0. /\ pid \in DOMAIN cur => DOMAIN cur = {pid} /\ cur[pid] \in Process
      /\ pid \in DOMAIN known => known[pid] \in Snapshot /\ Matches(known[pid])
  BY DEF TypeOK, Shape, OneCur, FilterInv, FilterRespected
<1>1. CASE SendStarted(pid)
  BY <1>1 DEF SendStarted, Finish, FilterInv, FilterRespected, CurMatches
<1>2. CASE SendChanged(pid)
  <2>1. /\ pid \in DOMAIN cur /\ pid \in DOMAIN known /\ Matches(cur[pid])
        /\ pc' = "scan" /\ known' = [known EXCEPT ![pid] = Overwrite(@, cur[pid])]
    BY <1>2 DEF SendChanged, Finish, Shape, CurTracked, KnownIsTold, FilterInv, CurMatches
  <2>2. Matches(Overwrite(known[pid], cur[pid]))
    BY <1>0, <2>1, OverwriteIdentity, SameMatch
  <2> QED BY <1>0, <2>1, <2>2, FilterKept
<1>3. CASE SendExited(pid)
  BY <1>3 DEF SendExited, Forget, Drop, pollVars, FilterInv, FilterRespected, CurMatches
<1> QED BY <1>1, <1>2, <1>3 DEF Sends

(* Every event, an Exited one of an earlier snapshot too, is about a process
   that the filter let through. *)
THEOREM FilterHolds == Spec => []FilterRespected
<1>1. Init => FilterInv
  BY DEF Init, FilterInv, FilterRespected, CurMatches
<1>2. IInv /\ FilterInv /\ [Next]_vars => FilterInv'
  <2> SUFFICES ASSUME IInv, FilterInv, [Next]_vars PROVE FilterInv'
    OBVIOUS
  <2> USE DEF FilterInv, FilterRespected, CurMatches
  <2>1. CASE Machine \/ Tick \/ Receive \/ CloseStop
    BY <2>1 DEF Machine, Tick, Receive, CloseStop, watcherVars, pollVars
  <2>2. CASE ListFails \/ ReturnOnStop \/ EndPoll
    BY <2>2 DEF ListFails, ReturnOnStop, EndPoll, pollVars, Busy
  <2>3. CASE BeginPoll
    <3>1. DOMAIN known' = DOMAIN known
          /\ \A q \in DOMAIN known : SameIdentity(known[q], known'[q])
      BY <2>3 DEF BeginPoll, Aged, SameIdentity, IInv, TypeOK, Snapshot
    <3> QED BY <2>3, <3>1, SameMatch DEF BeginPoll, Busy
  <2>4. CASE \E pid \in Pids : Scan(pid) \/ DeepReads(pid) \/ Sends(pid)
    BY <2>4, ScanFilter, DeepReadsFilter, SendsFilter
  <2>5. CASE UNCHANGED vars
    BY <2>5 DEF vars
  <2> QED BY <2>1, <2>2, <2>3, <2>4, <2>5 DEF Next, PollStep
<1>3. FilterInv => FilterRespected
  BY DEF FilterInv
<1> QED BY <1>1, <1>2, <1>3, Invariance, PTL DEF Spec
=============================================================================
