--------------------------- MODULE ProcTreeProofs ---------------------------
(***************************************************************************)
(* Why the recursions of tree.go end when no PID is reused during a scan,  *)
(* for every set of PIDs and every interleaving of the scan with forks and *)
(* exits: a parent is always an older process than its child, also after   *)
(* exits have moved children to another parent, and so is a parent that    *)
(* was read, as long as its PID means the same process.                    *)
(*                                                                         *)
(* And why the recursions compute what they should: what they meet is the  *)
(* least set that is closed under the step of the recursion, and they have *)
(* met all of it after as many steps as there are records.                 *)
(***************************************************************************)
EXTENDS ProcTree, Recursion

\* The running processes form a tree that is ordered by age, with init at 0.
AgedTable ==
    /\ InitPid \in DOMAIN procs
    /\ procs[InitPid].gen = 0 /\ procs[InitPid].ppid = 0
    /\ \A p \in DOMAIN procs :
          /\ procs[p].gen <= births
          /\ procs[p].ppid # 0 => /\ procs[p].ppid \in DOMAIN procs
                                  /\ procs[procs[p].ppid].gen < procs[p].gen

\* What was read tells a parent that was older, and none for init.
AgedRecords ==
    /\ \A p \in DOMAIN read : read[p].ppid # 0 => read[p].pgen < read[p].gen
    /\ InitPid \in DOMAIN read => read[InitPid].ppid = 0

TreeIInv == TreeTypeOK /\ AgedTable /\ AgedRecords

(* Before the first scan there is init only. *)
LEMMA InitTreeIInv == TreeInit => TreeIInv
  BY PidsAssumption, UidsAssumption, TreeBoundsAssumption
     DEF TreeInit, TreeIInv, TreeTypeOK, AgedTable, AgedRecords, Process, Record, AllPids, InitPid

(* A new process is younger than every other one, its parent included. *)
LEMMA ForkKeeps ==
    ASSUME TreeIInv, NEW pid \in Pids, NEW parent \in AllPids \cup {0}, Fork(parent, pid),
           UNCHANGED <<phase, todo, read>>
    PROVE  TreeIInv'
<1> USE DEF TreeIInv
<1>1. PICK u \in Uids :
        procs' = [q \in DOMAIN procs \cup {pid} |->
            IF q = pid THEN [gen |-> births + 1, ppid |-> parent, uid |-> u] ELSE procs[q]]
  BY DEF Fork
<1>2. /\ births' = births + 1 /\ births \in Nat /\ pid \notin DOMAIN procs
      /\ parent \in DOMAIN procs \/ parent = 0
  BY DEF Fork, Running, TreeTypeOK
<1>3. TreeTypeOK'
  BY <1>1, <1>2 DEF TreeTypeOK, Process, AllPids
<1>4. \A q \in DOMAIN procs : procs'[q] = procs[q]
  BY <1>1, <1>2
<1>5. DOMAIN procs' = DOMAIN procs \cup {pid} /\ procs'[pid].gen = births + 1 /\ procs'[pid].ppid = parent
  BY <1>1
<1>6. AgedTable'
  <2>1. \A q \in DOMAIN procs : procs[q].gen \in Nat
    BY DEF TreeTypeOK, Process
  <2> QED BY <1>2, <1>4, <1>5, <2>1 DEF AgedTable
<1> QED BY <1>3, <1>6 DEF AgedRecords

(* An exit moves children to a process that is older still. *)
LEMMA ExitKeeps ==
    ASSUME TreeIInv, NEW pid \in Pids, Exit(pid), UNCHANGED <<phase, todo, read>>
    PROVE  TreeIInv'
<1> USE DEF TreeIInv
<1>1. PICK reaper \in {InitPid, procs[pid].ppid} \cap DOMAIN procs :
        procs' = [q \in DOMAIN procs \ {pid} |->
            IF procs[q].ppid = pid THEN [procs[q] EXCEPT !.ppid = reaper] ELSE procs[q]]
  BY DEF Exit
<1>2. /\ births' = births /\ pid \in DOMAIN procs /\ pid # InitPid
      /\ \A q \in DOMAIN procs : procs[q] \in Process /\ procs[q].gen \in Nat
  BY PidsAssumption DEF Exit, Running, TreeTypeOK, Process
<1>3. reaper # pid /\ procs[reaper].gen <= procs[pid].gen
  <2>1. 0 \notin DOMAIN procs
    BY PidsAssumption DEF TreeTypeOK, AllPids, InitPid
  <2> QED BY <1>1, <1>2, <2>1 DEF AgedTable
<1>4. \A q \in DOMAIN procs' :
        /\ q \in DOMAIN procs \ {pid}
        /\ procs'[q].gen = procs[q].gen
        /\ procs'[q].ppid = IF procs[q].ppid = pid THEN reaper ELSE procs[q].ppid
        /\ procs'[q] \in Process
  <2>1. reaper \in AllPids
    BY <1>1 DEF TreeTypeOK
  <2>2. ASSUME NEW q \in DOMAIN procs \ {pid}, procs[q].ppid = pid
        PROVE  /\ procs'[q].gen = procs[q].gen /\ procs'[q].ppid = reaper
               /\ procs'[q] \in Process
    <3>1. procs'[q] = [procs[q] EXCEPT !.ppid = reaper]
      BY <1>1, <2>2
    <3> QED BY <1>2, <2>1, <3>1 DEF Process
  <2>3. ASSUME NEW q \in DOMAIN procs \ {pid}, procs[q].ppid # pid
        PROVE  procs'[q] = procs[q]
    BY <1>1, <2>3
  <2>4. DOMAIN procs' = DOMAIN procs \ {pid}
    BY <1>1
  <2> QED BY <1>2, <2>2, <2>3, <2>4
<1>5. DOMAIN procs' = DOMAIN procs \ {pid}
  BY <1>1
<1>6. TreeTypeOK'
  BY <1>1, <1>2, <1>4, <1>5 DEF TreeTypeOK
<1>7. ASSUME NEW q \in DOMAIN procs', procs'[q].ppid # 0
      PROVE  procs'[q].ppid \in DOMAIN procs' /\ procs'[procs'[q].ppid].gen < procs'[q].gen
  <2>1. CASE procs[q].ppid = pid
    <3>1. procs[pid].gen < procs[q].gen
      BY <1>4, <2>1, PidsAssumption DEF AgedTable, InitPid
    <3>2. procs'[q].ppid = reaper /\ reaper \in DOMAIN procs'
      BY <1>1, <1>3, <1>4, <1>5, <2>1
    <3> QED BY <1>1, <1>2, <1>3, <1>4, <3>1, <3>2
  <2>2. CASE procs[q].ppid # pid
    BY <1>4, <1>5, <1>7, <2>2 DEF AgedTable
  <2> QED BY <2>1, <2>2
<1>8. InitPid \in DOMAIN procs' /\ procs'[InitPid].gen = 0 /\ procs'[InitPid].ppid = 0
  BY <1>2, <1>4, <1>5, PidsAssumption DEF AgedTable
<1>9. AgedTable'
  BY <1>2, <1>4, <1>7, <1>8 DEF AgedTable
<1> QED BY <1>6, <1>9 DEF AgedRecords

(* Every step keeps the order of age. *)
LEMMA NextTreeIInv == TreeIInv /\ [TreeNext]_treeVars => TreeIInv'
<1> SUFFICES ASSUME TreeIInv, [TreeNext]_treeVars PROVE TreeIInv'
  OBVIOUS
<1>1. CASE Machine
  BY <1>1, ForkKeeps, ExitKeeps DEF Machine
<1>2. CASE ListPIDs \/ EndReadAll
  BY <1>2 DEF ListPIDs, Numeric, EndReadAll, TreeIInv, TreeTypeOK, AgedTable, AgedRecords
<1>3. ASSUME NEW pid \in AllPids, ReadProcess(pid) PROVE TreeIInv'
  <2> DEFINE r == [gen |-> procs[pid].gen, ppid |-> procs[pid].ppid, uid |-> procs[pid].uid,
                   pgen |-> IF Running(procs[pid].ppid) THEN procs[procs[pid].ppid].gen ELSE 0]
  <2>1. /\ DOMAIN read' = DOMAIN read \cup {pid} /\ read'[pid] = r
        /\ \A q \in DOMAIN read \ {pid} : read'[q] = read[q]
        /\ read' = [q \in DOMAIN read \cup {pid} |-> IF q # pid THEN read[q] ELSE r]
    BY <1>3 DEF ReadProcess
  <2>2. r \in Record
    BY <1>3 DEF ReadProcess, Running, TreeIInv, TreeTypeOK, Process, Record
  <2>3. (r.ppid # 0 => r.pgen < r.gen) /\ (pid = InitPid => r.ppid = 0)
    BY <1>3 DEF ReadProcess, Running, TreeIInv, AgedTable
  <2> HIDE DEF r
  <2>4. TreeTypeOK'
    BY <1>3, <2>1, <2>2 DEF ReadProcess, TreeIInv, TreeTypeOK
  <2>5. AgedRecords'
    BY <2>1, <2>3 DEF TreeIInv, AgedRecords
  <2> QED BY <1>3, <2>4, <2>5 DEF ReadProcess, TreeIInv, AgedTable
<1>4. ASSUME NEW pid \in AllPids, SkipProcess(pid) PROVE TreeIInv'
  BY <1>4 DEF SkipProcess, TreeIInv, TreeTypeOK, AgedTable, AgedRecords
<1>5. CASE UNCHANGED treeVars
  BY <1>5 DEF treeVars, TreeIInv, TreeTypeOK, AgedTable, AgedRecords
<1> QED BY <1>1, <1>2, <1>3, <1>4, <1>5 DEF TreeNext

(* The records and the table are well typed. *)
THEOREM TreeTypeCorrect == TreeSpec => []TreeTypeOK
<1>1. TreeIInv => TreeTypeOK
  BY DEF TreeIInv
<1> QED BY <1>1, InitTreeIInv, NextTreeIInv, PTL DEF TreeSpec

(* Of the processes in a set the oldest is a root, or has its parent outside. *)
LEMMA OldestIsTop == TreeIInv => NoCycle
<1> SUFFICES ASSUME TreeIInv, NoReuse, NEW S \in SUBSET DOMAIN read, S # {}
             PROVE  \E p \in S : p \in Roots \/ read[p].ppid \notin S
  BY DEF NoCycle
<1> DEFINE ages == {read[p].gen : p \in S}
<1>1. \A p \in S : read[p].gen \in Nat /\ read[p].pgen \in Nat
  BY DEF TreeIInv, TreeTypeOK, Record
<1>2. ages \subseteq Nat /\ ages # {}
  BY <1>1
<1>3. PICK a \in ages : \A b \in ages : a <= b
  <2> HIDE DEF ages
  <2> QED BY <1>2, LeastNumber
<1>4. \A b \in ages : ~(b < a)
  BY <1>2, <1>3
<1>5. PICK p \in S : read[p].gen = a
  BY <1>3
<1>6. ASSUME p \notin Roots, read[p].ppid \in S PROVE FALSE
  <2>1. read[p].ppid # 0 /\ read[p].ppid \in DOMAIN read
    BY <1>6 DEF Roots
  <2>2. read[p].pgen < read[p].gen
    BY <2>1 DEF TreeIInv, AgedRecords
  <2>3. read[read[p].ppid].gen = read[p].pgen
    BY <2>1 DEF NoReuse
  <2>4. read[read[p].ppid].gen \in ages
    BY <1>6
  <2> QED BY <1>1, <1>4, <1>5, <2>2, <2>3, <2>4
<1> QED BY <1>6

(* Whatever forks and exits during the scan, the records have no cycle of
   parents unless a PID changed hands, so BuildTree loses no process and the
   recursions of sortTree, PrintTree and pruneTreeToUID end. *)
THEOREM NoCycleWithoutReuse == TreeSpec => []NoCycle
  BY InitTreeIInv, NextTreeIInv, OldestIsTop, PTL DEF TreeSpec

-----------------------------------------------------------------------------
(* What the recursions of tree.go compute. *)

LEMMA FiniteScan ==
    ASSUME TreeTypeOK
    PROVE  /\ IsFiniteSet(AllPids) /\ IsFiniteSet(DOMAIN read)
           /\ Cardinality(AllPids) \in Nat /\ Cardinality(AllPids) # 0
           /\ Cardinality(DOMAIN read) \in Nat
           /\ 0 \notin DOMAIN read
           /\ \A p \in DOMAIN read : read[p] \in Record
<1>1. IsFiniteSet(AllPids)
  BY PidsAssumption, FS_AddElement DEF AllPids
<1>2. IsFiniteSet(DOMAIN read)
  BY <1>1, FS_Subset DEF TreeTypeOK
<1>3. Cardinality(AllPids) # 0
  BY <1>1, FS_EmptySet DEF AllPids
<1>4. 0 \notin DOMAIN read /\ \A p \in DOMAIN read : read[p] \in Record
  BY PidsAssumption DEF TreeTypeOK, AllPids, InitPid
<1> QED
  BY <1>1, <1>2, <1>3, <1>4, FS_CardinalityType

\* The set has the children of all its processes.
Downward(S) == \A p \in S : Children(p) \subseteq S

(* The recursion from `from` down meets the least such set around it. *)
LEMMA BeneathIsLeast ==
    ASSUME TreeTypeOK, NEW from \in SUBSET DOMAIN read
    PROVE  /\ from \subseteq Beneath(from) /\ Beneath(from) \subseteq DOMAIN read
           /\ Downward(Beneath(from))
           /\ \A S : from \subseteq S /\ Downward(S) => Beneath(from) \subseteq S
<1> DEFINE D == DOMAIN read
           N == Cardinality(D)
           V == SUBSET D
           Add(v) == v \cup UNION {Children(p) : p \in v}
           Body(f) == [n \in 0..N |-> IF n = 0 THEN from ELSE Add(f[n - 1])]
           step == [v \in V |-> Add(v)]
           next == [n \in 1..N |-> step]
           down == CHOOSE f : f = Body(f)
<1>1. N \in Nat /\ IsFiniteSet(D) /\ from \in V /\ V = SUBSET D
  BY FiniteScan
<1>2. \A v \in V : Add(v) \in V
  BY DEF Children
<1>3. Beneath(from) = down[N]
  BY DEF Beneath
<1>4. /\ \A v : v \subseteq Add(v)
      /\ \A v, w : v \subseteq w => Add(v) \subseteq Add(w)
      /\ \A v : Add(v) = v => Downward(v)
      /\ \A v, S : v \subseteq S /\ Downward(S) => Add(v) \subseteq S
  BY DEF Downward
<1> HIDE DEF D, N, V, Add
<1>5. PICK f : Recursive(f, N, V, from, next)
  <2>1. Succession(next, N, V)
    BY <1>2 DEF Succession
  <2> HIDE DEF next
  <2> QED
    BY <1>1, <2>1, RecursiveFunction
<1>6. f = Body(f)
  <2>1. f \in [0..N -> V] /\ f[0] = from /\ \A n \in 1..N : f[n] = next[n][f[n - 1]]
    BY <1>5 DEF Recursive
  <2>2. \A n \in 1..N : n - 1 \in 0..N /\ f[n - 1] \in V
    BY <1>1, <2>1
  <2>3. \A n \in 1..N : f[n] = Add(f[n - 1])
    BY <2>1, <2>2
  <2> HIDE DEF next
  <2>4. \A n \in 0..N : f[n] = IF n = 0 THEN from ELSE Add(f[n - 1])
    BY <1>1, <2>1, <2>3
  <2> QED
    BY <2>1, <2>4
<1>7. down = Body(down)
  <2> HIDE DEF Body
  <2> QED
    BY <1>6
<1> HIDE DEF down
<1>8. down \in [0..N -> {down[n] : n \in 0..N}]
  <2> DEFINE g == Body(down)
  <2>1. g = [n \in 0..N |-> g[n]]
    OBVIOUS
  <2>2. down = g
    BY <1>7
  <2> HIDE DEF g
  <2>3. down = [n \in 0..N |-> down[n]]
    BY <2>1, <2>2
  <2> QED
    BY <2>3
<1>9. down[0] = from /\ \A n \in 1..N : down[n] = Add(down[n - 1])
  <2> DEFINE g == Body(down)
  <2>1. g[0] = from /\ \A n \in 1..N : g[n] = Add(down[n - 1])
    BY <1>1
  <2>2. down = g
    BY <1>7
  <2> HIDE DEF g
  <2> QED
    BY <2>1, <2>2
<1>10. \A n \in 0..N : down[n] \in V
  <2>1. down[0] \in V /\ \A n \in 1..N : down[n - 1] \in V => down[n] \in V
    BY <1>1, <1>2, <1>9
  <2> QED
    BY <1>1, <2>1, RecursiveValues
<1>11. down \in [0..N -> V]
  BY <1>8, <1>10
<1>12. N \in 0..N
  BY <1>1
<1>13. down[N] = step[down[N]]
  <2>1. Monotonic(step, D)
    BY <1>1, <1>2, <1>4 DEF Monotonic
  <2>2. Repeated(down, D, step)
    <3>1. 0 \in 0..N /\ \A n \in 1..N : n - 1 \in 0..N
      BY <1>1
    <3>2. \A n \in 0..N : step[down[n]] = Add(down[n])
      BY <1>10
    <3> HIDE DEF step
    <3> QED
      BY <1>1, <1>4, <1>9, <1>11, <3>1, <3>2 DEF Repeated, N
  <2> HIDE DEF step
  <2> QED
    BY <1>1, <2>1, <2>2, FixedPoint DEF N
<1>14. Downward(down[N])
  BY <1>4, <1>10, <1>12, <1>13
<1>15. from \subseteq down[N]
  <2> DEFINE T == {v \in V : from \subseteq v}
  <2>1. down[0] \in T /\ \A n \in 1..N : down[n - 1] \in T => down[n] \in T
    BY <1>1, <1>2, <1>4, <1>9
  <2> HIDE DEF T
  <2>2. \A n \in 0..N : down[n] \in T
    BY <1>1, <2>1, RecursiveValues
  <2> QED
    BY <1>12, <2>2 DEF T
<1>16. ASSUME NEW S, from \subseteq S, Downward(S)
       PROVE  down[N] \subseteq S
  <2> DEFINE T == SUBSET S
  <2>1. down[0] \in T /\ \A n \in 1..N : down[n - 1] \in T => down[n] \in T
    BY <1>4, <1>9, <1>16
  <2> HIDE DEF T
  <2>2. \A n \in 0..N : down[n] \in T
    BY <1>1, <2>1, RecursiveValues
  <2> QED
    BY <1>12, <2>2 DEF T
<1>17. down[N] \in SUBSET D
  BY <1>1, <1>10, <1>12
<1> QED
  BY <1>3, <1>14, <1>15, <1>16, <1>17 DEF D

LEMMA ItemsOfAppend ==
    ASSUME NEW S, NEW v \in Seq(S), NEW x \in S
    PROVE  /\ ToSet(Append(v, x)) = ToSet(v) \cup {x}
           /\ Append(v, x) # << >> /\ Last(Append(v, x)) = x
           /\ Append(v, x) \in Seq(S) /\ Len(Append(v, x)) = Len(v) + 1
<1>1. ToSet(Append(v, x)) = ToSet(v) \cup {x}
  <2>1. /\ DOMAIN Append(v, x) = 1 .. Len(v) + 1 /\ DOMAIN v = 1..Len(v) /\ Len(v) \in Nat
        /\ \A i \in 1..Len(v) : Append(v, x)[i] = v[i]
        /\ Append(v, x)[Len(v) + 1] = x
    OBVIOUS
  <2>2. 1 .. Len(v) + 1 = (1..Len(v)) \cup {Len(v) + 1}
    BY <2>1
  <2> DEFINE w == Append(v, x)
  <2> HIDE DEF w
  <2> QED
    BY <2>1, <2>2 DEF ToSet
<1>2. Append(v, x) # << >> /\ Last(Append(v, x)) = x
  BY DEF Last
<1> QED
  BY <1>1, <1>2

\* Where the climb from pid has come to, and where it would go.
Top(chain, pid) == IF chain = << >> THEN pid ELSE Last(chain)

\* Each is the parent of the one before it.
Path(chain, pid) ==
    \A i \in DOMAIN chain : chain[i] = read[IF i = 1 THEN pid ELSE chain[i - 1]].ppid

(* A chain is a path of different ancestors, each but the last with its parent,
   and nobody who is not an ancestor. *)
ChainOf(chain, pid) ==
    /\ chain \in Seq(DOMAIN read) /\ Path(chain, pid)
    /\ pid \notin ToSet(chain) /\ ToSet(chain) \subseteq DOMAIN read
    /\ IsFiniteSet(ToSet(chain)) /\ Len(chain) = Cardinality(ToSet(chain))
    /\ Top(chain, pid) \in {pid} \cup ToSet(chain)
    /\ \A q \in {pid} \cup ToSet(chain) :
          q # Top(chain, pid) => read[q].ppid \in ToSet(chain) \ {q}
    /\ \A pids \in SUBSET DOMAIN read : Closed(pids, pid) => ToSet(chain) \subseteq pids

LEMMA PathGoesOn ==
    ASSUME NEW pid, NEW chain, chain \in Seq(DOMAIN read), Path(chain, pid),
           read[Top(chain, pid)].ppid \in DOMAIN read
    PROVE  Path(Append(chain, read[Top(chain, pid)].ppid), pid)
<1> DEFINE n == Len(chain)
           parent == read[Top(chain, pid)].ppid
           longer == Append(chain, parent)
<1>1. n \in Nat /\ DOMAIN chain = 1..n
  OBVIOUS
<1>2. Top(chain, pid) = IF n = 0 THEN pid ELSE chain[n]
  BY DEF Top, Last
<1> HIDE DEF parent
<1>3. /\ DOMAIN longer = 1 .. n + 1 /\ longer[n + 1] = parent
      /\ \A i \in 1..n : longer[i] = chain[i]
  OBVIOUS
<1> HIDE DEF n, longer
<1>4. ASSUME NEW i \in 1 .. n + 1
      PROVE  longer[i] = read[IF i = 1 THEN pid ELSE longer[i - 1]].ppid
  <2>1. CASE i \in 1..n
    <3>1. i = 1 \/ i - 1 \in 1..n
      BY <1>1, <2>1
    <3> QED
      BY <1>1, <1>3, <2>1, <3>1 DEF Path
  <2>2. CASE i = n + 1
    BY <1>1, <1>2, <1>3, <2>2 DEF parent
  <2> QED
    BY <1>1, <2>1, <2>2
<1> QED
  BY <1>3, <1>4 DEF Path, longer, parent

(* A climb to the parent makes a chain of a chain. *)
LEMMA ClimbKeeps ==
    ASSUME TreeTypeOK, NEW pid \in DOMAIN read, NEW chain, ChainOf(chain, pid), NEW parent,
           parent = read[Top(chain, pid)].ppid, Climb(chain, pid, parent)
    PROVE  ChainOf(Append(chain, parent), pid)
<1> DEFINE old == ToSet(chain)
           longer == Append(chain, parent)
           top == Top(chain, pid)
<1>1. /\ chain \in Seq(DOMAIN read) /\ pid \notin old /\ old \subseteq DOMAIN read
      /\ IsFiniteSet(old) /\ Len(chain) = Cardinality(old)
      /\ top \in {pid} \cup old
      /\ \A q \in {pid} \cup old : q # top => read[q].ppid \in old \ {q}
      /\ \A pids \in SUBSET DOMAIN read : Closed(pids, pid) => old \subseteq pids
  BY DEF ChainOf
<1>2. parent \in DOMAIN read /\ parent # pid /\ parent \notin old /\ parent = read[top].ppid
  BY DEF Climb
<1>3. /\ ToSet(longer) = old \cup {parent} /\ Top(longer, pid) = parent
      /\ longer \in Seq(DOMAIN read) /\ Len(longer) = Len(chain) + 1
  BY <1>1, <1>2, ItemsOfAppend DEF Top
<1> HIDE DEF old, longer, top
<1>0. Path(longer, pid)
  BY <1>1, <1>2, PathGoesOn DEF longer, top, ChainOf
<1>4. IsFiniteSet(ToSet(longer)) /\ Len(longer) = Cardinality(ToSet(longer))
  BY <1>1, <1>2, <1>3, FS_AddElement
<1>5. ASSUME NEW q \in {pid} \cup ToSet(longer), q # parent
      PROVE  read[q].ppid \in ToSet(longer) \ {q}
  BY <1>1, <1>2, <1>3, <1>5
<1>6. ASSUME NEW pids \in SUBSET DOMAIN read, Closed(pids, pid)
      PROVE  ToSet(longer) \subseteq pids
  <2>1. old \subseteq pids
    BY <1>1, <1>6
  <2>2. top \in pids \cup {pid} /\ parent \in DOMAIN read \ {top}
    BY <1>1, <1>2, <2>1
  <2> QED
    BY <1>2, <1>3, <1>6, <2>1, <2>2 DEF Closed
<1> QED
  BY <1>0, <1>1, <1>2, <1>3, <1>4, <1>5, <1>6 DEF ChainOf, longer

\* One turn of the loop of Ancestors.
Turn(chain, pid) ==
    LET parent == read[Top(chain, pid)].ppid
    IN  IF Climb(chain, pid, parent) THEN Append(chain, parent) ELSE chain

(* Ancestors stops, with a chain, where it cannot go on. *)
LEMMA AncestorsAre ==
    ASSUME TreeTypeOK, NEW pid \in DOMAIN read
    PROVE  /\ ChainOf(Ancestors(pid), pid)
           /\ ~Climb(Ancestors(pid), pid, read[Top(Ancestors(pid), pid)].ppid)
<1> DEFINE M == Cardinality(AllPids)
           V == Seq(DOMAIN read)
           Add(v) == Turn(v, pid)
           first == << >>
           Body(f) == [n \in 0..M |-> IF n = 0 THEN first ELSE Add(f[n - 1])]
           next == [n \in 1..M |-> [v \in V |-> Add(v)]]
           up == CHOOSE f : f = Body(f)
<1>1. M \in Nat /\ M # 0 /\ first \in V /\ IsFiniteSet(AllPids) /\ DOMAIN read \subseteq AllPids
  BY FiniteScan DEF TreeTypeOK
<1>2. ASSUME NEW v \in V
      PROVE  Add(v) \in V
  <2> DEFINE parent == read[Top(v, pid)].ppid
  <2>1. CASE Climb(v, pid, parent)
    <3>1. parent \in DOMAIN read
      BY <2>1 DEF Climb
    <3> HIDE DEF parent
    <3>2. Append(v, parent) \in V
      BY <3>1
    <3> QED
      BY <2>1, <3>2 DEF Turn, parent
  <2>2. CASE ~Climb(v, pid, parent)
    BY <2>2 DEF Turn
  <2> QED
    BY <2>1, <2>2
<1>3. Ancestors(pid) = up[M]
  BY DEF Ancestors, Turn, Top
<1>4. ChainOf(first, pid)
  <2>1. ToSet(first) = {} /\ Len(first) = 0
    BY DEF ToSet
  <2> QED
    BY <2>1, FS_EmptySet DEF ChainOf, Top, Path
<1>5. \A v : ChainOf(v, pid) => ChainOf(Add(v), pid)
  BY ClimbKeeps DEF Turn
<1>6. ASSUME NEW v, ChainOf(v, pid)
      PROVE  Add(v) = v \/ Len(Add(v)) = Len(v) + 1
  BY <1>6, ItemsOfAppend DEF Turn, Climb, ChainOf
<1>7. ASSUME NEW v, ChainOf(v, pid), Climb(v, pid, read[Top(v, pid)].ppid)
      PROVE  Add(v) # v
  <2>1. v \in V /\ read[Top(v, pid)].ppid \in DOMAIN read /\ Len(v) \in Nat
    BY <1>7 DEF Climb, ChainOf
  <2>2. Len(Add(v)) = Len(v) + 1
    BY <1>7, <2>1, ItemsOfAppend DEF Turn
  <2> QED
    BY <2>1, <2>2
<1> HIDE DEF M, V, Add, first
<1>8. PICK f : Recursive(f, M, V, first, next)
  <2>1. Succession(next, M, V)
    BY <1>2 DEF Succession
  <2> HIDE DEF next
  <2> QED
    BY <1>1, <2>1, RecursiveFunction
<1>9. f = Body(f)
  <2>1. f \in [0..M -> V] /\ f[0] = first /\ \A n \in 1..M : f[n] = next[n][f[n - 1]]
    BY <1>8 DEF Recursive
  <2>2. \A n \in 1..M : n - 1 \in 0..M /\ f[n - 1] \in V
    BY <1>1, <2>1
  <2>3. \A n \in 1..M : f[n] = Add(f[n - 1])
    BY <2>1, <2>2
  <2> HIDE DEF next
  <2>4. \A n \in 0..M : f[n] = IF n = 0 THEN first ELSE Add(f[n - 1])
    BY <1>1, <2>1, <2>3
  <2> QED
    BY <2>1, <2>4
<1>10. up = Body(up)
  <2> HIDE DEF Body
  <2> QED
    BY <1>9
<1> HIDE DEF up
<1>11. up[0] = first /\ \A n \in 1..M : up[n] = Add(up[n - 1])
  <2> DEFINE g == Body(up)
  <2>1. g[0] = first /\ \A n \in 1..M : g[n] = Add(up[n - 1])
    BY <1>1
  <2>2. up = g
    BY <1>10
  <2> HIDE DEF g
  <2> QED
    BY <2>1, <2>2
<1>12. \A n \in 0..M : ChainOf(up[n], pid)
  <2> DEFINE T == {v \in V : ChainOf(v, pid)}
  <2>0. \A v : ChainOf(v, pid) => v \in V
    BY DEF ChainOf, V
  <2>1. up[0] \in T /\ \A n \in 1..M : up[n - 1] \in T => up[n] \in T
    BY <1>4, <1>5, <1>11, <2>0
  <2> HIDE DEF T
  <2>2. \A n \in 0..M : up[n] \in T
    BY <1>1, <2>1, RecursiveValues
  <2> QED
    BY <2>2 DEF T
<1>13. \A n \in 0..M : Add(up[n]) = up[n] \/ Len(up[n]) >= n
  <2> DEFINE T == {n \in 0..M : Add(up[n]) = up[n] \/ Len(up[n]) >= n}
  <2>1. 0 \in T
    BY <1>1, <1>4, <1>11 DEF ChainOf
  <2>2. ASSUME NEW n \in 1..M, n - 1 \in T
        PROVE  n \in T
    <3>1. n - 1 \in 0..M /\ n \in Nat
      BY <1>1
    <3>2. up[n] = Add(up[n - 1]) /\ ChainOf(up[n - 1], pid)
      BY <1>11, <1>12, <3>1
    <3>3. Len(up[n - 1]) \in Nat
      BY <3>2 DEF ChainOf
    <3>4. CASE Add(up[n - 1]) = up[n - 1]
      BY <3>2, <3>4
    <3>5. CASE Add(up[n - 1]) # up[n - 1] /\ Len(up[n - 1]) >= n - 1
      <4>1. Len(up[n]) = Len(up[n - 1]) + 1
        BY <1>6, <3>2, <3>5
      <4> QED
        BY <3>1, <3>3, <3>5, <4>1
    <3> QED
      BY <2>2, <3>4, <3>5
  <2> HIDE DEF T
  <2>3. \A n \in 0..M : n \in T
    BY <1>1, <2>1, <2>2, Induction
  <2> QED
    BY <2>3 DEF T
<1>14. M \in 0..M
  BY <1>1
<1>15. Len(up[M]) < M
  <2>1. ChainOf(up[M], pid)
    BY <1>12, <1>14
  <2>2. /\ ToSet(up[M]) \subseteq AllPids \ {pid} /\ Len(up[M]) = Cardinality(ToSet(up[M]))
        /\ pid \in AllPids
    BY <1>1, <2>1 DEF ChainOf
  <2>3. IsFiniteSet(AllPids \ {pid}) /\ Cardinality(AllPids \ {pid}) = M - 1
    BY <1>1, <2>2, FS_RemoveElement DEF M
  <2>4. Cardinality(ToSet(up[M])) <= M - 1 /\ Cardinality(ToSet(up[M])) \in Nat
    BY <2>2, <2>3, FS_Subset, FS_CardinalityType
  <2> QED
    BY <1>1, <2>2, <2>4
<1>16. Add(up[M]) = up[M]
  <2>1. Len(up[M]) \in Nat
    BY <1>12, <1>14 DEF ChainOf
  <2> QED
    BY <1>1, <1>13, <1>14, <1>15, <2>1
<1>17. ~Climb(up[M], pid, read[Top(up[M], pid)].ppid)
  BY <1>7, <1>12, <1>14, <1>16
<1> QED
  BY <1>3, <1>12, <1>14, <1>17

(* pruneTreeToUID keeps the least set that has every node it should keep. *)
LEMMA PrunedIsLeast ==
    ASSUME TreeTypeOK, Forest \subseteq DOMAIN read, NEW uid
    PROVE  /\ Pruned(uid) = {p \in Forest : Keep(p, uid, Pruned(uid))}
           /\ \A S : {p \in Forest : Keep(p, uid, S)} \subseteq S => Pruned(uid) \subseteq S
<1> DEFINE D == DOMAIN read
           N == Cardinality(D)
           V == SUBSET D
           Add(v) == {p \in Forest : Keep(p, uid, v)}
           none == {}
           Body(f) == [n \in 0..N |-> IF n = 0 THEN none ELSE Add(f[n - 1])]
           step == [v \in V |-> Add(v)]
           next == [n \in 1..N |-> step]
           kept == CHOOSE f : f = Body(f)
<1>1. N \in Nat /\ IsFiniteSet(D) /\ none \in V /\ V = SUBSET D
  BY FiniteScan
<1>2. \A v \in V : Add(v) \in V
  OBVIOUS
<1>3. Pruned(uid) = kept[N]
  BY DEF Pruned
<1>4. /\ \A v, w : v \subseteq w => Add(v) \subseteq Add(w)
      /\ \A v : none \subseteq v
  BY DEF Keep
<1> HIDE DEF D, N, V, Add, none
<1>5. PICK f : Recursive(f, N, V, none, next)
  <2>1. Succession(next, N, V)
    BY <1>2 DEF Succession
  <2> HIDE DEF next
  <2> QED
    BY <1>1, <2>1, RecursiveFunction
<1>6. f = Body(f)
  <2>1. f \in [0..N -> V] /\ f[0] = none /\ \A n \in 1..N : f[n] = next[n][f[n - 1]]
    BY <1>5 DEF Recursive
  <2>2. \A n \in 1..N : n - 1 \in 0..N /\ f[n - 1] \in V
    BY <1>1, <2>1
  <2>3. \A n \in 1..N : f[n] = Add(f[n - 1])
    BY <2>1, <2>2
  <2> HIDE DEF next
  <2>4. \A n \in 0..N : f[n] = IF n = 0 THEN none ELSE Add(f[n - 1])
    BY <1>1, <2>1, <2>3
  <2> QED
    BY <2>1, <2>4
<1>7. kept = Body(kept)
  <2> HIDE DEF Body
  <2> QED
    BY <1>6
<1> HIDE DEF kept
<1>8. kept \in [0..N -> {kept[n] : n \in 0..N}]
  <2> DEFINE g == Body(kept)
  <2>1. g = [n \in 0..N |-> g[n]]
    OBVIOUS
  <2>2. kept = g
    BY <1>7
  <2> HIDE DEF g
  <2>3. kept = [n \in 0..N |-> kept[n]]
    BY <2>1, <2>2
  <2> QED
    BY <2>3
<1>9. kept[0] = none /\ \A n \in 1..N : kept[n] = Add(kept[n - 1])
  <2> DEFINE g == Body(kept)
  <2>1. g[0] = none /\ \A n \in 1..N : g[n] = Add(kept[n - 1])
    BY <1>1
  <2>2. kept = g
    BY <1>7
  <2> HIDE DEF g
  <2> QED
    BY <2>1, <2>2
<1>10. \A n \in 0..N : kept[n] \in V
  <2>1. kept[0] \in V /\ \A n \in 1..N : kept[n - 1] \in V => kept[n] \in V
    BY <1>1, <1>2, <1>9
  <2> QED
    BY <1>1, <2>1, RecursiveValues
<1>11. kept \in [0..N -> V]
  BY <1>8, <1>10
<1>12. N \in 0..N
  BY <1>1
<1>13. kept[N] = step[kept[N]]
  <2>1. Monotonic(step, D)
    BY <1>1, <1>2, <1>4 DEF Monotonic
  <2>2. Repeated(kept, D, step)
    <3>1. 0 \in 0..N /\ \A n \in 1..N : n - 1 \in 0..N
      BY <1>1
    <3>2. \A n \in 0..N : step[kept[n]] = Add(kept[n])
      BY <1>10
    <3> HIDE DEF step
    <3> QED
      BY <1>1, <1>4, <1>9, <1>11, <3>1, <3>2 DEF Repeated, N
  <2> HIDE DEF step
  <2> QED
    BY <1>1, <2>1, <2>2, FixedPoint DEF N
<1>14. kept[N] = Add(kept[N])
  BY <1>10, <1>12, <1>13
<1>15. ASSUME NEW S, Add(S) \subseteq S
       PROVE  kept[N] \subseteq S
  <2> DEFINE T == SUBSET S
  <2>1. kept[0] \in T /\ \A n \in 1..N : kept[n - 1] \in T => kept[n] \in T
    BY <1>4, <1>9, <1>15
  <2> HIDE DEF T
  <2>2. \A n \in 0..N : kept[n] \in T
    BY <1>1, <2>1, RecursiveValues
  <2> QED
    BY <1>12, <2>2 DEF T
<1> QED
  BY <1>3, <1>14, <1>15 DEF Add

(* The forest has the roots, the children and the parents of its processes. *)
LEMMA ForestIs ==
    ASSUME TreeTypeOK
    PROVE  /\ Roots \subseteq Forest /\ Forest \subseteq DOMAIN read /\ Downward(Forest)
           /\ \A S : Roots \subseteq S /\ Downward(S) => Forest \subseteq S
           /\ \A p \in Forest : read[p].ppid \in DOMAIN read \ {p} => read[p].ppid \in Forest
<1>1. /\ Roots \subseteq Forest /\ Forest \subseteq DOMAIN read /\ Downward(Forest)
      /\ \A S : Roots \subseteq S /\ Downward(S) => Forest \subseteq S
  <2>1. Roots \in SUBSET DOMAIN read
    BY DEF Roots
  <2> QED
    BY <2>1, BeneathIsLeast DEF Forest
<1>2. ASSUME NEW p \in Forest, read[p].ppid \in DOMAIN read \ {p}, read[p].ppid \notin Forest
      PROVE  FALSE
  <2>1. p \notin Roots
    BY <1>2, FiniteScan DEF Roots
  <2>2. Downward(Forest \ {p})
    BY <1>1, <1>2 DEF Downward, Children
  <2> QED
    BY <1>1, <2>1, <2>2
<1> QED
  BY <1>1, <1>2

(* A process in the forest is in no set that closes on itself. *)
LEMMA NoLoopInForest ==
    ASSUME TreeTypeOK, NEW S, S \subseteq DOMAIN read,
           \A p \in S : read[p].ppid \in S \ {p}
    PROVE  \A p \in Forest : p \notin S
<1>1. Roots \subseteq DOMAIN read \ S
  BY FiniteScan DEF Roots
<1>2. Downward(DOMAIN read \ S)
  BY DEF Downward, Children
<1> QED
  BY <1>1, <1>2, ForestIs

(* The chain of a process in the forest goes on until a parent that was not read. *)
LEMMA ChainClosed ==
    ASSUME TreeIInv, NEW p \in Forest
    PROVE  Closed(ToSet(Ancestors(p)), p)
<1> DEFINE chain == Ancestors(p)
           all == {p} \cup ToSet(chain)
           top == Top(chain, p)
<1>1. TreeTypeOK /\ p \in DOMAIN read
  BY ForestIs DEF TreeIInv
<1>2. ChainOf(chain, p) /\ ~Climb(chain, p, read[top].ppid)
  BY <1>1, AncestorsAre
<1>3. /\ ToSet(chain) \subseteq DOMAIN read /\ top \in all
      /\ \A q \in all : q # top => read[q].ppid \in ToSet(chain) \ {q}
  BY <1>2 DEF ChainOf
<1>4. InitPid \in DOMAIN read => read[InitPid].ppid \notin DOMAIN read
  BY <1>1, FiniteScan DEF TreeIInv, AgedRecords
<1>5. chain # << >> /\ Last(chain) = InitPid => top = InitPid
  BY DEF Top
<1>6. read[top].ppid \in DOMAIN read \ {top} => read[top].ppid \in all
  BY <1>1, <1>2, <1>3, <1>4, <1>5 DEF Climb
<1> HIDE DEF chain, top
<1>7. ASSUME read[top].ppid = p, p # top
      PROVE  FALSE
  <2>1. all \subseteq DOMAIN read /\ \A q \in all : read[q].ppid \in all \ {q}
    BY <1>1, <1>3, <1>7
  <2> HIDE DEF all
  <2>2. p \notin all
    BY <1>1, <2>1, NoLoopInForest
  <2> QED
    BY <2>2 DEF all
<1>8. ASSUME NEW q \in all, read[q].ppid \in DOMAIN read \ {q}
      PROVE  read[q].ppid \in ToSet(chain)
  BY <1>3, <1>6, <1>7, <1>8
<1> QED
  BY <1>8 DEF Closed, chain

(* Of the processes that were read, none is left out of the forest. *)
LEMMA IInvTreeComplete == TreeIInv => TreeComplete
<1> SUFFICES ASSUME TreeIInv, NoReuse, NEW p \in DOMAIN read, p \notin Forest
             PROVE  FALSE
  BY ForestIs DEF TreeIInv, TreeComplete
<1>1. TreeTypeOK
  BY DEF TreeIInv
<1> DEFINE S == DOMAIN read \ Forest
<1>2. PICK q \in S : q \in Roots \/ read[q].ppid \notin S
  BY OldestIsTop DEF NoCycle
<1>3. q \in Children(read[q].ppid) /\ read[q].ppid \in Forest
  BY <1>1, <1>2, ForestIs DEF Roots, Children
<1> QED
  BY <1>1, <1>2, <1>3, ForestIs DEF Downward

LEMMA IInvChainEnds == TreeIInv => ChainEnds
<1> SUFFICES ASSUME TreeIInv, NEW p \in DOMAIN read
             PROVE  Len(Ancestors(p)) = Cardinality(ToSet(Ancestors(p)) \ {p})
  BY DEF ChainEnds
<1> DEFINE items == ToSet(Ancestors(p))
<1>1. p \notin items /\ Len(Ancestors(p)) = Cardinality(items)
  BY AncestorsAre DEF TreeIInv, ChainOf
<1>2. items \ {p} = items
  BY <1>1
<1> QED
  BY <1>1, <1>2

LEMMA IInvChainIsPath == TreeIInv => ChainIsPath
<1> SUFFICES ASSUME TreeIInv, NEW p \in Forest
             PROVE  /\ Path(Ancestors(p), p)
                    /\ Closed(ToSet(Ancestors(p)), p)
                    /\ Len(Ancestors(p)) = Cardinality(ToSet(Ancestors(p)))
  BY DEF ChainIsPath, Path
<1>1. TreeTypeOK /\ p \in DOMAIN read
  BY ForestIs DEF TreeIInv
<1> QED
  BY <1>1, AncestorsAre, ChainClosed DEF ChainOf

(* Where all that was read is in the forest, the recursion that SubtreeAt begins
   under a node does not come back to it: it meets only those that climb to it. *)
LEMMA SortEndsInForest == TreeIInv /\ Forest = DOMAIN read => SortEnds
<1> SUFFICES ASSUME TreeIInv, Forest = DOMAIN read, NEW p \in DOMAIN read
             PROVE  p \notin Beneath(Children(p))
  BY DEF SortEnds
<1> DEFINE above(q) == ToSet(Ancestors(q))
           T == {q \in Forest : p \in above(q)}
<1>1. TreeTypeOK /\ Children(p) \subseteq DOMAIN read
  BY DEF TreeIInv, Children
<1>2. /\ p \notin above(p)
      /\ \A q \in DOMAIN read : \A pids \in SUBSET DOMAIN read :
           Closed(pids, q) => above(q) \subseteq pids
      /\ \A q \in DOMAIN read : above(q) \subseteq DOMAIN read
  BY <1>1, AncestorsAre DEF ChainOf
<1>3. \A q \in Forest : Closed(above(q), q)
  BY ChainClosed
<1> HIDE DEF above
<1>4. ASSUME NEW q \in DOMAIN read, NEW c \in Children(q)
      PROVE  c \in Forest /\ q \in above(c) /\ above(q) \subseteq above(c)
  <2>1. c \in DOMAIN read \ {q} /\ read[c].ppid = q
    BY <1>4 DEF Children
  <2>2. q \in above(c)
    BY <1>3, <2>1 DEF Closed
  <2>3. Closed(above(c), q)
    BY <1>3, <2>1, <2>2 DEF Closed
  <2> QED BY <1>2, <2>1, <2>2, <2>3
<1>5. Children(p) \subseteq T /\ Downward(T)
  BY <1>4 DEF Downward
<1> HIDE DEF T
<1>6. Beneath(Children(p)) \subseteq T
  BY <1>1, <1>5, BeneathIsLeast
<1> QED BY <1>2, <1>6 DEF T

(* Down from p come those that climb to p. *)
LEMMA IInvSubtreeIsBeneath == TreeIInv => SubtreeIsBeneath
<1> SUFFICES ASSUME TreeIInv, Forest = DOMAIN read, NEW p \in DOMAIN read
             PROVE  SubtreeAt(p) = [ends |-> TRUE,
                       nodes |-> {p} \cup {q \in DOMAIN read : p \in ToSet(Ancestors(q))}]
  BY DEF SubtreeIsBeneath
<1>0. SortEnds
  BY SortEndsInForest
<1> DEFINE sub == Beneath({p})
           above(q) == ToSet(Ancestors(q))
<1>1. TreeTypeOK /\ p \in DOMAIN read /\ Forest \subseteq DOMAIN read /\ Downward(Forest)
  BY ForestIs DEF TreeIInv
<1>2. /\ p \in sub /\ sub \subseteq DOMAIN read /\ Downward(sub)
      /\ \A S : p \in S /\ Downward(S) => sub \subseteq S
  BY <1>1, BeneathIsLeast
<1>3. \A q \in DOMAIN read :
        /\ above(q) \subseteq DOMAIN read
        /\ \A pids \in SUBSET DOMAIN read : Closed(pids, q) => above(q) \subseteq pids
  BY <1>1, AncestorsAre DEF ChainOf
<1>4. \A q \in Forest : Closed(above(q), q)
  BY ChainClosed
<1> HIDE DEF sub, above
<1>5. sub \subseteq {q \in Forest : q = p \/ p \in above(q)}
  <2> DEFINE T == {q \in Forest : q = p \/ p \in above(q)}
  <2>1. ASSUME NEW q \in T, NEW c \in Children(q)
        PROVE  c \in T
    <3>1. c \in Forest /\ read[c].ppid = q /\ q \in DOMAIN read \ {c} /\ c \in DOMAIN read
      BY <1>1, <2>1 DEF Downward, Children
    <3>2. q \in above(c)
      BY <1>4, <3>1 DEF Closed
    <3>3. Closed(above(c), q)
      BY <1>4, <3>1, <3>2 DEF Closed
    <3>4. above(q) \subseteq above(c)
      BY <1>3, <3>1, <3>3
    <3> QED
      BY <2>1, <3>1, <3>2, <3>4
  <2>2. Downward(T)
    BY <2>1 DEF Downward
  <2> HIDE DEF T
  <2>3. p \in T
    BY DEF T
  <2> QED
    BY <1>2, <2>2, <2>3 DEF T
<1>6. ASSUME NEW q \in DOMAIN read, p \in above(q), q \notin sub
      PROVE  FALSE
  <2> DEFINE rest == DOMAIN read \ sub
  <2>1. Closed(rest, q)
    BY <1>2, <1>6 DEF Closed, Downward, Children
  <2>2. above(q) \subseteq rest
    BY <1>3, <2>1
  <2> QED
    BY <1>2, <1>6, <2>2
<1>7. sub = {p} \cup {q \in DOMAIN read : p \in above(q)}
  BY <1>1, <1>2, <1>5, <1>6
<1> QED
  BY <1>0, <1>7 DEF SubtreeAt, sub, above

(* What a user's process keeps in the tree is its chain. *)
LEMMA IInvPruneKeepsAncestry == TreeIInv => PruneKeepsAncestry
<1> SUFFICES ASSUME TreeIInv, NEW u \in Uids
             PROVE  Pruned(u) = UNION {{p} \cup ToSet(Ancestors(p)) :
                                           p \in {q \in Forest : read[q].uid = u}}
  BY DEF PruneKeepsAncestry
<1> DEFINE P == Pruned(u)
           above(q) == ToSet(Ancestors(q))
           mine == {q \in Forest : read[q].uid = u}
           shown == UNION {{p} \cup above(p) : p \in mine}
<1>1. /\ TreeTypeOK /\ Forest \subseteq DOMAIN read
      /\ \A p \in Forest : read[p].ppid \in DOMAIN read \ {p} => read[p].ppid \in Forest
  BY ForestIs DEF TreeIInv
<1>2. /\ \A p : p \in P <=> p \in Forest /\ Keep(p, u, P)
      /\ \A S : (\A p \in Forest : Keep(p, u, S) => p \in S) => P \subseteq S
  <2>1. /\ P = {p \in Forest : Keep(p, u, P)}
        /\ \A S : {p \in Forest : Keep(p, u, S)} \subseteq S => P \subseteq S
    BY <1>1, PrunedIsLeast
  <2> HIDE DEF P
  <2> QED
    BY <2>1
<1>3. \A q \in DOMAIN read :
        \A pids \in SUBSET DOMAIN read : Closed(pids, q) => above(q) \subseteq pids
  BY <1>1, AncestorsAre DEF ChainOf
<1>4. \A q \in Forest : Closed(above(q), q)
  BY ChainClosed
<1> HIDE DEF P, above
<1>5. ASSUME NEW p \in Forest, Keep(p, u, shown)
      PROVE  p \in shown
  <2>1. CASE read[p].uid = u
    BY <2>1
  <2>2. CASE \E c \in Children(p) : c \in shown
    <3>1. PICK c \in Children(p), q \in mine : c \in {q} \cup above(q)
      BY <2>2
    <3>2. read[c].ppid = p /\ p \in DOMAIN read \ {c} /\ q \in Forest
      BY <1>1, <3>1 DEF Children
    <3>3. p \in above(q)
      BY <1>4, <3>1, <3>2 DEF Closed
    <3> QED
      BY <3>1, <3>3
  <2> QED
    BY <1>5, <2>1, <2>2 DEF Keep
<1>6. P \subseteq shown
  <2> HIDE DEF shown
  <2> QED
    BY <1>2, <1>5
<1>7. ASSUME NEW p \in mine
      PROVE  p \in P /\ above(p) \subseteq P
  <2>1. p \in P
    BY <1>2, <1>7 DEF Keep
  <2>2. ASSUME NEW q \in P, read[q].ppid \in DOMAIN read \ {q}
        PROVE  read[q].ppid \in P
    <3>1. q \in Forest /\ q \in Children(read[q].ppid) /\ read[q].ppid \in Forest
      BY <1>1, <1>2, <2>2 DEF Children
    <3> QED
      BY <1>2, <2>2, <3>1 DEF Keep
  <2>3. Closed(P, p)
    BY <2>1, <2>2 DEF Closed
  <2>4. P \in SUBSET DOMAIN read /\ p \in DOMAIN read
    BY <1>1, <1>2, <2>1
  <2> QED
    BY <1>3, <2>1, <2>3, <2>4
<1>8. P = shown
  BY <1>6, <1>7
<1> QED
  BY <1>8 DEF P, above

-----------------------------------------------------------------------------
(* Without PID reuse, `tree` shows every process that was read. *)
THEOREM TreeCompleteAlways == TreeSpec => []TreeComplete
  BY InitTreeIInv, NextTreeIInv, IInvTreeComplete, PTL DEF TreeSpec

(* Ancestors ends whatever the records say, and lists no PID twice. *)
THEOREM ChainEndsAlways == TreeSpec => []ChainEnds
  BY InitTreeIInv, NextTreeIInv, IInvChainEnds, PTL DEF TreeSpec

(* The ancestry chain that inspect prints is the path that tree draws. *)
THEOREM ChainIsPathAlways == TreeSpec => []ChainIsPath
  BY InitTreeIInv, NextTreeIInv, IInvChainIsPath, PTL DEF TreeSpec

(* Where tree shows all that was read, and without PID reuse it does, SubtreeAt
   returns for every process, with those that Ancestors leads to it. *)
THEOREM SubtreeIsBeneathAlways == TreeSpec => []SubtreeIsBeneath
  BY InitTreeIInv, NextTreeIInv, IInvSubtreeIsBeneath, PTL DEF TreeSpec

(* pruneTreeToUID keeps the owner's processes and their ancestors only. *)
THEOREM PruneKeepsAncestryAlways == TreeSpec => []PruneKeepsAncestry
  BY InitTreeIInv, NextTreeIInv, IInvPruneKeepsAncestry, PTL DEF TreeSpec
=============================================================================
