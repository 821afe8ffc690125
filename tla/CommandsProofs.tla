---------------------------- MODULE CommandsProofs ----------------------------
(***************************************************************************)
(* Proofs about Commands: what `ns` concludes from links that it read one  *)
(* by one, and `maps` from two files that it read line by line, for every  *)
(* kernel, address space and number of steps; and that a run of any of the *)
(* commands is a run of each module, so that what is proved of Baseline    *)
(* holds there too.                                                        *)
(***************************************************************************)
EXTENDS Commands, BaselineProofs, Recursion

-----------------------------------------------------------------------------
(* `ns`. *)

\* The types of side s whose links ReadNamespaces has been through.
Passed(s) ==
    IF at = s THEN Supported \ links
    ELSE IF (at = "compare" /\ (s = "a" \/ pair)) \/ (at = "b" /\ s = "a") THEN Supported
    ELSE {}

\* Before the command starts nothing was read.
Untouched == at = "start" => got = [s \in Sides |-> Nothing]

\* What was read was there at the time, and what is there now is in the history.
InHeld ==
    /\ \A s \in Sides : \A t \in DOMAIN got[s] : <<t, got[s][t]>> \in held[s]
    /\ at # "start" => \A s \in Sides : HasNow(s) \subseteq held[s]

\* A side that never failed to resolve resolves now, and what is kept is as it was read.
StillOpen == at # "start" => \A s \in Sides : s \notin unseen => tasks[s].open
KeptIsRead == \A s \in Sides : \A t \in kept[s] \cap DOMAIN got[s] : got[s][t] = tasks[s].ns[t]

\* A link that was passed and not resolved did not resolve at that moment.
MissedWasUnseen ==
    \A s \in Sides : \A t \in Passed(s) \ DOMAIN got[s] : s \in unseen /\ t \notin kept[s]

\* The command ends for lack of a process only after a whole round without a link.
GoneWasUnseen == at = "gone" => unseen # {}

NsInv ==
    /\ NsTypeOK
    /\ Untouched /\ InHeld /\ StillOpen /\ KeptIsRead /\ MissedWasUnseen /\ GoneWasUnseen
    /\ at = "start" => kept = [s \in Sides |-> {}]
    /\ \A s \in Sides : \A t \in kept[s] : tasks[s].open

-----------------------------------------------------------------------------
LEMMA NsInitial == NsInit => NsInv
<1> SUFFICES ASSUME NsInit PROVE NsInv
  OBVIOUS
<1> USE NsAssumption DEF NsInit
<1>1. DOMAIN got = Sides /\ \A s \in Sides : got[s] = Nothing /\ DOMAIN got[s] = {}
  BY DEF Nothing
<1>2. NsTypeOK
  <2>1. \A s \in Sides : got[s] \in [DOMAIN got[s] -> Ids]
    BY <1>1 DEF Nothing
  <2>2. held \in [Sides -> SUBSET (Supported \X Ids)] /\ kept \in [Sides -> SUBSET Supported]
    OBVIOUS
  <2> QED
    BY <1>1, <2>1, <2>2 DEF NsTypeOK
<1>3. \A s \in Sides : Passed(s) = {}
  BY DEF Passed, Sides
<1> QED
  BY <1>1, <1>2, <1>3
     DEF NsInv, Untouched, InHeld, StillOpen, KeptIsRead, MissedWasUnseen, GoneWasUnseen

\* What the processes do keeps the invariant.
LEMMA NsMachineKeeps ==
    ASSUME NsInv, NEW s \in Sides, NEW task \in Task, TaskBecomes(s, task)
    PROVE  NsInv'
<1> USE NsAssumption DEF NsInv, TaskBecomes
<1>1. NsTypeOK'
  <2>1. {<<t, task.ns[t]>> : t \in Supported} \in SUBSET (Supported \X Ids)
    BY DEF Task
  <2>2. held' \in [Sides -> SUBSET (Supported \X Ids)]
    BY <2>1 DEF NsTypeOK
  <2>3. kept' \in [Sides -> SUBSET Supported] /\ tasks' \in [Sides -> Task]
    BY DEF NsTypeOK
  <2>4. shifts' \in Nat /\ unseen' \subseteq Sides
    BY DEF NsTypeOK, Shift
  <2> QED
    BY <2>2, <2>3, <2>4 DEF NsTypeOK
<1>2. Untouched' /\ GoneWasUnseen'
  BY DEF Untouched, GoneWasUnseen
<1>3. InHeld'
  <2>1. \A q \in Sides : held[q] \subseteq held'[q]
    BY DEF NsTypeOK
  <2>2. \A q \in Sides : q # s => HasNow(q)' = HasNow(q)
    BY DEF HasNow, NsTypeOK
  <2>3. HasNow(s)' \subseteq held'[s]
    BY DEF HasNow, NsTypeOK, Task
  <2> QED
    BY <2>1, <2>2, <2>3 DEF InHeld
<1>4. StillOpen'
  BY DEF StillOpen, NsTypeOK
<1>5. KeptIsRead'
  BY DEF KeptIsRead, NsTypeOK
<1>6. MissedWasUnseen'
  <2>1. \A q \in Sides : kept'[q] \subseteq kept[q]
    BY DEF NsTypeOK
  <2>2. unseen \subseteq unseen'
    OBVIOUS
  <2>3. \A q \in Sides : Passed(q)' = Passed(q)
    BY DEF Passed
  <2> QED
    BY <2>1, <2>2, <2>3 DEF MissedWasUnseen
<1>7. (at = "start" => kept = [q \in Sides |-> {}])'
  <2> SUFFICES ASSUME at' = "start" PROVE kept' = [q \in Sides |-> {}]
    OBVIOUS
  <2>1. kept = [q \in Sides |-> {}]
    OBVIOUS
  <2> QED
    BY <2>1
<1>8. (\A q \in Sides : \A t \in kept[q] : tasks[q].open)'
  BY DEF NsTypeOK
<1> QED
  BY <1>1, <1>2, <1>3, <1>4, <1>5, <1>6, <1>7, <1>8

LEMMA BeginNsKeeps ==
    ASSUME NsInv, NEW two \in BOOLEAN, BeginNs(two)
    PROVE  NsInv'
<1> USE NsAssumption DEF NsInv, BeginNs
<1>1. NsTypeOK'
  <2>1. \A s \in Sides : HasNow(s) \in SUBSET (Supported \X Ids)
    BY DEF NsTypeOK, HasNow, Task
  <2>2. held' \in [Sides -> SUBSET (Supported \X Ids)]
    BY <2>1
  <2>3. kept' \in [Sides -> SUBSET Supported] /\ at' \in Sides
    BY DEF Sides
  <2> QED
    BY <2>2, <2>3 DEF NsTypeOK
<1>2. \A s \in Sides : DOMAIN got[s] = {}
  BY DEF Untouched, Nothing
<1>3. Untouched' /\ InHeld' /\ StillOpen' /\ KeptIsRead' /\ GoneWasUnseen'
  BY <1>2 DEF Untouched, InHeld, StillOpen, KeptIsRead, GoneWasUnseen, HasNow
<1>4. \A s \in Sides : Passed(s)' = {}
  BY DEF Passed, Sides
<1>5. MissedWasUnseen'
  BY <1>4 DEF MissedWasUnseen
<1> QED
  BY <1>1, <1>3, <1>5

LEMMA ReadNsLinkKeeps ==
    ASSUME NsInv, NEW t \in NsTypes, ReadNsLink(t)
    PROVE  NsInv'
<1> USE NsAssumption DEF NsInv, ReadNsLink
<1>1. /\ at \in Sides /\ at # "start" /\ at # "gone" /\ t \in Supported
      /\ tasks[at].ns[t] \in Ids /\ <<t, tasks[at].ns[t]>> \in held[at]
  BY DEF Sides, NsTypeOK, Task, InHeld, HasNow
<1>2. /\ DOMAIN got'[at] = DOMAIN got[at] \cup {t} /\ got'[at][t] = tasks[at].ns[t]
      /\ \A u \in DOMAIN got[at] : u # t => got'[at][u] = got[at][u]
      /\ \A s \in Sides : s # at => got'[s] = got[s]
      /\ DOMAIN got' = DOMAIN got
  BY <1>1 DEF NsTypeOK
<1>3. NsTypeOK'
  BY <1>1, <1>2 DEF NsTypeOK
<1>4. Untouched' /\ StillOpen' /\ GoneWasUnseen'
  BY <1>1 DEF Untouched, StillOpen, GoneWasUnseen
<1>5. InHeld'
  <2>1. \A s \in Sides : HasNow(s)' = HasNow(s)
    BY DEF HasNow
  <2> QED
    BY <1>1, <1>2, <2>1 DEF InHeld
<1>6. KeptIsRead'
  BY <1>1, <1>2 DEF KeptIsRead
<1>7. MissedWasUnseen'
  <2>1. \A s \in Sides : Passed(s)' \ DOMAIN got'[s] \subseteq Passed(s) \ DOMAIN got[s]
    BY <1>1, <1>2 DEF Passed
  <2> QED
    BY <2>1 DEF MissedWasUnseen
<1> QED
  BY <1>1, <1>3, <1>4, <1>5, <1>6, <1>7

LEMMA NsLinkFailsKeeps ==
    ASSUME NsInv, NEW t \in NsTypes, NsLinkFails(t)
    PROVE  NsInv'
<1> USE NsAssumption DEF NsInv, NsLinkFails
<1>1. at \in Sides /\ at # "start" /\ at # "gone"
  BY DEF Sides
<1>2. /\ unseen \subseteq unseen' /\ unseen' \subseteq unseen \cup {at}
      /\ kept' \in [Sides -> SUBSET Supported]
      /\ \A s \in Sides : kept'[s] \subseteq kept[s]
  BY <1>1 DEF NsTypeOK
<1>3. NsTypeOK'
  BY <1>1, <1>2 DEF NsTypeOK, Shift
<1>4. InHeld'
  <2>1. \A s \in Sides : HasNow(s)' = HasNow(s)
    BY DEF HasNow
  <2> QED
    BY <2>1 DEF InHeld
<1>5. Untouched' /\ StillOpen' /\ KeptIsRead' /\ GoneWasUnseen'
  BY <1>1, <1>2 DEF Untouched, StillOpen, KeptIsRead, GoneWasUnseen
<1>6. MissedWasUnseen'
  <2>1. \A s \in Sides : Passed(s)' \subseteq Passed(s) \cup (IF s = at THEN {t} \cap Supported ELSE {})
    BY DEF Passed
  <2>2. t \in Supported => at \in unseen' /\ t \notin kept'[at]
    <3>1. CASE t \in Supported /\ tasks[at].open
      BY <1>1, <3>1 DEF NsTypeOK
    <3>2. CASE t \in Supported /\ ~tasks[at].open
      BY <1>1, <3>2 DEF StillOpen
    <3> QED
      BY <3>1, <3>2
  <2> QED
    BY <1>1, <1>2, <2>1, <2>2 DEF MissedWasUnseen
<1> QED
  BY <1>1, <1>2, <1>3, <1>4, <1>5, <1>6

LEMMA EndNamespacesKeeps ==
    ASSUME NsInv, EndNamespaces
    PROVE  NsInv'
<1> USE NsAssumption DEF NsInv, EndNamespaces
<1>1. /\ at \in Sides /\ at # "start" /\ at' # "start"
      /\ at' \in {"b", "compare", "gone"} /\ links' \subseteq NsTypes
      /\ at' = "b" => at = "a" /\ links' = NsTypes
      /\ at' = "compare" => at = "b" \/ ~pair
  BY DEF Sides, NsTypeOK
<1>2. NsTypeOK'
  BY <1>1 DEF NsTypeOK, Sides
<1>3. InHeld'
  <2>1. \A s \in Sides : HasNow(s)' = HasNow(s)
    BY DEF HasNow
  <2> QED
    BY <1>1, <2>1 DEF InHeld
<1>4. Untouched' /\ StillOpen' /\ KeptIsRead'
  BY <1>1 DEF Untouched, StillOpen, KeptIsRead
<1>5. MissedWasUnseen'
  <2>1. \A s \in Sides : Passed(s)' \subseteq Passed(s)
    BY <1>1 DEF Passed, Sides
  <2> QED
    BY <2>1 DEF MissedWasUnseen
<1>6. GoneWasUnseen'
  <2> SUFFICES ASSUME at' = "gone" PROVE unseen # {}
    BY DEF GoneWasUnseen
  <2>1. DOMAIN got[at] = {}
    BY <1>1 DEF Found
  <2>2. Passed(at) = Supported
    BY DEF Passed
  <2> QED
    BY <1>1, <2>1, <2>2 DEF MissedWasUnseen
<1> QED
  BY <1>1, <1>2, <1>3, <1>4, <1>5, <1>6

LEMMA NsStep == NsInv /\ [NsNext]_nsVars => NsInv'
<1> SUFFICES ASSUME NsInv, [NsNext]_nsVars PROVE NsInv'
  OBVIOUS
<1>1. CASE NsMachine
  BY <1>1, NsMachineKeeps DEF NsMachine
<1>2. CASE \E two \in BOOLEAN : BeginNs(two)
  BY <1>2, BeginNsKeeps
<1>3. CASE \E t \in NsTypes : ReadNsLink(t)
  BY <1>3, ReadNsLinkKeeps
<1>4. CASE \E t \in NsTypes : NsLinkFails(t)
  BY <1>4, NsLinkFailsKeeps
<1>5. CASE EndNamespaces
  BY <1>5, EndNamespacesKeeps
<1>6. CASE UNCHANGED nsVars
  BY <1>6 DEF nsVars, NsInv, NsTypeOK, Untouched, InHeld, StillOpen, KeptIsRead,
              MissedWasUnseen, GoneWasUnseen, Passed, HasNow
<1> QED
  BY <1>1, <1>2, <1>3, <1>4, <1>5, <1>6 DEF NsNext

-----------------------------------------------------------------------------
\* The state of `ns` has its type in every behaviour.
THEOREM NsTypeCorrect == NsSpec => []NsTypeOK
<1>1. NsInv => NsTypeOK
  BY DEF NsInv
<1> QED
  BY <1>1, NsInitial, NsStep, PTL DEF NsSpec

(* A type shown for one PID alone, and a PID said to run no more, had a link that
   did not resolve; and a namespace called shared was one of both PIDs. *)
THEOREM AbsenceHasCause == NsSpec => []AbsentWasUnseen
<1>1. NsInv => AbsentWasUnseen
  <2> SUFFICES ASSUME NsInv PROVE AbsentWasUnseen
    OBVIOUS
  <2>1. ASSUME Printed PROVE Passed("a") = Supported /\ Passed("b") = Supported
    BY <2>1 DEF Printed, Passed, Sides, NsInv, NsTypeOK
  <2>2. Printed /\ OnlyA # {} => "b" \in unseen
    BY <2>1 DEF OnlyA, NsInv, NsTypeOK, MissedWasUnseen, Sides
  <2>3. Printed /\ OnlyB # {} => "a" \in unseen
    BY <2>1 DEF OnlyB, NsInv, NsTypeOK, MissedWasUnseen, Sides
  <2>4. at = "gone" => unseen # {}
    BY DEF NsInv, GoneWasUnseen
  <2>5. ASSUME NEW t \in Shared
        PROVE  \E i \in Ids : <<t, i>> \in held["a"] \cap held["b"]
    <3>1. /\ got["a"][t] \in Ids /\ got["a"][t] = got["b"][t]
          /\ <<t, got["a"][t]>> \in held["a"] /\ <<t, got["b"][t]>> \in held["b"]
      BY <2>5 DEF Shared, NsInv, NsTypeOK, InHeld, Sides
    <3> QED
      BY <3>1
  <2> QED
    BY <2>2, <2>3, <2>4, <2>5 DEF AbsentWasUnseen
<1> QED
  BY <1>1, NsInitial, NsStep, PTL DEF NsSpec

(* A type that both PIDs could show and kept from start to end is put on the
   right side of the comparison. *)
THEOREM SteadyTypesCompared == NsSpec => []SteadyCompared
<1>1. NsInv => SteadyCompared
  <2> SUFFICES ASSUME NsInv, Printed, NEW t \in kept["a"] \cap kept["b"]
               PROVE  IF tasks["a"].ns[t] = tasks["b"].ns[t]
                      THEN t \in Shared \ Differ ELSE t \in Differ \ Shared
    BY DEF SteadyCompared
  <2>1. t \in Supported /\ Passed("a") = Supported /\ Passed("b") = Supported
    BY DEF NsInv, NsTypeOK, Printed, Passed, Sides
  <2>2. t \in DOMAIN got["a"] /\ t \in DOMAIN got["b"]
    BY <2>1 DEF NsInv, MissedWasUnseen, Sides
  <2>3. got["a"][t] = tasks["a"].ns[t] /\ got["b"][t] = tasks["b"].ns[t]
    BY <2>2 DEF NsInv, KeptIsRead, Sides
  <2> QED
    BY <2>2, <2>3 DEF Shared, Differ
<1> QED
  BY <1>1, NsInitial, NsStep, PTL DEF NsSpec

-----------------------------------------------------------------------------
(* `maps`. *)

\* Nothing was done before the command starts.
AtRest ==
    where = "start" => /\ life = "runs" /\ ~orphan
                       /\ lines = << >> /\ addr = 0 /\ settled = {}
NoSumsYet == where \in {"start", "maps"} => sums = NoSums

\* With the memory that a file was opened for, everything that was settled is lost.
LostAll == orphan \/ life # "runs" => settled = {} /\ ~calm

\* ReadMaps goes up, so no address comes twice.
LinesRise ==
    /\ \A i, j \in DOMAIN lines : i < j => lines[i].slot < lines[j].slot
    /\ where = "maps" => \A i \in DOMAIN lines : lines[i].slot < addr

\* What has stayed as it is was read as it is, if the reader has come by.
SettledRead ==
    where # "start" => \A s \in settled :
        (where = "maps" => s < addr) => \E i \in DOMAIN lines : lines[i] = [slot |-> s, map |-> mem[s]]

\* On a process that does nothing, all that was read is still there.
CalmLines ==
    where # "start" /\ calm =>
        /\ settled = DOMAIN mem
        /\ \A i \in DOMAIN lines : lines[i].slot \in settled

SettledRwx == {s \in settled : s < addr /\ Rwx(mem[s])}
LinesPassed == {i \in RwxLines : lines[i].slot < addr}

\* The total has what was passed in smaps.
SumsFollow ==
    where = "smaps" => /\ RssOf(SettledRwx) <= sums.rwx
                       /\ calm => sums.rwx = RssOfLines(LinesPassed)

MapsInv ==
    /\ MapsTypeOK /\ AtRest /\ NoSumsYet /\ LostAll /\ LinesRise /\ SettledRead /\ CalmLines
    /\ SumsFollow /\ SettledCounted

(* What the types say of single mappings and lines. *)
LEMMA MapsTyped ==
    ASSUME MapsTypeOK
    PROVE  /\ DOMAIN lines \subseteq Nat /\ settled \subseteq DOMAIN mem
           /\ \A s \in DOMAIN mem : s \in Slots /\ s \in Nat /\ mem[s] \in Mappings /\ mem[s] \in Mapping
           /\ \A i \in DOMAIN lines :
                 lines[i] \in Line /\ lines[i].slot \in Nat /\ lines[i].map \in Mapping
<1>1. \A i \in DOMAIN lines : lines[i] \in Line
  BY DEF MapsTypeOK
<1>2. \A i \in DOMAIN lines : lines[i].slot \in Nat /\ lines[i].map \in Mapping
  BY <1>1, MapsAssumption DEF Line
<1>3. DOMAIN lines \subseteq Nat
  BY DEF MapsTypeOK
<1> QED
  BY <1>1, <1>2, <1>3, MapsAssumption DEF MapsTypeOK

(* What is known of the sums in a state. *)
LEMMA MapsSums ==
    ASSUME MapsTypeOK
    PROVE  /\ \A S \in SUBSET DOMAIN mem :
                 /\ RssOf(S) \in Nat
                 /\ \A s \in S : RssOf(S) = mem[s].rss + RssOf(S \ {s})
           /\ RssOf({}) = 0
           /\ \A I \in SUBSET DOMAIN lines :
                 /\ RssOfLines(I) \in Nat
                 /\ \A i \in I : RssOfLines(I) = lines[i].map.rss + RssOfLines(I \ {i})
           /\ RssOfLines({}) = 0
<1> DEFINE w == [s \in DOMAIN mem |-> mem[s].rss]
           v == [i \in DOMAIN lines |-> lines[i].map.rss]
<1>1. IsFiniteSet(DOMAIN mem)
  BY MapsAssumption, FS_Subset DEF MapsTypeOK
<1>2. IsFiniteSet(DOMAIN lines)
  <2>1. Len(lines) \in Nat /\ DOMAIN lines = 1..Len(lines)
    BY DEF MapsTypeOK
  <2> QED
    BY <2>1, FS_Interval
<1>3. \A s \in DOMAIN mem : w[s] = mem[s].rss /\ w[s] \in Nat
  BY MapsTyped DEF Mapping
<1>4. \A i \in DOMAIN lines : v[i] = lines[i].map.rss /\ v[i] \in Nat
  BY MapsTyped DEF Mapping
<1>5. /\ \A S : RssOf(S) = SumFunctionOnSet(w, S)
      /\ \A I : RssOfLines(I) = SumFunctionOnSet(v, I)
  BY DEF RssOf, RssOfLines
<1> HIDE DEF w, v
<1>6. /\ SumFunctionOnSet(w, {}) = 0
      /\ \A S \in SUBSET DOMAIN mem :
            /\ SumFunctionOnSet(w, S) \in Nat
            /\ \A s \in S : SumFunctionOnSet(w, S) = w[s] + SumFunctionOnSet(w, S \ {s})
  BY <1>1, <1>3, SumOfAll
<1>7. /\ SumFunctionOnSet(v, {}) = 0
      /\ \A I \in SUBSET DOMAIN lines :
            /\ SumFunctionOnSet(v, I) \in Nat
            /\ \A i \in I : SumFunctionOnSet(v, I) = v[i] + SumFunctionOnSet(v, I \ {i})
  BY <1>2, <1>4, SumOfAll
<1> QED
  BY <1>3, <1>4, <1>5, <1>6, <1>7

(* The sum over what stays as it is, when other mappings come, go and change. *)
LEMMA RssShrinks ==
    ASSUME MapsTypeOK, NEW S \in SUBSET DOMAIN mem, NEW A \in SUBSET S, A \subseteq DOMAIN mem',
           \A s \in A : mem'[s] = mem[s]
    PROVE  RssOf(A)' \in Nat /\ RssOf(S) \in Nat /\ RssOf(A)' <= RssOf(S)
<1> DEFINE w == [s \in DOMAIN mem |-> mem[s].rss]
           v == [s \in DOMAIN mem' |-> mem'[s].rss]
<1>1. IsFiniteSet(S)
  BY MapsAssumption, FS_Subset DEF MapsTypeOK
<1>2. \A s \in S : w[s] \in Nat
  BY MapsAssumption DEF MapsTypeOK, Mapping
<1>3. \A s \in A : v[s] = w[s]
  OBVIOUS
<1>4. RssOf(A)' = SumFunctionOnSet(v, A) /\ RssOf(S) = SumFunctionOnSet(w, S)
  BY DEF RssOf
<1> HIDE DEF w, v
<1>5. SumFunctionOnSet(v, A) = SumFunctionOnSet(w, A) /\ SumFunctionOnSet(w, A) <= SumFunctionOnSet(w, S)
  BY <1>1, <1>2, <1>3, SumOfMore
<1>6. SumFunctionOnSet(w, A) \in Nat /\ SumFunctionOnSet(w, S) \in Nat
  BY <1>1, <1>2, SumOfAll
<1> QED
  BY <1>4, <1>5, <1>6

LEMMA MapsInitial == MapsInit => MapsInv
<1> SUFFICES ASSUME MapsInit PROVE MapsInv
  OBVIOUS
<1>1. MapsTypeOK
  <2>1. DOMAIN mem \subseteq Slots /\ mem \in [DOMAIN mem -> Mappings]
    BY DEF MapsInit, Memories
  <2>2. sums \in Sums
    BY DEF MapsInit, NoSums, Sums
  <2>3. lines \in Seq(Line) /\ settled \subseteq DOMAIN mem
    BY DEF MapsInit
  <2> QED
    BY <2>1, <2>2, <2>3 DEF MapsInit, MapsTypeOK
<1> QED
  BY <1>1 DEF MapsInit, MapsInv, AtRest, NoSumsYet, LostAll, LinesRise, SettledRead, CalmLines,
              SumsFollow, SettledCounted

\* Steps of the process leave what was read and what has not changed.
LEMMA MapsMachineKeeps ==
    ASSUME MapsInv, MapsMachine
    PROVE  MapsInv'
<1>1. /\ where \in {"maps", "smaps"} /\ calm' = FALSE /\ touches' = touches + 1
      /\ UNCHANGED <<where, addr, lines, sums, whole>>
  BY DEF MapsMachine, Touch
<1>2. /\ DOMAIN mem' \subseteq Slots /\ mem' \in [DOMAIN mem' -> Mappings]
      /\ settled' \subseteq settled /\ settled' \subseteq DOMAIN mem'
      /\ \A s \in settled' : mem'[s] = mem[s]
      /\ orphan' \in BOOLEAN /\ life' \in {"runs", "zombie", "gone"}
      /\ orphan' \/ life' # "runs" => settled' = {}
  <2>1. CASE \E s \in Slots : Unmap(s)
    BY <2>1 DEF Unmap, MapsInv, MapsTypeOK, LostAll
  <2>2. CASE \E s \in Slots, m \in Mappings : Map(s, m)
    <3>1. PICK s \in Slots, m \in Mappings : Map(s, m)
      BY <2>2
    <3>2. /\ DOMAIN mem' = DOMAIN mem \cup {s} /\ mem' \in [DOMAIN mem' -> Mappings]
          /\ \A q \in DOMAIN mem : q # s => mem'[q] = mem[q]
      BY <3>1 DEF Map, MapsInv, MapsTypeOK
    <3> QED
      BY <3>1, <3>2 DEF Map, MapsInv, MapsTypeOK, LostAll
  <2>3. CASE Exec
    BY <2>3 DEF Exec, Memories, MapsInv, MapsTypeOK
  <2>4. CASE Dies
    BY <2>4 DEF Dies, MapsInv, MapsTypeOK
  <2> QED
    BY <2>1, <2>2, <2>3, <2>4 DEF MapsMachine
<1>3. MapsTypeOK'
  <2>1. touches' \in Nat
    BY <1>1 DEF MapsInv, MapsTypeOK
  <2>2. UNCHANGED <<where, addr, lines, sums, whole>> /\ calm' \in BOOLEAN
    BY <1>1
  <2> QED
    BY <1>2, <2>1, <2>2 DEF MapsInv, MapsTypeOK
<1>4. AtRest' /\ NoSumsYet' /\ LostAll' /\ LinesRise' /\ CalmLines' /\ SettledCounted'
  BY <1>1, <1>2 DEF MapsInv, AtRest, NoSumsYet, LostAll, LinesRise, CalmLines, SettledCounted
<1>5. SettledRead'
  BY <1>1, <1>2 DEF MapsInv, SettledRead
<1>6. SumsFollow'
  <2> DEFINE A == {s \in settled' : s < addr' /\ Rwx(mem'[s])}
  <2>1. /\ A \in SUBSET SettledRwx /\ A \subseteq DOMAIN mem' /\ SettledRwx \in SUBSET DOMAIN mem
        /\ A = SettledRwx' /\ \A s \in A : mem'[s] = mem[s]
    BY <1>1, <1>2 DEF SettledRwx, MapsInv, MapsTypeOK, Rwx
  <2>2. RssOf(SettledRwx)' = SumFunctionOnSet([s \in DOMAIN mem' |-> mem'[s].rss], A)
    BY <2>1 DEF RssOf
  <2> HIDE DEF A
  <2>3. /\ SumFunctionOnSet([s \in DOMAIN mem' |-> mem'[s].rss], A) <= RssOf(SettledRwx)
        /\ SumFunctionOnSet([s \in DOMAIN mem' |-> mem'[s].rss], A) \in Nat
        /\ RssOf(SettledRwx) \in Nat
    BY <2>1, RssShrinks DEF RssOf, MapsInv
  <2>4. sums.rwx \in Nat
    BY DEF MapsInv, MapsTypeOK, Sums
  <2> QED
    BY <1>1, <2>2, <2>3, <2>4 DEF MapsInv, SumsFollow
<1> QED
  BY <1>3, <1>4, <1>5, <1>6 DEF MapsInv

LEMMA OpenMapsKeeps ==
    ASSUME MapsInv, OpenMaps
    PROVE  MapsInv'
<1> USE DEF MapsInv, OpenMaps
<1>1. MapsTypeOK'
  BY DEF MapsTypeOK
<1>2. lines = << >> /\ addr = 0 /\ DOMAIN lines = {} /\ \A s \in DOMAIN mem : s \in Nat
  BY MapsAssumption DEF AtRest, MapsTypeOK
<1>3. AtRest' /\ NoSumsYet' /\ LostAll' /\ SumsFollow' /\ SettledCounted'
  BY DEF AtRest, NoSumsYet, LostAll, SumsFollow, SettledCounted
<1>4. LinesRise' /\ SettledRead' /\ CalmLines'
  BY <1>2 DEF LinesRise, SettledRead, CalmLines
<1> QED
  BY <1>1, <1>3, <1>4

LEMMA ReadMapsLineKeeps ==
    ASSUME MapsInv, NEW s \in Slots, ReadMapsLine(s)
    PROVE  MapsInv'
<1> DEFINE line == [slot |-> s, map |-> mem[s]]
           n == Len(lines)
<1>1. /\ where = "maps" /\ ~orphan /\ s \in DOMAIN mem /\ addr <= s
      /\ \A q \in DOMAIN mem : addr <= q => s <= q
      /\ addr' = s + 1
      /\ UNCHANGED <<mem, life, touches, where, orphan, sums, whole, calm, settled>>
  BY DEF ReadMapsLine, NextMapping, Mapped
<1>2. /\ line \in Line /\ line.slot = s /\ s \in Nat /\ addr \in Nat
      /\ \A q \in DOMAIN mem : q \in Nat
      /\ \A i \in DOMAIN lines : lines[i] \in Line /\ lines[i].slot \in Nat
  BY <1>1, MapsTyped DEF MapsInv, MapsTypeOK, Line
<1>3. /\ n \in Nat /\ DOMAIN lines = 1..n /\ lines' \in Seq(Line) /\ DOMAIN lines' = 1 .. n + 1
      /\ \A i \in 1..n : lines'[i] = lines[i]
      /\ lines'[n + 1] = line
  <2>1. lines \in Seq(Line) /\ lines' = Append(lines, line)
    BY DEF ReadMapsLine, MapsInv, MapsTypeOK
  <2> HIDE DEF line
  <2> QED
    BY <1>2, <2>1
<1> HIDE DEF line, n
<1>4. MapsTypeOK'
  BY <1>1, <1>2, <1>3 DEF MapsInv, MapsTypeOK
<1>5. AtRest' /\ NoSumsYet' /\ LostAll' /\ SumsFollow' /\ SettledCounted'
  BY <1>1 DEF MapsInv, AtRest, NoSumsYet, LostAll, SumsFollow, SettledCounted
<1>6. \A i \in 1..n : lines[i].slot < addr
  BY <1>1, <1>3 DEF MapsInv, LinesRise
<1>7. LinesRise'
  <2>1. ASSUME NEW i \in DOMAIN lines', NEW j \in DOMAIN lines', i < j
        PROVE  lines'[i].slot < lines'[j].slot
    <3>1. i \in 1..n /\ lines'[i] = lines[i]
      BY <1>3, <2>1
    <3>2. CASE j \in 1..n
      BY <1>3, <2>1, <3>1, <3>2 DEF MapsInv, LinesRise
    <3>3. CASE j = n + 1
      BY <1>1, <1>2, <1>3, <1>6, <3>1, <3>3
    <3> QED
      BY <1>3, <3>2, <3>3
  <2>2. ASSUME NEW i \in DOMAIN lines'
        PROVE  lines'[i].slot < addr'
    BY <1>1, <1>2, <1>3, <1>6
  <2> QED
    BY <2>1, <2>2 DEF LinesRise
<1>8. SettledRead'
  <2> SUFFICES ASSUME NEW q \in settled, q < addr'
               PROVE  \E i \in DOMAIN lines' : lines'[i] = [slot |-> q, map |-> mem[q]]
    BY <1>1 DEF SettledRead
  <2>1. q \in DOMAIN mem /\ q \in Nat
    BY <1>2 DEF MapsInv, MapsTypeOK
  <2>2. CASE q < addr
    BY <1>1, <1>3, <2>2 DEF MapsInv, SettledRead
  <2>3. CASE addr <= q
    <3>1. q = s
      BY <1>1, <1>2, <2>1, <2>3
    <3> QED
      BY <1>3, <3>1 DEF line
  <2> QED
    BY <1>2, <2>1, <2>2, <2>3
<1>9. CalmLines'
  BY <1>1, <1>2, <1>3 DEF MapsInv, CalmLines
<1> QED
  BY <1>4, <1>5, <1>7, <1>8, <1>9 DEF MapsInv

\* At the end of a file, all that has stayed as it is was passed.
LEMMA EndOfFile ==
    ASSUME MapsInv, NoneLeft
    PROVE  \A s \in settled : s < addr
  BY DEF NoneLeft, MapsInv, MapsTypeOK, LostAll

LEMMA EndMapsKeeps ==
    ASSUME MapsInv, EndMaps
    PROVE  MapsInv'
<1>1. /\ where = "maps" /\ where' \in {"smaps", "failed"} /\ addr' = 0
      /\ orphan' = (life # "runs")
      /\ UNCHANGED <<mem, life, touches, lines, sums, whole, calm, settled>>
      /\ \A s \in settled : s < addr
  BY EndOfFile DEF EndMaps
<1>2. MapsTypeOK'
  BY <1>1 DEF MapsInv, MapsTypeOK
<1>3. AtRest' /\ NoSumsYet' /\ LostAll' /\ LinesRise' /\ CalmLines' /\ SettledCounted'
  BY <1>1 DEF MapsInv, AtRest, NoSumsYet, LostAll, LinesRise, CalmLines, SettledCounted
<1>4. SettledRead'
  BY <1>1 DEF MapsInv, SettledRead
<1>5. SumsFollow'
  <2>1. /\ \A s \in settled : s \in Nat
        /\ \A i \in DOMAIN lines : lines[i].slot \in Nat
    BY MapsTyped DEF MapsInv
  <2>2. SettledRwx' = {} /\ LinesPassed' = {}
    BY <1>1, <2>1 DEF SettledRwx, LinesPassed, RwxLines
  <2>3. /\ RssOf(SettledRwx)' = SumFunctionOnSet([s \in DOMAIN mem |-> mem[s].rss], {})
        /\ RssOfLines(LinesPassed)' = SumFunctionOnSet([i \in DOMAIN lines |-> lines[i].map.rss], {})
    BY <1>1, <2>2 DEF RssOf, RssOfLines
  <2>4. RssOf({}) = 0 /\ RssOfLines({}) = 0
    BY MapsSums DEF MapsInv
  <2>5. RssOf(SettledRwx)' = 0 /\ RssOfLines(LinesPassed)' = 0
    BY <2>3, <2>4 DEF RssOf, RssOfLines
  <2>6. sums' = NoSums /\ sums'.rwx = 0
    BY <1>1 DEF MapsInv, NoSumsYet, NoSums
  <2> QED
    BY <2>5, <2>6 DEF SumsFollow
<1> QED
  BY <1>2, <1>3, <1>4, <1>5 DEF MapsInv

LEMMA ReadSmapsBlockKeeps ==
    ASSUME MapsInv, NEW s \in Slots, ReadSmapsBlock(s)
    PROVE  MapsInv'
<1> DEFINE rss == mem[s].rss
           w == [q \in DOMAIN mem |-> mem[q].rss]
           v == [i \in DOMAIN lines |-> lines[i].map.rss]
           T == SettledRwx
           newT == {q \in settled : q < s + 1 /\ Rwx(mem[q])}
           U == LinesPassed
           newU == {i \in RwxLines : lines[i].slot < s + 1}
<1>1. /\ where = "smaps" /\ ~orphan /\ s \in DOMAIN mem /\ addr <= s
      /\ \A q \in DOMAIN mem : addr <= q => s <= q
      /\ addr' = s + 1
      /\ UNCHANGED <<mem, life, touches, where, orphan, lines, whole, calm, settled>>
  BY DEF ReadSmapsBlock, NextMapping, Mapped
<1>2. /\ s \in Nat /\ addr \in Nat
      /\ \A q \in DOMAIN mem : q \in Nat
      /\ \A i \in DOMAIN lines : lines[i].slot \in Nat
      /\ settled \subseteq DOMAIN mem
  BY MapsTyped, MapsAssumption DEF MapsInv, MapsTypeOK
<1>3. mem[s] \in Mapping /\ rss \in Nat /\ sums.rwx \in Nat
  BY <1>1, MapsTyped DEF MapsInv, MapsTypeOK, Mapping, Sums
<1>4. sums' \in Sums /\ sums'.rwx = sums.rwx + (IF Rwx(mem[s]) THEN rss ELSE 0)
  <2>1. sums \in Sums /\ sums' = Added(mem[s])
    BY DEF ReadSmapsBlock, MapsInv, MapsTypeOK
  <2> QED
    BY <1>3, <2>1 DEF Added, Sums, Mapping
<1>5. MapsTypeOK'
  BY <1>1, <1>2, <1>4 DEF MapsInv, MapsTypeOK
<1>6. AtRest' /\ NoSumsYet' /\ LostAll' /\ LinesRise' /\ SettledRead' /\ CalmLines' /\ SettledCounted'
  BY <1>1 DEF MapsInv, AtRest, NoSumsYet, LostAll, LinesRise, SettledRead, CalmLines, SettledCounted
<1>7. /\ SettledRwx' = newT /\ LinesPassed' = newU
      /\ RssOf(SettledRwx)' = RssOf(newT) /\ RssOfLines(LinesPassed)' = RssOfLines(newU)
  BY <1>1 DEF SettledRwx, LinesPassed, RwxLines, RssOf, RssOfLines, Rwx
<1>8. /\ T \in SUBSET DOMAIN mem /\ newT \in SUBSET DOMAIN mem
      /\ U \in SUBSET DOMAIN lines /\ newU \in SUBSET DOMAIN lines
  BY <1>2 DEF SettledRwx, LinesPassed, RwxLines
<1>9. RssOf(T) <= sums.rwx /\ (calm => sums.rwx = RssOfLines(U))
  BY <1>1 DEF MapsInv, SumsFollow
<1>10. /\ \A S \in SUBSET DOMAIN mem :
             /\ RssOf(S) \in Nat
             /\ \A q \in S : RssOf(S) = mem[q].rss + RssOf(S \ {q})
       /\ \A I \in SUBSET DOMAIN lines :
             /\ RssOfLines(I) \in Nat
             /\ \A i \in I : RssOfLines(I) = lines[i].map.rss + RssOfLines(I \ {i})
  BY MapsSums DEF MapsInv
<1>11. RssOf(newT) <= sums'.rwx
  <2>1. CASE s \in newT
    <3>1. newT \ {s} = T /\ Rwx(mem[s])
      BY <1>1, <1>2, <2>1 DEF SettledRwx
    <3>2. RssOf(newT) = rss + RssOf(T)
      BY <1>8, <1>10, <2>1, <3>1
    <3> HIDE DEF rss, T, newT
    <3> QED
      BY <1>3, <1>4, <1>8, <1>9, <1>10, <3>1, <3>2
  <2>2. CASE s \notin newT
    <3>1. newT = T
      BY <1>1, <1>2, <2>2 DEF SettledRwx
    <3> HIDE DEF rss, T, newT
    <3> QED
      BY <1>3, <1>4, <1>8, <1>9, <1>10, <3>1
  <2> QED
    BY <2>1, <2>2
<1>12. ASSUME calm PROVE sums'.rwx = RssOfLines(newU)
  <2>1. s \in settled /\ \A i \in DOMAIN lines : lines[i].slot \in DOMAIN mem
    BY <1>1, <1>12 DEF MapsInv, CalmLines
  <2>2. PICK k \in DOMAIN lines : lines[k] = [slot |-> s, map |-> mem[s]]
    BY <1>1, <2>1 DEF MapsInv, SettledRead
  <2>3. lines[k].slot = s /\ lines[k].map = mem[s]
    BY <2>2
  <2>4. \A i \in DOMAIN lines : lines[i].slot = s => i = k
    <3>1. DOMAIN lines \subseteq Nat
      BY DEF MapsInv, MapsTypeOK
    <3> QED
      BY <1>2, <2>3, <3>1 DEF MapsInv, LinesRise
  <2>5. \A i \in DOMAIN lines : i # k => (lines[i].slot < s + 1 <=> lines[i].slot < addr)
    BY <1>1, <1>2, <2>1, <2>4
  <2>6. CASE Rwx(mem[s])
    <3>1. k \in newU /\ newU \ {k} = U
      BY <1>1, <1>2, <2>3, <2>5, <2>6 DEF LinesPassed, RwxLines
    <3>2. RssOfLines(newU) = rss + RssOfLines(U)
      BY <1>8, <1>10, <2>3, <3>1
    <3> HIDE DEF rss, U, newU
    <3> QED
      BY <1>3, <1>4, <1>8, <1>9, <1>10, <1>12, <2>6, <3>2
  <2>7. CASE ~Rwx(mem[s])
    <3>1. newU = U
      BY <1>1, <1>2, <2>3, <2>5, <2>7 DEF LinesPassed, RwxLines
    <3> HIDE DEF rss, U, newU
    <3> QED
      BY <1>3, <1>4, <1>9, <1>12, <2>7, <3>1
  <2> QED
    BY <2>6, <2>7
<1> HIDE DEF newT, newU
<1>13. SumsFollow'
  BY <1>1, <1>7, <1>11, <1>12 DEF SumsFollow
<1> QED
  BY <1>5, <1>6, <1>13 DEF MapsInv

LEMMA EndSmapsKeeps ==
    ASSUME MapsInv, EndSmaps
    PROVE  MapsInv'
<1>1. /\ where = "smaps" /\ where' = "done" /\ whole' \in BOOLEAN
      /\ UNCHANGED <<mem, life, touches, orphan, addr, lines, sums, calm, settled>>
      /\ \A s \in settled : s < addr
  BY EndOfFile DEF EndSmaps
<1>2. MapsTypeOK'
  BY <1>1 DEF MapsInv, MapsTypeOK
<1>3. AtRest' /\ NoSumsYet' /\ LostAll' /\ LinesRise' /\ CalmLines' /\ SumsFollow'
  BY <1>1 DEF MapsInv, AtRest, NoSumsYet, LostAll, LinesRise, CalmLines, SumsFollow
<1>4. SettledRead'
  BY <1>1 DEF MapsInv, SettledRead
<1>5. ASSUME NEW s \in settled
      PROVE  \E i \in LinesOf(s) : LinesOf(s) = {i} /\ lines[i].map = mem[s]
  <2>1. PICK k \in DOMAIN lines : lines[k] = [slot |-> s, map |-> mem[s]]
    BY <1>1 DEF MapsInv, SettledRead
  <2>2. lines[k].slot = s /\ lines[k].map = mem[s]
    BY <2>1
  <2>3. /\ DOMAIN lines \subseteq Nat /\ s \in Nat
        /\ \A i \in DOMAIN lines : lines[i].slot \in Nat
    BY MapsTyped DEF MapsInv
  <2>4. \A i \in DOMAIN lines : lines[i].slot = s => i = k
    BY <2>2, <2>3 DEF MapsInv, LinesRise
  <2> QED
    BY <2>2, <2>4 DEF LinesOf
<1>6. RssOf({s \in settled : mem[s].writable /\ mem[s].executable}) <= sums.rwx
  <2>1. SettledRwx = {s \in settled : mem[s].writable /\ mem[s].executable}
    BY <1>1 DEF SettledRwx, Rwx
  <2> QED
    BY <1>1, <2>1 DEF MapsInv, SumsFollow
<1>7. calm => sums.rwx = RssOfLines(RwxLines)
  <2>1. calm => LinesPassed = RwxLines
    BY <1>1 DEF MapsInv, CalmLines, LinesPassed, RwxLines
  <2> QED
    BY <1>1, <2>1 DEF MapsInv, SumsFollow
<1>8. SettledCounted'
  <2>1. /\ RssOf({s \in settled : mem[s].writable /\ mem[s].executable})'
              = RssOf({s \in settled : mem[s].writable /\ mem[s].executable})
        /\ RssOfLines(RwxLines)' = RssOfLines(RwxLines)
        /\ \A s \in settled : LinesOf(s)' = LinesOf(s)
    BY <1>1 DEF RssOf, RssOfLines, RwxLines, LinesOf, Rwx
  <2> QED
    BY <1>1, <1>5, <1>6, <1>7, <2>1 DEF SettledCounted
<1> QED
  BY <1>2, <1>3, <1>4, <1>8 DEF MapsInv

LEMMA MapsStep == MapsInv /\ [MapsNext]_mapsVars => MapsInv'
<1> SUFFICES ASSUME MapsInv, [MapsNext]_mapsVars PROVE MapsInv'
  OBVIOUS
<1>1. CASE MapsNext
  BY <1>1, MapsMachineKeeps, OpenMapsKeeps, EndMapsKeeps, EndSmapsKeeps, ReadMapsLineKeeps,
     ReadSmapsBlockKeeps DEF MapsNext
<1>2. CASE UNCHANGED mapsVars
  BY <1>2 DEF mapsVars, MapsInv, MapsTypeOK, AtRest, NoSumsYet, LostAll, LinesRise, SettledRead,
              CalmLines, SumsFollow, SettledCounted, SettledRwx, LinesPassed, RwxLines, Rwx,
              RssOf, RssOfLines, LinesOf
<1> QED
  BY <1>1, <1>2

(* The state of `maps` has its type in every behaviour. *)
THEOREM MapsTypeCorrect == MapsSpec => []MapsTypeOK
<1>1. MapsInv => MapsTypeOK
  BY DEF MapsInv
<1> QED
  BY <1>1, MapsInitial, MapsStep, PTL DEF MapsSpec

(* A mapping that stays as it is stands in the table once and in the total, and on
   a process that does nothing the total is that of the table. *)
THEOREM SettledAreCounted == MapsSpec => []SettledCounted
<1>1. MapsInv => SettledCounted
  BY DEF MapsInv
<1> QED
  BY <1>1, MapsInitial, MapsStep, PTL DEF MapsSpec

-----------------------------------------------------------------------------
(* The commands. *)

(* A run of procsec is a run of each module: main executes one command, and the
   others' state stays where it begins. *)
THEOREM CommandIsOneOfThem == CommandsSpec => BaselineSpec /\ NsSpec /\ MapsSpec
<1>1. CommandsInit => BaselineInit /\ NsInit /\ MapsInit
  BY DEF CommandsInit, BaselineRests, NsRests, MapsRests
<1>2. [CommandsNext]_commandsVars
        => [BaselineNext]_baselineVars /\ [NsNext]_nsVars /\ [MapsNext]_mapsVars
  BY DEF CommandsNext, commandsVars
<1> QED
  BY <1>1, <1>2, PTL DEF CommandsSpec, BaselineSpec, NsSpec, MapsSpec

(* Whatever command runs, the state has its type. *)
THEOREM CommandsTypeCorrect == CommandsSpec => []CommandsTypeOK
<1>1. BaselineTypeOK /\ NsTypeOK /\ MapsTypeOK => CommandsTypeOK
  BY DEF CommandsTypeOK
<1> QED
  BY <1>1, CommandIsOneOfThem, BaselineTypeCorrect, NsTypeCorrect, MapsTypeCorrect, PTL

(* And what each of them concludes is right. *)
THEOREM CommandsConclude ==
    CommandsSpec => /\ []SteadyNeverDiffers /\ []QuietDiffExact /\ []SteadyListed
                    /\ []SteadyCompared /\ []AbsentWasUnseen /\ []SettledCounted
                    /\ LoadedIsLatest
  BY CommandIsOneOfThem, SteadyAreNoDifference, QuietDiffHolds, SteadyAreListed,
     SteadyTypesCompared, AbsenceHasCause, SettledAreCounted, LoadsTheLatest, PTL
=============================================================================
