--------------------------- MODULE WatchCmdProofs ---------------------------
(***************************************************************************)
(* For every channel capacity, every number of events, runs and failures:  *)
(* the command's state keeps its types; the lines of its log file are told *)
(* apart but where a run was killed or a write failed; the log of a run is *)
(* the Watcher's events in their order, and the terminal shows what it     *)
(* holds.                                                                  *)
(***************************************************************************)
EXTENDS WatchCmd, Recursion, SequenceTheorems

(* Main has an event in hand whenever it is about to print or to write one,
   and a run that is alive has not left its line without a newline by a kill. *)
CmdShape ==
    /\ at \in {"print", "line"} => Len(hand) = 1
    /\ at # "down" => cuts < starts + fails

CmdInv == CmdTypeOK /\ CmdShape

USE BoundsAssumption, CapAssumption

LEMMA CmdInitInv == CmdInit => CmdInv
<1> SUFFICES ASSUME CmdInit PROVE CmdInv
  OBVIOUS
<1>1. live \in SUBSET Pids /\ stop \in BOOLEAN /\ chan = << >>
  BY DEF CmdInit, StreamInit
<1>4. chan \in Seq(Event) /\ Len(chan) <= Cap
  BY <1>1
<1>3. /\ at \in {"down", "select", "print", "line", "newline"}
      /\ secure \in BOOLEAN /\ logging \in BOOLEAN /\ sigs \in BOOLEAN /\ asked \in BOOLEAN
  BY Zenon DEF CmdInit
<1>5. starts \in 0..MaxStarts /\ fails \in 0..MaxFails /\ cuts \in 0..starts + fails
  BY DEF CmdInit
<1>2. /\ hand \in Seq(Event) /\ Len(hand) <= 1
      /\ file \in Seq(Event \cup {Newline}) /\ base \in 0..Len(file)
      /\ sent \in Seq(Event) /\ shown \in Seq(Event)
  BY DEF CmdInit
<1> QED BY <1>1, <1>2, <1>3, <1>4, <1>5 DEF CmdInit, CmdInv, CmdTypeOK, CmdShape, StreamTypeOK

(* The event in hand, when there is one. *)
LEMMA InHand ==
    ASSUME CmdInv
    PROVE  /\ hand \in Seq(Event) /\ Len(hand) <= 1
           /\ at \in {"print", "line"} => Len(hand) = 1 /\ Head(hand) \in Event
<1>1. hand \in Seq(Event) /\ Len(hand) <= 1
  BY DEF CmdInv, CmdTypeOK
<1>2. at \in {"print", "line"} => Len(hand) = 1
  BY DEF CmdInv, CmdShape
<1> QED BY <1>1, <1>2

(* What the Watcher sends is an event, and there was room for it. *)
LEMMA EmitType ==
    ASSUME StreamTypeOK, Len(chan) <= Cap, Emit
    PROVE  /\ StreamTypeOK' /\ Len(chan') <= Cap
           /\ Last(chan') \in Event
<1>1. PICK p \in Pids : EmitStarted(p) \/ EmitContextChanged(p) \/ EmitExited(p)
  BY DEF Emit
<1>2. live' \in SUBSET Pids /\ stop' = stop
  BY <1>1 DEF EmitStarted, EmitContextChanged, EmitExited, Send, StreamTypeOK
<1>3. PICK e \in Event : chan' = Append(chan, e) /\ Len(chan) < Cap
  BY <1>1 DEF EmitStarted, EmitContextChanged, EmitExited, Send, Ev, Event, Kinds
<1>4. chan' \in Seq(Event) /\ Len(chan') <= Cap /\ Last(chan') = e
  BY <1>3 DEF StreamTypeOK, Last
<1> QED BY <1>2, <1>3, <1>4 DEF StreamTypeOK

(* A write appends its chunk or is counted as failed. *)
LEMMA WriteType ==
    ASSUME CmdTypeOK, NEW chunk \in Event \cup {Newline}, Write(chunk)
    PROVE  /\ file' \in Seq(Event \cup {Newline})
           /\ Len(file) <= Len(file')
           /\ fails' \in 0..MaxFails
<1> DEFINE Chunk == Event \cup {Newline}
<1>1. file \in Seq(Chunk) /\ chunk \in Chunk /\ fails \in 0..MaxFails
  BY DEF CmdTypeOK
<1> HIDE DEF Chunk
<1>2. CASE file' = Append(file, chunk) /\ UNCHANGED fails
  <2>1. file' \in Seq(Chunk) /\ Len(file) <= Len(file')
    BY <1>1, <1>2
  <2> QED BY <1>1, <1>2, <2>1 DEF Chunk
<1>3. CASE fails < MaxFails /\ fails' = fails + 1 /\ UNCHANGED file
  <2>1. fails' \in 0..MaxFails /\ Len(file) <= Len(file')
    BY <1>1, <1>3
  <2> QED BY <1>1, <1>3, <2>1 DEF Chunk
<1> QED BY <1>2, <1>3 DEF Write

LEMMA MainInv ==
    ASSUME CmdInv, MainStep
    PROVE  CmdInv'
<1> USE DEF CmdInv, historyVars, fileVars
<1>1. CASE TakeNext
  <2>1. /\ StreamTypeOK' /\ Len(chan') <= Cap
        /\ Head(chan) \in Event
    BY <1>1 DEF TakeNext, TakeEvent, CmdTypeOK, StreamTypeOK
  <2>2. /\ at' \in {"select", "print", "line"}
        /\ hand' \in Seq(Event) /\ Len(hand') <= 1
        /\ at' # "select" => Len(hand') = 1
    BY <1>1, <2>1 DEF TakeNext, AfterTake
  <2> QED
    BY <1>1, <2>1, <2>2 DEF TakeNext, CmdTypeOK, CmdShape
<1>2. CASE PrintEvent
  <2>1. Head(hand) \in Event /\ Len(hand) = 1 /\ Len(hand) <= 1 /\ hand \in Seq(Event)
    BY <1>2, InHand DEF PrintEvent
  <2>2. shown' \in Seq(Event)
    BY <1>2, <2>1 DEF PrintEvent, CmdTypeOK
  <2>3. \/ at' = "line" /\ hand' = hand
        \/ at' = "select" /\ hand' = << >>
    BY <1>2 DEF PrintEvent
  <2>4. /\ at' \in {"select", "line"}
        /\ hand' \in Seq(Event) /\ Len(hand') <= 1
        /\ at' # "select" => Len(hand') = 1
    <3>1. CASE at' = "line" /\ hand' = hand
      BY <2>1, <3>1
    <3>2. CASE at' = "select" /\ hand' = << >>
      BY <3>2
    <3> QED BY <2>3, <3>1, <3>2
  <2> QED
    BY <1>2, <2>2, <2>4 DEF PrintEvent, CmdTypeOK, CmdShape, StreamTypeOK
<1>3. CASE WriteLine
  <2>1. Head(hand) \in Event
    BY <1>3, InHand DEF WriteLine
  <2>2. file' \in Seq(Event \cup {Newline}) /\ base' \in 0..Len(file') /\ fails' \in 0..MaxFails
    BY <1>3, <2>1, WriteType DEF WriteLine, CmdTypeOK
  <2>3. cuts' \in 0..starts' + fails' /\ cuts' < starts' + fails'
    BY <1>3 DEF WriteLine, Write, CmdTypeOK, CmdShape, historyVars
  <2>4. /\ at' = "newline" /\ hand' = << >> /\ hand' \in Seq(Event) /\ Len(hand') = 0
        /\ UNCHANGED <<live, chan, stop, secure, logging, sigs, starts, asked, sent, shown>>
    BY <1>3 DEF WriteLine, AfterLine, historyVars
  <2>5. StreamTypeOK'
    BY <2>4 DEF CmdTypeOK, StreamTypeOK
  <2>6. CmdShape'
    BY <2>3, <2>4 DEF CmdShape
  <2>7. CmdTypeOK'
    <3>1. /\ secure' \in BOOLEAN /\ logging' \in BOOLEAN /\ sigs' \in BOOLEAN
          /\ asked' \in BOOLEAN
      BY <2>4, Zenon DEF CmdTypeOK
    <3>2. Len(chan') <= Cap /\ Len(hand') <= 1 /\ starts' \in 0..MaxStarts
      BY <2>4 DEF CmdTypeOK
    <3>3. sent' \in Seq(Event) /\ shown' \in Seq(Event)
      BY <2>4 DEF CmdTypeOK
    <3> QED BY <2>2, <2>3, <2>4, <2>5, <3>1, <3>2, <3>3 DEF CmdTypeOK
  <2> QED BY <2>6, <2>7
<1>4. CASE WriteNewline
  <2>1. file' \in Seq(Event \cup {Newline}) /\ base' \in 0..Len(file') /\ fails' \in 0..MaxFails
    BY <1>4, WriteType DEF WriteNewline, CmdTypeOK
  <2>2. cuts' \in 0..starts' + fails' /\ cuts' < starts' + fails'
    BY <1>4 DEF WriteNewline, Write, CmdTypeOK, CmdShape
  <2> QED
    BY <1>4, <2>1, <2>2 DEF WriteNewline, CmdTypeOK, CmdShape, StreamTypeOK
<1> QED BY <1>1, <1>2, <1>3, <1>4 DEF MainStep

LEMMA CmdNextInv == CmdInv /\ [CmdNext]_cmdVars => CmdInv'
<1> SUFFICES ASSUME CmdInv, [CmdNext]_cmdVars PROVE CmdInv'
  OBVIOUS
<1> USE DEF CmdInv
<1>1. CASE Start
  <2>1. /\ live' \in SUBSET Pids /\ chan' = << >> /\ stop' \in BOOLEAN
        /\ at' = "select" /\ hand' = << >> /\ sent' = << >> /\ shown' = << >>
        /\ secure' \in BOOLEAN /\ logging' \in BOOLEAN /\ sigs' \in BOOLEAN /\ asked' \in BOOLEAN
    BY <1>1, Zenon DEF Start
  <2>2. /\ starts' \in 0..MaxStarts /\ cuts' \in 0..starts' + fails' /\ cuts' < starts' + fails'
        /\ file' = file /\ fails' = fails /\ base' \in 0..Len(file')
    BY <1>1 DEF Start, CmdTypeOK, fileVars
  <2>3. chan' \in Seq(Event) /\ Len(chan') <= Cap /\ hand' \in Seq(Event) /\ Len(hand') <= 1
    BY <2>1
  <2> QED
    BY <2>1, <2>2, <2>3 DEF CmdTypeOK, CmdShape, StreamTypeOK
<1>2. CASE Detect
  <2>1. StreamTypeOK' /\ Len(chan') <= Cap /\ sent' \in Seq(Event)
    BY <1>2, EmitType DEF Detect, CmdTypeOK
  <2> QED
    BY <1>2, <2>1 DEF Detect, CmdTypeOK, CmdShape, fileVars
<1>3. CASE MainStep
  BY <1>3, MainInv
<1>4. CASE Signal
  BY <1>4 DEF Signal, SignalBuffered, CmdTypeOK, CmdShape, StreamTypeOK, fileVars
<1>5. CASE ReturnOnSignal
  BY <1>5 DEF ReturnOnSignal, CloseStop, CmdTypeOK, CmdShape, StreamTypeOK, fileVars, historyVars
<1>6. CASE Kill
  BY <1>6 DEF Kill, CmdTypeOK, CmdShape, StreamTypeOK, fileVars
<1>7. CASE UNCHANGED cmdVars
  BY <1>7 DEF cmdVars, CmdTypeOK, CmdShape, StreamTypeOK
<1> QED BY <1>1, <1>2, <1>3, <1>4, <1>5, <1>6, <1>7 DEF CmdNext

LEMMA CmdAlwaysInv == CmdSpec => []CmdInv
  BY CmdInitInv, CmdNextInv, PTL DEF CmdSpec

(* Whatever the Watcher sends, however often the command is killed and started
   again on its log: every part of cmdWatch's state keeps its type. *)
THEOREM CmdTypeCorrect == CmdSpec => []CmdTypeOK
<1>1. CmdInv => CmdTypeOK
  BY DEF CmdInv
<1> QED BY <1>1, CmdAlwaysInv, PTL

-----------------------------------------------------------------------------
(* The log file ends in an event without its newline. *)
Dangling == file # << >> /\ file[Len(file)] # Newline

(* Each line that two events share was paid for by an accident, and so was a
   line that ends the file without main being about to end it. *)
GlueInv ==
    /\ GluedByAccident
    /\ Dangling /\ at # "newline" => Cardinality(Glued) < cuts

(* Only finitely many places, so that they can be counted. *)
LEMMA GluedFinite ==
    ASSUME CmdTypeOK
    PROVE  IsFiniteSet(Glued) /\ Cardinality(Glued) \in Nat
<1>1. IsFiniteSet(1..Len(file) - 1)
  BY FS_Interval DEF CmdTypeOK
<1>2. Glued \subseteq 1..Len(file) - 1
  BY DEF Glued
<1> QED BY <1>1, <1>2, FS_Subset, FS_CardinalityType

(* An append glues at most its own place, and only if it puts an event after
   one that dangles. *)
LEMMA AppendGlues ==
    ASSUME CmdTypeOK, NEW chunk \in Event \cup {Newline}, file' = Append(file, chunk)
    PROVE  /\ Glued' \subseteq Glued \cup {Len(file)}
           /\ ~Dangling \/ chunk = Newline => Glued' = Glued
<1> DEFINE f == file'
<1>1. /\ Len(f) = Len(file) + 1 /\ Len(file) \in Nat
      /\ \A i \in 1..Len(file) : f[i] = file[i]
      /\ f[Len(file) + 1] = chunk
  BY DEF CmdTypeOK
<1>2. Glued' = {i \in 1..Len(f) - 1 : f[i] # Newline /\ f[i + 1] # Newline}
  BY DEF Glued
<1> HIDE DEF f
<1>3. \A i \in 1..Len(file) - 1 : i \in Glued' <=> i \in Glued
  <2> TAKE i \in 1..Len(file) - 1
  <2>1. i \in 1..Len(f) - 1 /\ f[i] = file[i] /\ f[i + 1] = file[i + 1]
    BY <1>1
  <2> QED BY <1>2, <2>1 DEF Glued
<1>4. Len(file) \in Glued' => Dangling /\ chunk # Newline
  <2> HAVE Len(file) \in Glued'
  <2>1. Len(file) \in 1..Len(f) - 1 /\ f[Len(file)] # Newline /\ f[Len(file) + 1] # Newline
    BY <1>2
  <2> QED BY <1>1, <2>1 DEF Dangling, CmdTypeOK
<1>5. Glued' \subseteq 1..Len(file) /\ Glued \subseteq 1..Len(file) - 1
  BY <1>1, <1>2 DEF Glued
<1>6. 1..Len(file) \subseteq (1..Len(file) - 1) \cup {Len(file)}
  BY <1>1
<1>7. Len(file) \notin 1..Len(file) - 1
  BY <1>1
<1> QED BY <1>3, <1>4, <1>5, <1>6, <1>7

(* So at most one more place is glued, and none where nothing dangles. *)
LEMMA AppendCounts ==
    ASSUME CmdTypeOK, NEW chunk \in Event \cup {Newline}, file' = Append(file, chunk)
    PROVE  /\ Cardinality(Glued') \in Nat
           /\ Cardinality(Glued') <= Cardinality(Glued) + 1
           /\ ~Dangling \/ chunk = Newline => Cardinality(Glued') = Cardinality(Glued)
<1>1. IsFiniteSet(Glued) /\ Cardinality(Glued) \in Nat
  BY GluedFinite
<1>2. /\ IsFiniteSet(Glued \cup {Len(file)})
      /\ Cardinality(Glued \cup {Len(file)}) \in {Cardinality(Glued), Cardinality(Glued) + 1}
  BY <1>1, FS_AddElement
<1>3. Cardinality(Glued') <= Cardinality(Glued \cup {Len(file)}) /\ IsFiniteSet(Glued')
  BY <1>2, AppendGlues, FS_Subset
<1>4. Cardinality(Glued') \in Nat
  BY <1>3, FS_CardinalityType
<1> QED BY <1>1, <1>2, <1>3, <1>4, AppendGlues

LEMMA WriteGlue ==
    ASSUME CmdInv, GlueInv, WriteLine \/ WriteNewline
    PROVE  GlueInv'
<1>0. /\ Cardinality(Glued) \in Nat /\ cuts \in Nat /\ fails \in Nat
      /\ at = "newline" \/ cuts' = cuts
      /\ at = "line" => Head(hand) \in Event
  BY GluedFinite DEF CmdInv, CmdTypeOK, CmdShape, WriteLine, WriteNewline, historyVars
<1>1. CASE WriteLine /\ UNCHANGED fails
  <2>1. /\ at = "line" /\ at' = "newline" /\ file' = Append(file, Head(hand))
        /\ Head(hand) \in Event
    BY <1>0, <1>1 DEF WriteLine, Write, AfterLine, CmdInv, CmdTypeOK
  <2>2. /\ Cardinality(Glued') \in Nat
        /\ Cardinality(Glued') <= Cardinality(Glued) + 1
        /\ ~Dangling => Cardinality(Glued') = Cardinality(Glued)
    BY <2>1, AppendCounts DEF CmdInv
  <2>3. Cardinality(Glued') <= cuts
    BY <1>0, <2>1, <2>2 DEF GlueInv, GluedByAccident
  <2> QED
    BY <1>0, <1>1, <2>1, <2>3 DEF GlueInv, GluedByAccident
<1>2. CASE WriteNewline /\ UNCHANGED fails
  <2>1. at = "newline" /\ file' = Append(file, Newline) /\ cuts' = cuts
    BY <1>0, <1>2 DEF WriteNewline, Write, CmdInv, CmdTypeOK
  <2>2. Cardinality(Glued') = Cardinality(Glued)
    BY <2>1, AppendCounts DEF CmdInv
  <2>3. ~Dangling'
    BY <2>1 DEF Dangling, CmdInv, CmdTypeOK
  <2> QED
    BY <1>0, <1>2, <2>1, <2>2, <2>3 DEF GlueInv, GluedByAccident
<1>3. CASE fails' = fails + 1
  <2>1. file' = file
    BY <1>0, <1>3 DEF WriteLine, WriteNewline, Write
  <2>2. Glued' = Glued
    BY <2>1 DEF Glued
  <2>3. CASE WriteLine
    <3>1. at' = "newline" /\ cuts' = cuts
      BY <2>3 DEF WriteLine, AfterLine, historyVars
    <3> QED BY <2>2, <3>1 DEF GlueInv, GluedByAccident
  <2>4. CASE WriteNewline
    <3>1. cuts' = cuts + 1
      BY <1>0, <1>3, <2>4 DEF WriteNewline
    <3> QED BY <1>0, <2>2, <3>1 DEF GlueInv, GluedByAccident
  <2> QED BY <2>3, <2>4
<1> QED BY <1>1, <1>2, <1>3 DEF WriteLine, WriteNewline, Write

LEMMA NextGlue == CmdInv /\ GlueInv /\ [CmdNext]_cmdVars => GlueInv'
<1> SUFFICES ASSUME CmdInv, GlueInv, [CmdNext]_cmdVars PROVE GlueInv'
  OBVIOUS
<1>1. CASE WriteLine \/ WriteNewline
  BY <1>1, WriteGlue
<1>2. CASE Kill
  <2>1. Glued' = Glued /\ file' = file /\ at' = "down"
        /\ cuts' = IF at = "newline" THEN cuts + 1 ELSE cuts
    BY <1>2 DEF Kill, fileVars, Glued
  <2>2. Cardinality(Glued) \in Nat /\ cuts \in Nat /\ fails \in Nat
    BY GluedFinite DEF CmdInv, CmdTypeOK
  <2> QED
    BY <2>1, <2>2 DEF GlueInv, GluedByAccident, Dangling
<1>3. CASE Start \/ Detect \/ TakeNext \/ PrintEvent \/ Signal \/ ReturnOnSignal \/ UNCHANGED cmdVars
  <2>1. /\ file' = file /\ cuts' = cuts
        /\ at = "newline" => at' = at \/ at' = "newline"
        /\ at # "newline" => at' # "newline"
    BY <1>3 DEF Start, Detect, TakeNext, PrintEvent, Signal, ReturnOnSignal, cmdVars,
                fileVars, historyVars, AfterTake
  <2>2. Glued' = Glued /\ (Dangling' <=> Dangling)
    BY <2>1 DEF Glued, Dangling
  <2> QED
    BY <2>1, <2>2 DEF GlueInv, GluedByAccident
<1> QED BY <1>1, <1>2, <1>3 DEF CmdNext, MainStep

(* However often the command is killed, wherever main is, and whichever writes
   fail: the lines that two events share are no more than the kills between the
   two writes of a line and the newlines that could not be written. *)
THEOREM LinesAreToldApart == CmdSpec => []GluedByAccident
<1>1. CmdInit => GlueInv
  <2> SUFFICES ASSUME CmdInit PROVE GlueInv
    OBVIOUS
  <2>1. Glued = {} /\ ~Dangling /\ cuts = 0
    BY DEF CmdInit, Glued, Dangling
  <2> QED
    BY <2>1, FS_EmptySet DEF GlueInv, GluedByAccident
<1>2. GlueInv => GluedByAccident
  BY DEF GlueInv
<1> QED BY <1>1, <1>2, NextGlue, CmdAlwaysInv, PTL DEF CmdSpec
-----------------------------------------------------------------------------
(* What is kept of a sequence. *)

\* kept[n] is what is kept of the first n items.
KeptUpto(kept, s, S) ==
    /\ kept[0] = << >>
    /\ \A n \in 1..Len(s) : kept[n] = IF s[n] \in S THEN Append(kept[n - 1], s[n])
                                                   ELSE kept[n - 1]
    /\ \A n \in 0..Len(s) : kept[n] \in Seq(S)
    /\ Kept(s, S) = kept[Len(s)]

LEMMA KeptIs ==
    ASSUME NEW C, NEW S, NEW s \in Seq(C)
    PROVE  \E kept : KeptUpto(kept, s, S)
<1> DEFINE N == Len(s)
           V == Seq(S)
           Add(n, v) == IF s[n] \in S THEN Append(v, s[n]) ELSE v
           first == << >>
           Body(f) == [n \in 0..N |-> IF n = 0 THEN first ELSE Add(n, f[n - 1])]
           next == [n \in 1..N |-> [v \in V |-> Add(n, v)]]
           kept == CHOOSE f : f = Body(f)
<1>1. N \in Nat /\ first \in V
  OBVIOUS
<1>2. \A n \in 1..N : \A v \in V : Add(n, v) \in V
  OBVIOUS
<1>3. Kept(s, S) = kept[N]
  BY DEF Kept
<1> HIDE DEF N, V, Add, first
<1>4. PICK f : Recursive(f, N, V, first, next)
  <2>1. Succession(next, N, V)
    BY <1>2 DEF Succession
  <2> HIDE DEF next
  <2> QED
    BY <1>1, <2>1, RecursiveFunction
<1>5. f = Body(f)
  <2>1. f \in [0..N -> V] /\ f[0] = first /\ \A n \in 1..N : f[n] = next[n][f[n - 1]]
    BY <1>4 DEF Recursive
  <2>2. \A n \in 1..N : n - 1 \in 0..N /\ f[n - 1] \in V
    BY <1>1, <2>1
  <2>3. \A n \in 1..N : f[n] = Add(n, f[n - 1])
    BY <2>1, <2>2
  <2> HIDE DEF next
  <2>4. \A n \in 0..N : f[n] = IF n = 0 THEN first ELSE Add(n, f[n - 1])
    BY <1>1, <2>1, <2>3
  <2> QED
    BY <2>1, <2>4
<1>6. kept = Body(kept)
  <2> HIDE DEF Body
  <2> QED
    BY <1>5
<1> HIDE DEF kept
<1>7. /\ \A n \in 0..N : kept[n] = IF n = 0 THEN first ELSE Add(n, kept[n - 1])
      /\ DOMAIN kept = 0..N /\ kept = [n \in DOMAIN kept |-> kept[n]]
  <2> DEFINE g == Body(kept)
  <2>1. /\ \A n \in 0..N : g[n] = IF n = 0 THEN first ELSE Add(n, kept[n - 1])
        /\ g = [n \in 0..N |-> g[n]]
    OBVIOUS
  <2>2. kept = g
    BY <1>6
  <2> HIDE DEF g
  <2>3. kept = [n \in 0..N |-> kept[n]]
    BY <2>1, <2>2
  <2>4. \A n \in 0..N : kept[n] = IF n = 0 THEN first ELSE Add(n, kept[n - 1])
    BY <2>1, <2>2
  <2> QED
    BY <2>3, <2>4
<1>8. kept[0] = first /\ \A n \in 1..N : kept[n] = Add(n, kept[n - 1])
  BY <1>1, <1>7
<1>9. \A n \in 0..N : kept[n] \in V
  <2>1. kept[0] \in V /\ \A n \in 1..N : kept[n - 1] \in V => kept[n] \in V
    BY <1>1, <1>2, <1>8
  <2> QED
    BY <1>1, <2>1, RecursiveValues
<1> QED
  BY <1>3, <1>8, <1>9 DEF N, V, Add, first, KeptUpto

\* An item more is kept or not.
LEMMA KeptAppend ==
    ASSUME NEW C, NEW S, NEW s \in Seq(C), NEW c \in C
    PROVE  Kept(Append(s, c), S) = IF c \in S THEN Append(Kept(s, S), c) ELSE Kept(s, S)
<1> DEFINE t == Append(s, c)
           N == Len(s)
<1>1. /\ t \in Seq(C) /\ Len(t) = N + 1 /\ N \in Nat
      /\ \A n \in 1..N : t[n] = s[n]
      /\ t[N + 1] = c
  OBVIOUS
<1>2. (\E f : KeptUpto(f, s, S)) /\ (\E g : KeptUpto(g, t, S))
  <2> HIDE DEF t
  <2> QED
    BY <1>1, KeptIs
<1> HIDE DEF t
<1>3. PICK f, g : KeptUpto(f, s, S) /\ KeptUpto(g, t, S)
  BY <1>2
<1>4. /\ f[0] = << >>
      /\ \A n \in 1..N : f[n] = IF s[n] \in S THEN Append(f[n - 1], s[n]) ELSE f[n - 1]
      /\ Kept(s, S) = f[N]
  BY <1>3 DEF KeptUpto
<1>5. /\ g[0] = << >>
      /\ \A n \in 1..N + 1 : g[n] = IF t[n] \in S THEN Append(g[n - 1], t[n]) ELSE g[n - 1]
      /\ Kept(t, S) = g[N + 1]
  BY <1>1, <1>3 DEF KeptUpto
<1> HIDE DEF N
<1>6. \A n \in 0..N : g[n] = f[n]
  <2> DEFINE T == {m \in 0..N : g[m] = f[m]}
  <2>1. 0 \in T
    BY <1>1, <1>4, <1>5
  <2>2. ASSUME NEW n \in 1..N, n - 1 \in T
        PROVE  n \in T
    <3>1. n \in 1..N + 1 /\ n \in 0..N
      BY <1>1
    <3>2. g[n - 1] = f[n - 1] /\ t[n] = s[n]
      BY <1>1, <2>2
    <3>3. f[n] = IF s[n] \in S THEN Append(f[n - 1], s[n]) ELSE f[n - 1]
      BY <1>4
    <3>4. g[n] = IF t[n] \in S THEN Append(g[n - 1], t[n]) ELSE g[n - 1]
      BY <1>5, <3>1
    <3> QED
      BY <3>1, <3>2, <3>3, <3>4
  <2> HIDE DEF T
  <2>3. \A n \in 0..N : n \in T
    BY <1>1, <2>1, <2>2, Induction
  <2> QED
    BY <2>3 DEF T
<1>7. N \in 0..N /\ N + 1 \in 1..N + 1 /\ (N + 1) - 1 = N
  BY <1>1
<1>8. g[N] = f[N]
  BY <1>6, <1>7
<1>9. g[N + 1] = IF t[N + 1] \in S THEN Append(g[N], t[N + 1]) ELSE g[N]
  BY <1>5, <1>7
<1> QED
  BY <1>1, <1>4, <1>5, <1>8, <1>9 DEF t

LEMMA KeptNothing ==
    ASSUME NEW S
    PROVE  Kept(<< >>, S) = << >>
<1>1. << >> \in Seq(S) /\ Len(<< >>) = 0
  OBVIOUS
<1>2. PICK kept : KeptUpto(kept, << >>, S)
  BY <1>1, KeptIs
<1> QED
  BY <1>1, <1>2 DEF KeptUpto

LEMMA KeptType ==
    ASSUME NEW C, NEW S, NEW s \in Seq(C)
    PROVE  Kept(s, S) \in Seq(S)
<1>1. Len(s) \in 0..Len(s)
  OBVIOUS
<1> QED
  BY <1>1, KeptIs DEF KeptUpto

-----------------------------------------------------------------------------
(* The log and the terminal. *)

Shown == {e \in Event : Displayed(e)}

(* The channel's events go through main's hand into the log one by one, and the
   terminal is behind the log and the hand by the event in hand at most. *)
LogInv ==
    logging /\ fails = 0 =>
        /\ (Logged \o hand) \o chan = sent
        /\ at \in {"select", "newline"} => hand = << >>
        /\ \/ at # "print" /\ shown = Kept(Logged \o hand, Shown)
           \/ /\ at \in {"print", "down"}
              /\ Len(hand) = 1 /\ Displayed(Head(hand))
              /\ shown = Kept(Logged, Shown)

\* The end of a sequence, and what an item more does to it.
LEMMA Rest ==
    ASSUME NEW C, NEW s \in Seq(C), NEW b \in 0..Len(s), NEW c \in C
    PROVE  /\ SubSeq(s, b + 1, Len(s)) \in Seq(C)
           /\ SubSeq(Append(s, c), b + 1, Len(Append(s, c))) = Append(SubSeq(s, b + 1, Len(s)), c)
<1> DEFINE t == Append(s, c)
           n == Len(s)
<1>1. /\ n \in Nat /\ t \in Seq(C) /\ Len(t) = n + 1 /\ t[n + 1] = c
      /\ \A i \in 1..n : t[i] = s[i] /\ s[i] \in C
      /\ \A i \in 1 .. n + 1 : t[i] \in C
  BY AppendProperties
<1> HIDE DEF t, n
<1> DEFINE old == SubSeq(s, b + 1, n)
           new == SubSeq(t, b + 1, n + 1)
<1>2. b \in Nat /\ b <= n /\ b + 1 \in Int /\ n \in Int /\ n + 1 \in Int
  BY <1>1 DEF n
<1>3. \A i \in b + 1 .. n : s[i] \in C
  BY <1>1, <1>2
<1>4. \A i \in b + 1 .. n + 1 : t[i] \in C
  BY <1>1, <1>2
<1>5. /\ old \in Seq(C) /\ Len(old) = IF b + 1 <= n THEN n - (b + 1) + 1 ELSE 0
      /\ \A i \in 1 .. n - (b + 1) + 1 : old[i] = s[b + 1 + i - 1]
  BY <1>2, <1>3, SubSeqProperties
<1>6. /\ new \in Seq(C) /\ Len(new) = IF b + 1 <= n + 1 THEN n + 1 - (b + 1) + 1 ELSE 0
      /\ \A i \in 1 .. n + 1 - (b + 1) + 1 : new[i] = t[b + 1 + i - 1]
  BY <1>2, <1>4, SubSeqProperties
<1>7. Len(old) = n - b /\ Len(new) = n - b + 1
  BY <1>2, <1>5, <1>6
<1>8. /\ \A i \in 1 .. n - b : old[i] = s[b + i] /\ b + i \in 1..n
      /\ \A i \in 1 .. n - b + 1 : new[i] = t[b + i]
  <2>1. n - (b + 1) + 1 = n - b /\ n + 1 - (b + 1) + 1 = n - b + 1
    BY <1>2
  <2>2. \A i \in Int : b + 1 + i - 1 = b + i
    BY <1>2
  <2>3. \A i \in 1 .. n - b : b + i \in 1..n
    BY <1>2
  <2> QED
    BY <1>5, <1>6, <2>1, <2>2, <2>3
<1> HIDE DEF old, new
<1>9. /\ Append(old, c) \in Seq(C) /\ Len(Append(old, c)) = n - b + 1
      /\ \A i \in 1 .. n - b : Append(old, c)[i] = old[i]
      /\ Append(old, c)[n - b + 1] = c
  BY <1>5, <1>7, AppendProperties
<1>10. \A i \in 1 .. n - b + 1 : new[i] = Append(old, c)[i]
  <2>1. \A i \in 1 .. n - b : new[i] = Append(old, c)[i]
    <3>1. \A i \in 1 .. n - b : i \in 1 .. n - b + 1
      BY <1>2
    <3> QED
      BY <1>1, <1>8, <1>9, <3>1
  <2>2. new[n - b + 1] = c
    <3>1. n - b + 1 \in 1 .. n - b + 1 /\ b + (n - b + 1) = n + 1
      BY <1>2
    <3> QED
      BY <1>1, <1>8, <3>1
  <2>3. \A i \in 1 .. n - b + 1 : i \in 1 .. n - b \/ i = n - b + 1
    BY <1>2
  <2> QED
    BY <1>9, <2>1, <2>2, <2>3
<1>11. new = Append(old, c)
  BY <1>6, <1>7, <1>9, <1>10, SeqEqual
<1>12. SubSeq(t, b + 1, Len(t)) = new
  BY <1>1 DEF new
<1> QED
  BY <1>5, <1>11, <1>12 DEF old, n, t

LEMMA NewlineIsNoEvent == Newline \notin Event
<1>1. Newline.kind = "newline"
  BY DEF Newline
<1>2. \A e \in Event : e.kind # "newline"
  BY DEF Event, Kinds
<1> QED
  BY <1>1, <1>2

LEMMA LoggedType ==
    ASSUME CmdTypeOK
    PROVE  Logged \in Seq(Event)
<1>1. SubSeq(file, base + 1, Len(file)) \in Seq(Event \cup {Newline})
  <2> DEFINE Chunk == Event \cup {Newline}
  <2>1. file \in Seq(Chunk) /\ base \in 0..Len(file)
    BY DEF CmdTypeOK
  <2>2. Newline \in Chunk
    OBVIOUS
  <2> HIDE DEF Chunk
  <2>3. SubSeq(file, base + 1, Len(file)) \in Seq(Chunk)
    BY <2>1, <2>2, Rest
  <2> QED
    BY <2>3 DEF Chunk
<1> QED
  BY <1>1, KeptType DEF Logged

LEMMA KeptOfRest ==
    ASSUME NEW C, NEW S, NEW s \in Seq(C), NEW b \in 0..Len(s), NEW c \in C
    PROVE  Kept(SubSeq(Append(s, c), b + 1, Len(Append(s, c))), S) =
               LET kept == Kept(SubSeq(s, b + 1, Len(s)), S)
               IN  IF c \in S THEN Append(kept, c) ELSE kept
<1> DEFINE run == SubSeq(s, b + 1, Len(s))
<1>1. run \in Seq(C) /\ SubSeq(Append(s, c), b + 1, Len(Append(s, c))) = Append(run, c)
  BY Rest
<1> HIDE DEF run
<1>2. Kept(Append(run, c), S) = IF c \in S THEN Append(Kept(run, S), c) ELSE Kept(run, S)
  <2>1. run \in Seq(C)
    BY <1>1
  <2> QED
    BY <2>1, KeptAppend
<1> QED
  BY <1>1, <1>2 DEF run

\* A chunk more in the file is an event more in the log, or it is a newline.
LoggedWith(chunk) == Kept(SubSeq(Append(file, chunk), base + 1, Len(Append(file, chunk))), Event)

LEMMA LoggedAppend ==
    ASSUME CmdTypeOK, NEW chunk \in Event \cup {Newline}
    PROVE  LoggedWith(chunk) = IF chunk = Newline THEN Logged ELSE Append(Logged, chunk)
<1> DEFINE Chunk == Event \cup {Newline}
<1>1. file \in Seq(Chunk) /\ base \in 0..Len(file) /\ chunk \in Chunk
  BY DEF CmdTypeOK
<1>2. chunk = Newline <=> chunk \notin Event
  BY NewlineIsNoEvent
<1> HIDE DEF Chunk
<1>3. LoggedWith(chunk) = IF chunk \in Event THEN Append(Logged, chunk) ELSE Logged
  BY <1>1, KeptOfRest DEF LoggedWith, Logged
<1> QED
  BY <1>2, <1>3

LEMMA LoggedNext ==
    ASSUME NEW chunk, file' = Append(file, chunk), base' = base
    PROVE  Logged' = LoggedWith(chunk)
  BY DEF Logged, LoggedWith

(* The sequences that one step makes of those before it. *)
LEMMA Moved ==
    ASSUME NEW S, NEW s \in Seq(S), NEW t \in Seq(S), NEW e \in S
    PROVE  /\ s \o << >> = s
           /\ s \o << e >> = Append(s, e)
           /\ s \o Append(t, e) = Append(s \o t, e)
           /\ t # << >> => t = << Head(t) >> \o Tail(t)
<1>1. s \o << >> = s /\ s \o << e >> = Append(s, e)
  OBVIOUS
<1>2. s \o Append(t, e) = Append(s \o t, e)
  OBVIOUS
<1>3. t # << >> => t = << Head(t) >> \o Tail(t)
  OBVIOUS
<1> QED
  BY <1>1, <1>2, <1>3

LEMMA FrontOfAppend ==
    ASSUME NEW S, NEW s \in Seq(S), NEW e \in S
    PROVE  Append(s, e) # << >> /\ Front(Append(s, e)) = s
  BY DEF Front

\* An event in hand is all that is in hand.
LEMMA OneInHand ==
    ASSUME NEW S, NEW h \in Seq(S), Len(h) = 1
    PROVE  h = << Head(h) >> /\ Head(h) \in S /\ h # << >>
  OBVIOUS

LEMMA LogFollowsInv == CmdInv /\ LogInv => LogFollows /\ ShownIsLogged
<1> SUFFICES ASSUME CmdInv, LogInv, logging, fails = 0
             PROVE  /\ Logged \o hand \o chan = sent
                    /\ LET due == Kept(Logged \o hand, Shown)
                       IN  shown = due \/ (hand # << >> /\ due # << >> /\ shown = Front(due))
  BY DEF LogFollows, ShownIsLogged, Shown
<1>1. Logged \o hand \o chan = sent
  BY DEF LogInv
<1>2. CASE shown = Kept(Logged \o hand, Shown)
  BY <1>1, <1>2
<1>3. CASE Len(hand) = 1 /\ Displayed(Head(hand)) /\ shown = Kept(Logged, Shown)
  <2>1. Logged \in Seq(Event) /\ hand \in Seq(Event) /\ shown \in Seq(Event)
    BY LoggedType DEF CmdInv, CmdTypeOK
  <2>2. PICK e \in Event : hand = << e >> /\ hand # << >> /\ Head(hand) = e
    BY <1>3, <2>1, OneInHand
  <2>3. Logged \o hand = Append(Logged, e)
    BY <2>1, <2>2, Moved
  <2>4. e \in Shown
    BY <1>3, <2>2 DEF Shown
  <2>5. Kept(Logged \o hand, Shown) = Append(shown, e)
    BY <1>3, <2>1, <2>3, <2>4, KeptAppend
  <2>6. Append(shown, e) # << >> /\ Front(Append(shown, e)) = shown
    BY <2>1, FrontOfAppend
  <2> QED
    BY <1>1, <2>2, <2>5, <2>6
<1> QED
  BY <1>2, <1>3 DEF LogInv

(* The steps of main. *)
LEMMA MainLog ==
    ASSUME CmdInv, LogInv, MainStep
    PROVE  LogInv'
<1> SUFFICES ASSUME logging', fails' = 0
             PROVE  /\ (Logged' \o hand') \o chan' = sent'
                    /\ at' \in {"select", "newline"} => hand' = << >>
                    /\ \/ at' # "print" /\ shown' = Kept(Logged' \o hand', Shown')
                       \/ /\ at' \in {"print", "down"}
                          /\ Len(hand') = 1 /\ Displayed(Head(hand))'
                          /\ shown' = Kept(Logged', Shown')
  BY DEF LogInv
<1>1. /\ logging /\ fails = 0
      /\ secure' = secure /\ sent' = sent /\ base' = base /\ Shown' = Shown
      /\ Displayed(Head(hand))' = (secure' => Head(hand').kind = "ContextChanged")
  <2>1. fails \in Nat
    BY BoundsAssumption DEF CmdInv, CmdTypeOK
  <2>2. /\ secure' = secure /\ sent' = sent /\ base' = base /\ logging
        /\ fails' = fails \/ fails' = fails + 1
    BY DEF MainStep, TakeNext, PrintEvent, WriteLine, WriteNewline, Write, fileVars, historyVars
  <2> QED
    BY <2>1, <2>2 DEF Shown, Displayed
<1>2. /\ (Logged \o hand) \o chan = sent
      /\ at \in {"select", "newline"} => hand = << >>
      /\ at # "print" /\ at # "down" => shown = Kept(Logged \o hand, Shown)
      /\ at = "print" => Displayed(Head(hand)) /\ shown = Kept(Logged, Shown)
  BY <1>1 DEF LogInv
<1>3. /\ Logged \in Seq(Event) /\ hand \in Seq(Event) /\ chan \in Seq(Event) /\ shown \in Seq(Event)
      /\ at \in {"print", "line"} => Len(hand) = 1
  BY LoggedType DEF CmdInv, CmdTypeOK, CmdShape, StreamTypeOK
<1>4. CASE TakeNext
  <2>1. PICK e \in Event : /\ e = Head(chan) /\ chan = << e >> \o chan' /\ chan' \in Seq(Event)
                           /\ << e >> \in Seq(Event)
    BY <1>3, <1>4, Moved DEF TakeNext, TakeEvent
  <2>2. at = "select" /\ hand = << >> /\ Logged \o hand = Logged
    BY <1>2, <1>3, <1>4, Moved DEF TakeNext
  <2>3. /\ at' = IF Displayed(e) THEN "print" ELSE "line"
        /\ hand' = << e >> /\ Len(hand') = 1 /\ Head(hand') = e
    BY <1>1, <1>4, <2>1 DEF TakeNext, AfterTake
  <2>4. Logged' = Logged /\ shown' = shown
    BY <1>1, <1>4 DEF TakeNext, Logged, fileVars, historyVars
  <2>5. Logged' \o hand' = Append(Logged, e)
    BY <1>3, <2>3, <2>4, Moved
  <2>6. (Logged' \o hand') \o chan' = sent'
    <3>1. Logged \o chan = sent
      BY <1>2, <2>2
    <3>2. (Logged \o << e >>) \o chan' = Logged \o (<< e >> \o chan')
      BY <1>3, <2>1, ConcatAssociative
    <3> QED
      BY <1>1, <2>1, <2>3, <2>4, <3>1, <3>2
  <2>7. shown = Kept(Logged, Shown)
    BY <1>2, <2>2
  <2>8. CASE Displayed(e)
    <3>1. Displayed(Head(hand))'
      BY <1>1, <2>3, <2>8 DEF Displayed
    <3> QED
      BY <1>1, <2>3, <2>4, <2>6, <2>7, <2>8, <3>1
  <2>9. CASE ~Displayed(e)
    <3>1. Kept(Append(Logged, e), Shown) = Kept(Logged, Shown)
      BY <1>3, <2>9, KeptAppend DEF Shown
    <3> QED
      BY <1>1, <2>3, <2>4, <2>5, <2>6, <2>7, <2>9, <3>1
  <2> QED
    BY <2>8, <2>9
<1>5. CASE PrintEvent
  <2>1. PICK e \in Event : hand = << e >> /\ Head(hand) = e
    BY <1>3, <1>5, OneInHand DEF PrintEvent
  <2>2. /\ at = "print" /\ at' = "line" /\ hand' = hand /\ chan' = chan /\ Logged' = Logged
        /\ shown' = Append(shown, e)
    BY <1>1, <1>5, <2>1 DEF PrintEvent, Logged, fileVars
  <2>3. Logged \o hand = Append(Logged, e) /\ e \in Shown
    BY <1>2, <1>3, <2>1, <2>2, Moved DEF Shown
  <2>4. Kept(Append(Logged, e), Shown) = Append(shown, e)
    BY <1>2, <1>3, <2>2, <2>3, KeptAppend
  <2> QED
    BY <1>1, <1>2, <2>2, <2>3, <2>4
<1>6. CASE WriteLine
  <2>1. PICK e \in Event : hand = << e >> /\ Head(hand) = e
    BY <1>3, <1>6, OneInHand DEF WriteLine
  <2>2. /\ at = "line" /\ at' = "newline" /\ hand' = << >> /\ chan' = chan /\ shown' = shown
        /\ file' = Append(file, e)
    <3>1. fails' # fails + 1
      BY <1>1
    <3> QED
      BY <1>1, <1>6, <2>1, <3>1 DEF WriteLine, Write, AfterLine, historyVars
  <2>3. Logged' = Append(Logged, e)
    <3>1. e # Newline
      BY NewlineIsNoEvent
    <3>2. LoggedWith(e) = Append(Logged, e)
      BY <3>1, LoggedAppend DEF CmdInv
    <3> QED
      BY <1>1, <2>2, <3>2, LoggedNext
  <2>4. Logged \o hand = Append(Logged, e) /\ Logged' \o hand' = Append(Logged, e)
    <3>1. Append(Logged, e) \in Seq(Event)
      BY <1>3
    <3> QED
      BY <1>3, <2>1, <2>2, <2>3, <3>1, Moved
  <2> QED
    BY <1>1, <1>2, <2>2, <2>4
<1>7. CASE WriteNewline
  <2>1. /\ at = "newline" /\ at' = "select" /\ hand' = hand /\ hand = << >> /\ chan' = chan
        /\ shown' = shown /\ file' = Append(file, Newline)
    <3>1. fails' # fails + 1
      BY <1>1
    <3> QED
      BY <1>1, <1>2, <1>7, <3>1 DEF WriteNewline, Write, historyVars
  <2>2. Logged' = Logged
    <3>1. LoggedWith(Newline) = Logged
      BY LoggedAppend DEF CmdInv
    <3> QED
      BY <1>1, <2>1, <3>1, LoggedNext
  <2> QED
    BY <1>1, <1>2, <2>1, <2>2
<1> QED
  BY <1>4, <1>5, <1>6, <1>7 DEF MainStep

LEMMA NextLog == CmdInv /\ LogInv /\ [CmdNext]_cmdVars => LogInv'
<1> SUFFICES ASSUME CmdInv, LogInv, [CmdNext]_cmdVars
             PROVE  LogInv'
  OBVIOUS
<1>1. CASE MainStep
  BY <1>1, MainLog
<1>2. CASE Start
  <2>1. /\ at' = "select" /\ chan' = << >> /\ hand' = << >> /\ sent' = << >> /\ shown' = << >>
        /\ file' = file /\ base' = Len(file)
    BY <1>2 DEF Start, fileVars
  <2>2. Logged' = << >>
    <3>1. Len(file) \in Int /\ Len(file) + 1 \in Int /\ Len(file) < Len(file) + 1
      BY DEF CmdInv, CmdTypeOK
    <3>2. SubSeq(file, Len(file) + 1, Len(file)) = << >>
      BY <3>1, SubSeqEmpty
    <3> QED
      BY <2>1, <3>2, KeptNothing DEF Logged
  <2>3. << >> \o << >> = << >>
    OBVIOUS
  <2> QED
    BY <2>1, <2>2, <2>3, KeptNothing DEF LogInv
<1>3. CASE Detect
  <2>1. PICK e : chan' = Append(chan, e) /\ e \in Event
    BY <1>3 DEF Detect, Emit, EmitStarted, EmitContextChanged, EmitExited, Send, Ev, Event, Kinds
  <2>2. /\ UNCHANGED <<at, secure, logging, hand, file, fails, shown, base>>
        /\ sent' = Append(sent, Last(chan'))
    BY <1>3 DEF Detect, fileVars
  <2>3. Logged \in Seq(Event) /\ hand \in Seq(Event) /\ chan \in Seq(Event)
    BY LoggedType DEF CmdInv, CmdTypeOK, StreamTypeOK
  <2>4. Last(chan') = e
    BY <2>1, <2>3 DEF Last
  <2>5. Logged' = Logged /\ Shown' = Shown /\ (Displayed(Head(hand))' <=> Displayed(Head(hand)))
    BY <2>2 DEF Logged, Shown, Displayed
  <2>6. (Logged \o hand) \o Append(chan, e) = Append((Logged \o hand) \o chan, e)
    <3>1. Logged \o hand \in Seq(Event)
      BY <2>3
    <3> QED
      BY <2>1, <2>3, <3>1, Moved
  <2> QED
    BY <2>1, <2>2, <2>4, <2>5, <2>6 DEF LogInv
<1>4. CASE Signal \/ UNCHANGED cmdVars
  <2>1. UNCHANGED <<at, secure, logging, hand, file, fails, shown, base, chan, sent>>
    BY <1>4 DEF Signal, cmdVars, fileVars
  <2>2. Logged' = Logged /\ Shown' = Shown /\ (Displayed(Head(hand))' <=> Displayed(Head(hand)))
    BY <2>1 DEF Logged, Shown, Displayed
  <2> QED
    BY <2>1, <2>2 DEF LogInv
<1>5. CASE ReturnOnSignal \/ Kill
  <2>1. UNCHANGED <<secure, logging, hand, file, fails, shown, base, chan, sent>>
    BY <1>5 DEF ReturnOnSignal, CloseStop, Kill, fileVars, historyVars
  <2>2. Logged' = Logged /\ Shown' = Shown /\ (Displayed(Head(hand))' <=> Displayed(Head(hand)))
    BY <2>1 DEF Logged, Shown, Displayed
  <2>3. at' = "down"
    BY <1>5 DEF ReturnOnSignal, Kill
  <2> QED
    BY <2>1, <2>2, <2>3 DEF LogInv
<1> QED
  BY <1>1, <1>2, <1>3, <1>4, <1>5 DEF CmdNext

LEMMA CmdAlwaysLog == CmdSpec => [](CmdInv /\ LogInv)
<1>1. CmdInit => LogInv
  BY DEF CmdInit, LogInv
<1> QED
  BY <1>1, CmdInitInv, CmdNextInv, NextLog, PTL DEF CmdSpec

(* However main, the Watcher, signals and kills are interleaved, and over all
   runs on one file: the log of a run is the Watcher's events in their order, up
   to the one in hand and those in the channel. *)
THEOREM LogFollowsAlways == CmdSpec => []LogFollows
  BY CmdAlwaysLog, LogFollowsInv, PTL

(* And the terminal showed what the log holds, as the mode has it, but for the
   event in hand. *)
THEOREM ShownIsLoggedAlways == CmdSpec => []ShownIsLogged
  BY CmdAlwaysLog, LogFollowsInv, PTL
=============================================================================
