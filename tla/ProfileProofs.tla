---------------------------- MODULE ProfileProofs ----------------------------
(***************************************************************************)
(* What the interleaving of reads and changes can never do to a profile,   *)
(* for all processes and any number of changes and PID reuses: the types,  *)
(* the origin of every reason, and the ceiling of the quick score.         *)
(***************************************************************************)
EXTENDS Profile, TLAPS

\* Before ReadProcess nothing was read.
Fresh ==
    at = "process" => /\ access = << >> /\ ok = {} /\ found = {} /\ level = 0
                      /\ ~kernel

\* There is no risk but the one that Score leaves.
RiskLast == at # "done" => risk = NoScore

ProbesLeft == at = "probe" => Len(access) < 9

\* What the process is now belongs to the history.
Recorded ==
    at # "process" => \A p \in target : /\ p.flags \subseteq held
                                        /\ Flags \ p.flags \subseteq lacked
                                        /\ p.caps \in levels

\* What was read, and what a successful read did not find, does so too.
Grounded ==
    at # "process" =>
        /\ found \subseteq held
        /\ level = 0 \/ level \in levels
        /\ "status" \in ok => {"no_new_privs", "seccomp"} \subseteq found \cup lacked
        /\ "attr" \in ok => "lsm" \in found \cup lacked

\* The quick score reads the status file only.
Narrow == quick => /\ found \cap {"rwx", "anon", "env"} = {}
                   /\ at \in {"process", "status", "score", "done"}
                   /\ risk.score <= 50

PInv ==
    /\ ProfileTypeOK /\ Fresh /\ RiskLast /\ ProbesLeft /\ Recorded /\ Grounded /\ Narrow
    /\ ReasonsHold

\* Masks are small numbers throughout.
USE DEF Full, Interesting

(* The points of a reason, by its name, and the most they can come to. *)
LEMMA PointsBounded ==
    ASSUME level \in Nat
    PROVE  /\ Points("root") \in {0, 10} /\ Points("no_new_privs") \in {0, 5}
           /\ Points("seccomp") \in {0, 10} /\ Points("lsm") \in {0, 5}
           /\ Points("rwx") \in {0, 20} /\ Points("anon") \in {0, 15}
           /\ Points("env") \in {0, 5}
           /\ Points("full") \in 0..20 /\ Points("caps") \in 0..20
           /\ Points("full") = 0 \/ Points("caps") = 0
<1>1. CapPoints(level) \in 0..20
  BY DEF CapPoints
<1>2. "full" \in Added => "caps" \notin Added
  BY DEF Added
<1> QED
  BY <1>1, <1>2 DEF Points

(* ScoreProcess returns a score of at most 90. *)
LEMMA TotalBounded ==
    ASSUME level \in Nat
    PROVE  Total \in 0..90
BY PointsBounded DEF Total

(* Without the flags that maps and environ show, at most 50 remain. *)
LEMMA QuickBounded ==
    ASSUME level \in Nat, found \cap {"rwx", "anon", "env"} = {}
    PROVE  Total \in 0..50
<1>1. Points("rwx") = 0 /\ Points("anon") = 0 /\ Points("env") = 0
  BY DEF Points, Added
<1> QED
  BY <1>1, PointsBounded DEF Total

(* A risk is a record of its type. *)
LEMMA ScoreTyped ==
    ASSUME level \in 0..Full
    PROVE  ScoreProcess \in [applicable : BOOLEAN, score : 0..90, reasons : SUBSET Reasons]
<1>1. Total \in 0..90
  BY TotalBounded
<1>2. Added \subseteq Reasons
  BY DEF Added, Reasons
<1> QED
  BY <1>1, <1>2 DEF ScoreProcess, QuickRiskFails, NoScore

-----------------------------------------------------------------------------
LEMMA InitPInv == ProfileInit => PInv
<1> SUFFICES ASSUME ProfileInit PROVE PInv
  OBVIOUS
<1> USE DEF ProfileInit
<1>1. target \subseteq Process /\ \A p, q \in target : p = q
  BY ShapesAssumption
<1>2. risk \in [applicable : BOOLEAN, score : 0..90, reasons : SUBSET Reasons]
  BY DEF NoScore
<1>3. access \in Seq(AccessStates) /\ Len(access) <= 9
  OBVIOUS
<1>4. ProfileTypeOK
  <2>1. nchanges \in 0..MaxChanges /\ level \in 0..Full /\ levels \subseteq 0..Full
    BY ChangesAssumption
  <2>2. quick \in BOOLEAN /\ kernel \in BOOLEAN /\ quiet \in BOOLEAN
    BY Zenon
  <2> QED
    BY <1>1, <1>2, <1>3, <2>1, <2>2 DEF ProfileTypeOK, Steps
<1>5. Fresh /\ RiskLast /\ ProbesLeft /\ Recorded /\ Grounded /\ Narrow /\ ReasonsHold
  BY DEF Fresh, RiskLast, ProbesLeft, Recorded, Grounded, Narrow, ReasonsHold, Scored, NoScore
<1> QED
  BY <1>4, <1>5 DEF PInv

(* A change of the process extends the history and touches nothing read. *)
LEMMA BecomesKeeps ==
    ASSUME PInv, NEW next \in SUBSET Process, \A p, q \in next : p = q, Becomes(next)
    PROVE  PInv'
<1> USE DEF Becomes
<1>1. held' \subseteq Flags /\ lacked' \subseteq Flags /\ levels' \subseteq 0..Full
  <2>1. \A p \in next : p.flags \subseteq Flags /\ p.caps \in 0..Full
    BY DEF Process
  <2>2. UNION {p.flags : p \in next} \subseteq Flags /\ {p.caps : p \in next} \subseteq 0..Full
    BY <2>1
  <2>3. UNION {Flags \ p.flags : p \in next} \subseteq Flags
    OBVIOUS
  <2> QED
    BY <2>2, <2>3 DEF PInv, ProfileTypeOK
<1>2. nchanges' \in 0..MaxChanges
  BY ChangesAssumption DEF PInv, ProfileTypeOK
<1>3. ProfileTypeOK'
  BY <1>1, <1>2 DEF PInv, ProfileTypeOK
<1>4. Recorded' /\ Grounded'
  BY DEF PInv, Recorded, Grounded
<1>5. Fresh' /\ RiskLast' /\ ProbesLeft' /\ Narrow' /\ ReasonsHold'
  BY DEF PInv, Fresh, RiskLast, ProbesLeft, Narrow, ReasonsHold, Scored, NoScore
<1> QED
  BY <1>3, <1>4, <1>5 DEF PInv

(* So does every step of the machine. *)
LEMMA MachineKeeps == PInv /\ Machine => PInv'
<1> SUFFICES ASSUME PInv, Machine PROVE PInv'
  OBVIOUS
<1>1. target \subseteq Process
  BY DEF PInv, ProfileTypeOK
<1>2. CASE \E f \in Flags \ {"kernel"} : Toggle(f)
  <2>1. PICK f \in Flags \ {"kernel"} : Toggle(f)
    BY <1>2
  <2>2. PICK p \in target :
          Becomes({[p EXCEPT !.flags = IF f \in @ THEN @ \ {f} ELSE @ \cup {f}]})
    BY <2>1 DEF Toggle
  <2>3. [p EXCEPT !.flags = IF f \in @ THEN @ \ {f} ELSE @ \cup {f}] \in Process
    BY <1>1 DEF Process
  <2> QED
    BY <2>2, <2>3, BecomesKeeps
<1>3. CASE \E l \in Levels : Recap(l)
  <2>1. PICK l \in Levels : Recap(l)
    BY <1>3
  <2>2. PICK p \in target : Becomes({[p EXCEPT !.caps = l]})
    BY <2>1 DEF Recap
  <2>3. [p EXCEPT !.caps = l] \in Process
    BY <1>1, ShapesAssumption DEF Process
  <2> QED
    BY <2>2, <2>3, BecomesKeeps
<1>4. CASE Exit
  BY <1>4, BecomesKeeps DEF Exit
<1>5. CASE \E s \in Shapes : Reuse(s)
  <2>1. PICK s \in Shapes : Becomes({s})
    BY <1>5 DEF Reuse
  <2> QED
    BY <2>1, ShapesAssumption, BecomesKeeps
<1> QED
  BY <1>2, <1>3, <1>4, <1>5 DEF Machine

(* ReadProcess begins the history. *)
LEMMA ReadProcessKeeps == PInv /\ ReadProcess => PInv'
<1> SUFFICES ASSUME PInv, ReadProcess PROVE PInv'
  OBVIOUS
<1>1. PICK p \in target : /\ kernel' = ("kernel" \in p.flags)
                          /\ found' = p.flags \cap {"root"}
                          /\ held' = p.flags /\ lacked' = Flags \ p.flags /\ levels' = {p.caps}
  BY DEF ReadProcess
<1>2. p \in Process /\ \A q \in target : q = p
  BY DEF PInv, ProfileTypeOK
<1>3. ProfileTypeOK'
  BY <1>1, <1>2 DEF ReadProcess, QuickFirst, PInv, ProfileTypeOK, Process, world, Steps
<1>4. Fresh' /\ RiskLast' /\ ProbesLeft' /\ Narrow'
  BY <1>1 DEF ReadProcess, QuickFirst, PInv, Fresh, RiskLast, ProbesLeft, Narrow
<1>5. Recorded' /\ Grounded'
  BY <1>1, <1>2 DEF ReadProcess, QuickFirst, PInv, Fresh, Recorded, Grounded, world
<1>6. ReasonsHold'
  BY <1>4 DEF ReadProcess, QuickFirst, ReasonsHold, Scored
<1> QED
  BY <1>3, <1>4, <1>5, <1>6 DEF PInv

(* A probe only lengthens the accessibility report. *)
LEMMA ProbeKeeps == PInv /\ Probe => PInv'
<1> SUFFICES ASSUME PInv, Probe PROVE PInv'
  OBVIOUS
<1>1. PICK err \in Outcomes(Probes[Len(access) + 1]) : access' = Append(access, ClassifyErr(err))
  BY DEF Probe
<1>2. ClassifyErr(err) \in AccessStates
  BY DEF ClassifyErr, AccessStates
<1>3. access \in Seq(AccessStates) /\ Len(access) < 9
  BY DEF PInv, ProfileTypeOK, ProbesLeft, Probe
<1>4. access' \in Seq(AccessStates) /\ Len(access') = Len(access) + 1
  BY <1>1, <1>2, <1>3
<1>5. Len(access') <= 9 /\ ProbesLeft'
  BY <1>3, <1>4 DEF Probe, Probes, ProbesLeft
<1>6. ProfileTypeOK'
  BY <1>4, <1>5 DEF Probe, PInv, ProfileTypeOK, world, history, Steps
<1>7. Fresh' /\ RiskLast' /\ Narrow' /\ Recorded' /\ Grounded' /\ ReasonsHold'
  BY DEF Probe, PInv, Fresh, RiskLast, Narrow, Recorded, Grounded, ReasonsHold, Scored,
         world, history, NoScore
<1> QED
  BY <1>5, <1>6, <1>7 DEF PInv

-----------------------------------------------------------------------------
(* A read adds one source and flags of the process, which the history has. *)
LEMMA ReadFinds ==
    ASSUME PInv, NEW s \in Sources, NEW shown \in SUBSET Flags, NEW next \in Steps,
           at # "process", Read(s, shown, next)
    PROVE  /\ ok' \subseteq Sources /\ ok' \subseteq ok \cup {s}
           /\ found \subseteq found' /\ found' \subseteq found \cup shown
           /\ found' \subseteq held
           /\ s \in ok' \ ok => shown \subseteq found' \cup lacked
<1>1. CASE Answers(s)
  <2>1. /\ ok' = ok \cup {s}
        /\ found' = found \cup UNION {p.flags \cap shown : p \in target}
    BY <1>1 DEF Read
  <2>2. PICK p \in target : TRUE
    BY <1>1 DEF Answers, Outcomes
  <2>3. p.flags \subseteq held /\ Flags \ p.flags \subseteq lacked
    BY DEF PInv, Recorded
  <2>4. \A q \in target : q = p
    BY DEF PInv, ProfileTypeOK
  <2>5. UNION {q.flags \cap shown : q \in target} = p.flags \cap shown
    BY <2>4
  <2> QED
    BY <2>1, <2>3, <2>5 DEF PInv, ProfileTypeOK, Grounded
<1>2. CASE ~Answers(s)
  BY <1>2 DEF Read, PInv, ProfileTypeOK, Grounded
<1> QED
  BY <1>1, <1>2

(* The parts of the invariant that a read other than that of the status file
   keeps whatever it reads. *)
LEMMA ReadKeeps ==
    ASSUME PInv, NEW s \in {"attr", "maps", "environ"}, NEW shown \in SUBSET Flags,
           NEW next \in Steps \ {"process", "probe", "done"},
           at \in Steps \ {"process", "probe", "done"}, ~quick,
           s = "attr" => shown = {"lsm"},
           Read(s, shown, next), UNCHANGED level
    PROVE  PInv'
<1>1. s \in Sources
  BY DEF Sources
<1>2. /\ ok' \subseteq Sources /\ ok' \subseteq ok \cup {s}
      /\ found \subseteq found' /\ found' \subseteq found \cup shown
      /\ found' \subseteq held
      /\ s \in ok' \ ok => shown \subseteq found' \cup lacked
  BY <1>1, ReadFinds
<1>3. at' = next /\ UNCHANGED <<target, nchanges, quick, kernel, access, risk, held, lacked, levels, quiet>>
  BY DEF Read, world, history
<1>4. ProfileTypeOK'
  BY <1>2, <1>3 DEF PInv, ProfileTypeOK
<1>5. Fresh' /\ RiskLast' /\ ProbesLeft' /\ Narrow' /\ Recorded' /\ ReasonsHold'
  BY <1>2, <1>3 DEF PInv, Fresh, RiskLast, ProbesLeft, Narrow, Recorded, ReasonsHold, Scored, NoScore
<1>6. Grounded'
  BY <1>2, <1>3 DEF PInv, Grounded
<1> QED
  BY <1>4, <1>5, <1>6 DEF PInv

(* ReadStatusExtra reads the mask as well. *)
LEMMA StatusKeeps == PInv /\ ReadStatusExtra => PInv'
<1> SUFFICES ASSUME PInv, ReadStatusExtra PROVE PInv'
  OBVIOUS
<1> DEFINE next == IF quick THEN "score" ELSE "lsm"
<1>1. Read("status", {"no_new_privs", "seccomp"}, next) /\ at = "status"
  BY DEF ReadStatusExtra
<1>2. "status" \in Sources /\ next \in Steps /\ {"no_new_privs", "seccomp"} \subseteq Flags
  BY DEF Sources, Steps, Flags, Signals
<1>3. /\ ok' \subseteq Sources /\ ok' \subseteq ok \cup {"status"}
      /\ found \subseteq found' /\ found' \subseteq found \cup {"no_new_privs", "seccomp"}
      /\ found' \subseteq held
      /\ "status" \in ok' \ ok => {"no_new_privs", "seccomp"} \subseteq found' \cup lacked
  BY <1>1, <1>2, ReadFinds
<1>4. at' = next /\ UNCHANGED <<target, nchanges, quick, kernel, access, risk, held, lacked, levels, quiet>>
  BY <1>1 DEF Read, world, history
<1>5. level' = level \/ \E p \in target : level' = p.caps
  BY DEF ReadStatusExtra
<1>6. level' \in 0..Full /\ (level' = 0 \/ level' \in levels)
  BY <1>1, <1>5 DEF PInv, ProfileTypeOK, Process, Recorded, Grounded
<1>7. ProfileTypeOK'
  BY <1>2, <1>3, <1>4, <1>6 DEF PInv, ProfileTypeOK
<1>8. Fresh' /\ RiskLast' /\ ProbesLeft' /\ Narrow' /\ Recorded' /\ ReasonsHold'
  BY <1>1, <1>3, <1>4 DEF PInv, Fresh, RiskLast, ProbesLeft, Narrow, Recorded, ReasonsHold, Scored, NoScore
<1>9. Grounded'
  BY <1>1, <1>3, <1>4, <1>6 DEF PInv, Grounded
<1> QED
  BY <1>7, <1>8, <1>9 DEF PInv

-----------------------------------------------------------------------------
(* The reasons are taken from what was read, so they hold. *)
LEMMA ScoreKeeps == PInv /\ Score => PInv'
<1> SUFFICES ASSUME PInv, Score PROVE PInv'
  OBVIOUS
<1>1. /\ at = "score" /\ at' = "done" /\ risk' = ScoreProcess
      /\ UNCHANGED <<target, nchanges, quick, kernel, access, ok, found, level, held, lacked, levels, quiet>>
  BY DEF Score, world, history
<1>2. level \in 0..Full /\ level \in Nat
  BY DEF PInv, ProfileTypeOK
<1>3. ProfileTypeOK'
  BY <1>1, <1>2, ScoreTyped DEF PInv, ProfileTypeOK, Steps
<1>4. Fresh' /\ RiskLast' /\ ProbesLeft' /\ Recorded' /\ Grounded'
  BY <1>1 DEF PInv, Fresh, RiskLast, ProbesLeft, Recorded, Grounded
<1>5. ReasonsHold'
  <2> SUFFICES ASSUME Scored'
      PROVE  /\ Added \cap {"root", "rwx", "anon", "env"} \subseteq held
             /\ "full" \in Added => Full \in levels
             /\ "caps" \in Added => levels \cap 1..Interesting # {}
             /\ "seccomp" \in Added => "seccomp" \in lacked
             /\ "no_new_privs" \in Added => "no_new_privs" \in lacked \/ "status" \notin ok
             /\ "lsm" \in Added => "lsm" \in lacked \/ "attr" \notin ok
    BY <1>1 DEF ReasonsHold, Scored, ScoreProcess, QuickRiskFails, NoScore
  <2>1. /\ found \subseteq held
        /\ level = 0 \/ level \in levels
        /\ "status" \in ok => {"no_new_privs", "seccomp"} \subseteq found \cup lacked
        /\ "attr" \in ok => "lsm" \in found \cup lacked
    BY <1>1 DEF PInv, Grounded
  <2>2. "full" \in Added => Full \in levels
    BY <1>2, <2>1 DEF Added, HasFullCapabilitySet
  <2>3. "caps" \in Added => levels \cap 1..Interesting # {}
    <3> SUFFICES ASSUME "caps" \in Added PROVE level \in levels \cap 1..Interesting
      OBVIOUS
    <3>1. level # Full /\ level > 0
      BY DEF Added, HasFullCapabilitySet
    <3> QED
      BY <1>2, <2>1, <3>1
  <2>4. "seccomp" \in Added => "seccomp" \in lacked
    BY <2>1 DEF Added, SeccompEnabled
  <2> QED
    BY <2>1, <2>2, <2>3, <2>4 DEF Added
<1>6. Narrow'
  <2> SUFFICES ASSUME quick PROVE /\ found \cap {"rwx", "anon", "env"} = {}
                                  /\ ScoreProcess.score <= 50
    BY <1>1 DEF Narrow
  <2>1. found \cap {"rwx", "anon", "env"} = {}
    BY DEF PInv, Narrow
  <2>2. Total \in 0..50
    BY <1>2, <2>1, QuickBounded
  <2> QED
    BY <2>1, <2>2 DEF ScoreProcess, QuickRiskFails, NoScore
<1> QED
  BY <1>3, <1>4, <1>5, <1>6 DEF PInv

LEMMA StutterKeepsPInv == PInv /\ UNCHANGED profileVars => PInv'
BY DEF PInv, ProfileTypeOK, Fresh, RiskLast, ProbesLeft, Recorded, Grounded, Narrow,
       ReasonsHold, Scored, NoScore, profileVars

(* The other reads, of the full profile only, and all steps together. *)
LEMMA NextKeepsPInv == PInv /\ [ProfileNext]_profileVars => PInv'
<1> SUFFICES ASSUME PInv, [ProfileNext]_profileVars PROVE PInv'
  OBVIOUS
<1>1. {"lsm"} \subseteq Flags /\ {"rwx", "anon"} \subseteq Flags /\ {"env"} \subseteq Flags
  BY DEF Flags, Signals
<1>2. {"lsm", "maps", "environ", "score"} \subseteq Steps \ {"process", "probe", "done"}
  BY DEF Steps
<1>3. CASE ReadLSMContext
  <2>1. at = "lsm" /\ ~quick
    BY <1>3 DEF ReadLSMContext, PInv, Narrow
  <2> QED
    BY <1>1, <1>2, <1>3, <2>1, ReadKeeps DEF ReadLSMContext
<1>4. CASE ReadMaps
  <2>1. at = "maps" /\ ~quick
    BY <1>4 DEF ReadMaps, PInv, Narrow
  <2> QED
    BY <1>1, <1>2, <1>4, <2>1, ReadKeeps DEF ReadMaps
<1>5. CASE ReadEnviron
  <2>1. at = "environ" /\ ~quick
    BY <1>5 DEF ReadEnviron, PInv, Narrow
  <2> QED
    BY <1>1, <1>2, <1>5, <2>1, ReadKeeps DEF ReadEnviron
<1> QED
  BY <1>3, <1>4, <1>5, MachineKeeps, ReadProcessKeeps, ProbeKeeps, StatusKeeps, ScoreKeeps,
     StutterKeepsPInv DEF ProfileNext

(* The inductive invariant holds always. *)
LEMMA ProfileInvariance == ProfileSpec => []PInv
BY InitPInv, NextKeepsPInv, PTL DEF ProfileSpec

-----------------------------------------------------------------------------
(* Type correctness: the score never exceeds 90, and one process at most has
   the PID. *)
THEOREM ProfileTypeCorrect == ProfileSpec => []ProfileTypeOK
<1>1. PInv => ProfileTypeOK
  BY DEF PInv
<1> QED
  BY <1>1, ProfileInvariance, PTL

(* Whatever changes during the reads, each printed reason was true of the
   PID's process at some moment, or names a protection that was not read. *)
THEOREM ReasonsAlwaysHold == ProfileSpec => []ReasonsHold
<1>1. PInv => ReasonsHold
  BY DEF PInv
<1> QED
  BY <1>1, ProfileInvariance, PTL

(* The quick score never has the label HIGH, whatever the process. *)
THEOREM QuickScoreNeverHigh == ProfileSpec => []QuickNeverHigh
<1>1. PInv => QuickNeverHigh
  <2> SUFFICES ASSUME PInv, quick PROVE Label(risk) # "HIGH"
    BY DEF QuickNeverHigh
  <2>1. risk.score \in 0..90 /\ risk.score <= 50
    BY DEF PInv, ProfileTypeOK, Narrow
  <2> QED
    BY <2>1 DEF Label
<1> QED
  BY <1>1, ProfileInvariance, PTL

-----------------------------------------------------------------------------
(* A full profile of a process that does not change. *)

\* The flags that the reads so far show of a process p, and the sources read.
Shown(p) ==
    (IF at = "process" THEN {} ELSE {"root"})
    \cup (IF at \in {"lsm", "maps", "environ", "score", "done"}
          THEN {"no_new_privs", "seccomp"} ELSE {})
    \cup (IF at \in {"maps", "environ", "score", "done"} THEN {"lsm"} ELSE {})
    \cup (IF "inspectable" \in p.flags
          THEN (IF at \in {"environ", "score", "done"} THEN {"rwx", "anon"} ELSE {})
               \cup (IF at \in {"score", "done"} THEN {"env"} ELSE {})
          ELSE {})

Opened(p) ==
    (IF at \in {"lsm", "maps", "environ", "score", "done"} THEN {"status"} ELSE {})
    \cup (IF at \in {"maps", "environ", "score", "done"} THEN {"attr"} ELSE {})
    \cup (IF "inspectable" \in p.flags
          THEN (IF at \in {"environ", "score", "done"} THEN {"maps"} ELSE {})
               \cup (IF at \in {"score", "done"} THEN {"environ"} ELSE {})
          ELSE {})

\* What the probe of source s says of p while it runs.
Access(p, s) == IF s \in Gated /\ "inspectable" \notin p.flags THEN "restricted" ELSE "readable"

\* What has been read is what the process still is.
QuietReads ==
    quiet /\ ~quick =>
        /\ target # {}
        /\ at \notin {"process", "probe"} => Len(access) = 9
        /\ \A p \in target :
              /\ at # "process" => (kernel <=> "kernel" \in p.flags)
              /\ found = p.flags \cap Shown(p)
              /\ ok = Opened(p)
              /\ at \notin {"process", "probe", "status"} => level = p.caps
              /\ \A i \in {1, 4, 5} : i <= Len(access) => access[i] = Access(p, Probes[i])

\* What was scored is what was read.
ScoredIsRead == at = "done" => risk = ScoreProcess

LEMMA QuietReadsInit == ProfileInit => QuietReads
  BY DEF ProfileInit, QuietReads, Shown, Opened

\* How /proc answers for a running process that is asked for s.
LEMMA QuietAnswers ==
    ASSUME PInv, NEW p \in target, NEW s \in {"status", "attr", "maps", "environ"}
    PROVE  /\ target = {p} /\ p \in Process
           /\ Answers(s) <=> ~(s \in {"maps", "environ"} /\ "inspectable" \notin p.flags)
           /\ \A err \in Outcomes(s) : ClassifyErr(err) = Access(p, s)
<1>1. target = {p} /\ p \in Process
  BY DEF PInv, ProfileTypeOK
<1>2. Outcomes(s) = IF s \in {"maps", "environ"} /\ "inspectable" \notin p.flags
                    THEN {"EACCES", "EPERM"} ELSE {"nil"}
  BY <1>1 DEF Outcomes, Gated
<1> QED
  BY <1>1, <1>2 DEF Answers, ClassifyErr, Access, Gated

\* A read of source s in full: what it adds.
LEMMA QuietRead ==
    ASSUME PInv, NEW p \in target, NEW s \in {"status", "attr", "maps", "environ"},
           NEW shown, NEW next, Read(s, shown, next)
    PROVE  /\ at' = next /\ UNCHANGED <<target, quick, kernel, access, quiet, risk>>
           /\ IF s \in {"maps", "environ"} /\ "inspectable" \notin p.flags
              THEN UNCHANGED <<ok, found>>
              ELSE ok' = ok \cup {s} /\ found' = found \cup (p.flags \cap shown)
<1>1. target = {p} /\ (Answers(s) <=> ~(s \in {"maps", "environ"} /\ "inspectable" \notin p.flags))
  BY QuietAnswers
<1>2. UNION {q.flags \cap shown : q \in target} = p.flags \cap shown
  BY <1>1
<1> QED
  BY <1>1, <1>2 DEF Read, world, history

LEMMA QuietReadsStep == PInv /\ QuietReads /\ [ProfileNext]_profileVars => QuietReads'
<1> SUFFICES ASSUME PInv, QuietReads, [ProfileNext]_profileVars, quiet', ~quick'
             PROVE  QuietReads'
  BY DEF QuietReads
<1>1. CASE Machine
  BY <1>1 DEF Machine, Toggle, Recap, Exit, Reuse, Becomes
<1>2. CASE ReadProcess
  <2>1. PICK p \in target : (kernel' <=> "kernel" \in p.flags) /\ found' = p.flags \cap {"root"}
    BY <1>2 DEF ReadProcess
  <2>2. target = {p}
    BY DEF PInv, ProfileTypeOK
  <2>3. at' = "probe" /\ UNCHANGED <<target, access, ok>> /\ access = << >> /\ ok = {}
    BY <1>2 DEF ReadProcess, PInv, Fresh, world
  <2> QED
    BY <2>1, <2>2, <2>3 DEF QuietReads, Shown, Opened
<1>3. CASE Probe
  <2>1. PICK p \in target : TRUE
    BY <1>3 DEF QuietReads, Probe, world, history
  <2>2. target = {p} /\ p \in Process
    BY DEF PInv, ProfileTypeOK
  <2>3. /\ at = "probe" /\ UNCHANGED <<target, kernel, ok, found, level, quick, quiet>>
        /\ access \in Seq(AccessStates) /\ Len(access) < 9
    BY <1>3 DEF Probe, PInv, ProfileTypeOK, ProbesLeft, world, history
  <2>4. PICK err \in Outcomes(Probes[Len(access) + 1]) : access' = Append(access, ClassifyErr(err))
    BY <1>3 DEF Probe
  <2>5. /\ Len(access') = Len(access) + 1
        /\ access'[Len(access) + 1] = ClassifyErr(err)
        /\ \A i \in 1 .. Len(access) : access'[i] = access[i]
    BY <2>3, <2>4
  <2>6. at' = (IF Len(access') = 9 THEN "status" ELSE "probe")
    BY <1>3 DEF Probe, Probes
  <2>7. ASSUME NEW i \in {1, 4, 5}, i <= Len(access')
        PROVE  access'[i] = Access(p, Probes[i])
    <3>1. CASE i = Len(access) + 1
      <4>1. Probes[i] \in {"status", "environ", "maps"}
        BY DEF Probes
      <4> QED
        BY <2>1, <2>4, <2>5, <3>1, <4>1, QuietAnswers
    <3>2. CASE i <= Len(access)
      BY <2>3, <2>5, <3>2 DEF QuietReads
    <3> QED
      BY <2>3, <2>5, <2>7, <3>1, <3>2
  <2> QED
    BY <2>2, <2>3, <2>5, <2>6, <2>7 DEF QuietReads, Shown, Opened
<1>4. CASE ReadStatusExtra
  <2>1. PICK p \in target : TRUE
    BY <1>4 DEF QuietReads, ReadStatusExtra, Read, world, history
  <2>2. target = {p} /\ at = "status" /\ level' = p.caps
    BY <1>4, <2>1 DEF PInv, ProfileTypeOK, ReadStatusExtra
  <2>3. Read("status", {"no_new_privs", "seccomp"}, "lsm")
    BY <1>4 DEF ReadStatusExtra, Read
  <2>4. /\ at' = "lsm" /\ UNCHANGED <<target, quick, kernel, access, quiet, risk>>
        /\ ok' = ok \cup {"status"} /\ found' = found \cup (p.flags \cap {"no_new_privs", "seccomp"})
    BY <2>3, QuietRead
  <2> QED
    BY <2>2, <2>4 DEF QuietReads, Shown, Opened
<1>5. CASE ReadLSMContext
  <2>1. PICK p \in target : TRUE
    BY <1>5 DEF QuietReads, ReadLSMContext, Read, world, history
  <2>2. target = {p} /\ at = "lsm" /\ level' = level
    BY <1>5, <2>1 DEF PInv, ProfileTypeOK, ReadLSMContext
  <2>3. /\ at' = "maps" /\ UNCHANGED <<target, quick, kernel, access, quiet, risk>>
        /\ ok' = ok \cup {"attr"} /\ found' = found \cup (p.flags \cap {"lsm"})
    BY <1>5, QuietRead DEF ReadLSMContext
  <2> QED
    BY <2>2, <2>3 DEF QuietReads, Shown, Opened
<1>6. CASE ReadMaps
  <2>1. PICK p \in target : TRUE
    BY <1>6 DEF QuietReads, ReadMaps, Read, world, history
  <2>2. target = {p} /\ at = "maps" /\ level' = level
    BY <1>6, <2>1 DEF PInv, ProfileTypeOK, ReadMaps
  <2>3. /\ at' = "environ" /\ UNCHANGED <<target, quick, kernel, access, quiet, risk>>
        /\ IF "inspectable" \notin p.flags THEN UNCHANGED <<ok, found>>
           ELSE ok' = ok \cup {"maps"} /\ found' = found \cup (p.flags \cap {"rwx", "anon"})
    BY <1>6, QuietRead DEF ReadMaps
  <2> QED
    BY <2>2, <2>3 DEF QuietReads, Shown, Opened
<1>7. CASE ReadEnviron
  <2>1. PICK p \in target : TRUE
    BY <1>7 DEF QuietReads, ReadEnviron, Read, world, history
  <2>2. target = {p} /\ at = "environ" /\ level' = level
    BY <1>7, <2>1 DEF PInv, ProfileTypeOK, ReadEnviron
  <2>3. /\ at' = "score" /\ UNCHANGED <<target, quick, kernel, access, quiet, risk>>
        /\ IF "inspectable" \notin p.flags THEN UNCHANGED <<ok, found>>
           ELSE ok' = ok \cup {"environ"} /\ found' = found \cup (p.flags \cap {"env"})
    BY <1>7, QuietRead DEF ReadEnviron
  <2> QED
    BY <2>2, <2>3 DEF QuietReads, Shown, Opened
<1>8. CASE Score
  BY <1>8 DEF Score, QuietReads, Shown, Opened, world, history
<1>9. CASE UNCHANGED profileVars
  BY <1>9 DEF profileVars, QuietReads, Shown, Opened
<1> QED
  BY <1>1, <1>2, <1>3, <1>4, <1>5, <1>6, <1>7, <1>8, <1>9 DEF ProfileNext

LEMMA ScoredIsReadHolds == ProfileSpec => []ScoredIsRead
<1>1. ProfileInit => ScoredIsRead
  BY DEF ProfileInit, ScoredIsRead
<1>2. ScoredIsRead /\ [ProfileNext]_profileVars => ScoredIsRead'
  <2> SUFFICES ASSUME ScoredIsRead, [ProfileNext]_profileVars PROVE ScoredIsRead'
    OBVIOUS
  <2>1. CASE Score
    <3>1. risk' = ScoreProcess /\ UNCHANGED <<quick, kernel, ok, found, level>>
      BY <2>1 DEF Score, world, history
    <3>2. ScoreProcess' = ScoreProcess
      BY <3>1 DEF ScoreProcess, QuickRiskFails, Total, Points, Added, SeccompEnabled, CapPoints,
                  HasFullCapabilitySet
    <3> QED
      BY <3>1, <3>2 DEF ScoredIsRead
  <2>2. CASE UNCHANGED <<at, risk, quick, kernel, ok, found, level>>
    <3>1. ScoreProcess' = ScoreProcess
      BY <2>2 DEF ScoreProcess, QuickRiskFails, Total, Points, Added, SeccompEnabled, CapPoints,
                  HasFullCapabilitySet
    <3> QED
      BY <2>2, <3>1 DEF ScoredIsRead
  <2>3. CASE at' # "done"
    BY <2>3 DEF ScoredIsRead
  <2>4. CASE Machine \/ UNCHANGED profileVars
    BY <2>2, <2>4 DEF Machine, Toggle, Recap, Exit, Reuse, Becomes, profileVars
  <2>5. CASE ReadProcess \/ Probe \/ ReadStatusExtra \/ ReadLSMContext \/ ReadMaps \/ ReadEnviron
    BY <2>3, <2>5 DEF ReadProcess, QuickFirst, Probe, ReadStatusExtra, ReadLSMContext, ReadMaps,
                      ReadEnviron, Read
  <2> QED
    BY <2>1, <2>4, <2>5 DEF ProfileNext
<1> QED
  BY <1>1, <1>2, PTL DEF ProfileSpec

(* When nothing changes, the accessibility report says of each section of the
   profile whether it is there, and that access to it is denied if it is not. *)
THEOREM QuietAccessHolds == ProfileSpec => []QuietAccessExact
<1>1. PInv /\ QuietReads => QuietAccessExact
  <2> SUFFICES ASSUME PInv, QuietReads, at = "done", ~quick, quiet,
                      NEW s \in {"status", "environ", "maps"}
               PROVE  Probed(s) = IF s \in ok THEN "readable" ELSE "restricted"
    BY DEF QuietAccessExact
  <2>1. PICK p \in target : TRUE
    BY DEF QuietReads
  <2>2. \A i \in {1, 4, 5} : access[i] = Access(p, Probes[i])
    <3>1. Len(access) = 9 /\ \A i \in {1, 4, 5} : i <= 9
      BY DEF QuietReads
    <3> QED
      BY <3>1 DEF QuietReads
  <2>3. s \in ok <=> ~(s \in {"maps", "environ"} /\ "inspectable" \notin p.flags)
    BY DEF QuietReads, Opened
  <2>4. DOMAIN Probes = 1..9 /\ Len(Probes) = 9
    BY DEF Probes
  <2>5. PICK i \in {1, 4, 5} : Probes[i] = s /\ \A j \in 1..9 : Probes[j] = s => j = i
    BY DEF Probes
  <2>6. (CHOOSE j \in 1..Len(Probes) : Probes[j] = s) = i
    BY <2>4, <2>5
  <2> QED
    BY <2>2, <2>3, <2>5, <2>6 DEF Probed, Access, Gated
<1> QED
  BY <1>1, ProfileInvariance, QuietReadsInit, QuietReadsStep, PTL DEF ProfileSpec

(* A full profile that is assembled while nothing changes has the score of the
   README's table, for every process. *)
THEOREM QuietScoreHolds == ProfileSpec => []QuietScoreExact
<1>1. PInv /\ QuietReads /\ ScoredIsRead => QuietScoreExact
  <2> SUFFICES ASSUME PInv, QuietReads, ScoredIsRead, Scored, ~quick, quiet, NEW p \in target
               PROVE  risk.score = TableScore(p)
    BY DEF QuietScoreExact
  <2>1. at = "done" /\ risk = ScoreProcess /\ risk.applicable
    BY DEF Scored, ScoredIsRead
  <2>2. level = p.caps /\ p \in Process /\ level \in 0..Full
    BY <2>1 DEF QuietReads, PInv, ProfileTypeOK
  <2>3. Total \in 0..90
    BY <2>2, TotalBounded
  <2>4. risk.score = Total
    BY <2>1, <2>3 DEF ScoreProcess, NoScore
  <2>5. found = p.flags \cap Shown(p) /\ "status" \in ok
    BY <2>1 DEF QuietReads, Opened
  <2> DEFINE seen == IF "inspectable" \in p.flags THEN p.flags ELSE p.flags \ {"rwx", "anon", "env"}
  <2>6. \A f \in {"root", "no_new_privs", "seccomp", "lsm", "rwx", "anon", "env"} :
            f \in found <=> f \in seen
    BY <2>1, <2>5 DEF Shown
  <2>7. Min({20, 5 * p.caps}) = IF 5 * p.caps > 20 THEN 20 ELSE 5 * p.caps
    BY <2>2 DEF Min
  <2>8. Points("full") + Points("caps") = Min({20, 5 * p.caps})
    BY <2>2, <2>7 DEF Points, Added, HasFullCapabilitySet, CapPoints
  <2>9. /\ Points("root") = Row("root" \in seen, 10) /\ Points("rwx") = Row("rwx" \in seen, 20)
        /\ Points("anon") = Row("anon" \in seen, 15) /\ Points("env") = Row("env" \in seen, 5)
        /\ Points("no_new_privs") = Row("no_new_privs" \notin seen, 5)
        /\ Points("seccomp") = Row("seccomp" \notin seen, 10)
        /\ Points("lsm") = Row("lsm" \notin seen, 5)
    BY <2>5, <2>6 DEF Points, Added, SeccompEnabled, Row
  <2>10. level \in Nat
    BY <2>2
  <2> QED
    BY <2>4, <2>8, <2>9, <2>10, PointsBounded DEF Total, TableScore
<1> QED
  BY <1>1, ProfileInvariance, QuietReadsInit, QuietReadsStep, ScoredIsReadHolds, PTL DEF ProfileSpec
=============================================================================
