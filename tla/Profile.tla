------------------------------ MODULE Profile ------------------------------
(***************************************************************************)
(* The risk score of one process, as `inspect`, `security` and             *)
(* `investigate` assemble it (BuildSecurityProfile), and the quick one of  *)
(* `ps --risk`, `root --risk`, `tree --security` and `top`.  Either is put *)
(* together from several reads of /proc/<pid> while the process goes on    *)
(* running, may exit, and may leave its PID to another one.                *)
(***************************************************************************)
EXTENDS Naturals, Sequences, FiniteSetsExt

CONSTANTS
    Shapes,      \* what a process that takes the PID may look like
    Levels,      \* capability masks that occur
    MaxChanges   \* bound: changes to the process, exits and PID reuses

\* A mask is the number of capsOfInterest it holds, or Full for all bits.
Interesting == 13
Full == Interesting + 1

\* What ScoreProcess looks at besides the mask ("no_new_privs", "seccomp" and
\* "lsm" are protections that are on), and what decides how /proc answers.
Signals == {"root", "no_new_privs", "seccomp", "lsm", "rwx", "anon", "env"}
Flags == Signals \cup {"kernel", "inspectable"}

Process == [flags : SUBSET Flags, caps : 0..Full]

ASSUME ShapesAssumption == Shapes \subseteq Process /\ Levels \subseteq 0..Full
ASSUME ChangesAssumption == MaxChanges \in Nat

VARIABLES
    target,    \* the processes that have the PID: one, or none
    nchanges,  \* changes so far
    at,        \* the next step of the assembly
    quick,     \* the quick score: no probes, no LSM, no maps, no environ
    kernel,    \* Classify says kernel thread
    access,    \* Accessibility: the states probed so far, in order
    ok,        \* the sources whose read succeeded
    found,     \* the flags found by the reads
    level,     \* the mask that ReadStatusExtra returned, or 0
    risk,      \* RiskScore
    \* history variables, from ReadProcess on
    held,      \* flags that the PID's process had at some moment
    lacked,    \* flags that it lacked at some moment
    levels,    \* masks that it had
    quiet      \* nothing changed

world == <<target, nchanges>>
history == <<held, lacked, levels, quiet>>
profileVars == <<target, nchanges, at, quick, kernel, access, ok, found, level, risk,
                 held, lacked, levels, quiet>>

Sources == {"status", "exe", "cmdline", "environ", "maps", "smaps", "fds", "ns", "cgroup", "attr"}
AccessStates == {"readable", "gone", "restricted", "unavailable"}
Steps == {"process", "probe", "status", "lsm", "maps", "environ", "score", "done"}
Reasons == {"root", "full", "caps", "no_new_privs", "seccomp", "lsm", "rwx", "anon", "env"}

\* The weights of ScoreProcess add up to 90, so that its cap at 100 never bites.
ProfileTypeOK ==
    /\ target \subseteq Process /\ \A p, q \in target : p = q
    /\ nchanges \in 0..MaxChanges
    /\ at \in Steps
    /\ quick \in BOOLEAN /\ kernel \in BOOLEAN /\ quiet \in BOOLEAN
    /\ access \in Seq(AccessStates) /\ Len(access) <= 9
    /\ ok \subseteq Sources
    /\ found \subseteq Flags /\ held \subseteq Flags /\ lacked \subseteq Flags
    /\ level \in 0..Full /\ levels \subseteq 0..Full
    /\ risk \in [applicable : BOOLEAN, score : 0..90, reasons : SUBSET Reasons]

NoScore == [applicable |-> FALSE, score |-> 0, reasons |-> {}]

ProfileInit ==
    /\ target \in {{s} : s \in Shapes}
    /\ nchanges = 0
    /\ at = "process"
    /\ quick \in BOOLEAN
    /\ kernel = FALSE
    /\ access = << >>
    /\ ok = {} /\ found = {} /\ level = 0
    /\ risk = NoScore
    /\ held = {} /\ lacked = {} /\ levels = {}
    /\ quiet = TRUE

-----------------------------------------------------------------------------
(* The machine, between any two reads. *)

Becomes(next) ==
    /\ at \notin {"process", "done"}
    /\ nchanges < MaxChanges
    /\ nchanges' = nchanges + 1
    /\ target' = next
    /\ held' = held \cup UNION {p.flags : p \in next}
    /\ lacked' = lacked \cup UNION {Flags \ p.flags : p \in next}
    /\ levels' = levels \cup {p.caps : p \in next}
    /\ quiet' = FALSE
    /\ UNCHANGED <<at, quick, kernel, access, ok, found, level, risk>>

\* setuid, prctl, seccomp, aa_change_profile, mprotect, setenv, PR_SET_DUMPABLE:
\* one flag is raised or dropped.
Toggle(f) ==
    \E p \in target :
        /\ "kernel" \notin p.flags
        /\ Becomes({[p EXCEPT !.flags = IF f \in @ THEN @ \ {f} ELSE @ \cup {f}]})

\* capset, or execve of a file with capabilities.
Recap(l) == \E p \in target : "kernel" \notin p.flags /\ Becomes({[p EXCEPT !.caps = l]})

Exit == target # {} /\ Becomes({})

Reuse(s) == target = {} /\ Becomes({s})

Machine ==
    \/ \E f \in Flags \ {"kernel"} : Toggle(f)
    \/ \E l \in Levels : Recap(l)
    \/ Exit
    \/ \E s \in Shapes : Reuse(s)

-----------------------------------------------------------------------------
(* How /proc/<pid> answers. *)

\* These need ptrace access to the process.
Gated == {"exe", "environ", "maps", "smaps", "fds", "ns"}

\* The outcomes of opening source s: nil, or the error.
Outcomes(s) ==
    IF target = {} THEN {"ENOENT", "ESRCH"}
    ELSE UNION {IF s \in Gated /\ "inspectable" \notin p.flags THEN {"EACCES", "EPERM"}
                ELSE IF s = "exe" /\ "kernel" \in p.flags THEN {"ENOENT"}
                ELSE {"nil"} : p \in target}

Answers(s) == "nil" \in Outcomes(s)

\* Mutant: a denial is taken for an exit.
ClassifyDenialAsGone(err) ==
    IF err = "nil" THEN "readable"
    ELSE IF err = "ESRCH" THEN "unavailable" ELSE "gone"

ClassifyErr(err) ==
    CASE err = "nil" -> "readable"
      [] err = "ENOENT" -> "gone"
      [] err \in {"EACCES", "EPERM"} -> "restricted"
      [] OTHER -> "unavailable"

\* The order of the probes in ProbeAccessibility.
Probes == <<"status", "exe", "cmdline", "environ", "maps", "smaps", "fds", "ns", "cgroup">>

-----------------------------------------------------------------------------
(* The reads. *)

\* The quick score reads nothing more of a kernel thread.
QuickFirst(isKernel) == IF isKernel THEN "score" ELSE "status"

\* ReadProcess and Classify.
ReadProcess ==
    /\ at = "process"
    /\ \E p \in target :
          /\ kernel' = ("kernel" \in p.flags)
          /\ found' = p.flags \cap {"root"}
          /\ held' = p.flags /\ lacked' = Flags \ p.flags /\ levels' = {p.caps}
    /\ at' = IF quick THEN QuickFirst(kernel') ELSE "probe"
    /\ UNCHANGED <<world, quick, access, ok, level, risk, quiet>>

Probe ==
    /\ at = "probe"
    /\ \E err \in Outcomes(Probes[Len(access) + 1]) :
          access' = Append(access, ClassifyErr(err))
    /\ at' = IF Len(access') = Len(Probes) THEN "status" ELSE "probe"
    /\ UNCHANGED <<world, quick, kernel, ok, found, level, risk, history>>

\* The read of source s, which shows the given flags, when it succeeds; a read
\* that fails leaves the zero values.
Read(s, shown, next) ==
    /\ IF Answers(s)
       THEN /\ ok' = ok \cup {s}
            /\ found' = found \cup UNION {p.flags \cap shown : p \in target}
       ELSE UNCHANGED <<ok, found>>
    /\ at' = next
    /\ UNCHANGED <<world, quick, kernel, access, risk, history>>

ReadStatusExtra ==
    /\ at = "status"
    /\ Read("status", {"no_new_privs", "seccomp"}, IF quick THEN "score" ELSE "lsm")
    /\ IF target = {} THEN UNCHANGED level ELSE \E p \in target : level' = p.caps

ReadLSMContext ==
    at = "lsm" /\ Read("attr", {"lsm"}, "maps") /\ UNCHANGED level

ReadMaps ==
    at = "maps" /\ Read("maps", {"rwx", "anon"}, "environ") /\ UNCHANGED level

ReadEnviron ==
    at = "environ" /\ Read("environ", {"env"}, "score") /\ UNCHANGED level

-----------------------------------------------------------------------------
(* ScoreProcess. *)

\* Mutant: any capability at all passes for the full set.
HasSomeCapability(l) == l > 0

HasFullCapabilitySet(l) == l = Full

\* Mutant: an unread seccomp mode counts as disabled.
SeccompSeen == "seccomp" \in found

\* sp.Seccomp != "disabled", which the unread "" satisfies too.
SeccompEnabled == "seccomp" \in found \/ "status" \notin ok

\* The reasons that ScoreProcess adds.
Added ==
    {r \in {"root", "rwx", "anon", "env"} : r \in found}
        \cup {r \in {"no_new_privs", "lsm"} : r \notin found}
        \cup (IF SeccompEnabled THEN {} ELSE {"seccomp"})
        \cup (IF HasFullCapabilitySet(level) THEN {"full"}
              ELSE IF level > 0 THEN {"caps"} ELSE {})

\* Mutant: 5 points for each capability, without end.
CapPointsAll(l) == 5 * l

CapPoints(l) == IF 5 * l > 20 THEN 20 ELSE 5 * l

Points(r) == IF r \in Added THEN
    CASE r = "root" -> 10
      [] r = "full" -> 20
      [] r = "caps" -> CapPoints(level)
      [] r = "no_new_privs" -> 5
      [] r = "seccomp" -> 10
      [] r = "lsm" -> 5
      [] r = "rwx" -> 20
      [] r = "anon" -> 15
      [] r = "env" -> 5
    ELSE 0

Total == Points("root") + Points("full") + Points("caps") + Points("no_new_privs")
            + Points("seccomp") + Points("lsm") + Points("rwx") + Points("anon") + Points("env")

\* The quick score gives up where ReadStatusExtra fails, the full one does not.
QuickRiskFails == quick /\ "status" \notin ok

\* Kernel threads are not scored.
ScoreProcess ==
    IF kernel \/ QuickRiskFails THEN NoScore
    ELSE [applicable |-> TRUE, score |-> IF Total > 100 THEN 100 ELSE Total, reasons |-> Added]

Score ==
    /\ at = "score"
    /\ risk' = ScoreProcess
    /\ at' = "done"
    /\ UNCHANGED <<world, quick, kernel, access, ok, found, level, history>>

Label(rs) ==
    CASE ~rs.applicable -> "N/A"
      [] rs.applicable /\ rs.score >= 70 -> "HIGH"
      [] rs.applicable /\ rs.score \in 30..69 -> "MED"
      [] rs.applicable /\ rs.score \in 1..29 -> "LOW"
      [] OTHER -> "-"

ProfileNext ==
    \/ Machine
    \/ ReadProcess \/ Probe \/ ReadStatusExtra \/ ReadLSMContext \/ ReadMaps \/ ReadEnviron
    \/ Score

ProfileSpec == ProfileInit /\ [][ProfileNext]_profileVars

-----------------------------------------------------------------------------
Scored == at = "done" /\ risk.applicable

Row(applies, points) == IF applies THEN points ELSE 0

\* README, "Risk scoring": the table of signals and points, for a process all
\* of whose sources that answer are read at once.
TableScore(p) ==
    LET seen == IF "inspectable" \in p.flags THEN p.flags ELSE p.flags \ {"rwx", "anon", "env"}
    IN  Row("root" \in seen, 10) + Row("rwx" \in seen, 20) + Row("anon" \in seen, 15)
        + Row("env" \in seen, 5) + Row("no_new_privs" \notin seen, 5)
        + Row("seccomp" \notin seen, 10) + Row("lsm" \notin seen, 5)
        + Min({20, 5 * p.caps})

(* A profile that is assembled while nothing changes has the score that the
   README's table gives the process, although nine probes and five reads lie
   between its first and its last byte. *)
QuietScoreExact ==
    Scored /\ ~quick /\ quiet => \A p \in target : risk.score = TableScore(p)

(* Every reason printed with a score is true of the PID's process at some
   moment after ReadProcess, however reads and changes interleave.  The
   exceptions: the full profile of a process that exited says that
   no_new_privs and the LSM are off, and the quick score says so of the LSM
   always, which it never reads. *)
ReasonsHold ==
    Scored =>
        /\ risk.reasons \cap {"root", "rwx", "anon", "env"} \subseteq held
        /\ "full" \in risk.reasons => Full \in levels
        /\ "caps" \in risk.reasons => levels \cap 1..Interesting # {}
        /\ "seccomp" \in risk.reasons => "seccomp" \in lacked
        /\ "no_new_privs" \in risk.reasons => "no_new_privs" \in lacked \/ "status" \notin ok
        /\ "lsm" \in risk.reasons => "lsm" \in lacked \/ "attr" \notin ok

(* The quick score, of a process with every capability too, never reaches the
   label HIGH: only what it leaves out (maps, environ) leads there. *)
QuickNeverHigh == quick => Label(risk) # "HIGH"

Probed(s) == access[CHOOSE i \in 1..Len(Probes) : Probes[i] = s]

(* When nothing changes, the accessibility report explains every section of
   the profile that is missing, and says "restricted" where access is denied. *)
QuietAccessExact ==
    at = "done" /\ ~quick /\ quiet =>
        \A s \in {"status", "environ", "maps"} :
            Probed(s) = IF s \in ok THEN "readable" ELSE "restricted"
=============================================================================
