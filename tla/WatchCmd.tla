------------------------------ MODULE WatchCmd ------------------------------
(***************************************************************************)
(* cmdWatch: the main goroutine of `procsec watch`.  It receives the       *)
(* events of a Watcher (WatchStream, its promise), prints them, appends    *)
(* them to the --log file in two writes, and returns on SIGINT or SIGTERM. *)
(* The process can be killed between any two steps and started again on    *)
(* the same log file.                                                      *)
(***************************************************************************)
EXTENDS WatchStream, SequencesExt

CONSTANTS
    MaxEvents,   \* bound: events that one run of the command detects
    MaxStarts,   \* bound: runs of the command on one log file
    MaxFails     \* bound: writes to the log file that fail (disk full)

ASSUME BoundsAssumption == MaxEvents \in Nat /\ MaxStarts \in Nat /\ MaxFails \in Nat

VARIABLES
    at,        \* where main is; "down" when the process does not run
    secure,    \* --security
    logging,   \* --log FILE was given
    hand,      \* the event being handled, until the log has its line: at most one
    sigs,      \* a signal waits in sigs, which holds one
    file,      \* the log file: what each successful write appended
    starts,    \* runs so far
    \* history variables
    asked,     \* a signal was delivered to this run
    sent,      \* events that this run's Watcher sent
    shown,     \* events that this run printed
    base,      \* length of the log file when this run began
    fails,     \* writes that failed
    cuts       \* lines of the log that a kill or a failed write left without newline

fileVars == <<file, fails>>
historyVars == <<starts, asked, sent, shown, base, cuts>>
cmdVars == <<live, chan, stop, at, secure, logging, hand, sigs, file, starts,
             asked, sent, shown, base, fails, cuts>>

\* f.Write(line) appends the event, f.Write([]byte("\n")) the newline.
Newline == [kind |-> "newline"]

CmdTypeOK ==
    /\ StreamTypeOK /\ Len(chan) <= Cap
    /\ at \in {"down", "select", "print", "line", "newline"}
    /\ secure \in BOOLEAN /\ logging \in BOOLEAN /\ sigs \in BOOLEAN /\ asked \in BOOLEAN
    /\ hand \in Seq(Event) /\ Len(hand) <= 1
    /\ file \in Seq(Event \cup {Newline})
    /\ sent \in Seq(Event) /\ shown \in Seq(Event)
    /\ base \in 0..Len(file)
    /\ starts \in 0..MaxStarts /\ fails \in 0..MaxFails /\ cuts \in 0..starts + fails

CmdInit ==
    /\ StreamInit
    /\ at = "down"
    /\ secure = FALSE /\ logging = FALSE
    /\ hand = << >>
    /\ sigs = FALSE /\ asked = FALSE
    /\ file = << >>
    /\ sent = << >> /\ shown = << >>
    /\ starts = 0 /\ base = 0 /\ fails = 0 /\ cuts = 0

\* The command line is parsed, the log opened with O_APPEND, go w.Run starts.
Start ==
    /\ at = "down"
    /\ starts < MaxStarts
    /\ at' = "select"
    /\ secure' \in BOOLEAN /\ logging' \in BOOLEAN
    /\ live' = {} /\ chan' = << >> /\ stop' = FALSE
    /\ hand' = << >> /\ sent' = << >> /\ shown' = << >>
    /\ sigs' = FALSE /\ asked' = FALSE
    /\ starts' = starts + 1
    /\ base' = Len(file)
    /\ UNCHANGED <<fileVars, cuts>>

\* The Watcher goroutine sends an event.
Detect ==
    /\ at # "down"
    /\ Len(sent) < MaxEvents
    /\ Emit
    /\ sent' = Append(sent, Last(chan'))
    /\ UNCHANGED <<at, secure, logging, hand, sigs, fileVars, starts, asked, shown, base, cuts>>

-----------------------------------------------------------------------------
(* The select loop. *)

Displayed(e) == secure => e.kind = "ContextChanged"

\* Mutant: the continue of security mode skips the log as well.
SkipUnlogged(e) == IF Displayed(e) THEN "print" ELSE "select"

\* Mutant: security mode prints everything.
PrintAll(e) == "print"

\* Security mode shows context changes only, and logs the rest unseen.
AfterTake(e) ==
    IF Displayed(e) THEN "print" ELSE IF logging THEN "line" ELSE "select"

TakeNext ==
    /\ at = "select"
    /\ TakeEvent
    /\ at' = AfterTake(Head(chan))
    /\ hand' = IF at' = "select" THEN << >> ELSE <<Head(chan)>>
    /\ UNCHANGED <<secure, logging, sigs, fileVars, historyVars>>

PrintEvent ==
    /\ at = "print"
    /\ shown' = Append(shown, Head(hand))
    /\ IF logging THEN at' = "line" /\ UNCHANGED hand
                  ELSE at' = "select" /\ hand' = << >>
    /\ UNCHANGED <<live, chan, stop, secure, logging, sigs, fileVars, starts, asked,
                   sent, base, cuts>>

\* f.Write; its error is ignored.
Write(chunk) ==
    \/ file' = Append(file, chunk) /\ UNCHANGED fails
    \/ fails < MaxFails /\ fails' = fails + 1 /\ UNCHANGED file

\* Mutant: the newline is left to the next event.
LineOnly == "select"

AfterLine == "newline"

WriteLine ==
    /\ at = "line"
    /\ Write(Head(hand))
    /\ hand' = << >>
    /\ at' = AfterLine
    /\ UNCHANGED <<live, chan, stop, secure, logging, sigs, historyVars>>

WriteNewline ==
    /\ at = "newline"
    /\ Write(Newline)
    /\ cuts' = IF fails' = fails THEN cuts ELSE cuts + 1
    /\ at' = "select"
    /\ UNCHANGED <<live, chan, stop, secure, logging, hand, sigs, starts, asked, sent, shown, base>>

\* Mutant: sigs is unbuffered, and a signal that finds main busy is dropped.
SignalUnbuffered == sigs' = (at = "select")

SignalBuffered == sigs' = TRUE

\* SIGINT or SIGTERM reaches the process.
Signal ==
    /\ at # "down"
    /\ ~asked
    /\ asked' = TRUE
    /\ SignalBuffered
    /\ UNCHANGED <<live, chan, stop, at, secure, logging, hand, fileVars, starts, sent,
                   shown, base, cuts>>

\* close(stop) and return; the process ends, and the Watcher goroutine with it.
ReturnOnSignal ==
    /\ at = "select"
    /\ sigs
    /\ CloseStop
    /\ sigs' = FALSE
    /\ at' = "down"
    /\ UNCHANGED <<secure, logging, hand, fileVars, historyVars>>

\* SIGKILL or a crash.
Kill ==
    /\ at # "down"
    /\ at' = "down"
    /\ cuts' = IF at = "newline" THEN cuts + 1 ELSE cuts
    /\ UNCHANGED <<live, chan, stop, secure, logging, hand, sigs, fileVars, starts, asked,
                   sent, shown, base>>

MainStep == TakeNext \/ PrintEvent \/ WriteLine \/ WriteNewline

CmdNext == Start \/ Detect \/ MainStep \/ Signal \/ ReturnOnSignal \/ Kill

CmdSpec == CmdInit /\ [][CmdNext]_cmdVars

(* main keeps running, and Go's select is fair between its ready cases. *)
CmdFairSpec == CmdSpec /\ WF_cmdVars(MainStep) /\ SF_cmdVars(ReturnOnSignal)

-----------------------------------------------------------------------------
\* What of s is in S, in its order.
Kept(s, S) ==
    LET kept[n \in 0..Len(s)] ==
            IF n = 0 THEN << >>
            ELSE IF s[n] \in S THEN Append(kept[n - 1], s[n]) ELSE kept[n - 1]
    IN  kept[Len(s)]

\* The events this run has in the log.
Logged == Kept(SubSeq(file, base + 1, Len(file)), Event)

(* The log of a run is the Watcher's events in their order from the first one
   on, in both modes: what SIGINT or a crash takes away is the event in hand
   and those still in the channel, never one in between. *)
LogFollows == logging /\ fails = 0 => Logged \o hand \o chan = sent

(* Terminal and log agree: what was printed is what the log holds, filtered by
   the mode, but for the one event being handled, even if the process dies
   between the two. *)
ShownIsLogged ==
    logging /\ fails = 0 =>
        LET due == Kept(Logged \o hand, {e \in Event : Displayed(e)})
        IN  shown = due \/ (hand # << >> /\ due # << >> /\ shown = Front(due))

Glued == {i \in 1..Len(file) - 1 : file[i] # Newline /\ file[i + 1] # Newline}

(* Two events share a line of the log only where a run was killed between its
   two writes, or the second of them failed: once for each such accident. *)
GluedByAccident == Cardinality(Glued) <= cuts

(* A signal ends the command, however busy main is when it arrives. *)
SignalEnds == asked ~> at = "down"

(* Every event that the Watcher sends is taken care of, unless the run ends. *)
EventHandled ==
    \A n \in 1..MaxEvents :
        Len(sent) >= n ~> Len(sent) - Len(chan) - Len(hand) >= n \/ at = "down"
=============================================================================
