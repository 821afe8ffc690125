---------------------------- MODULE WatchStream ----------------------------
(***************************************************************************)
(* What a Watcher promises to the client that receives from its channel:   *)
(* per PID, one Started, then any number of ContextChanged, then one       *)
(* Exited, over and over, through a channel of bounded capacity that       *)
(* neither loses nor reorders.  How /proc is read is left out.             *)
(***************************************************************************)
EXTENDS Naturals, Sequences

CONSTANTS
    Pids,
    Cap      \* capacity of the events channel: make(chan monitor.Event, 256)

ASSUME CapAssumption == Cap \in Nat \ {0}

VARIABLES
    live,    \* the PIDs whose Started was sent and whose Exited was not
    chan,    \* events sent and not yet received
    stop     \* the client has closed the stop channel

streamVars == <<live, chan, stop>>

Kinds == {"Started", "ContextChanged", "Exited"}
Event == [kind : Kinds, pid : Pids]
Ev(k, p) == [kind |-> k, pid |-> p]

StreamTypeOK ==
    /\ live \in SUBSET Pids
    /\ chan \in Seq(Event)
    /\ stop \in BOOLEAN

StreamInit ==
    /\ live = {}
    /\ chan = << >>
    /\ stop = FALSE

\* Mutant: a full channel does not block the sender.
SendAlways(k, p) ==
    /\ chan' = Append(chan, Ev(k, p))
    /\ UNCHANGED stop

\* The send blocks while the channel is full.
Send(k, p) ==
    /\ Len(chan) < Cap
    /\ chan' = Append(chan, Ev(k, p))
    /\ UNCHANGED stop

EmitStarted(p) ==
    /\ p \notin live
    /\ Send("Started", p)
    /\ live' = live \cup {p}

EmitContextChanged(p) ==
    /\ p \in live
    /\ Send("ContextChanged", p)
    /\ UNCHANGED live

EmitExited(p) ==
    /\ p \in live
    /\ Send("Exited", p)
    /\ live' = live \ {p}

Emit == \E p \in Pids : EmitStarted(p) \/ EmitContextChanged(p) \/ EmitExited(p)

\* Mutant: the client waits until the channel is full.
TakeFull ==
    /\ ~stop
    /\ Len(chan) = Cap
    /\ chan' = Tail(chan)
    /\ UNCHANGED <<live, stop>>

\* The client takes the oldest event; it stops receiving once it closed stop.
TakeEvent ==
    /\ ~stop
    /\ chan # << >>
    /\ chan' = Tail(chan)
    /\ UNCHANGED <<live, stop>>

CloseStop ==
    /\ ~stop
    /\ stop' = TRUE
    /\ UNCHANGED <<live, chan>>

StreamNext == Emit \/ TakeEvent \/ CloseStop

StreamSpec == StreamInit /\ [][StreamNext]_streamVars
=============================================================================
