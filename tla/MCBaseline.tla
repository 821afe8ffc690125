----------------------------- MODULE MCBaseline -----------------------------
(* Values for Baseline in TLC's run of Commands. *)
EXTENDS Baseline

A(name, exe, uid, state, child, kernel) ==
    [name |-> name, exe |-> exe, args |-> name, uid |-> uid, state |-> state,
     child |-> child, kernel |-> kernel]

Shell == A(<< 9 >>, << 9 >>, 3, "S", FALSE, FALSE)
RootShell == A(<< 9 >>, << 9 >>, 0, "S", TRUE, FALSE)
\* The kernel cuts a name at 15 bytes, also within a character of several.
DeadShell == A(<< 9, Bad >>, << >>, 3, "Z", FALSE, FALSE)
Thread == A(<< 8 >>, << >>, 0, "S", TRUE, TRUE)

MCLooks == {Shell, RootShell, DeadShell, Thread}

Asks(text, uids, states, kernel) ==
    [text |-> text, uids |-> uids, states |-> states, kernel |-> kernel]

\* ps --name, root, zombies, ps --kernel.
MCFilters == {Asks({<< 9 >>, << 9, Bad >>}, {}, {}, {}), Asks({}, {0}, {}, {}), Asks({}, {}, {"Z"}, {}),
              Asks({}, {}, {}, {TRUE})}
=============================================================================
