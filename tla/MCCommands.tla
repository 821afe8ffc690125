----------------------------- MODULE MCCommands -----------------------------
(* Values for TLC's run of Commands. *)
EXTENDS Commands, MCBaseline

M(w, x, backed, kb, anonymous) ==
    [writable |-> w, executable |-> x, file |-> backed, rss |-> kb, anon |-> anonymous]

MCMappings == {M(FALSE, TRUE, TRUE, 4, 0), M(TRUE, FALSE, FALSE, 1, 1), M(TRUE, TRUE, FALSE, 2, 2)}
=============================================================================
