----------------------------- MODULE MCProfile -----------------------------
(* Values for TLC's runs of Profile. *)
EXTENDS Profile

\* A confined user process, a root daemon that may be looked into and has
\* everything on it that costs points, one that may not, and a kernel thread.
Confined == [flags |-> {"no_new_privs", "seccomp", "lsm", "inspectable"}, caps |-> 2]
Exposed  == [flags |-> {"root", "rwx", "anon", "env", "inspectable"}, caps |-> 9]
Closed   == [flags |-> {"root", "lsm", "rwx"}, caps |-> Full]
KThread  == [flags |-> {"root", "kernel", "inspectable"}, caps |-> Full]

MCShapes == {Confined, Exposed, Closed, KThread}

\* None, fewer than the cap on their points, more than that, and all.
MCLevels == {0, 2, 9, Full}
=============================================================================
