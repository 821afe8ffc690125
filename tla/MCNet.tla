------------------------------- MODULE MCNet -------------------------------
(* Values for TLC's runs of Net. *)
EXTENDS Net

\* The sockets are in the first of the two tables (tcp, tcp6), where one may leave
\* while the other is still to be read; rows without an inode are in both.
MCProtoOf == [i \in Inodes |-> 1]

\* Nothing tells the two processes apart but their numbers: the argument is none
\* or the first PID, and without one the first has the smaller descriptors.
Weight(p) == 10 * fds[p][0] + fds[p][3]

MCInit ==
    /\ NetInit
    /\ only # 12
    /\ only = 0 => Weight(11) <= Weight(12)

MCSpec == MCInit /\ [][NetNext]_netVars
=============================================================================
