-------------------------------- MODULE Net --------------------------------
(***************************************************************************)
(* `procsec net [PID]`: the socket tables of /proc/net are read first, one *)
(* row after the other, then the fd links of one process after the other,  *)
(* while processes open, duplicate, pass on and close sockets.             *)
(***************************************************************************)
EXTENDS Naturals, FiniteSets

CONSTANTS
    Pids,        \* the processes; one that does not run has no sockets
    FdNums,      \* descriptor numbers
    Inodes,      \* TCP and UDP sockets of our network namespace, none used twice
    Protos,      \* the tables of /proc/net, numbered as in `sources`
    ProtoOf,     \* the table that a socket is in
    MaxChanges   \* bound: changes of the world while the command runs

ASSUME NetAssumption ==
    /\ FdNums \subseteq Nat /\ Inodes \subseteq Nat \ {0} /\ Protos \subseteq Nat
    /\ ProtoOf \in [Inodes -> Protos]
    /\ 0 \notin Pids
    /\ MaxChanges \in Nat

VARIABLES
    fds,      \* for every process and number, the inode of the socket, or 0
    orphans,  \* tables that list a socket without inode (TIME_WAIT, SYN_RECV)
    used,     \* inodes used so far
    nchanges, \* changes so far
    step,     \* "tables", "procs", "links", "done", or "failed"
    only,     \* the PID argument, or 0 for none
    unread,   \* tables of /proc/net still to be read, the open one included
    reading,  \* the table that is open, if one is
    due,      \* the rows it had when it was opened
    rows,     \* parseNetTable: the rows read of it, by their inodes
    table,    \* ReadSockets: for every inode read, the table it was in
    todo,     \* PIDs still to be scanned
    links,    \* the fd names of the process being scanned, still to be read
    scanned,  \* that process, or 0
    owner,    \* pidByInode
    mine,     \* ProcessSockets: for every descriptor found in the table, the inode
    shown,    \* the rows printed
    \* history variables
    failed,   \* tables that could not be read
    shifted,  \* tables that a row left while they were open
    skipped,  \* processes whose fd directory could not be listed
    held,     \* <<PID, number, inode>>: held at some moment since the command started
    always,   \* <<PID, number, inode>>: held from then on without interruption
    quiet     \* nothing changed

world == <<fds, orphans, used, nchanges, shifted, held, always, quiet>>
scanVars == <<reading, due, rows>>
tableVars == <<unread, scanVars, table, failed>>
procVars == <<todo, links, scanned, skipped, owner, mine>>
netVars == <<world, step, only, tableVars, procVars, shown>>

Descriptor == Pids \X FdNums \X Inodes

\* What PrintSockets writes, with a PID and without: no PID known is 0.
ProcessRow == [fd : FdNums, inode : Inodes, proto : Protos]
SystemRow == [inode : Inodes \cup {0}, proto : Protos, pid : Pids \cup {0}]

NetTypeOK ==
    /\ fds \in [Pids -> [FdNums -> Inodes \cup {0}]]
    /\ orphans \subseteq Protos
    /\ used \subseteq Inodes
    /\ nchanges \in 0..MaxChanges
    /\ step \in {"tables", "procs", "links", "done", "failed"}
    /\ only \in Pids \cup {0}
    /\ unread \subseteq Protos /\ reading \subseteq unread
    /\ due \subseteq Inodes \cup {0} /\ rows \subseteq Inodes \cup {0}
    /\ DOMAIN table \subseteq Inodes \cup {0} /\ table \in [DOMAIN table -> Protos]
    /\ todo \subseteq Pids /\ links \subseteq FdNums
    /\ scanned \in Pids \cup {0} /\ (step = "links" => scanned \in Pids)
    /\ DOMAIN owner \subseteq Inodes /\ owner \in [DOMAIN owner -> Pids]
    /\ DOMAIN mine \subseteq FdNums /\ mine \in [DOMAIN mine -> Inodes]
    /\ shown \subseteq (IF only = 0 THEN SystemRow ELSE ProcessRow)
    /\ failed \subseteq Protos /\ shifted \subseteq Protos /\ skipped \subseteq Pids
    /\ held \subseteq Descriptor /\ always \subseteq Descriptor
    /\ quiet \in BOOLEAN

Descriptors(f) == {e \in Descriptor : f[e[1]][e[2]] = e[3]}
Sockets(f) == {i \in Inodes : \E p \in Pids, n \in FdNums : f[p][n] = i}

\* The inodes that table t lists: the sockets some process holds, and 0.
RowsOf(f, o, t) ==
    {i \in Sockets(f) : ProtoOf[i] = t} \cup (IF t \in o THEN {0} ELSE {})
Rows(t) == RowsOf(fds, orphans, t)

NetInit ==
    /\ fds \in [Pids -> [FdNums -> Inodes \cup {0}]]
    /\ orphans \in SUBSET Protos
    /\ used = Sockets(fds)
    /\ nchanges = 0
    /\ step = "tables"
    /\ only \in Pids \cup {0}
    /\ unread = Protos /\ reading = {} /\ due = {} /\ rows = {}
    /\ table = [i \in {} |-> 0]
    /\ todo = {} /\ links = {} /\ scanned = 0
    /\ owner = [i \in {} |-> 0] /\ mine = [n \in {} |-> 0]
    /\ shown = {}
    /\ failed = {} /\ shifted = {} /\ skipped = {}
    /\ held = Descriptors(fds) /\ always = Descriptors(fds) /\ quiet = TRUE

-----------------------------------------------------------------------------
(* The machine. *)

Becomes(f, o) ==
    /\ step \notin {"done", "failed"}
    /\ nchanges < MaxChanges
    /\ nchanges' = nchanges + 1
    /\ fds' = f /\ orphans' = o
    /\ used' = used \cup Sockets(f)
    /\ shifted' = shifted \cup {t \in reading : ~ Rows(t) \subseteq RowsOf(f, o, t)}
    /\ held' = held \cup Descriptors(f)
    /\ always' = always \cap Descriptors(f)
    /\ quiet' = FALSE
    /\ UNCHANGED <<step, only, tableVars, procVars, shown>>

\* socket or accept, on a descriptor that is closed or no socket.
Open(p, n, i) ==
    /\ fds[p][n] = 0
    /\ i \notin used
    /\ Becomes([fds EXCEPT ![p][n] = i], orphans)

\* dup, fork, or a descriptor passed to another process.
Pass(p, n, q, m) ==
    /\ fds[p][n] # 0 /\ fds[q][m] = 0
    /\ Becomes([fds EXCEPT ![q][m] = fds[p][n]], orphans)

\* close or exit; a connection may stay behind in its table without an inode.
Close(p, n) ==
    /\ fds[p][n] # 0
    /\ \E o \in {orphans, orphans \cup {ProtoOf[fds[p][n]]}} :
          Becomes([fds EXCEPT ![p][n] = 0], o)

\* The last connection without inode of a table times out.
Expire(t) ==
    /\ t \in orphans
    /\ Becomes(fds, orphans \ {t})

Machine ==
    \/ \E p \in Pids, n \in FdNums, i \in Inodes : Open(p, n, i)
    \/ \E p, q \in Pids, n, m \in FdNums : Pass(p, n, q, m)
    \/ \E p \in Pids, n \in FdNums : Close(p, n)
    \/ \E t \in Protos : Expire(t)

-----------------------------------------------------------------------------
(* ReadSockets and parseNetTable. *)

\* The next one in the order of `sources`.
NextTable(t) == step = "tables" /\ t \in unread /\ \A u \in unread : t <= u

\* os.Open.
OpenTable(t) ==
    /\ NextTable(t)
    /\ reading = {}
    /\ reading' = {t} /\ due' = Rows(t) /\ rows' = {}
    /\ UNCHANGED <<world, step, only, unread, table, failed, procVars, shown>>

\* One more row of the open table.
ReadRow(t, i) ==
    /\ t \in reading
    /\ i \in Rows(t) \ rows
    /\ rows' = rows \cup {i}
    /\ UNCHANGED <<world, step, only, unread, reading, due, table, failed, procVars, shown>>

\* Mutant: the map is made anew for every table.
PutLast(t) == table' = [i \in rows |-> t]

\* out[s.Inode] = s: sockets without inode replace each other under key 0.
PutRows(t) ==
    table' = [i \in DOMAIN table \cup rows |-> IF i \in rows THEN t ELSE table[i]]

\* The end of the file. The kernel goes on where it stopped by counting rows: it
\* passes over none that was there all the time, unless one left meanwhile and
\* those behind it moved up. Of those that came meanwhile it gives any.
EndTable(t) ==
    /\ t \in reading
    /\ due \subseteq rows \/ t \in shifted
    /\ PutRows(t)
    /\ unread' = unread \ {t} /\ reading' = {} /\ due' = {} /\ rows' = {}
    /\ UNCHANGED <<world, step, only, failed, procVars, shown>>

\* The open fails, or a read later on: the rows read so far are dropped.
TableFails(t) ==
    /\ NextTable(t)
    /\ failed' = failed \cup {t}
    /\ unread' = unread \ {t} /\ reading' = {} /\ due' = {} /\ rows' = {}
    /\ UNCHANGED <<world, step, only, table, procVars, shown>>

\* No table could be read: the command ends with the error.
NoTables ==
    /\ step = "tables"
    /\ unread = {} /\ failed = Protos
    /\ step' = "failed"
    /\ UNCHANGED <<world, only, tableVars, procVars, shown>>

\* ReadAll, or the PID argument.
ListProcesses ==
    /\ step = "tables"
    /\ unread = {} /\ failed # Protos
    /\ todo' = IF only = 0 THEN Pids ELSE {only}
    /\ step' = "procs"
    /\ UNCHANGED <<world, only, tableVars, links, scanned, skipped, owner, mine, shown>>

-----------------------------------------------------------------------------
(* ReadFDs, for one process after the other. *)

\* ReadDir on fd fails (permission denied, most often): the process is passed over.
SkipProcess(p) ==
    /\ step = "procs"
    /\ p \in todo
    /\ todo' = todo \ {p}
    /\ skipped' = skipped \cup {p}
    /\ UNCHANGED <<world, step, only, tableVars, links, scanned, owner, mine, shown>>

\* ReadDir lists the numbers in use, those of files that are no sockets too.
ListFDs(p) ==
    /\ step = "procs"
    /\ p \in todo
    /\ \E files \in SUBSET {n \in FdNums : fds[p][n] = 0} :
          links' = {n \in FdNums : fds[p][n] # 0} \cup files
    /\ scanned' = p
    /\ todo' = todo \ {p}
    /\ step' = "links"
    /\ UNCHANGED <<world, only, tableVars, skipped, owner, mine, shown>>

\* Mutant: 3 passes for a standard stream.
FewerSockets(n) == n > 3

\* classifyFD: 0, 1 and 2 are stdin, stdout and stderr, whatever they point at.
SocketKind(n) == n > 2

\* Mutant: a target that is no socket yields inode 0, without ok = false.
MatchesAny(n) == IF SocketKind(n) THEN {fds[scanned][n]} \cap DOMAIN table ELSE {}

\* socketInodeFromTarget, looked up in the table.
Matches(n) ==
    IF SocketKind(n) THEN {fds[scanned][n]} \cap (DOMAIN table \ {0}) ELSE {}

\* Readlink of one fd, for pidByInode: the process replaces an earlier owner.
FindOwner(n) ==
    /\ only = 0
    /\ owner' = [i \in DOMAIN owner \cup Matches(n) |->
                    IF i \in Matches(n) THEN scanned ELSE owner[i]]
    /\ UNCHANGED mine

\* The same for ProcessSockets: one row for every descriptor.
FindMine(n) ==
    /\ only # 0
    /\ \/ /\ Matches(n) # {}
          /\ mine' = [m \in DOMAIN mine \cup {n} |->
                         IF m = n THEN fds[scanned][n] ELSE mine[m]]
       \/ /\ Matches(n) = {}
          /\ UNCHANGED mine
    /\ UNCHANGED owner

ReadLink(n) ==
    /\ step = "links"
    /\ n \in links
    /\ links' = links \ {n}
    /\ FindOwner(n) \/ FindMine(n)
    /\ UNCHANGED <<world, step, only, tableVars, todo, scanned, skipped, shown>>

NextProcess ==
    /\ step = "links"
    /\ links = {}
    /\ step' = "procs"
    /\ UNCHANGED <<world, only, tableVars, procVars, shown>>

\* Without a PID, a row for every entry of the table, with its owner if it has one.
SystemRows ==
    {[inode |-> i, proto |-> table[i], pid |-> IF i \in DOMAIN owner THEN owner[i] ELSE 0] :
        i \in DOMAIN table}

\* With a PID, a row for every descriptor found.
ProcessRows == {[fd |-> n, inode |-> mine[n], proto |-> table[mine[n]]] : n \in DOMAIN mine}

PrintSockets ==
    /\ step = "procs"
    /\ todo = {}
    /\ shown' = IF only = 0 THEN SystemRows ELSE ProcessRows
    /\ step' = "done"
    /\ UNCHANGED <<world, only, tableVars, procVars>>

NetNext ==
    \/ Machine
    \/ \E t \in Protos : OpenTable(t) \/ EndTable(t) \/ TableFails(t)
    \/ \E t \in Protos, i \in Inodes \cup {0} : ReadRow(t, i)
    \/ NoTables \/ ListProcesses
    \/ \E p \in Pids : SkipProcess(p) \/ ListFDs(p)
    \/ \E n \in FdNums : ReadLink(n)
    \/ NextProcess \/ PrintSockets

NetSpec == NetInit /\ [][NetNext]_netVars

-----------------------------------------------------------------------------
(* A process is shown as the owner of a socket only if it held the socket at
   some moment of the command on a descriptor above 2, and a row of `net PID` is
   a socket that this process held on that very descriptor, although the tables
   are read before the links and descriptors change hands meanwhile. *)
OwnerHeld ==
    \A r \in shown :
        /\ only = 0 /\ r.pid # 0 =>
              \E n \in FdNums : n > 2 /\ <<r.pid, n, r.inode>> \in held
        /\ only # 0 => r.fd > 2 /\ <<only, r.fd, r.inode>> \in held

(* A socket that stays on one descriptor of a process for the whole command has
   its row, with an owner if the descriptor is above 2 and can be read, although
   others come and go while the table is read; with the PID of its process it
   has one for that descriptor. Its table must have been read, and no row may
   have left the table in the meantime. *)
SteadySocketShown ==
    step = "done" =>
        \A p \in Pids, n \in FdNums, i \in Inodes :
            <<p, n, i>> \in always /\ ProtoOf[i] \notin failed \cup shifted =>
                /\ only = 0 => \E r \in shown :
                      /\ r.inode = i /\ r.proto = ProtoOf[i]
                      /\ n > 2 /\ p \notin skipped => r.pid # 0
                /\ only = p /\ n > 2 /\ p \notin skipped =>
                      [fd |-> n, inode |-> i, proto |-> ProtoOf[i]] \in shown

(* When nothing changes, the rows with an inode are the sockets that are held,
   but for those of tables that could not be read; with a PID they are the
   descriptors above 2 of that process that are such sockets, one row for each. *)
QuietRowsExact ==
    step = "done" /\ quiet =>
        /\ only = 0 =>
              {r.inode : r \in shown} \ {0} = {i \in used : ProtoOf[i] \notin failed}
        /\ only # 0 =>
              {<<only, r.fd, r.inode>> : r \in shown} =
                  {e \in held : /\ e[1] = only /\ only \notin skipped
                                /\ e[2] > 2 /\ ProtoOf[e[3]] \notin failed}

(* README, `procsec net`: without a PID, every socket on the system is shown.  So
   there should be as many rows as sockets, those without an inode included (one at
   least in every table of `orphans`). *)
EverySocketListed ==
    step = "done" /\ quiet /\ only = 0 /\ failed = {} =>
        Cardinality(shown) >= Cardinality(used) + Cardinality(orphans)
=============================================================================
