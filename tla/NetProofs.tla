------------------------------ MODULE NetProofs ------------------------------
(***************************************************************************)
(* The socket correlation, for any number of processes, descriptors,       *)
(* sockets, tables and changes: an owner is never made up, and a socket    *)
(* that stays where it is is missed only if its table could not be read or *)
(* a row left it while it was read.                                        *)
(***************************************************************************)
EXTENDS Net, TLAPS

\* What is held now belongs to the history, and what was held throughout is
\* held now.
HeldNow == Descriptors(fds) \subseteq held /\ always \subseteq Descriptors(fds)

\* The scan of `net PID` visits that PID only, and once: it is skipped or listed.
OnlyTarget ==
    only # 0 =>
        /\ todo \subseteq {only} /\ (step = "links" => scanned = only)
        /\ only \in todo => DOMAIN mine = {} /\ step # "links"
        /\ only \in skipped => DOMAIN mine = {} /\ only \notin todo /\ step # "links"

\* The tables are read before the processes, and nothing is left at the end.
InOrder ==
    /\ step # "tables" => unread = {}
    /\ step = "done" => todo = {}
    /\ step = "tables" => todo = {} /\ links = {} /\ skipped = {} /\ DOMAIN mine = {}
    /\ unread \cap failed = {}

\* What was read of the open table are rows of it, and what it must still give
\* has all its steady sockets, unless a row left.
ScanSteady ==
    \A t \in reading :
        /\ reading = {t}
        /\ \A i \in rows : i = 0 \/ ProtoOf[i] = t
        /\ t \notin shifted =>
              \A p \in Pids, n \in FdNums, i \in Inodes :
                  <<p, n, i>> \in always /\ ProtoOf[i] = t => i \in due

\* A steady socket of a table that was read is in the lookup, under its table.
TableSteady ==
    /\ \A i \in DOMAIN table \ {0} : table[i] = ProtoOf[i]
    /\ \A p \in Pids, n \in FdNums, i \in Inodes :
          <<p, n, i>> \in always /\ ProtoOf[i] \notin unread \cup failed \cup shifted
              => i \in DOMAIN table

\* The link of descriptor n of process p is still to be read.
Pending(p, n) == p \in todo \/ (step = "links" /\ scanned = p /\ n \in links)

\* A descriptor above 2 that can be read, of a socket whose table was read.
Readable(p, n, i) == n > 2 /\ p \notin skipped /\ ProtoOf[i] \notin failed \cup shifted

\* A steady socket whose link was read has an owner, or its row for the PID.
OwnerSteady ==
    step # "tables" /\ step # "failed" =>
        \A p \in Pids, n \in FdNums, i \in Inodes :
            <<p, n, i>> \in always /\ Readable(p, n, i) =>
                /\ only = 0 => Pending(p, n) \/ i \in DOMAIN owner
                /\ only = p => Pending(p, n) \/ (n \in DOMAIN mine /\ mine[n] = i)

\* Whoever was found holds the socket, or did, on a descriptor above 2.
FoundHeld ==
    /\ \A i \in DOMAIN owner : \E n \in FdNums : n > 2 /\ <<owner[i], n, i>> \in held
    /\ \A n \in DOMAIN mine :
          n > 2 /\ <<only, n, mine[n]>> \in held /\ mine[n] \in DOMAIN table \ {0}

\* What is printed is what was found.
Printed ==
    /\ step # "done" => shown = {}
    /\ step = "done" => shown = IF only = 0 THEN SystemRows ELSE ProcessRows

NInv ==
    /\ NetTypeOK /\ HeldNow /\ OnlyTarget /\ InOrder /\ ScanSteady /\ TableSteady
    /\ OwnerSteady /\ FoundHeld /\ Printed

-----------------------------------------------------------------------------
LEMMA NInvInit == NetInit => NInv
<1> SUFFICES ASSUME NetInit PROVE NInv
  OBVIOUS
<1> USE DEF NetInit
<1>1. NetTypeOK
  BY NetAssumption DEF NetTypeOK, Descriptors, Descriptor, Sockets
<1>2. ScanSteady /\ TableSteady
  BY NetAssumption DEF ScanSteady, TableSteady
<1>3. HeldNow /\ OnlyTarget /\ InOrder /\ OwnerSteady /\ FoundHeld /\ Printed
  BY NetAssumption DEF HeldNow, OnlyTarget, InOrder, OwnerSteady, FoundHeld, Printed
<1> QED
  BY <1>1, <1>2, <1>3 DEF NInv

(* A change of the world leaves what was read alone and only ever takes away
   from what is steady. *)
LEMMA BecomesKeepsN ==
    ASSUME NInv, NEW f \in [Pids -> [FdNums -> Inodes \cup {0}]], NEW o \in SUBSET Protos,
           Becomes(f, o)
    PROVE  NInv'
<1> USE DEF Becomes, tableVars, scanVars, procVars
<1>1. Descriptors(f) \subseteq Descriptor /\ Sockets(f) \subseteq Inodes
  BY DEF Descriptors, Sockets
<1>2. nchanges' \in 0..MaxChanges
  BY NetAssumption DEF NInv, NetTypeOK
<1>3. always' \subseteq always /\ held \subseteq held' /\ shifted \subseteq shifted'
  OBVIOUS
<1>4. shifted' \subseteq Protos
  BY DEF NInv, NetTypeOK
<1>5. NetTypeOK'
  BY <1>1, <1>2, <1>4 DEF NInv, NetTypeOK
<1>6. HeldNow'
  BY DEF NInv, HeldNow, Descriptors
<1>7. ScanSteady' /\ TableSteady'
  BY <1>3 DEF NInv, ScanSteady, TableSteady
<1>8. OwnerSteady'
  BY <1>3 DEF NInv, OwnerSteady, Pending, Readable
<1>9. FoundHeld'
  BY <1>3 DEF NInv, FoundHeld
<1>10. OnlyTarget' /\ InOrder'
  BY DEF NInv, OnlyTarget, InOrder
<1>11. Printed'
  BY DEF NInv, Printed
<1> QED
  BY <1>5, <1>6, <1>7, <1>8, <1>9, <1>10, <1>11 DEF NInv

LEMMA MachineKeepsN == NInv /\ Machine => NInv'
<1> SUFFICES ASSUME NInv, Machine PROVE NInv'
  OBVIOUS
<1>1. fds \in [Pids -> [FdNums -> Inodes \cup {0}]] /\ orphans \in SUBSET Protos
  BY DEF NInv, NetTypeOK
<1>2. ASSUME NEW p \in Pids, NEW n \in FdNums, NEW i \in Inodes \cup {0}
      PROVE  [fds EXCEPT ![p][n] = i] \in [Pids -> [FdNums -> Inodes \cup {0}]]
  BY <1>1
<1>3. CASE \E p \in Pids, n \in FdNums, i \in Inodes : Open(p, n, i)
  BY <1>1, <1>2, <1>3, BecomesKeepsN DEF Open
<1>4. CASE \E p, q \in Pids, n, m \in FdNums : Pass(p, n, q, m)
  <2>1. PICK p \in Pids, q \in Pids, n \in FdNums, m \in FdNums : Pass(p, n, q, m)
    BY <1>4
  <2>2. fds[p][n] \in Inodes \cup {0}
    BY <1>1
  <2> QED
    BY <1>1, <1>2, <2>1, <2>2, BecomesKeepsN DEF Pass
<1>5. CASE \E p \in Pids, n \in FdNums : Close(p, n)
  <2>1. PICK p \in Pids, n \in FdNums : Close(p, n)
    BY <1>5
  <2>2. ProtoOf[fds[p][n]] \in Protos
    BY <1>1, <2>1, NetAssumption DEF Close
  <2>3. PICK o \in {orphans, orphans \cup {ProtoOf[fds[p][n]]}} :
           Becomes([fds EXCEPT ![p][n] = 0], o)
    BY <2>1 DEF Close
  <2>4. o \in SUBSET Protos
    BY <1>1, <2>2, <2>3
  <2> QED
    BY <1>2, <2>3, <2>4, BecomesKeepsN
<1>6. CASE \E t \in Protos : Expire(t)
  BY <1>1, <1>6, BecomesKeepsN DEF Expire
<1> QED
  BY <1>3, <1>4, <1>5, <1>6 DEF Machine

-----------------------------------------------------------------------------
(* ReadSockets. *)

\* What the steps of ReadSockets leave alone.
LEMMA TableStepKeeps ==
    ASSUME NInv, step = "tables", step' = "tables", NetTypeOK', ScanSteady', TableSteady',
           InOrder', DOMAIN table \subseteq DOMAIN table',
           UNCHANGED <<world, only, procVars, shown>>
    PROVE  NInv'
<1> USE DEF world, procVars
<1>1. HeldNow' /\ OnlyTarget' /\ Printed' /\ OwnerSteady'
  BY DEF NInv, HeldNow, OnlyTarget, Printed, OwnerSteady, Descriptors
<1>2. FoundHeld'
  BY DEF NInv, FoundHeld
<1> QED
  BY <1>1, <1>2 DEF NInv

(* When a table is opened, its steady sockets are among its rows. *)
LEMMA OpenTableKeeps == \A t \in Protos : NInv /\ OpenTable(t) => NInv'
<1> SUFFICES ASSUME NEW t \in Protos, NInv, OpenTable(t) PROVE NInv'
  OBVIOUS
<1> USE DEF OpenTable, NextTable, world, procVars
<1>1. Rows(t) \subseteq Inodes \cup {0}
  BY DEF Rows, RowsOf, Sockets
<1>2. NetTypeOK'
  BY <1>1 DEF NInv, NetTypeOK
<1>3. ScanSteady'
  <2>1. ASSUME NEW p \in Pids, NEW n \in FdNums, NEW i \in Inodes,
               <<p, n, i>> \in always, ProtoOf[i] = t
        PROVE  i \in Rows(t)
    BY <2>1 DEF NInv, HeldNow, Descriptors, Rows, RowsOf, Sockets
  <2> QED
    BY <2>1 DEF ScanSteady
<1>4. TableSteady' /\ InOrder'
  BY DEF NInv, TableSteady, InOrder
<1> QED
  BY <1>2, <1>3, <1>4, TableStepKeeps DEF world, procVars

LEMMA ReadRowKeeps == \A t \in Protos, i \in Inodes \cup {0} : NInv /\ ReadRow(t, i) => NInv'
<1> SUFFICES ASSUME NEW t \in Protos, NEW i \in Inodes \cup {0}, NInv, ReadRow(t, i) PROVE NInv'
  OBVIOUS
<1> USE DEF ReadRow, world, procVars
<1>1. step = "tables"
  BY DEF NInv, NetTypeOK, InOrder
<1>2. i = 0 \/ ProtoOf[i] = t
  BY DEF Rows, RowsOf
<1>3. NetTypeOK'
  BY DEF NInv, NetTypeOK
<1>4. ScanSteady'
  BY <1>2 DEF NInv, ScanSteady
<1>5. TableSteady' /\ InOrder'
  BY DEF NInv, TableSteady, InOrder
<1> QED
  BY <1>1, <1>3, <1>4, <1>5, TableStepKeeps DEF world, procVars

(* The end of a table adds its rows, all the steady ones unless a row left, and
   keeps those of the others. *)
LEMMA EndTableKeeps == \A t \in Protos : NInv /\ EndTable(t) => NInv'
<1> SUFFICES ASSUME NEW t \in Protos, NInv, EndTable(t) PROVE NInv'
  OBVIOUS
<1> USE DEF EndTable, PutRows, world, procVars
<1>1. step = "tables"
  BY DEF NInv, NetTypeOK, InOrder
<1>2. /\ DOMAIN table' = DOMAIN table \cup rows
      /\ \A i \in rows : table'[i] = t
      /\ \A i \in DOMAIN table \ rows : table'[i] = table[i]
  OBVIOUS
<1>3. NetTypeOK'
  <2>1. table' \in [DOMAIN table' -> Protos] /\ DOMAIN table' \subseteq Inodes \cup {0}
    BY DEF NInv, NetTypeOK
  <2> QED
    BY <2>1 DEF NInv, NetTypeOK
<1>4. ScanSteady' /\ InOrder'
  BY DEF NInv, ScanSteady, InOrder
<1>5. \A i \in rows : i = 0 \/ ProtoOf[i] = t
  BY DEF NInv, ScanSteady
<1>6. TableSteady'
  <2>1. \A i \in DOMAIN table' \ {0} : table'[i] = ProtoOf[i]
    BY <1>2, <1>5 DEF NInv, TableSteady
  <2>2. ASSUME NEW p \in Pids, NEW n \in FdNums, NEW i \in Inodes,
               <<p, n, i>> \in always, ProtoOf[i] \notin unread' \cup failed \cup shifted
        PROVE  i \in DOMAIN table'
    <3>1. CASE ProtoOf[i] = t
      BY <1>2, <2>2, <3>1 DEF NInv, ScanSteady
    <3>2. CASE ProtoOf[i] # t
      BY <1>2, <2>2, <3>2 DEF NInv, TableSteady
    <3> QED
      BY <3>1, <3>2
  <2> QED
    BY <2>1, <2>2 DEF TableSteady
<1> QED
  BY <1>1, <1>2, <1>3, <1>4, <1>6, TableStepKeeps DEF world, procVars

LEMMA TableFailsKeeps == \A t \in Protos : NInv /\ TableFails(t) => NInv'
<1> SUFFICES ASSUME NEW t \in Protos, NInv, TableFails(t) PROVE NInv'
  OBVIOUS
<1> USE DEF TableFails, NextTable, world, procVars
<1>1. NetTypeOK'
  BY DEF NInv, NetTypeOK
<1>2. ScanSteady' /\ InOrder'
  BY DEF NInv, ScanSteady, InOrder
<1>3. TableSteady'
  BY DEF NInv, TableSteady
<1> QED
  BY <1>1, <1>2, <1>3, TableStepKeeps DEF world, procVars

(* At the start of the scan every link is pending. *)
LEMMA ListProcessesKeeps == NInv /\ ListProcesses => NInv'
<1> SUFFICES ASSUME NInv, ListProcesses PROVE NInv'
  OBVIOUS
<1> USE DEF ListProcesses, world, tableVars, scanVars
<1>1. NetTypeOK'
  BY DEF NInv, NetTypeOK
<1>2. OwnerSteady'
  BY DEF NInv, NetTypeOK, OwnerSteady, Pending
<1>3. OnlyTarget' /\ InOrder'
  BY DEF NInv, NetTypeOK, OnlyTarget, InOrder
<1>4. HeldNow' /\ ScanSteady' /\ TableSteady' /\ FoundHeld' /\ Printed'
  BY DEF NInv, HeldNow, ScanSteady, TableSteady, FoundHeld, Printed, Descriptors
<1> QED
  BY <1>1, <1>2, <1>3, <1>4 DEF NInv

LEMMA NoTablesKeeps == NInv /\ NoTables => NInv'
<1> SUFFICES ASSUME NInv, NoTables PROVE NInv'
  OBVIOUS
<1> USE DEF NoTables, world, tableVars, scanVars, procVars
<1>1. NetTypeOK'
  BY DEF NInv, NetTypeOK
<1>2. HeldNow' /\ ScanSteady' /\ TableSteady' /\ FoundHeld' /\ Printed'
  BY DEF NInv, HeldNow, ScanSteady, TableSteady, FoundHeld, Printed, Descriptors
<1>3. OnlyTarget' /\ InOrder' /\ OwnerSteady'
  BY DEF NInv, OnlyTarget, InOrder, OwnerSteady
<1> QED
  BY <1>1, <1>2, <1>3 DEF NInv

-----------------------------------------------------------------------------
(* The processes. *)

\* What the scan of the processes leaves alone.
LEMMA ScanStepKeeps ==
    ASSUME NInv, step # "tables", step # "done", step' # "tables", step' # "done",
           NetTypeOK', OnlyTarget', OwnerSteady', FoundHeld',
           UNCHANGED <<world, tableVars, only, shown>>
    PROVE  NInv'
<1> USE DEF world, tableVars, scanVars
<1>1. HeldNow' /\ ScanSteady' /\ TableSteady'
  BY DEF NInv, HeldNow, ScanSteady, TableSteady, Descriptors
<1>2. InOrder' /\ Printed'
  BY DEF NInv, InOrder, Printed
<1> QED
  BY <1>1, <1>2 DEF NInv

LEMMA SkipProcessKeeps == \A p \in Pids : NInv /\ SkipProcess(p) => NInv'
<1> SUFFICES ASSUME NEW p \in Pids, NInv, SkipProcess(p) PROVE NInv'
  OBVIOUS
<1> USE DEF SkipProcess
<1>1. NetTypeOK'
  BY DEF NInv, NetTypeOK, world, tableVars, scanVars
<1>2. OnlyTarget'
  BY DEF NInv, OnlyTarget
<1>3. OwnerSteady'
  BY DEF NInv, OwnerSteady, Pending, Readable, world, tableVars
<1>4. FoundHeld'
  BY DEF NInv, FoundHeld, world, tableVars
<1> QED
  BY <1>1, <1>2, <1>3, <1>4, ScanStepKeeps

(* The listing of a process's descriptors has the steady ones. *)
LEMMA ListFDsKeeps == \A p \in Pids : NInv /\ ListFDs(p) => NInv'
<1> SUFFICES ASSUME NEW p \in Pids, NInv, ListFDs(p) PROVE NInv'
  OBVIOUS
<1> USE DEF ListFDs
<1>1. links' \subseteq FdNums /\ \A n \in FdNums : fds[p][n] # 0 => n \in links'
  OBVIOUS
<1>2. NetTypeOK'
  BY <1>1 DEF NInv, NetTypeOK, world, tableVars, scanVars
<1>3. OnlyTarget'
  BY DEF NInv, OnlyTarget
<1>4. OwnerSteady'
  <2> SUFFICES ASSUME NEW q \in Pids, NEW n \in FdNums, NEW i \in Inodes,
                      <<q, n, i>> \in always, Readable(q, n, i)
               PROVE  /\ only = 0 => Pending(q, n)' \/ i \in DOMAIN owner
                      /\ only = q => Pending(q, n)' \/ (n \in DOMAIN mine /\ mine[n] = i)
    BY DEF OwnerSteady, Readable, world, tableVars
  <2>1. /\ only = 0 => Pending(q, n) \/ i \in DOMAIN owner
        /\ only = q => Pending(q, n) \/ (n \in DOMAIN mine /\ mine[n] = i)
    BY DEF NInv, OwnerSteady
  <2>2. fds[q][n] = i /\ i # 0
    BY NetAssumption DEF NInv, HeldNow, Descriptors
  <2>3. Pending(q, n) => Pending(q, n)'
    BY <1>1, <2>2 DEF Pending
  <2> QED
    BY <2>1, <2>3
<1>5. FoundHeld'
  BY DEF NInv, FoundHeld, world, tableVars
<1> QED
  BY <1>2, <1>3, <1>4, <1>5, ScanStepKeeps

(* A link read: the owner it sets, or the row, is of a process that holds the
   socket at that moment, and a steady socket, being in the lookup, is found. *)
LEMMA ReadLinkKeeps == \A n \in FdNums : NInv /\ ReadLink(n) => NInv'
<1> SUFFICES ASSUME NEW n \in FdNums, NInv, ReadLink(n) PROVE NInv'
  OBVIOUS
<1> USE DEF ReadLink
<1>1. scanned \in Pids /\ Matches(n) \subseteq Inodes
  BY DEF NInv, NetTypeOK, Matches
<1>2. \A i \in Matches(n) : /\ n > 2 /\ fds[scanned][n] = i /\ i \in DOMAIN table \ {0}
                             /\ <<scanned, n, i>> \in held
  BY <1>1 DEF Matches, SocketKind, NInv, HeldNow, Descriptors, Descriptor
<1>3. ASSUME NEW i \in Inodes, <<scanned, n, i>> \in always, Readable(scanned, n, i)
      PROVE  Matches(n) = {i} /\ fds[scanned][n] = i
  <2>1. fds[scanned][n] = i /\ i # 0
    BY <1>1, <1>3, NetAssumption DEF NInv, HeldNow, Descriptors
  <2>2. i \in DOMAIN table
    BY <1>1, <1>3 DEF NInv, InOrder, TableSteady, Readable
  <2> QED
    BY <1>3, <2>1, <2>2 DEF Matches, SocketKind, Readable
<1>4. CASE FindOwner(n)
  <2> USE DEF FindOwner
  <2>1. /\ DOMAIN owner' = DOMAIN owner \cup Matches(n)
        /\ \A i \in DOMAIN owner' : \/ (i \in Matches(n) /\ owner'[i] = scanned)
                                     \/ (i \in DOMAIN owner /\ owner'[i] = owner[i])
    BY <1>4
  <2>2. NetTypeOK'
    <3>1. owner' \in [DOMAIN owner' -> Pids] /\ DOMAIN owner' \subseteq Inodes
      BY <1>1, <1>4, <2>1 DEF NInv, NetTypeOK
    <3> QED
      BY <1>4, <3>1 DEF NInv, NetTypeOK, world, tableVars, scanVars
  <2>3. FoundHeld'
    BY <1>2, <1>4, <2>1 DEF NInv, FoundHeld, world, tableVars
  <2>4. OnlyTarget'
    BY <1>4 DEF NInv, OnlyTarget
  <2>5. OwnerSteady'
    <3> SUFFICES ASSUME NEW q \in Pids, NEW m \in FdNums, NEW i \in Inodes,
                        <<q, m, i>> \in always, Readable(q, m, i), ~Pending(q, m)'
                 PROVE  i \in DOMAIN owner'
      BY <1>1, <1>4, NetAssumption DEF OwnerSteady, Readable, world, tableVars
    <3>1. Pending(q, m) \/ i \in DOMAIN owner
      BY <1>4 DEF NInv, OwnerSteady
    <3>2. Pending(q, m) => q = scanned /\ m = n
      BY DEF Pending
    <3> QED
      BY <1>3, <2>1, <3>1, <3>2
  <2> QED
    BY <1>4, <2>2, <2>3, <2>4, <2>5, ScanStepKeeps
<1>5. CASE FindMine(n)
  <2> USE DEF FindMine
  <2>1. only \in Pids /\ scanned = only
    BY <1>5 DEF NInv, NetTypeOK, OnlyTarget
  <2>2. \/ /\ fds[scanned][n] \in Matches(n)
           /\ DOMAIN mine' = DOMAIN mine \cup {n}
           /\ mine'[n] = fds[scanned][n]
           /\ \A m \in DOMAIN mine \ {n} : mine'[m] = mine[m]
           /\ mine' = [m \in DOMAIN mine' |-> mine'[m]]
        \/ mine' = mine /\ Matches(n) = {}
    BY <1>5 DEF Matches
  <2>3. NetTypeOK'
    <3>1. DOMAIN mine' \subseteq FdNums
      BY <2>2 DEF NInv, NetTypeOK
    <3>2. mine' \in [DOMAIN mine' -> Inodes]
      BY <1>1, <2>2 DEF NInv, NetTypeOK
    <3> QED
      BY <1>5, <3>1, <3>2 DEF NInv, NetTypeOK, world, tableVars, scanVars
  <2>4. FoundHeld'
    BY <1>2, <1>5, <2>1, <2>2 DEF NInv, FoundHeld, world, tableVars
  <2>5. OnlyTarget'
    BY <1>5 DEF NInv, OnlyTarget
  <2>6. OwnerSteady'
    <3> SUFFICES ASSUME NEW m \in FdNums, NEW i \in Inodes,
                        <<only, m, i>> \in always, Readable(only, m, i), ~Pending(only, m)'
                 PROVE  m \in DOMAIN mine' /\ mine'[m] = i
      BY <1>5, <2>1, NetAssumption DEF OwnerSteady, Readable, world, tableVars
    <3>1. CASE m = n
      BY <1>3, <2>1, <2>2, <3>1
    <3>2. CASE m # n
      <4>1. ~Pending(only, m)
        BY <3>2 DEF Pending
      <4>2. m \in DOMAIN mine /\ mine[m] = i
        BY <2>1, <4>1 DEF NInv, OwnerSteady
      <4> QED
        BY <2>2, <3>2, <4>2
    <3> QED
      BY <3>1, <3>2
  <2> QED
    BY <1>5, <2>3, <2>4, <2>5, <2>6, ScanStepKeeps
<1> QED
  BY <1>4, <1>5

LEMMA NextProcessKeeps == NInv /\ NextProcess => NInv'
<1> SUFFICES ASSUME NInv, NextProcess PROVE NInv'
  OBVIOUS
<1> USE DEF NextProcess, procVars
<1>1. NetTypeOK'
  BY DEF NInv, NetTypeOK, world, tableVars, scanVars
<1>2. OnlyTarget'
  BY DEF NInv, OnlyTarget
<1>3. OwnerSteady'
  BY DEF NInv, OwnerSteady, Pending, Readable, world, tableVars
<1>4. FoundHeld'
  BY DEF NInv, FoundHeld, world, tableVars
<1> QED
  BY <1>1, <1>2, <1>3, <1>4, ScanStepKeeps

(* The rows printed are of the two kinds. *)
LEMMA PrintSocketsKeeps == NInv /\ PrintSockets => NInv'
<1> SUFFICES ASSUME NInv, PrintSockets PROVE NInv'
  OBVIOUS
<1> USE DEF PrintSockets, world, tableVars, scanVars, procVars
<1>1. SystemRows \subseteq SystemRow
  BY DEF SystemRows, SystemRow, NInv, NetTypeOK
<1>2. ProcessRows \subseteq ProcessRow
  <2> SUFFICES ASSUME NEW n \in DOMAIN mine
               PROVE  [fd |-> n, inode |-> mine[n], proto |-> table[mine[n]]] \in ProcessRow
    BY DEF ProcessRows
  <2>1. n \in FdNums /\ mine[n] \in Inodes /\ mine[n] \in DOMAIN table
    BY DEF NInv, NetTypeOK, FoundHeld
  <2>2. table[mine[n]] \in Protos
    BY <2>1 DEF NInv, NetTypeOK
  <2> QED
    BY <2>1, <2>2 DEF ProcessRow
<1>3. NetTypeOK'
  BY <1>1, <1>2 DEF NInv, NetTypeOK
<1>4. OwnerSteady'
  BY DEF NInv, OwnerSteady, Pending, Readable
<1>5. Printed'
  BY DEF Printed, SystemRows, ProcessRows
<1>6. OnlyTarget' /\ InOrder'
  BY DEF NInv, OnlyTarget, InOrder
<1>7. HeldNow' /\ ScanSteady' /\ TableSteady' /\ FoundHeld'
  BY DEF NInv, HeldNow, ScanSteady, TableSteady, FoundHeld, Descriptors
<1> QED
  BY <1>3, <1>4, <1>5, <1>6, <1>7 DEF NInv

LEMMA NetStutter == NInv /\ UNCHANGED netVars => NInv'
<1> SUFFICES ASSUME NInv, UNCHANGED netVars PROVE NInv'
  OBVIOUS
<1> USE DEF netVars, world, tableVars, scanVars, procVars
<1>1. NetTypeOK'
  BY DEF NInv, NetTypeOK
<1>2. HeldNow' /\ OnlyTarget' /\ InOrder'
  BY DEF NInv, HeldNow, OnlyTarget, InOrder, Descriptors
<1>3. ScanSteady' /\ TableSteady' /\ FoundHeld'
  BY DEF NInv, ScanSteady, TableSteady, FoundHeld
<1>4. OwnerSteady'
  BY DEF NInv, OwnerSteady, Pending, Readable
<1>5. Printed'
  BY DEF NInv, Printed, SystemRows, ProcessRows
<1> QED
  BY <1>1, <1>2, <1>3, <1>4, <1>5 DEF NInv

(* The inductive invariant holds always. *)
LEMMA NetInvariance == NetSpec => []NInv
<1>1. NInv /\ [NetNext]_netVars => NInv'
  BY MachineKeepsN, OpenTableKeeps, ReadRowKeeps, EndTableKeeps, TableFailsKeeps,
     NoTablesKeeps, ListProcessesKeeps, SkipProcessKeeps, ListFDsKeeps, ReadLinkKeeps,
     NextProcessKeeps, PrintSocketsKeeps, NetStutter DEF NetNext
<1> QED
  BY NInvInit, <1>1, PTL DEF NetSpec

-----------------------------------------------------------------------------
(* Type correctness. *)
THEOREM NetTypeCorrect == NetSpec => []NetTypeOK
<1>1. NInv => NetTypeOK
  BY DEF NInv
<1> QED
  BY <1>1, NetInvariance, PTL

(* No process is shown as the owner of a socket that it never held, and no row
   of `net PID` is of a socket that this descriptor never was. *)
THEOREM OwnersHeldSockets == NetSpec => []OwnerHeld
<1>1. NInv => OwnerHeld
  <2> SUFFICES ASSUME NInv, NEW r \in shown
               PROVE  /\ only = 0 /\ r.pid # 0 =>
                            \E n \in FdNums : n > 2 /\ <<r.pid, n, r.inode>> \in held
                      /\ only # 0 => r.fd > 2 /\ <<only, r.fd, r.inode>> \in held
    BY DEF OwnerHeld
  <2>1. r \in (IF only = 0 THEN SystemRows ELSE ProcessRows)
    BY DEF NInv, Printed
  <2>2. CASE only = 0
    <3>1. PICK i \in DOMAIN table :
             r = [inode |-> i, proto |-> table[i],
                  pid |-> IF i \in DOMAIN owner THEN owner[i] ELSE 0]
      BY <2>1, <2>2 DEF SystemRows
    <3>2. r.inode = i /\ r.pid = IF i \in DOMAIN owner THEN owner[i] ELSE 0
      BY <3>1
    <3> QED
      BY <2>2, <3>2 DEF NInv, FoundHeld
  <2>3. CASE only # 0
    BY <2>1, <2>3 DEF ProcessRows, NInv, FoundHeld
  <2> QED
    BY <2>2, <2>3
<1> QED
  BY <1>1, NetInvariance, PTL

(* No steady socket is missing from the rows, or lacks an owner when one of its
   descriptors above 2 could be read, unless its table failed or lost a row. *)
THEOREM SteadySocketsShown == NetSpec => []SteadySocketShown
<1>1. NInv => SteadySocketShown
  <2> SUFFICES ASSUME NInv, step = "done",
                      NEW p \in Pids, NEW n \in FdNums, NEW i \in Inodes,
                      <<p, n, i>> \in always, ProtoOf[i] \notin failed \cup shifted
               PROVE  /\ only = 0 => \E r \in shown :
                            /\ r.inode = i /\ r.proto = ProtoOf[i]
                            /\ n > 2 /\ p \notin skipped => r.pid # 0
                      /\ only = p /\ n > 2 /\ p \notin skipped =>
                            [fd |-> n, inode |-> i, proto |-> ProtoOf[i]] \in shown
    BY DEF SteadySocketShown
  <2>1. i # 0 /\ i \in DOMAIN table /\ table[i] = ProtoOf[i]
    BY NetAssumption DEF NInv, InOrder, TableSteady
  <2>2. ~Pending(p, n)
    BY DEF NInv, InOrder, Pending
  <2>3. n > 2 /\ p \notin skipped =>
            /\ only = 0 => i \in DOMAIN owner
            /\ only = p => n \in DOMAIN mine /\ mine[n] = i
    BY <2>2 DEF NInv, OwnerSteady, Readable
  <2>4. ASSUME only = 0
        PROVE  \E r \in shown : /\ r.inode = i /\ r.proto = ProtoOf[i]
                                /\ n > 2 /\ p \notin skipped => r.pid # 0
    <3> DEFINE row == [inode |-> i, proto |-> table[i],
                       pid |-> IF i \in DOMAIN owner THEN owner[i] ELSE 0]
    <3>1. row \in shown
      BY <2>1, <2>4 DEF NInv, Printed, SystemRows
    <3>2. i \in DOMAIN owner => owner[i] # 0
      BY NetAssumption DEF NInv, NetTypeOK
    <3> QED
      BY <2>1, <2>3, <2>4, <3>1, <3>2
  <2>5. ASSUME only = p, n > 2, p \notin skipped
        PROVE  [fd |-> n, inode |-> i, proto |-> ProtoOf[i]] \in shown
    <3>1. only # 0
      BY <2>5, NetAssumption
    <3> QED
      BY <2>1, <2>3, <2>5, <3>1 DEF NInv, Printed, ProcessRows
  <2> QED
    BY <2>4, <2>5
<1> QED
  BY <1>1, NetInvariance, PTL

-----------------------------------------------------------------------------
(* While nothing changes, the open table still has the rows it had, and the
   lookup holds the sockets of the tables that were read. *)
QuietTable ==
    quiet => /\ used = Sockets(fds) /\ held = Descriptors(fds) /\ always = held
             /\ shifted = {}
             /\ \A t \in reading : due = Rows(t) /\ rows \subseteq Rows(t)
             /\ DOMAIN table \ {0} = {i \in used : ProtoOf[i] \notin unread \cup failed}

LEMMA QuietTableInit == NetInit => QuietTable
<1> SUFFICES ASSUME NetInit PROVE QuietTable
  OBVIOUS
<1>1. {i \in used : ProtoOf[i] \notin unread \cup failed} = {}
  BY NetAssumption DEF NetInit, Sockets
<1> QED
  BY <1>1 DEF NetInit, QuietTable

LEMMA QuietTableStep == NInv /\ QuietTable /\ [NetNext]_netVars => QuietTable'
<1> SUFFICES ASSUME NInv, QuietTable, [NetNext]_netVars PROVE QuietTable'
  OBVIOUS
<1> USE DEF world
<1>1. CASE Machine
  BY <1>1 DEF Machine, Open, Pass, Close, Expire, Becomes, QuietTable
<1>2. ASSUME NEW t \in Protos, OpenTable(t)
      PROVE  QuietTable'
  BY <1>2 DEF OpenTable, QuietTable, Descriptors, Sockets, Rows, RowsOf
<1>3. ASSUME NEW t \in Protos, NEW i \in Inodes \cup {0}, ReadRow(t, i)
      PROVE  QuietTable'
  <2>1. UNCHANGED <<fds, orphans, reading, due>> /\ rows' = rows \cup {i} /\ i \in Rows(t) /\ t \in reading
    BY <1>3 DEF ReadRow
  <2>2. quiet => Rows(t) = due
    BY <2>1 DEF QuietTable
  <2>3. \A u : Rows(u)' = Rows(u)
    BY <2>1 DEF Rows, RowsOf, Sockets
  <2>4. quiet => \A u \in reading : due = Rows(u) /\ rows' \subseteq Rows(u)
    BY <2>1, <2>2 DEF QuietTable
  <2> QED
    BY <1>3, <2>1, <2>3, <2>4 DEF ReadRow, QuietTable, Descriptors, Sockets
<1>4. ASSUME NEW t \in Protos, EndTable(t)
      PROVE  QuietTable'
  <2> SUFFICES ASSUME quiet PROVE QuietTable'
    BY <1>4 DEF EndTable, QuietTable
  <2>1. /\ UNCHANGED <<world, failed>> /\ reading' = {} /\ unread' = unread \ {t}
        /\ t \in reading /\ DOMAIN table' = DOMAIN table \cup rows
    BY <1>4 DEF EndTable, PutRows
  <2>2. rows = Rows(t)
    BY <1>4 DEF EndTable, QuietTable
  <2>3. rows \ {0} = {i \in used : ProtoOf[i] = t}
    BY <2>2, NetAssumption DEF QuietTable, Rows, RowsOf, Sockets
  <2>4. t \in unread /\ t \notin failed
    BY <2>1 DEF NInv, NetTypeOK, InOrder
  <2>5. DOMAIN table' \ {0} = {i \in used : ProtoOf[i] \notin unread' \cup failed}
    BY <2>1, <2>3, <2>4 DEF QuietTable
  <2> QED
    BY <2>1, <2>5 DEF QuietTable, Descriptors, Sockets
<1>5. ASSUME NEW t \in Protos, TableFails(t)
      PROVE  QuietTable'
  <2>1. UNCHANGED <<world, table>> /\ reading' = {} /\ unread' \cup failed' = unread \cup failed
    BY <1>5 DEF TableFails, NextTable
  <2> QED
    BY <2>1 DEF QuietTable, Descriptors, Sockets
<1>6. CASE UNCHANGED <<world, tableVars>>
  BY <1>6 DEF QuietTable, Descriptors, Sockets, Rows, RowsOf, tableVars, scanVars
<1> QED
  BY <1>1, <1>2, <1>3, <1>4, <1>5, <1>6
  DEF NetNext, NoTables, ListProcesses, NextProcess, PrintSockets, SkipProcess, ListFDs,
      ReadLink, netVars

(* On a machine at rest the rows with an inode are the sockets that are held,
   and the rows of `net PID` its descriptors above 2, but for failed tables. *)
THEOREM QuietRowsHold == NetSpec => []QuietRowsExact
<1>1. NInv /\ QuietTable => QuietRowsExact
  <2> SUFFICES ASSUME NInv, QuietTable, step = "done", quiet
               PROVE  QuietRowsExact
    BY DEF QuietRowsExact
  <2>1. /\ held = Descriptors(fds) /\ always = held /\ shifted = {} /\ used \subseteq Inodes
        /\ DOMAIN table \ {0} = {i \in used : ProtoOf[i] \notin failed}
    BY DEF NInv, InOrder, QuietTable, NetTypeOK
  <2>2. ASSUME only = 0
        PROVE  {r.inode : r \in shown} = DOMAIN table
    <3> DEFINE row(i) == [inode |-> i, proto |-> table[i],
                          pid |-> IF i \in DOMAIN owner THEN owner[i] ELSE 0]
    <3>1. shown = {row(i) : i \in DOMAIN table}
      BY <2>2 DEF NInv, Printed, SystemRows
    <3>2. \A i : row(i).inode = i
      OBVIOUS
    <3> HIDE DEF row
    <3> QED
      BY <3>1, <3>2
  <2>3. ASSUME only # 0
        PROVE  {<<only, r.fd, r.inode>> : r \in shown} =
                   {e \in held : /\ e[1] = only /\ only \notin skipped
                                 /\ e[2] > 2 /\ ProtoOf[e[3]] \notin failed}
    <3>1. shown = ProcessRows
      BY <2>3 DEF NInv, Printed
    <3>2. ASSUME NEW n \in DOMAIN mine
          PROVE  /\ <<only, n, mine[n]>> \in held /\ n > 2
                 /\ only \notin skipped /\ ProtoOf[mine[n]] \notin failed
      BY <2>1, <2>3, <3>2 DEF NInv, FoundHeld, OnlyTarget
    <3>3. ASSUME NEW e \in held, e[1] = only, only \notin skipped, e[2] > 2,
                 ProtoOf[e[3]] \notin failed
          PROVE  \E n \in DOMAIN mine : e = <<only, n, mine[n]>>
      <4>1. e[1] \in Pids /\ e[2] \in FdNums /\ e[3] \in Inodes /\ e = <<e[1], e[2], e[3]>>
        BY DEF NInv, NetTypeOK, Descriptor
      <4>2. ~Pending(e[1], e[2])
        BY DEF NInv, InOrder, Pending
      <4>3. e[2] \in DOMAIN mine /\ mine[e[2]] = e[3]
        BY <2>1, <3>3, <4>1, <4>2 DEF NInv, OwnerSteady, Readable
      <4> QED
        BY <3>3, <4>1, <4>3
    <3>4. {<<only, r.fd, r.inode>> : r \in ProcessRows} = {<<only, n, mine[n]>> : n \in DOMAIN mine}
      <4> DEFINE row(n) == [fd |-> n, inode |-> mine[n], proto |-> table[mine[n]]]
      <4>1. ProcessRows = {row(n) : n \in DOMAIN mine}
        BY DEF ProcessRows
      <4>2. \A n : row(n).fd = n /\ row(n).inode = mine[n]
        OBVIOUS
      <4> HIDE DEF row
      <4> QED
        BY <4>1, <4>2
    <3> QED
      BY <3>1, <3>2, <3>3, <3>4
  <2> QED
    BY <2>1, <2>2, <2>3 DEF QuietRowsExact
<1> QED
  BY <1>1, NetInvariance, QuietTableInit, QuietTableStep, PTL DEF NetSpec
=============================================================================
