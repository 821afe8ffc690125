-------------------------------- MODULE Maps --------------------------------
(***************************************************************************)
(* `procsec maps <PID>`: ReadMaps reads /proc/<pid>/maps line by line, by  *)
(* rising address, then ReadSmapsSummary adds up /proc/<pid>/smaps, while  *)
(* the process maps, unmaps and protects memory, execs and exits.  A file  *)
(* that is open keeps to the memory it was opened for.                     *)
(***************************************************************************)
EXTENDS Naturals, Sequences, FiniteSets, Functions

CONSTANTS
    Slots,       \* addresses at which something may be mapped
    Mappings,    \* what may be mapped
    MaxTouches   \* bound: steps of the process

\* rss and anon: kB that are resident, and those of them with no file behind.
Mapping == [writable : BOOLEAN, executable : BOOLEAN, file : BOOLEAN, rss : Nat, anon : Nat]

\* An address space has finitely many addresses.
ASSUME MapsAssumption ==
    /\ Slots \subseteq Nat /\ IsFiniteSet(Slots)
    /\ Mappings \subseteq Mapping
    /\ MaxTouches \in Nat

VARIABLES
    mem,       \* the mappings of the process, by address
    life,      \* "runs", "zombie", or "gone" from /proc
    touches,   \* steps of the process so far
    where,     \* "start", "maps", "smaps", "done", or "failed"
    orphan,    \* the memory of the file that is open is no more
    addr,      \* the address from which the kernel goes on in that file
    lines,     \* the mappings that ReadMaps has returned or will return
    sums,      \* the totals of ReadSmapsSummary
    whole,     \* smaps was read to its end without an error
    calm,      \* history: the process has done nothing since the start
    settled    \* history: addresses mapped all the time, and the same way

mapsVars == <<mem, life, touches, where, orphan, addr, lines, sums, whole, calm, settled>>

Sums == [rss : Nat, anon : Nat, execAnon : Nat, rwx : Nat]
Line == [slot : Slots, map : Mappings]
NoSums == [rss |-> 0, anon |-> 0, execAnon |-> 0, rwx |-> 0]

MapsTypeOK ==
    /\ DOMAIN mem \subseteq Slots /\ mem \in [DOMAIN mem -> Mappings]
    /\ life \in {"runs", "zombie", "gone"}
    /\ touches \in Nat /\ addr \in Nat
    /\ where \in {"start", "maps", "smaps", "done", "failed"}
    /\ orphan \in BOOLEAN /\ whole \in BOOLEAN /\ calm \in BOOLEAN
    /\ lines \in Seq(Line)
    /\ sums \in Sums
    /\ settled \subseteq DOMAIN mem

Memories == UNION {[mapped -> Mappings] : mapped \in SUBSET Slots}

MapsInit ==
    /\ mem \in Memories
    /\ life = "runs"
    /\ touches = 0
    /\ where = "start"
    /\ orphan = FALSE /\ whole = FALSE /\ calm = FALSE
    /\ addr = 0
    /\ lines = << >>
    /\ sums = NoSums
    /\ settled = {}

-----------------------------------------------------------------------------
(* The process. *)

Touch ==
    /\ touches < MaxTouches
    /\ touches' = touches + 1
    /\ calm' = FALSE
    /\ UNCHANGED <<where, addr, lines, sums, whole>>

Mapped(s) == s \in DOMAIN mem

\* mmap, or a first touch of another page, or mprotect.
Map(s, m) ==
    /\ life = "runs"
    /\ Mapped(s) => mem[s] # m
    /\ mem' = [q \in DOMAIN mem \cup {s} |-> IF q = s THEN m ELSE mem[q]]
    /\ settled' = settled \ {s}
    /\ UNCHANGED <<life, orphan>>

Unmap(s) ==
    /\ life = "runs"
    /\ Mapped(s)
    /\ mem' = [q \in DOMAIN mem \ {s} |-> mem[q]]
    /\ settled' = settled \ {s}
    /\ UNCHANGED <<life, orphan>>

\* execve gives the process other memory, exit none, and wait removes the PID.
Exec ==
    /\ life = "runs"
    /\ mem' \in Memories
    /\ orphan' = TRUE
    /\ settled' = {}
    /\ UNCHANGED life

Dies ==
    /\ life # "gone"
    /\ life' = IF life = "runs" THEN "zombie" ELSE "gone"
    /\ mem' = [q \in {} |-> 0]
    /\ orphan' = TRUE
    /\ settled' = {}

MapsMachine ==
    /\ where \in {"maps", "smaps"}
    /\ Touch
    /\ \/ \E s \in Slots : Unmap(s) \/ \E m \in Mappings : Map(s, m)
       \/ Exec \/ Dies

-----------------------------------------------------------------------------
(* ReadMaps. *)

OpenMaps ==
    /\ where = "start"
    /\ where' = "maps"
    /\ calm' = TRUE
    /\ settled' = DOMAIN mem
    /\ UNCHANGED <<mem, life, touches, orphan, addr, lines, sums, whole>>

\* The mapping that the kernel shows next.
NextMapping(s) == ~orphan /\ Mapped(s) /\ addr <= s /\ \A q \in DOMAIN mem : addr <= q => s <= q

NoneLeft == orphan \/ \A s \in DOMAIN mem : s < addr

ReadMapsLine(s) ==
    /\ where = "maps"
    /\ NextMapping(s)
    /\ lines' = Append(lines, [slot |-> s, map |-> mem[s]])
    /\ addr' = s + 1
    /\ UNCHANGED <<mem, life, touches, where, orphan, sums, whole, calm, settled>>

\* The end of the file, also where the process has exited, and no error then;
\* smaps is opened.  Once the PID is gone, reading and opening fail.
EndMaps ==
    /\ where = "maps"
    /\ NoneLeft
    /\ where' = IF life = "gone" THEN "failed" ELSE "smaps"
    /\ orphan' = (life # "runs")
    /\ addr' = 0
    /\ UNCHANGED <<mem, life, touches, lines, sums, whole, calm, settled>>

-----------------------------------------------------------------------------
(* ReadSmapsSummary. *)

\* Mutant: the permissions of the first mapping count for all.
RwxOfFirst(m) == lines # << >> /\ lines[1].map.writable /\ lines[1].map.executable

\* RWX, and the test on curPerms.
Rwx(m) == m.writable /\ m.executable

\* One header line and the block of details below it.
Added(m) ==
    [rss |-> sums.rss + m.rss,
     anon |-> sums.anon + m.anon,
     execAnon |-> sums.execAnon + (IF m.executable THEN m.anon ELSE 0),
     rwx |-> sums.rwx + (IF Rwx(m) THEN m.rss ELSE 0)]

ReadSmapsBlock(s) ==
    /\ where = "smaps"
    /\ NextMapping(s)
    /\ sums' = Added(mem[s])
    /\ addr' = s + 1
    /\ UNCHANGED <<mem, life, touches, where, orphan, lines, whole, calm, settled>>

\* The end of the file, or an error: then there is no line of totals.
EndSmaps ==
    /\ where = "smaps"
    /\ NoneLeft
    /\ where' = "done"
    /\ whole' = (life # "gone")
    /\ UNCHANGED <<mem, life, touches, orphan, addr, lines, sums, calm, settled>>

MapsNext ==
    \/ MapsMachine
    \/ OpenMaps \/ EndMaps \/ EndSmaps
    \/ \E s \in Slots : ReadMapsLine(s) \/ ReadSmapsBlock(s)

MapsSpec == MapsInit /\ [][MapsNext]_mapsVars

-----------------------------------------------------------------------------
(* Properties. *)

LinesOf(s) == {i \in DOMAIN lines : lines[i].slot = s}
RssOf(S) == SumFunctionOnSet([s \in DOMAIN mem |-> mem[s].rss], S)
RssOfLines(I) == SumFunctionOnSet([i \in DOMAIN lines |-> lines[i].map.rss], I)
RwxLines == {i \in DOMAIN lines : Rwx(lines[i].map)}

(* Whatever else is mapped, unmapped or protected in the meantime, a mapping that
   stays as it is stands in the table once, as it is, and in the total of
   writable and executable memory; and on a process that does nothing the total
   is that of the mappings which the table marks. *)
SettledCounted ==
    where = "done" =>
        /\ \A s \in settled : \E i \in LinesOf(s) : LinesOf(s) = {i} /\ lines[i].map = mem[s]
        /\ whole => RssOf({s \in settled : mem[s].writable /\ mem[s].executable}) <= sums.rwx
        /\ calm => sums.rwx = RssOfLines(RwxLines)
=============================================================================
