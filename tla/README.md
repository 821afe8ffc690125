# A verification development for procsec

procsec reads `/proc` and says what runs on a Linux machine, with which
privileges, and what changes.  It keeps no lock on anything it looks at: between
any two of its reads processes start, exec, change credentials, exit, turn into
zombies, and leave their PIDs to others.  This directory holds TLA+ modules that
model the program over such a `/proc`, TLC configurations that check them on
small instances, and proofs that TLAPS checks for every value of the constants.

## 1. The system

| Component | Source | State it keeps | Operations | Hard behaviour |
|---|---|---|---|---|
| Watcher | `monitor/watch.go` | `known` (snapshot per PID, with the time of its last deep check), filter | `NewWatcher`, `Run`, `poll`, `detectContextChange` | torn polls, PID reuse, sends that block on a full channel, deep checks at long intervals, failed reads, stop |
| `watch` command | `cmd/procsec/main.go` `cmdWatch` | channels `events`, `stop`, `sigs`, the log file | select loop, display, JSONL log | select order, a signal while busy, kills between two writes, restarts on the same log |
| Process scan | `proc/process.go`, `proc/status.go` | none | `ListPIDs`, `ReadProcess`, `ReadAll`, `ReadStatusExtra` | a list that no moment ever showed |
| Process tree | `proc/tree.go`, `output/print.go` | maps built per call | `BuildTree`, `SubtreeAt`, `Ancestors`, `pruneTreeToUID`, `PrintTree` | PID reuse that closes a cycle, orphans, reparenting |
| Security profile | `output/json.go`, `proc/access.go` | one record per call | `BuildSecurityProfile`, `ProbeAccessibility` | some fourteen reads of one changing process |
| Risk score | `security/risk.go`, `output/table.go` | none | `ScoreProcess`, `Label`, `quickRisk` | weights, caps, inputs that were never read |
| Sockets | `proc/sockets.go`, `proc/fd.go`, `cmdNet` | one map per call | `ReadSockets`, `ReadFDs`, `ProcessSockets` | a table is scanned row by row and may fail; tables and descriptors are read at different times |
| Decoding | `security/capabilities.go`, `lsm.go`, `seccomp.go` | tables | decode masks and contexts | zero values of failed reads |
| Filter, snapshot, diff | `proc/filter.go`, `snapshot.go`, `classify.go` | a JSON file | `Apply`, `Take`, `Save`, `Load`, `Diff` | keys that collide, a file half written, saves and loads that overlap |
| Namespaces | `proc/namespace.go`, `cmdNS` | none | `ReadNamespaces`, `CompareNamespaces` | two PIDs read link by link at different times, denied links taken for an exit |
| Memory | `proc/maps.go`, `smaps.go`, `cmdMaps` | none | `ReadMaps`, `ReadSmapsSummary` | files that follow a changing address space |
| Environ, cgroup | `proc/environ.go`, `cgroup.go` | none | single reads | none beyond a process that is gone |
| Command line, output | `cmd/procsec/main.go`, `output/*.go` | none | parse, print | none beyond the above |

They interact in three ways.  `cmdWatch` starts `Run` in a goroutine and talks to
it over a channel of events with a capacity (256 in the code) and a `stop` channel
that is closed once; all other calls are synchronous; and everything shares
`/proc` with the rest of the machine, which is the real source of concurrency.
What makes each part correct:

* Watcher: per PID the client hears start, changes, exit, in this order; what is
  tracked is what the client was told; no change of status that a deep check can
  see is lost or told twice; an exit is told of what is gone, and nothing is told
  of what the filter excludes; everything lasting is told in the end.
* `watch`: the log is a prefix-exact copy of what was sent, the terminal shows the
  same, each signal ends the command, and an accident costs one line at most.
* Tree: unless a PID is reused in the middle of the scan, nothing that was read is missing
  and every operation ends; `tree`, `tree --pid`, `tree --user` and the ancestry chain of
  `inspect` agree.
* Profile and score: each reason given was true at some moment; an undisturbed
  profile is exact and explains what it lacks; weights stay in their range.
* Sockets: an owner is one that held the socket; a steady socket of a table that could
  be read is never missed.
* Baselines: a process that ran on unchanged is no difference; a load gives a whole
  snapshot, the latest, or an error.  Filters: a process that did not change is
  listed if and only if it is what was asked for.
* Namespaces and memory: what stayed the same during the reads is reported once and
  as it is; what is absent has a cause.

## 2. The modules

| Module | Models | Correspondence |
|---|---|---|
| `ProcFS` | `/proc`, external | `procs` maps a PID to a process: a generation `gen` (what the program cannot see), its kind (kernel, user, zombie) and the values of the watched fields. `Birth`, `Change`, `BecomeZombie`, `Reap`. |
| `WatchStream` | what `poll` promises about events | the abstract specification: `told`, the last state told per PID, the bounded channel `chan`, `stop`. Actions `EmitStarted`, `EmitContextChanged`, `EmitExited`, `TakeEvent`, `CloseStop`. |
| `Watcher` | `monitor/watch.go` | `pc` is the place in `Run`/`poll`, `known` and `seen` are the maps of the code, `todo` the PIDs still to be visited, `cur` the process in hand, `changes` the list under construction, a snapshot's `age` the time since its last deep check. One action per read of `/proc` and per send; a send that finds the channel full is not enabled, which is how a goroutine blocks. |
| `WatchCmd` | `cmdWatch` | `at` is the place in the loop: in `select`, printing, between the two writes. `WatchStream` stands for the watcher, whose implementation of it is proved. `file` is the log over all runs, `base` where this run's part begins. |
| `ProcTree` | `ReadAll` and `proc/tree.go`, `pruneTreeToUID` | `phase`, `todo` and `read` build the list record by record while the machine forks, exits, reparents and reuses PIDs; the tree operations are recursive functions over `read`. |
| `Profile` | `BuildSecurityProfile`, `ProbeAccessibility`, `ScoreProcess`, `quickRisk`, `renderTop` | `at` is the next read; the history variables `held`, `lacked`, `levels` record what the process had been since `ReadProcess`. A source that cannot be opened leaves zero values, as in the code. |
| `Net` | `cmdNet`, `ReadSockets`, `ReadFDs`, `ProcessSockets`, `PrintSockets` | `reading`, `due` and `rows` are the table being scanned: the rows it had when it was opened and those read so far; `table` is the map by inode, `links` the descriptors of the process being scanned, `owner` the map of `net`, `mine` the rows of `net PID`, one per descriptor, `shown` what is printed; `failed` and `shifted` are the tables that could not be read and those that a row left meanwhile, `held` and `always` record who held what. |
| `Baseline` | `proc/snapshot.go`, `ReadAll` and `ReadProcess`, `proc/filter.go`, `isKernelThread`; `cmdSnapshot`, `cmdDiff`, `cmdPS`, `cmdZombies`, `cmdRoot`, `watch --baseline` | two tools, a saver and a viewer, each at its place `pc`; `file` is what the snapshot's file holds, `data` what the viewer has read of it, `doc` the document of the last save. `WritePart` and `ReadPart` are the pages that the kernel copies; `Ends` is a return, an error or a kill. `steady` keeps, for each span of time that matters, the PIDs that did not change in it and were read without an error. |
| `Namespaces` | `proc/namespace.go`, `cmdNS` | `at` is the side whose links are read, `got` the two maps; `held`, `unseen` and `kept` record what the processes behind the PIDs had, when a link did not resolve, and which links stayed the same. |
| `Maps` | `proc/maps.go`, `proc/smaps.go`, `cmdMaps` | `mem` is the address space, `addr` where the kernel goes on in the open file, `orphan` says that this file's memory is no more; `lines` and `sums` are the results. |
| `Commands` | `main`'s choice of a command | the composition of the three above: one command in each behaviour, the others at rest. |
| `MCWatcher`, `MCProfile`, `MCNet`, `MCBaseline`, `MCCommands` | values for TLC | |
| `WatcherProofs`, `WatchCmdProofs`, `ProcTreeProofs`, `ProfileProofs`, `NetProofs`, `BaselineProofs`, `CommandsProofs` | theorems about the module of that name; `CommandsProofs` also about `Namespaces` and `Maps` | |
| `Recursion` | lemmas on numbers, recursive functions and sums over finite sets, which the proofs share | |

The watcher is checked and proved to implement `WatchStream`
(`Promise == Stream!StreamSpec`, in the module `Watcher`), and `WatchCmd` is built
upon `WatchStream` alone: the two are composed through that contract, so that the
command's model need not carry `/proc` with it.

### Abstractions

A field's value is a small number, an executable the value of a field `exe`, an
event a record of a kind, a PID and the values it carries.  Time is counted in
poll intervals: `Deep` is `DeepCheckInterval` over `Interval`, and `Deep` = 0 is
`--no-context`.  A read of one file is atomic, as the kernel prepares its text in
one go; two reads never are.  Three reads take several steps, because the text is not
prepared in one go: a socket table is read row by row in `Net` (the kernel goes on by
counting rows, so a row that leaves may hide another, and one that comes may be seen or
not), `maps` and `smaps` address by address in `Maps`, and a saved baseline page by page
in `Baseline`.  A zombie has no executable and no namespaces; a
process outside `InspectableUids`, or not "inspectable", denies the readlinks that
need ptrace access.  `ReadErrors` lets any read fail for no reason.  A capability
mask is the number of capabilities of interest it holds, or all bits.

In `Baseline` a text is a sequence of characters, because the properties depend on
three of them: the bar, which separates the parts of a key, a byte that is no valid
UTF-8, and U+FFFD, which JSON puts in its place.  A document is the sequence of its
entries and of the closing brackets, which is enough to tell a whole one from a part.
A filter is a record of what it asks for; an unresolved `--user` is one that does not
ask for a UID.  In `Maps` a mapping is its permissions and its resident and anonymous
kB; totals that are added up in the same way as these are left out.

## 3. The runs

| Run | Checks | Bounds |
|---|---|---|
| `Watcher` | `TypeOK`, `KnownIsTold`, `FilterRespected`, `NetnsTold` | two PIDs, two births in all; two UIDs of which the filter admits one, two network namespaces, kernel threads excluded, failing reads; one PID differs from a plain process in one field at a time, the other only comes and goes; the client goes on receiving; capacity 1; a deep check at every later poll |
| `WatcherLive` | `StatusTold`, `Promise`, `ExitedMeansGone`, `StartReported`, `ExitReported`, `StatusChangeReported`, `StopEndsRun` | one PID of two births, two values of `cap_eff`, capacity 1 |
| `WatcherOwner` | `OwnerChangeReported` is violated | one PID, two UIDs, a deep check at every second poll |
| `WatcherDropped` | `ExitedMeansGone` is violated with a filter | one PID, two UIDs |
| `WatcherReused` | `EveryStartReported` is violated | one PID of two births |
| `WatchCmd` | `CmdTypeOK`, `LogFollows`, `ShownIsLogged`, `GluedByAccident`, `SignalEnds`, `EventHandled` | one PID, capacity 2, three events a run, two runs on one log, one failing write |
| `ProcTree` | `TreeTypeOK`, `TreeComplete`, `ChainIsPath`, `ChainEnds`, `PruneKeepsAncestry`, `SubtreeIsBeneath` | init and three PIDs, three births, two UIDs |
| `ProcTreeCycle` | `TreeShowsAll` is violated | init and two PIDs, three births |
| `Profile` | `ProfileTypeOK`, `QuietScoreExact`, `ReasonsHold`, `QuickNeverHigh`, `QuietAccessExact` | four shapes of processes, four masks, two changes |
| `Net` | `NetTypeOK`, `OwnerHeld`, `SteadySocketShown`, `QuietRowsExact` | two PIDs (taken as interchangeable), descriptors 0 and 3, two inodes in one table and a second table, rows without an inode in both, failing tables, two changes |
| `NetLost` | `EverySocketListed` is violated | two PIDs, two tables, no change |
| `Commands` | `CommandsTypeOK`, `SteadyNeverDiffers`, `QuietDiffExact`, `LoadedIsLatest`, `SteadyListed`, `SteadyCompared`, `AbsentWasUnseen`, `SettledCounted` | PIDs 2 and 5, four looks (two owners, a zombie whose name is cut within a character, a kernel thread), a viewer that may not see root's executables, four filters; three namespace types of which the kernel has two, two identifiers; two addresses and three kinds of mappings |

Why the bounds are enough.  The hazards of the watcher concern one PID (reuse,
two deep checks, a filter that no longer matches) or the order of two PIDs in one
sweep; two births give one reuse, which is what a second one would repeat.
Capacity 1 makes every second send block.  A cycle of parents needs two processes
and one reuse; three PIDs make a subtree beside it, or a chain of three.  A
profile's race needs one change between two reads, and two give a change and its
undoing, or an exit and a reuse.  A socket passed from one process to another and
closed by the first is two changes, and one row that leaves the table in mid-scan
while another stays is one.  A namespace that changes, unreadable in between, needs
one PID and reads that fail, and the order of two PIDs in a sweep needs of the second
one that it starts and exits: `MCMachine` leaves it at that, and
`MCNext` leaves the closing of `stop` to `WatcherLive`.  `MaxMoves` = 3 pays for two
saves, one of them overlapping a load or killed, and one change or failed read, or for one save and a
change and its undoing; it counts saves so that the file is rewritten a bounded number
of times.  PID 2 is one of the PIDs because `isKernelThread` treats it apart.
`MaxShifts` = 2 is a change and its undoing, or a PID that changes hands after the
first side was read; `MaxTouches` = 2 likewise.  `MaxBirths`, `MaxChanges`,
`MaxEvents`, `MaxStarts`, `MaxFails`, `MaxMoves`, `MaxShifts` and `MaxTouches` are the
only caps on counters.  The theorems below do
without any of the bounds on sets and values; they only assume that the tree's PIDs and
the addresses of a process are finite, as the kernel has them.

`CHECK_DEADLOCK FALSE` stands in the configurations because these systems may stop:
`Run` and the commands return, and a machine whose births or changes are used up
goes quiet.

### Fairness

`Watcher` assumes weak fairness of the goroutine's own steps (the Go scheduler runs
a goroutine that can run), of `Tick` (the runtime's timer, which drops ticks but
never stops) and of `Receive` (the loop of `cmdWatch`, which returns to its select).
`ReturnOnStop` has strong fairness: Go's select picks at random among the cases
that are ready, so that a case that is ready again and again is taken at last.  No
fairness is assumed of `/proc`, of `CloseStop`, or of failures.  `WatchCmd` assumes weak
fairness of the main goroutine and strong fairness of the signal's case, for the
same reason; nothing of kills, signals and the watcher.

## 4. What the checks found

* **A change of owner may be lost** (`WatcherOwner`).  `poll` copies the process
  into the snapshot at every sweep (`watch.go:190`) but compares only at deep checks.
  A UID, GID or exe that changed between two deep checks is overwritten, and the next
  deep check sees no difference.  With the defaults (polls every 100 ms, deep checks
  every 2 s) nineteen sweeps of twenty overwrite it; the capability, seccomp and
  no_new_privs fields and the namespace, which only deep checks write, are not lost
  (`StatusTold`, `NetnsTold`, `StatusChangeReported`).
* **Leaving the filter is told as an exit** (`WatcherDropped`, `watch.go:194`).
* **A cycle of parents** (`ProcTreeCycle`, `tree.go:26`): with a PID reused in the
  middle of a scan processes disappear from `tree`, and `tree --pid`, whose sort
  recurses over all nodes (`tree.go:58-60`), would not end.  Never without such a reuse
  (`TreeComplete`, and `NoCycleWithoutReuse` for every machine).
* **A start that is not told** (`WatcherReused`, `watch.go:165`): a PID that is reaped and
  handed out again between two polls stays known.  `StartReported` therefore leaves
  such PIDs out; all others are told.
* **Rows without an inode become one** (`NetLost`, `sockets.go:95`), those of all tables
  together.

Seen on the way, without a run of their own, and left out by the guards of the
properties named here:

* The first read of a status fails and leaves zeros, which the next deep check reports
  as a change that never happened (`watch.go:169`).  The namespace is guarded against
  this (`NetnsTold`).
* A socket on descriptor 0, 1 or 2 has no owner in the report (`fd.go:70-75`;
  `SteadySocketShown` speaks of descriptors above 2).
* The sources of a profile are probed before they are read, and a process that exits in
  between has sections missing that are recorded as readable (`json.go:80`;
  `QuietAccessExact`).
* The quick score counts an LSM that it never reads (`table.go:77-85`).
* JSON replaces bytes that are not UTF-8, the live name keeps them: a name of
  several-byte characters that the kernel cut at 15 bytes never matches its own entry in
  the baseline (`snapshot.go:47`; `SteadyNeverDiffers`).
* A bar in a name or a path is taken for the separator of a key, so that two processes
  may have one key (`snapshot.go:29`; `QuietDiffExact`).

And of less weight: the README says that `ps --risk` shows
the reasons, the table prints a label (`table.go:56-60`); a status that cannot be read
counts as seccomp enabled (`json.go:111`); a table of sockets whose read fails in the
middle is dropped without a word (`sockets.go:88-92`).  A run of `watch`
that is killed between the two writes of a log line, or whose second write fails, makes two
events share a line (`main.go:671-672`), once for each such accident
(`GluedByAccident`), and nothing else does.  A save that truncates the baseline while it
is being loaded can splice two documents.  Entries are compared as a set of texts: a second instance of a
process in the baseline is no difference, and what `main.go:563` calls "process type(s)" are instances.  A process
beneath PID 2 of its PID namespace, or PID 2 itself, is taken for a kernel thread while
its executable cannot be resolved.  `ns` says "process no longer exists" of a process
that may not be traced (`namespace.go:46`).  `ReadMaps` promises `ErrProcessGone` for
an exit in the middle (`maps.go:46-47`), but a process that has exited and is not yet
reaped shows an end of file, and the list so far is returned without an error.  `ExecutableAnonKB`, "anonymous
mappings that are also executable" (`smaps.go:26`), counts the anonymous pages of every
executable mapping, private copies of a file's pages included.  `proc.Filter.ExcludeKernel` is set by no command;
`watch --exclude-kernel` sets the watcher's own filter.

## 5. What is proved

For every set of PIDs, every set of values, and every value of the other constants
that satisfies the named assumptions (`PidsAssumption` and the like in the modules):

| Theorem | Module | States |
|---|---|---|
| `TypeCorrect`, `Invariance` | `WatcherProofs` | `[]TypeOK`, and the invariant `IInv` |
| `TracksWhatItTold` | `WatcherProofs` | `[]KnownIsTold` |
| `KeepsPromise` | `WatcherProofs` | the watcher implements `WatchStream` |
| `StatusToldHolds` | `WatcherProofs` | `[]StatusTold` |
| `ExitedHolds` | `WatcherProofs` | `ExitedMeansGone`, without filter and read errors |
| `FilterHolds` | `WatcherProofs` | `[]FilterRespected` |
| `NetnsToldHolds` | `WatcherProofs` | `[]NetnsTold` |
| `CmdTypeCorrect`, `LinesAreToldApart`, `LogFollowsAlways`, `ShownIsLoggedAlways` | `WatchCmdProofs` | `[]CmdTypeOK`, `[]GluedByAccident`, `[]LogFollows`, `[]ShownIsLogged` |
| `TreeTypeCorrect`, `NoCycleWithoutReuse`, `TreeCompleteAlways` | `ProcTreeProofs` | `[]TreeTypeOK`, `[]NoCycle`, `[]TreeComplete` |
| `ChainEndsAlways`, `ChainIsPathAlways`, `SubtreeIsBeneathAlways`, `PruneKeepsAncestryAlways` | `ProcTreeProofs` | `[]ChainEnds`, `[]ChainIsPath`, `[]SubtreeIsBeneath`, `[]PruneKeepsAncestry` |
| `ProfileTypeCorrect`, `ReasonsAlwaysHold`, `QuickScoreNeverHigh`, `QuietScoreHolds`, `QuietAccessHolds` | `ProfileProofs` | the five invariants of the run |
| `NetTypeCorrect`, `OwnersHeldSockets`, `SteadySocketsShown`, `QuietRowsHold` | `NetProofs` | the four invariants of the run |
| `BaselineTypeCorrect`, `LoadsTheLatest`, `SteadyAreNoDifference`, `SteadyAreListed`, `QuietDiffHolds` | `BaselineProofs` | `[]BaselineTypeOK`, `LoadedIsLatest`, `[]SteadyNeverDiffers`, `[]SteadyListed`, `[]QuietDiffExact` |
| `NsTypeCorrect`, `AbsenceHasCause`, `SteadyTypesCompared` | `CommandsProofs` | `[]NsTypeOK`, `[]AbsentWasUnseen`, `[]SteadyCompared` |
| `MapsTypeCorrect`, `SettledAreCounted` | `CommandsProofs` | `[]MapsTypeOK`, `[]SettledCounted` |
| `CommandIsOneOfThem`, `CommandsTypeCorrect`, `CommandsConclude` | `CommandsProofs` | a run of the composition is a run of each of its modules, so that all of the above holds of it |

The arguments:

* **Watcher.**  `KnownIsTold` is not inductive: whether a send keeps it depends on
  where in the sweep it happens.  `IInv` adds that outside the loop body there is no
  process in hand (`Busy`), that there is at most one (`OneCur`), that a process in
  hand at a deep check is tracked (`CurTracked`), and which of the sets are empty at
  which step (`Shape`).  On top of it, `StatusInv` says that a pending change has the
  told value as its old one and the snapshot's as its new one (`ChangesReal`), from
  which `StatusTold` follows, and the refinement: the old values a `ContextChanged`
  carries are those that were told.  `GoneInv` says that generations only grow and
  that what was tracked and not seen in the sweep so far had left before it was
  listed (`GensBounded`, `UnseenDeparted`); this fails with a filter, and the
  theorem assumes there is none.  `FilterInv` adds that the process in hand
  matches wherever it is about to be tracked (`CurMatches`).  `NetnsInv` adds that a
  change of the namespace is listed only when it is about to be sent (`NetnsPending`).
* **Watch command.**  `CmdInv` adds to the types that main has an event in hand whenever
  it is about to print or write one, and that a living run has not been counted as
  killed.  `GluedByAccident` is not inductive: `GlueInv` adds that a file that ends in
  an event without its newline has an accident left over, unless main is about to
  write that newline; an append glues at most its own place.  Accidents (`cuts`) are
  the kills that come just then and the newlines that fail, and no others.  `LogInv` follows each event
  from the watcher through the channel and main's hand into the log: the three together
  are what was sent, the hand is empty in `select` and when only the newline is left, and
  the terminal is behind the log and the hand by the event in hand or by nothing.  It
  needs that a fold which keeps the members of a set distributes over an append
  (`KeptIs`, `KeptUpto`).
* **Tree.**  A process is younger than the parent it had at birth, and reparenting
  leads to init, which is older than all (`AgedTable`); records keep it
  (`AgedRecords`).  In a set of records closed under parents the oldest would have an
  older parent with the recorded generation, if no PID was reused.  The recursions of
  `tree.go` are functions that repeat a step as often as there are records.  `FixedPoint`
  shows that a step that only adds has then added all it can, so that `Forest`,
  `SubtreeAt` and `Pruned` are the least sets closed under their step; here PIDs must be
  finite, as they are below `pid_max`.  A process of the forest is not beneath itself
  (`SortEndsInForest`), so that the sort of `SubtreeAt` ends where the forest is all
  that was read.  `Ancestors` is followed turn by turn: what it has
  so far is a path of different ancestors, with nobody in it who is not one (`ChainOf`),
  and the records run out before the turns do.  The properties are then about sets:
  two that are closed under the same thing are the same.
* **Profile.**  `PInv` says that the sources read so far match the step, that each
  flag found was held and each one missing was lacked (`Grounded`), and that the quick
  score's inputs stay narrow (`Narrow`), which bounds its sum by 50.  `QuietReads` says
  that on a process that does not change everything read so far is what it still is, and
  that the sources opened are those that the place in the assembly has passed, less the
  ones ptrace access gates; the score and the access report follow at the end.
* **Net.**  `NInv` says that what a descriptor shows now is in `held` (`HeldNow`), that
  the phases follow each other (`InOrder`, `OnlyTarget`), that the open table must still
  give its steady sockets unless a row left it (`ScanSteady`), and that what was steady
  since the beginning is in the lookup once its table was read, and owned, or a row
  of `net PID`, once its link was (`TableSteady`, `OwnerSteady`).  Whatever was found was
  held (`FoundHeld`), and is what is printed (`Printed`).  `QuietTable` adds that while
  nothing changes the lookup has just the sockets of the tables that were read.
* **Baseline.**  `DocInv` says that the file holds a prefix of the last document, also
  after a save was killed, and so does what the viewer has read, unless the file was
  truncated in between.  A document has its closing brackets at the end and nowhere else
  (`IsDocument`), so that no proper prefix can be loaded.  `SteadyInv` follows an unchanged
  process through everything that holds it: it is still to be read, in hand, in the
  list, in the document, in the loaded entries, each time as the reader sees it.
  `LiveInv` does the same for all fields of a process and the span that begins with the
  scan; with `KernelAssumption`, that kernel threads have no executable and kthreadd as
  their parent, it gives what the filter answers.  For `QuietDiffExact` it remains that the
  key of an entry without a bar belongs to no other entry, with a bar or without
  (`PlainKeyUnique`: its key has only the two bars that separate its parts).
* **Namespaces.**  `NsInv` relates, for the side being read and the one read before,
  what was got to `held`, what was not to `unseen`, and `kept` types to the links as
  they are now.
* **Memory.**  `MapsInv` says that `ReadMaps` goes up (`LinesRise`), that a settled mapping
  has its line once the reader has come by (`SettledRead`), that an exec or an exit
  leaves nothing settled (`LostAll`), and that on a process at rest every line is of a
  mapping still there (`CalmLines`).  `SumsFollow` relates the total to the addresses
  passed in `smaps`: at least what is settled below, and, at rest, what the lines below
  have.  A process may unmap or protect what was counted, which only lowers the sum
  over the settled (`RssShrinks`).
* **Commands.**  A step of the composition is a step of one module and leaves the
  variables of the others alone, so that each theorem about a module carries over.

`Recursion` holds what these proofs share.  The induction theorems of the library take an
operator, which no prover at hand can instantiate; the lemmas of `Recursion` take a set
instead, so that first-order reasoning is enough: a set of numbers has a least member
(`LeastNumber`), one that holds 0 and goes on from each number to the next holds them all
(`Induction`), so a function may be defined along the numbers (`RecursiveFunction`), a
step that only adds to a finite set comes to rest (`FixedPoint`), and a sum over a finite
set has each weight once (`SumOfAll`, `SumOfMore`).

Every invariant that a passing run checks is proved, and so are the action properties
`ExitedMeansGone` and `LoadedIsLatest` and the refinement `Promise`.  Only model-checked are
the liveness properties `StartReported`, `ExitReported`, `StatusChangeReported`,
`StopEndsRun`, `SignalEnds` and `EventHandled`, because fairness and ENABLED are out of the
prover's reach.

## 6. What is not modelled

Text: the parsing of `/proc` files, hexadecimal addresses, AppArmor and SELinux
contexts, the masking of environment values, tables and colours.  Commands that read
once and print (`environ`, `cgroup`, `caps`, `system`); `caps` among them prints empty
sets for a PID that is gone.  The options' parsing, with the silent fall-back of an
unknown `--user` (`main.go:589`), and `ResolveUser`, which asks the user database.
`ps --type` for other than kernel threads, which needs the controlling terminal of a
process and decides by its parent.  The gap between the comparison of
`watch --baseline` and the first poll: what starts in it is told by the first poll as a
start, like all that runs.

## 7. Plan

1. `ProcFS`, `WatchStream`, `Watcher`, with runs and proofs: done.
2. `WatchCmd` upon `WatchStream`, with its types and `GluedByAccident` proved: done.
3. `ProcTree`, `Profile`, `Net`, with runs and first proofs: done.
4. `Baseline`, `Namespaces`, `Maps` and their composition `Commands`, with proofs: done.
5. The tree's agreement properties, the log, the quiet properties and the totals of
   `maps`, proved with the lemmas of `Recursion`: done.
6. Left: a model of the user lookup behind `--user` and of `ps --type`.
