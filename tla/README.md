# KilnDB in TLA+

KilnDB is a single-node key-value store with multi-version snapshot reads,
first-committer-wins commits and a redo-only write-ahead log, in Python.  This
directory holds a model of it that TLC checks on small instances, and theorems
about the model that TLAPS proves for every value of its constants.

`Concept.md` calls itself the specification of the program.  The properties
here state its promises, those of the docstrings, and the rules `checker.py`
applies to histories; the models say what the code does.  Where the two
disagree a run shows it (section 6).

1. The system · 2. What is hard · 3. The modules · 4. The runs ·
5. Bounds and fairness · 6. Disagreements · 7. Proofs · 8. Not modelled · 9. Plan

## 1. The system

| part | source | state | operations | correct when |
|---|---|---|---|---|
| Engine | `engine.py` | `next_ts`, `next_txn_id`, `commit_lock`, the parts below | `begin`, `get`, `put`, `delete`, `commit`, `checkpoint`, `_recover`, `close` | commits are atomic and durable, reads come from a snapshot, no update is lost, restarts change nothing a caller can see |
| Transaction | `txn.py` | `txn_id`, `start_ts`, `commit_ts`, `state`, `write_set` | `put`, `delete`, `read_from_write_set`, `abort` | an abort is final |
| Catalog | `catalog.py` | per key a list of versions, in memory only | `install_version`, `get_visible`, `get_latest_commit_ts` | the lists are ordered and their intervals meet |
| Write-ahead log | `wal.py` | `wal.log` | `append`, `sync`, `_recover_and_truncate`, `read_all` | what was synced is never lost, a torn tail is cut off |
| Fault points | `fault.py` | `active_fault` | `set_fault`, `check` | - |
| Pages | `heap.py` `Page` | 4096 bytes, `slot_count`, `free_end` | `insert`, `get_record`, `update_record`, `serialize` | records, slot entries and header never overlap |
| Heap file | `heap.py` `HeapFile` | `heap.db` | `read_page`, `write_page`, `sync` | a page reads as it was written, or as corrupt |
| Buffer pool | `buffer.py` | cached pages, `next_page_id` | `get_page`, `new_page`, `make_dirty`, `flush_all_dirty`, eviction | no change is lost to an eviction |
| Meta file | `meta.py` | `meta`, `meta.tmp` | `load`, `save` | old or new, never half |
| Server | `server.py` | per connection one transaction at most | the text protocol | every connection's transaction ends |
| Client | `cli.py` | - | sends lines, prints answers | - |
| History checker | `checker.py` | a recorded history | five checks of it | it reports what is wrong and nothing else |
| Console | `app.py` | per browser session an engine and a transaction; one directory for all | console commands, `get_engine`, `reset_engine` | one page is one store; several do not lose their own commits; a reset is for good |
| Crash simulator | `app.py`, `crash_worker.py` | per experiment a directory, a phase, a fault | crash tab, chaos loop | its verdict is what the engine did |

How they interact.  A caller (a server thread, the console, a test) holds
`Transaction` objects and passes them to `Engine`.  `begin`, `get`, `put`,
`delete` and `abort` take no lock.  `commit` holds `commit_lock` from the
conflict check to the return: it allocates a timestamp, appends one redo record
per written key and a COMMIT record, does an `fdatasync`, installs the versions
in the catalog and marks the transaction committed.  The catalog lives in
memory; `Engine.__init__` truncates the log at its first torn record and
`_recover` replays what is left.  `checkpoint` takes the same lock and writes
dirty pages, then `meta`.  No call of the engine ever touches a page: pages are
filled by whoever uses `BufferPool` and `Page` directly, which in this
repository is `test/test_phase2.py`.  The server runs a thread per connection;
the console opens an engine per browser session, all of them on one
directory; a crash test or a chaos run opens one to commit a baseline, starts
`crash_worker.py`, which opens another and dies in it, and opens a third to look
at what is left.

## 2. What is hard

* A process can end between any two steps of a commit, of a recovery or of a
  checkpoint; the machine can lose what no `fdatasync` covered, in part.
* Appends and syncs can raise in the middle of a commit that is then retried,
  rolled back or forgotten; `os.write` can write less than it was given.
* `begin` and `get` run while another thread is anywhere inside `commit`.
* Counters start again from what recovery finds; records of a dead
  transaction stay in the log and meet ids that are given out again.
* Eviction, flushing and retries of failed checkpoints mix with callers that
  hold page objects.
* The free space of a page is used from both ends.
* Engines of several sessions share a `wal.log`, each with its own counters,
  catalog and lock; opening one truncates the file, a reset removes it.
* Experiments started in the same second share a directory with the workers
  that die in it.
* The checker's rules are about orders of timestamps, ends of transactions and
  crashes that no test of it records: its one test is a serial history.

`PROJECT.json` lists these as hazards, each at the line where it bites and with
the properties that would catch it.

## 3. The modules

| module | what it is |
|---|---|
| `Catalog` | `catalog.py` as operators on one key's list of versions |
| `Engine` | engine, transactions, log at the level of records, fault points, crashes, recovery |
| `EngineProperties` | the promises, as properties of `Engine` |
| `SnapshotStore` | the abstract store: a growing sequence of commits, and snapshots of it |
| `EngineRefinement` | the mapping under which `Engine` implements `SnapshotStore` |
| `Wal` | `wal.log` byte by byte: append, sync, the scan that truncates, `read_all` |
| `RecordLog`, `WalProperties` | the log as records, and that the bytes implement it |
| `Replay` | what `_recover` makes of a log, as operators |
| `SharedDir` | several engines, each with one transaction, on one directory |
| `Console`, `ConsoleProperties` | browser sessions: commands, opening, reset; what each may rely on |
| `Experiments`, `ExperimentsProperties` | crash tab, chaos loop and worker; what their verdicts are worth |
| `Storage` | buffer pool, heap file, meta file and checkpoint, with errors and crashes |
| `StorageProperties` | what these are to get right |
| `Page` | the slotted page, byte by byte, with its properties |
| `Checker` | `checker.py`: each check as the set of its complaints about a history |
| `RecordedStore` | a store that records its history, with flaws or without |
| `CheckerProperties` | what the checker's verdicts are worth |
| `EngineProofs` | theorems about `Engine`: types, order and counters, what survives, what a crash leaves visible, what a snapshot sees; `Engine` implements `SnapshotStore` |
| `ReplayProofs` | lemmas: induction over numbers and recursive functions; what the opening of an engine makes of a log |
| `StorageProofs`, `PageProofs` | theorems about `Storage` and `Page` |
| `WalProofs` | theorems about `Wal`; `Wal` implements `RecordLog` |
| `ConsoleProofs`, `ExperimentsProofs` | theorems: the properties of `Console` and of `Experiments` |
| `CheckerProofs` | theorems: what the checker's verdicts are worth |
| `MCEngine`, `MCEngineRefinement`, `MCStorage`, `MCPage`, `MCChecker`, `MCWal`, `MCConsole`, `MCExperiments` | the instances TLC checks |

### Engine

State: `wal` is the file, a sequence of records of which the first `synced` are
covered by an `fdatasync`; `catalog`, `next_ts` and `next_txn_id` are `Engine`'s
fields; `stage` says where the thread inside `commit()` or `__init__` is and
`committer`, `todo`, `scan` how far it has come; `state`, `txn_id`, `start_ts`,
`commit_ts`, `write_set` are the `Transaction` objects' fields; `cursor` is a
reader between `reversed(list)` and its walk; `observed` is a history variable:
what each transaction's gets of keys it had not written returned.

| code | action |
|---|---|
| `begin` | `Begin` |
| `put`, `delete` | `Put`, `Delete` |
| `get` | `GetOpen`, `GetWalk` |
| `Transaction.abort` | `Abort` |
| `commit`, empty write set / conflict | `CommitReadOnly`, `CommitConflict` |
| `commit`, step by step | `CommitStart`, `AppendRedo`, `AppendCommit`, `SyncWal`, `Install`, `Ack`, `Return` |
| an append or the sync raises | `CommitRaises` |
| `close` | `Close` |
| the four fault points of the commit path | `FaultPoint` |
| SIGKILL, power loss (external) | `Kill`, `PowerLoss` |
| `_recover_and_truncate` | `Restart` |
| `_recover` | `ReplayRedo`, `ReplayCommit`, `RecoverDone` |

Abstractions, and why they lose nothing the properties look at:

* A transaction puts its own identity, so a value names its writer.  A key
  written twice by one transaction has one entry in the write set, as in the
  code.
* A record is whole or torn: `Wal` shows that this is all there is to its bytes.
* A get of a key the transaction itself has written is answered from its write
  set and changes nothing, so it is no step here.
* The redo records of one commit are appended in any order: the code's is the
  order of a dictionary, and nothing else depends on it.
* `begin` is one step, although it takes no lock: CPython 3.12, which
  `render.yaml` pins, switches threads at calls and at backward jumps, and
  between reading `next_txn_id` and computing `start_ts` there is neither.
  `install_version` is one step for its readers for the same reason up to its
  last call, the append.  `get` does have such places and is two steps.
* `_recover` advances the counters after its second pass; here they advance
  during it.  Nobody can call the engine before `__init__` returns.
* `Engine.checkpoint` returns at `dirty_count == 0` for every caller of the
  engine alone, so `Engine` leaves it out and `checkpoint_lsn` is 0;
  `Storage` is about callers that do dirty pages.

### SnapshotStore and EngineRefinement

`SnapshotStore` has no log, catalog, timestamp or recovery: `commits` only
grows, a transaction reads the first `snapshot[t]` of them, and commits as a
whole if no commit since wrote a key of its.  A crash loses what was open; a
commit under way may have happened or not.  In the mapping a commit happens
when its `fdatasync` returns, not at the install, or, if the process ends
before with the COMMIT record left in the log, then (`Happened`).  Timestamps
are 1, 2, ... in the order of the commits, so `commits` has each transaction at
its `commit_ts` and `snapshot` is `start_ts`.  A restart is a stutter.

### Wal and RecordLog

State: `file` is `wal.log`, a sequence of bytes of which the first `synced` are
covered by an `fdatasync`; `stage`, `position` and `lsn` are the scan of
`_recover_and_truncate` or of `read_all`, record by record; `yielded` is what
`read_all` has given out.  `WriteRecord`, `ShortWrite`, `KillInWrite` are the
ways an `append` can end, `Sync`, `Close`, `PowerLoss` and `Open`,
`ScanRecord`, `Truncate`, `ReadRecord`, `ReadDone` the rest.  A short write or a
kill may stop at any byte; a power loss keeps the synced part, any part of what
follows, and may leave zeros.

A byte is known by its place in its record, a CRC by the bytes it was computed
of.  So the model assumes of CRC-32 that bytes of different records or zeros
never match by accident, and of nothing else: in particular that the CRC covers
the type byte and the payload, but not the length, is as in the code.

`RecordLog` has `Engine`'s log: whole and torn records, a restart that cuts at
the first torn one.  The mapping takes a record for present from its first byte
on, and for whole when all its bytes are there; of those present, in their
order, the ones up to the last that an fdatasync covers are synced.

### SharedDir, Console, Experiments

`SharedDir` has one engine per session: `engine[s]` its fields, `txn_of[s]` its
one transaction, `stage[s]` where it is in `__init__` or `commit()`.  `logs` are
all the files that ever were `wal.log` and `live` the one that has the name:
`rmtree` takes the name away, and an engine that has the file open goes on with
it.  Opening is four steps (`Open`: the scan; `Truncate`: the `ftruncate`; `Pass1`,
`Recover`: the passes of `_recover`), a commit one step per append: other
engines get in between, since `commit_lock` belongs to one of them.  An append
itself is one `os.write` on an `O_APPEND` descriptor.  The scan and each pass
are one step, where the code reads record by record, and `Replay` computes them
at once; what another engine does meanwhile happens before or after one.

`ftruncate` cuts at a byte offset, of a file that may have been cut and
continued since that offset was computed.  So a record has a size (`Sizes` for
redo records, 25 bytes for a COMMIT) and `CutAt` leaves whole records and,
behind them, a part of one (`"torn"`) or, where the file was shorter, zeros
(`"zeros"`).  The scan of the next opening stops at either; `read_all`, in an
engine that has already scanned, does not.  It takes zeros for records of no
type, which `_recover` skips: the engine opens, serves and appends behind them.
If anything else is left behind the damage, `read_all` goes on at an offset
where no record need begin, and may find any of the records that are there, in
any order, or bytes that look like a record and are none (`Garbage`), at most
`MaxMisread` in all, and each pass for itself (`Readings`); and a decoder may
raise on what it is given (`RecoverRaises`).  That is more than the bytes of any
one log allow: what holds of it holds of them.  What was misread has nobody's
value.

`Console` is the page: `GetEngine`, `Command` (BEGIN, PUT, DEL, ABORT, and
COMMIT's two ways to change nothing), `Commit`, `AnswerOK`, `Reset`, `Leave`.
A GET changes nothing.  Crashes are `Engine`'s subject and left out here.

`Experiments` has the phases of a crash test or chaos run (`Start`,
`CloseBaseline`, `WorkerEnds`, `Verify`, `Cleanup`; `Raises` is any of them
failing), which use the engine by `OpenEngine`, `Commit`, `AppendRecords` and
`FinishCommit`.  begin(), put() and the first lines of commit() are one step:
nobody else can see them.  A sync is not a step, since the machine does not go
down.  A crash test whose baseline raises stays in its first phase in the code;
here it is over, with the verdict "ERROR".  What was still to be committed
(`pending`) is dropped whenever a phase ends in an error.

### Storage

State: `pool` is the dictionary `BufferPool.pages` in insertion order; `file`
is `heap.db` as the system shows it and `disk` as its last `fdatasync` left it,
`meta` and `meta_disk` likewise; a page is a stamp, the number of the change
that made it.  `held` are the page objects the caller has that are in the pool,
`orphans` those the pool has dropped.  Calls are `GetCached`, `GetFromFile`,
`GetCorrupt` (`get_page`), `NewPage`, `Change` (`insert`, `update_record`),
`MakeDirty`, `Release`, and `Commit`; a checkpoint is `CheckpointStart`,
`FlushPage`, `FlushDone`, `SyncHeap`, `SaveTmp`, `SyncTmp`, `RenameTmp`,
`SyncDir`; failures are `CheckpointRaises`, `Kill`, `TornWrite` (the fault point
in `write_page`) and `PowerLoss`.

`torn` and `torn_disk` are history: the pages of `file` and of `disk` that a
torn write left so.  A power loss can undo the torn write of a page that was
not synced since, and then takes the page out of `torn` again.

The caller makes one call at a time, as `test_phase2.py` does.  At a power loss
every page written since the last sync is on the disk or is not (a page that
only half reached the disk is `TornWrite`'s subject), and a sync that follows a
failed one is taken to cover all that was written.  A commit is one step here
and an LSN is a number of commits.

### Page

`data` is the array of bytes of a `Page` object and `image` what `heap.db` holds
of it.  A byte is known by what it is part of, so an overlap of any two of
records, slot entries and header shows.  `Insert`, `UpdateRecord`, `Write`
(`serialize`, `write_page`) and `Read` (`read_page`, `_deserialize`) are the
operations.

### Checker and RecordedStore

`Checker` has no state: a history is a sequence of events, and `CheckDurability`,
`CheckAtomicity`, `CheckSnapshotReads`, `CheckLostUpdate` and
`CheckNoDirtyRead` are the five checks.  The code's dictionaries become
operators on the history (`WritesOf`, `CommittedWriters`, `CommittedState`, ...).
`RecordedStore` is the environment: it makes the histories, as
`test/test_phase6.py` records them, with the engine's timestamps.  It can be
wrong in one of four ways, each noted in `flaws`: a misread, a commit over a
conflict, a committed write that a recovery loses, an uncommitted one that it
shows.  `unheard` holds a transaction whose commit survived a crash without
having been acknowledged, which is no flaw.  A commit of a transaction that
wrote nothing has no timestamp, as in the engine, and is no event: no history
the repository records has one, and the checker sorts commits by timestamp.  What the checker may and may not
say can then be compared with what is known to have happened.

A transaction writes a key at most once and no id is used twice.  Where they
are, the code sorts a transaction's two writes by value (`checker.py:297`), or
merges two transactions of one id, and nothing says what it should do.

### Faulty variants

Beside some definitions stands a variant that no action uses
(`ConflictsOffByOne`, `SyncHeapMissing`, `InsertWithoutSlotRoom`, ...): the
definition as a plausible mistake in the code would have it.  For every property
of every passing run `PROJECT.json` names a variant which, put in the
definition's place, makes TLC find that property violated in that very run.

## 4. The runs

| run | instance | shows |
|---|---|---|
| `one_crash` | threads, 2 transactions, 2 keys, 1 of close, fault, kill, power | recovery brings back whole committed transactions and nothing else (`OnlyCommittedInCatalog`, `Atomicity`); a rollback is final (`AbortedInvisible`); commit() shows nothing before it is synced (`VisibleIsSynced`); of two commits to a key the later started after the earlier (`FirstCommitterWins`) |
| `implements_store` | one caller, 3 transactions, 1 key, 2 of close, fault | the engine implements `SnapshotStore` (`ImplementsStore`); what was read is what the versions in the catalog say (`SnapshotReads`, `NoLostUpdate`) |
| `crashes_and_io_errors` | threads, 2 transactions, 1 key, 3 of close, fault, kill, power, raise | an acknowledged commit is in the synced log and served after every restart (`Durability`); COMMIT records of all processes are in timestamp order, and two that share an id are of one transaction, whose commit raised and was called again (`CommitsOrdered`); nothing synced is changed or cut off (`SyncedLogKept`) |
| `damaged_log` | threads, 2 transactions, 1 key, 3 of close, fault, kill, power, short, fair | with torn records anywhere in the log: `TypeOK`; version lists are well-formed (`CatalogOrdered`); the counters are past all that was replayed (`CountersPastLog`); a commit that was synced behind no torn record becomes readable in full (`SyncedEventuallyReadable`) |
| `checkpoints` | pool of 2, 3 pages, 3 changes, 1 commit, 2 of kill, power, torn, error | no change is lost to eviction, flush or a failed checkpoint (`ReadsLatest`); a full pool finds the clean page wherever it is (`GrowsOnlyWhenDirty`); meta never names a checkpoint whose pages are not in `heap.db` (`CheckpointOnDisk`); a checkpoint that returned is not forgotten (`CheckpointKept`) |
| `page_layout` | a page of 36 bytes, records of 0, 1, 3, 4, 5 bytes, 5 changes | `get_record` returns what was written, however full the page (`ReadBack`) |
| `checker_verdicts` | 3 transactions, 1 key, 9 events, a crash, a get, a flaw | no alarm without a flaw, but for an unacknowledged commit (`NoFalseAlarm`) and for updates right after a commit (`LostUpdateAlarms`); every flaw is reported by the check for it (`FlawsAreReported`); `_check_no_dirty_read` never complains alone (`DirtyReadsAreMisreads`) |
| `log_bytes` | integers of 2 bytes, payloads of 0 and 1, 3 records, 2 of short write, kill, power | `read_all` yields whole records that were appended, in order, at their LSNs (`ReadsWhatWasAppended`); every synced record with nothing torn before it is read (`SyncedAreRead`); nothing is left that hides the next append (`AppendsAreReadable`); the bytes implement the sequence of records (`ImplementsRecordLog`) |
| `console_pages` | 2 sessions, 1 key, 3 engines opened, 2 transactions begun on each, 3 commits, redo records of 33 or 43 bytes, a record misread, resets | without two engines at a time the console is one store over all its pages (`OnePageIsOneStore`) and never reports a conflict (`ConflictsOnlyIfShared`); with them, and whatever its recovery read in a log that they cut or padded, a session still reads its own commits (`OwnCommitsServed`); what a reset wiped is not served by an engine opened later (`WipedStaysWiped`) |
| `experiments` | 2 crash tests or chaos runs in one directory, all fault points for one and `during_wal_append` for the other, redo records of 43 bytes, a record misread | `FAULT_POINTS`' `expect_survive` is right (`SurvivesAsTold`); an experiment that was alone fails only for an empty value or the worker's own key (`VerdictIsDeserved`); no chaos run leaves its directory (`ChaosCleansUp`) |

Two more runs end in a violation: section 6.

Some properties are not checked where they do not hold.  `FirstCommitterWins`
can fail after a short write has lost a commit.  `CatalogOrdered` can fail after
a commit that raised left redo records behind which a later commit's id or a
retry brings to life.  `SnapshotReads` and `NoLostUpdate` fail between threads,
and `ImplementsStore` between threads or with a second kill, for the reasons in
section 6.
`VisibleIsSynced` says nothing of a transaction whose process was killed before
its `fdatasync`: recovery shows it from the page cache, and a power loss may
still take it away.  `Concept.md` allows that ("recovery **may** still show the
commit").

## 5. Bounds and fairness

* Transactions: two are needed for a conflict and for a reuse of an id, three
  for a version between two others and for a reader across two commits.
* Keys: two are needed to see half a transaction; conflicts, snapshots and
  recovery of one list need one.
* Incidents: a log that a crash damaged must be recovered and a second crash
  meet the result, so two; the run about durability takes three.  All counters
  of `Engine` are bounded by the number of transactions, as each is used once.
* `CHECK_DEADLOCK FALSE` in the runs of `Engine`, `Storage`, `Console` and
  `Experiments`: no caller has to
  call, and when every transaction is used and every bound reached nothing is
  left to do.
* Pool: with room for two pages and three in use, the pool evicts, overgrows
  and meets clean pages in either place; three changes make one page newer
  than its checkpointed version twice.
* Page: 36 bytes are a header and four slot entries without a record, or one
  record of every length up to 12; five changes fill it in many ways.  That
  36 is enough is what `PageProofs` makes unnecessary to argue.
* Bytes: integers of two bytes can be cut in the middle as those of four can,
  and a payload of one byte is the shortest that can be missing; three records
  are one before, one at and one after the place of an incident, and the second
  incident meets what recovery made of the first.
* Sessions: two, and three engines, so that one is opened before, during and
  after what the other does, and a third after a reset.  Three commits are one
  before and two after.  The files that were removed stay in the state.  Redo
  records of 33 and 43 bytes and a COMMIT of 25 make a cut at another log's
  offset fall inside a record, between two, or behind the end.  One record
  misread in each pass, of an id that transactions have and another's timestamp,
  is enough to mislead the counters and the replay.
* Experiments: two, so that each phase of one meets each phase of the other.
  One of them takes every fault point, the other the one that leaves a torn
  record.  A step that touches only its own engine's
  memory is taken at once (`PrivateFirst`): it commutes with every step of the
  other, and no property compares two memories.
* Histories: each check looks at one key at a time and compares at most three
  transactions (one that reads or writes, the newest it may see, a newer one).
  Nine events are three whole transactions with a write each, or two and a
  crash with its recovery and a get.  `MaxReads` and `MaxFlaws` are 1.
* Symmetry over transactions and keys is used where no temporal property with
  fairness is checked; neither `Engine` nor `Checker` orders them.

Fairness (`FairSpec`, in run `damaged_log`): weak fairness of the steps of `commit()`, of the replay
and of `Restart`.  A thread inside `commit()` holds the lock and waits for
nobody, likewise the one in `__init__`; that somebody starts the store again is
an assumption about its operator.  Nothing is assumed of callers, and nothing
prevents incidents except their bound.

## 6. Disagreements

Each has a run whose counterexample is the behaviour described.

| run | what the code does | what is said |
|---|---|---|
| `ghost_redo` (`OnlyCommittedInCatalog`) | recovery matches redo records to COMMITs by id only (`engine.py:121`) and recovers `next_txn_id` from committed ids only (`engine.py:136`): the id of a transaction that died before its COMMIT is given out again, and the recovery after its new owner's commit replays the dead write | "Replay only commited txns into the catalog" (`engine.py:93`) |
| `update_in_commit` (`NoLostUpdate`) | `begin()` takes no lock and gets, during another commit, that commit's timestamp as its snapshot (`engine.py:151`): it reads the old value before the install, passes the conflict check and overwrites the update | "This prevents a classic **lost-update** situation" (`Concept.md:1906`) |

Met while modelling, and without a run of their own (TLC finds each with the
property and the constants named):

* When the `fdatasync` (or an append) raises, `commit()` leaves the COMMIT record
  in the log and the transaction active; it can be aborted, and a restart brings
  it back, against `txn.py:75` ("Nothing from this txn becomes visible"):
  `AbortedInvisible` with `Incidents = {"close", "raise"}`, `MaxIncidents = 2`.
* `append` ignores what `os.write` returns (`wal.py:91`): a torn record in the
  middle of the log is synced and acknowledged, and the next opening cuts the
  log there, against `Concept.md:69` ("`COMMIT` returns OK only after the commit
  is **durable** on disk"): `Durability` with `Incidents = {"close", "short"}`,
  `MaxIncidents = 2`.
* A checkpoint that finds a dirty page sets `checkpoint_lsn` to the end of the
  log (`engine.py:284`), but no version is ever written to a page; after a
  restart all commits from before it are gone, against `catalog.py:29`
  ("Recovery rebuilds it from WAL + heap checkpoint"): `CommitsServed` in
  `Storage` with `Incidents = {"kill"}`, two pages and two commits.
* An engine that opens the log truncates it where its scan ended
  (`wal.py:146`), torn record or not: a commit that another session's engine
  has appended, synced and acknowledged since is cut off, or cut in the middle,
  or, if the file has become shorter, zeros are put at its end, behind which the
  next opening cuts off what was appended, against the docstring
  `wal.py:110` ("If a torn record is found"): `AckedStaysInLog` under the
  constants of `console_pages`, in twelve steps.
* `README.md:14` has the chaos loop of the page hook "directly into an invariant
  checker"; it compares the baseline's values and calls no checker.
* The crash tab takes an empty value for a missing one (`app.py:842`) and FAILs
  a test whose baseline survived: `VerdictIsDeserved` without its `value[s] # ""`.
* `crash_worker.py:44` never reaches its fault point, as its checkpoint finds no
  dirty page: the commit survives because nothing crashed.
* A transaction that begins inside another's commit reads a key before and
  after the install with different results, against `Concept.md:1738-1746`
  ("T1's snapshot should remain consistent"): `SnapshotReads` under the
  constants of `update_in_commit`.
* Nothing pins a page.  A clean page that a caller holds is evicted
  (`buffer.py:75`) and what the caller then writes reaches nobody, against
  `buffer.py:10-11`: `ReadsLatest` with `MaxHeld = 2`.
* A torn page write destroys the page the last checkpoint saved, and no WAL
  record can rebuild it, against `heap.py:249` ("WAL has the truth") and
  `app.py:768`: `CheckpointOnDisk` without its exemption of `torn`.
* `new_page` counts from 0 in every process (`buffer.py:27`) and gives out ids
  of pages that `heap.db` holds, against `buffer.py:20` and `:47`.
* A pool that outgrew `max_pages` never shrinks (`buffer.py:78`), against
  `buffer.py:17`.
* `server.py:75` reads `active_txn.starts_ts` and `server.py:136,147` call
  `db.abort`; neither exists.  `cli.py:32` calls `client.rev`.
* `checker.py:378` reports a lost update when a transaction starts exactly at
  the earlier commit's timestamp, which every update right after a commit does:
  `LostUpdateAlarms` says that these are its only false alarms.
* `Concept.md:346` has recovery show a commit that nobody heard of and "the
  checker uses this rule"; `_check_durability`, `_check_atomicity` and, after
  the restart, the two checks of reads complain of it: `NoFalseAlarm` without
  `unheard`.
* The docstring `checker.py:269` wants `commit_ts < start_ts` of a visible
  version; the code, rightly, has `<=`: `NoFalseAlarm` with `SeenBefore`.
* `committed_ids` (`checker.py:228-241`) is never filled, so aborted and
  committed transactions count as uncommitted; `NoFalseAlarm` and
  `FlawsAreReported` hold all the same.

## 7. Proofs

All are checked by TLAPS from nothing, for all values of the constants that the
named assumptions allow: `EngineAssumption`, `StorageAssumption`,
`WalAssumption`, `PageAssumption`, `ConsoleAssumption`, `ExperimentsAssumption`,
`CheckerAssumption`, and those of the modules they use, which say that bounds
are numbers, that `None` is nobody's name and that incidents and fault points
are of the kinds modelled. Sets of transactions, sessions, keys and pages,
numbers of incidents and lengths of records are arbitrary. Where a theorem has
a hypothesis beyond these it is named below, with the behaviour of the code for
which it would be false.

Each invariant was checked by TLC first, on the instances of section 4 or on
smaller ones.

**`EngineProofs`** (no hypothesis for the first two items).

* `TypeCorrect`: `TypeOK`.  Not inductive alone, as a reader's `cursor` could
  point past the end of a list of the next process; `TypeInv` adds `CursorOK`.
* `CommitsAreOrdered`, `CountersArePastLog`: `CommitsOrdered` and
  `CountersPastLog`, whatever fails.  That a COMMIT is newer than those before
  it holds because `next_ts` is past all of them, which after a restart holds
  because `_recover` has seen all of them, and so on around: `OrderInv` has the
  order, the counters of every stage (`CountersPast`; a replay has passed what
  is before `scan`), that ids belong to one transaction (`IdsOwned`), and that
  the commit in progress comes after everything (`CommitterLast`).
* `CatalogIsOrdered`: `CatalogOrdered` if `NoErrors`, that no append or sync
  raises.  `CatalogInv` says that timestamps never decrease along the log and
  each follows that of a COMMIT before it (`LogOrdered`), so that the commit or
  recovery under way has the next one to give (`TurnFollows`), and that no
  version is later than what is still to be installed (`CatalogBehind`).  With errors it is false: the retry
  of a commit that raised leaves two redo records of a key, and both are
  replayed.
* The lemmas on `InstallVersion`, `GetVisible` and `GetLatestCommitTs` hold for
  lists of any length.
* `AcknowledgedSurvives` (`Durability`) and `SyncedLogIsKept` (`SyncedLogKept`),
  for any number of crashes, errors and threads, if `WholeWrites`, that
  `os.write` is never short.  `Durability` says nothing about how a transaction
  got there, so the induction needs `DurabilityInv`: no torn record in the
  synced part, nor anywhere while a process runs (`LogWhole`); what each stage
  of a commit has put into log and catalog (`CommitProgress`); what a recovery
  has replayed so far (`ReplayProgress`); and that all records of an
  acknowledged transaction are synced and, while serving, in the catalog
  (`Acknowledged`).  For short writes see section 6.

What a crash leaves visible: `CatalogIsCommitted` (`OnlyCommittedInCatalog`),
`CommitsAreAtomic` (`Atomicity`), `AbortsAreFinal` (`AbortedInvisible`),
`ReadersSeeSynced` (`VisibleIsSynced`), `WritersDoNotOverlap`
(`FirstCommitterWins`), for any number of threads, if `CleanRestarts`: any number
of crashes at the fault points and of closes, or one incident of any kind but
an error or a short write.  The point of the invariant `CleanInv` is that an id
in the log stands for one transaction when a recovery reads it (`IdsSound`),
although ids are given out again.  At a fault point nothing is left of a
commit but whole ones and a torn last record (`NoOrphans`), so no id that can be
given out again is in the log (`IdsFresh`); a kill can leave redo records
without a COMMIT, but nobody looks at the log after a later process has used
their ids, if there is one kill.  A second one and the theorems are false: run
`ghost_redo`.  The rest of `CleanInv` is what the log has of each commit
(`LogInv`), whose the versions are (`VisInv`), and that a writer's snapshot
reaches the version before its own, in the log as in the catalog (`WinInv`), as
`FirstCommitterWins` has to survive a rebuilding of the lists.

What a snapshot sees: `SnapshotsDoNotMove` (`SnapshotReads`) and `NothingIsLost`
(`NoLostUpdate`), if `CleanRestarts` and `SingleCaller`; between threads both
are false (run `update_in_commit`, section 6).  Reads outlive the process that
answered them, so the invariant `SnapInv` explains them by the log and not by
the catalog: what a transaction read of a key is what the newest COMMIT up to
its `start_ts` left there (`ReadsKnown`), no crash can take that COMMIT away
(`StartsKnown`), and nobody's snapshot has the commit in progress
(`StartsBehind`).  That the catalog says the same of every snapshot is then a
consequence of `CatalogInv` and `CleanInv`.

The refinement: `EngineImplementsStore` (`ImplementsStore`), under the
same two hypotheses.  The invariant is the conjunction of all of the above with
two facts more, that a cursor is on a key its transaction has not written and
that before the first crash only the commit that is about to sync has an
unsynced COMMIT.  From it the commits that happened are numbered 1 .. n by their
timestamps (`Numbered`), a set with no gaps since every commit takes the number
after the last COMMIT; then each action of `Engine` is a step of the store or
none: `Begin`, `Put`, `Delete`, `Abort` and the end of a get are its calls,
`SyncWal` is its commit, the end of a process its crash, and `Install`, `Ack`
and recovery are stutters.

**`StorageProofs`** (no hypothesis but for the last).

* `StorageTypes` (`TypeOK`), with at most one page per id in the pool.
* `CheckpointsAreReadable` (`CheckpointOnDisk`): what the meta file says was
  checkpointed is in `heap.db`.  After a power loss the file is any mixture of
  what was synced and what was not, so `SavedInv` has it of `file` and `disk`,
  for `meta` and `meta_disk` and, between the flush and the rename, for the
  checkpoint in progress; and no page of the pool is older than what any of
  them saved.  The proof attempt showed that the model's first exemption of torn
  pages was too wide: it kept exempting a page whose torn write the power loss
  had undone.
* `CheckpointsAreKept` (`CheckpointKept`): of the two files a rename leaves,
  neither is behind a checkpoint that returned (`MetaOrder`).
* `PoolGrowsOnlyWhenDirty` (`GrowsOnlyWhenDirty`, an action property).
* `NoChangeIsLost` (`ReadsLatest`) if `MaxHeld = 1`, a caller with one page at a
  time: with two, one can be evicted in the caller's hands (section 6).

**`WalProofs`** (no hypothesis): `TypeCorrect` (`TypeOK`), `ReadsAreFaithful`
(`ReadsWhatWasAppended`), `SyncedRecordsAreRead` (`SyncedAreRead`),
`AppendedRecordsAreReadable` (`AppendsAreReadable`), for any widths of integers
and lengths of payloads and any sequence of short writes, kills and power
losses.  The invariant `WalInv` is about single bytes: each is where its record
puts it and all earlier bytes of that record are there too, records are in the
order they were appended, and zeros come last (`FileInv`); a scan has passed only
whole records (`ScanInv`, `ReadInv`); a synced record with nothing torn before it
stays whole (`DurableInv`).  The lemmas under it are what the format is for:
`ByteTells`, a byte that matches tells the record and its place;
`ValidIsWhole`, whatever passes `_validate_record`'s checks is a record that was
appended at just that LSN, whole, although a length field may be made of zeros;
`WholeIsValid`, and the converse; `CutWellFormed`, any prefix of a log is one.

In the second half: `WalImplementsRecordLog` (`ImplementsRecordLog`), for the same
widths, lengths and failures, with no hypothesis either.  The records of a file
are, by their first bytes, those that begin in it (`Begun`), each whole or torn,
and zeros behind whole ones are one more torn record; `ListsExist` and
`RecordsToIs` show that this is what the recursive mapping of `WalProperties`
computes, and `IsView` says it of any file, so that two states can be compared.
An append adds one record to the list (`ViewAppend`); what a power loss leaves is
a prefix of it, with or without one torn record behind, and no shorter than
what was synced (`ViewLoss`); what `_recover_and_truncate` leaves is the prefix up
to the first torn record (`ViewTruncated`, with `TornNext`: the record at which
`_validate_record` fails is the first one that is not whole).  The invariant has
three facts more, `ListInv`: no byte of a record lies behind what was written of
it, in an open log all that was written of its records is there, and a file
with zeros in it was synced when the power was lost.  They are what makes the
synced records of a file a prefix of all of them, and TLC checked them before.

**`PageProofs`** (no hypothesis): `RecordsReadBack` (`ReadBack`) and `TypeCorrect`,
for every page size and all record lengths.  The invariant `IInv` says of the
object's bytes and of the file's image alike (`Layout`) that records lie in
slot order above the header and below the slot entries; an insert fits
between the last record and the new entry, and an update does not grow.

**`ConsoleProofs`** (no hypothesis): all of `Console`'s properties, for any
number of sessions, keys, commits, openings and resets, any lengths of records,
any garbage and any number of records misread: `ConsoleTypes` (`TypeOK`),
`ResetIsForGood` (`WipedStaysWiped`), `SessionsReadTheirOwn`
(`OwnCommitsServed`), `OneStore` (`OnePageIsOneStore`) and `ConflictMeansShared`
(`ConflictsOnlyIfShared`).  `ConsoleInv` has three arguments in it.

* `FileInv`: every record of a log file, every version of a catalog and every
  entry of a commit's write set is of a commit to the same file, or damage or
  garbage that has nobody's value, and what a
  reset wiped has no record in the live file, nor has what was wiped before a
  session opened one in the session's.  So recoveries and later commits, on
  files that were removed too, bring nothing back.
* `OwnInv`: a session's lists end with the versions of its own last commits
  (`OwnServed`), as nobody else writes to its catalog and its snapshot is right
  before `next_ts`: whatever it commits is the newest version of its list, the
  conflict check never refuses it, and the next read finds it.
* `AloneInv`: as long as no two sessions had an engine at once, `acked` is
  `1, 2, ...`, the live file has all records of each of these that is not wiped,
  one after another with rising ids and timestamps (`LogOK`, `Ordered`), the
  counters of the engine are past them (`CountersOK`) and its lists end with the
  last of them (`CatalogOK`), rebuilt or grown.

`OneStore` rests on what `_recover` computes from a log of any length:
`Replayed` is a recursive function over the log, so what it returns is an
induction over data.  The library's induction theorems cannot be used, but the
same is had from sets: a set of numbers that is not empty has a least element
(`LeastNumber`, from the library's well-founded `<`), so a set with 0 and all
successors up to n has all of `0 .. n` (`UpTo`), and a function of one step after
another exists and computes what it says (`Recursion`).  `ReplayProofs` has
these; with them is proved there what a replay leaves in each list, and, in
`WalProofs`, what there is of the records of a file.

**`ExperimentsProofs`** (no hypothesis): all of `Experiments`' properties, for any
number of experiments in one directory, of keys and of fault points.

* `ChaosAlwaysCleansUp` (`ChaosCleansUp`): a directory that exists has somebody at
  work in it (`SomebodyIsThere`), who removes it.
* `PrivateExperiments` is about an experiment that nobody met.  Its invariant is
  `Basics`, what each phase leaves in the fields, whoever else is there; and,
  as long as no two experiments have met in the directory (`Free`), `AllTrue` and
  `Solo`.  `AllTrue`: an engine counts ids and timestamps in step (`NumbersOK`, by a
  replay that finds them so), hence a record's id is its timestamp and the one
  commit of a phase never conflicts.  Once two have met, their engines cut and
  misread each other's logs and nothing of the kind is true; that is why an
  experiment that comes after them counts as met.  What the log must
  still hold at each of its steps is `Owed`: the baseline's commits, unless the
  worker wrote the key, and the worker's, if the table says so.  `Solo` says that
  the log has each as the last put of its key, with a COMMIT of its id (`Keeps`),
  that only its last record can be torn, and only when the worker has just died
  (`SoundIn`), and where a commit or an opening in progress has come to (`EndsIn`,
  `ScannedIn`).  A torn record is therefore cut off, at the very byte where the
  whole ones end, without anything that is owed; then the log is whole and each
  pass reads it as it is (`FreeIsReadAsItIs`), no opening raises, and the replay installs what is owed last, which is what a
  read finds: `AlwaysSurvivesAsTold` (`SurvivesAsTold`) and, with the verdicts
  already given in the invariant, `VerdictIsAlwaysDeserved` (`VerdictIsDeserved`).

That a version is only of a worker whose fault point let it append (`Told`) is
part of `AllTrue`.  The attempt to prove it showed a mistake of the model: a worker whose
`Engine()` raised left its write pending, and the engine that verifies, which in
`app.py` only reads, could have committed it.  `Raises` now drops it.

**`CheckerProofs`** (no hypothesis): `NoFalseAlarmEver` (`NoFalseAlarm`),
`FlawsAreReportedAlways` (`FlawsAreReported`), `LostUpdateAlarmsAlways`
(`LostUpdateAlarms`) and `DirtyReadsAreMisreadsAlways` (`DirtyReadsAreMisreads`),
for histories of any length, of any number of transactions and keys, and with
any number of reads and flaws.  Each check looks at events only, each property
at what the store did, so the invariant `StoreTold` (`HistoryTellsTheStore`) says of every kind of event
what its place in the history has to do with the store's data, in both
directions: begins, commits and writes are there with their values
(`BeginsTold`, `CommitsTold`, `WritesTold`); a commit's timestamp is its place
among the commits (`CommitsCounted`); a read is wrong, a commit went over
another, a recovered value lost a write or shows a dead one, exactly if `flaws`
says so (`ReadsTold`, `ConflictsTold`, `CrashesTold`); and who is active after a
crash began after the commit that nobody heard of (`UnheardIsOld`), so that a
conflict is always between two commits that the history has.  The lemmas
under the theorems are what the code's sorting and selecting amounts to: that
the version `_check_snapshot_reads` expects is the newest one of the store at
`start_ts`, that two consecutive writers of a key are neighbours in commit
order, that a conflict anywhere in a list of commits shows between two
neighbours, and that the state rebuilt from the events before the crash is that
of its commits.

Only model-checked: `SyncedEventuallyReadable` (run `damaged_log`), and with it
whatever is about fairness or ENABLED, which is beyond this prover.  Every
other property of a passing run is stated by one of the theorems.

No module here declares a RECURSIVE operator.

## 8. Not modelled

* `page_lsn`, which nothing reads; the contents of `meta` other than the
  checkpoint LSN (its counters matter only after a checkpoint, and recovery
  takes the larger of them and the log's); a `checkpoint_lsn` that outlives a
  truncation of the log.
* A page write that is short without a crash: `write_page` ignores what
  `os.write` returns (`heap.py:253`), as `append` does, and marks the page clean.
  `Storage` writes whole pages, or half of one and ends (`TornWrite`).  A short
  one would leave a page that counts as checkpointed and can only be read as
  corrupt: `CheckpointOnDisk` would need the exemption that it has for
  `TornWrite`, and `ReadsLatest` one of its own.
* Two threads on the buffer pool, and a thread that changes a page during a
  checkpoint: no code of the repository has them.
* The server's protocol.  At this commit every BEGIN raises after `db.begin()`
  (`server.py:75`), the handler of that error raises too (`server.py:147`) and
  the connection ends: no GET, PUT or COMMIT is ever served.  The server appears
  as `Engine`'s callers with `SingleCaller = FALSE`.  Likewise the client, which
  fails after its first line (`cli.py:32`), and `Engine.close` while a handler
  is inside a commit, which no handler gets to be.
* What another engine does to a log during one pass over it: a pass is one step.
* Two engines on one directory together with crashes: `Console` has the one,
  `Engine` the other, and `Experiments` both at its fault points.
* The directory's other files under a reset, and an `Engine()` that meets a
  directory half removed.
* The tab of concurrent transactions, which plays fixed scripts on one engine.
* Histories in which a transaction writes a key twice or an id is used twice,
  and more than one crash (the checker looks at the last only).
* That a recovery's truncation of the log may itself be lost: `ftruncate` is
  followed by no sync (`wal.py:146`), and is taken to be on the disk.
* Tests, styling, deployment files.

## 9. Plan

Done: `Catalog`, `Engine`, `SnapshotStore`, `Wal`, `Storage`, `Page`,
`SharedDir`, `Console`, `Experiments`, `Checker`, with the runs of section 4;
and the theorems of section 7, which state every safety property and every
refinement that a passing run checks.  Of the system nothing is left that could
be modelled before the server's BEGIN works, and of the properties nothing that
this prover could prove.  When `server.py` is repaired, a module of its protocol
comes next, on top of `Engine` as `Console` is on top of `SharedDir`.
