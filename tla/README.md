# A TLA+ model of rust-tsdb

rust-tsdb is a time series database in one process: an HTTP API over an
in-memory index and sample buffers, immutable segment files on disk, and a
write-ahead log (WAL) with two threads of its own. This directory models what
is hard to test in it: the interleavings of the log's threads with its users,
crashes at any step of a write, a flush or a recovery, the bytes a crash leaves
and what is read back from them, two servers meeting on one directory, and the
merge loops of the label index.

## 1. Inventory

| component | state | operations | interacts with |
|---|---|---|---|
| WAL buffer and writer (`wal/buffer.rs`, `writer.rs`) | pending bytes, end LSN, closed flag | append, take, close | every writer, the flusher |
| WAL progress (`wal/lsn.rs`) | published `written` LSN, waiter count, flusher handle | wait, cancel, publish, unpark | clients (async), the flusher, the syncer |
| WAL flusher (`wal/flusher.rs`) | active segment, batch in hand, loop locals | take, write, publish, rotate, serve a cut, exit | buffer, progress, `sync_file`, `active_segment`, `Cut` |
| WAL syncer (`wal/flusher.rs`) | last synced LSN, deadline | fdatasync every `sync_interval` | progress, `sync_file` |
| WAL owner (`wal/mod.rs`) | handles of the threads | open, cut, remove_through, close, drop | flusher by `Cut`, files |
| Log recovery (`wal/reader.rs`, `replay.rs`) | id map, parked samples | read in order, repair the last segment, resolve ids | files, index and series |
| Codec (`wal/codec.rs`, `record.rs`) | none | encode, decode, checksum | writer, reader |
| Segment store (`segment.rs`) | list of `.seg` files, LOCK | open, flush (tmp, rename, directory sync), read | files, index |
| Index (`index.rs`) | label sets to ids, postings | encode, resolve matchers | Db, recovery |
| Series (`series.rs`) | samples, newest, logged generation | append, take, restore, range | Db, recovery |
| Database (`db.rs`) | all of the above under one RwLock, `failed`, generation | open_with, write, wait, flush, query | API |
| API, server (`api.rs`, `main.rs`) | none | write_json, read, shutdown | Db |

What is hard, and where correctness lives:

* **log threads**: lost wakeups, a stale file handle in the syncer, a rotation
  that leaves an unsynced segment behind, a cut or a close that races an
  append. Correct means: nothing lost, doubled or out of order; an
  acknowledged record is in a file; a claimed sync happened; waits, cuts and
  closes end;
* **flush and recovery**: a crash after any of cut, rename, directory sync and
  each unlink; an error at each; replay over segments that already hold the
  records. Correct means: a query shows exactly a prefix of the history with
  everything acknowledged in it, and the files can be opened again;
* **bytes of the log**: a tear at any place, zeros after it, a damaged cell, in
  a format whose limits are checked by the writer, the reader and the decoder,
  each in its own terms. Correct means: what is handed on is what was appended;
  what is repaired is clean; what can be repaired is not refused;
* **stop and start**: LOCK is let go before the log has drained, so the next
  server replays files that are still being written. Correct means: only what was
  still in memory can be lost, and nothing after a stop with a flush;
* **the index**: loops over sorted lists, one of them in place; a hash map in any
  order; labels that are missing or empty. Correct means: a query selects exactly
  the series that match.

`PROJECT.json` lists each hazard with its line and the properties that cover it.

## 2. Modules

```
   WalLog <--implements-- Wal <- MCWal <- WalProofs
   Tsdb   <--implements-- Db <- DbProofs <- DbHistory <- DbView      MCDb
   SortedLists <- Index <- IndexProofs                               MCIndex
                          Framing <- FramingProofs                   MCFraming
                          Handover <- HandoverProofs                 MCHandover
```

`Wal`, `Framing` and `Handover` look at the same log at three scales: its threads
while it runs, its bytes across a stop, and its files under two processes. `Db`
takes from the first two what they establish.

**Wal** models the log while the process runs. One action is one step between
two points where another thread can see or change shared state: a critical
section of the buffer or of `Cut`, an atomic access, a park, a system call. The
flusher's program counter `fpc` follows `flush_loop`, `write_batch` and
`rotate` (`closing`, `cutting`, `take`, `rotate`, `create`, `swap`, `store`,
`write`, `publish`, `decide`, `park`, `finish`, `exit`); the syncer's `spc`
follows `sync_loop`; a client's `cpc` goes through `append_with` and
`Progress::wait`, with the guard's drop when the future is dropped; the owner's
`opc` goes through `DbState::flush` (cut, save, trim) and `Wal::close`.
`token` and `stoken` are the park tokens of `std::thread`: an unpark before the
park is kept, and several count once. Files are two functions of the segment id,
the records in it (`recs`) and how many of them are fdatasynced (`synced`).

A record is its LSN, so every record has length 1 and thresholds count records.
What the properties need of a record is its place in the order, not its bytes.
Not modelled: `commit_delay` (it only sleeps), `writeback` and buffer
capacities (performance), the threads' I/O errors (they abort the process: a
`Kill` in `Db`). The owner saves all or nothing (`FlushDone`, `FlushFails`);
what is saved is in `Db`. A client takes Db's lock to append, as `Db::write`
does (`LockFree`), and waits outside it.

**WalLog** is what the log promises, without threads or files: records are
stored in order, become durable in order, stay durable, and the owner may save
everything once everything is stored.

**Db** models the database across process lifetimes: the `.seg` files, the log's
files, memory, and a program counter for the holder of Db's write lock. The log
is seen as `Wal` shows it: `LogWrite` moves some of the buffer to the last
file, `LogRotate` syncs and starts a file, `LogSync` is the syncer, `Cut`
drains and rotates. Each of these is an invariant of `Wal` (`LogInOrder`,
`OnlyLastUnsynced`, `CutCovers`); the two modules are connected by these
properties and not by a refinement. A record is whole or torn, which is what
`Framing` makes of its bytes. Records carry ids, as in the code, and
recovery resolves them with `Resolver`'s map and parked samples; series are
logged once a generation; `index_segment`'s checks decide whether `open`
succeeds. `Kill` stops the process at any step and may leave a torn record at
the end of the last file; `LosePower` also takes unsynced ends of files, or
unsynced names, as `PowerLoss` says; `Drop` is a clean end, which drains the log.
`SaveFails` and `RemoveFails` are the error paths, different for a running
database and one that is opening.

`Query` is `Db::query` as the code has it: the segments, oldest first, that a
series' first and last time do not rule out (`MayHold`), filtered by the range
(`ReadSegments`), then memory between two partition points (`MemoryRange`). Two
properties look at two sides of it: `ViewIsHistory` compares all the samples
with the history at every state, `RangeExact` compares a query for every set of
series and every range with that. A query runs under Db's read lock, so it is a
function of the state and no action.

A sample is its timestamp (from 1) and the batch it came with, which stands for
its value. A `.tmp` file is ignored by `open`, so writing one is no step of its
own. The unlink of a log file is not undone by a loss of power. A record that
a flush has made redundant need not survive; the ghost `upto` of a segment says
how much of the history it stands for.

**Tsdb** is what the database promises a client: answers show, for each series,
the samples of the history that were newer than those before them; a stop takes
back only unacknowledged batches, newest first.

**SortedLists** is the three loops over ascending lists of ids in `index.rs`
(`union_sorted`, `difference_sorted`, `intersect_in_place`), one turn of a loop a
step. All three compare the heads of two lists, so an action is an arm of that
comparison (`Less`, `Greater`, `Same`), and `op` says whose. The in-place one
writes to `a`, the list it reads. `wanted` is the set the call is to return.

**Index** is the label index: `Encode` with the two maps, the list of all ids and
the posting lists; `Resolve` and one step for each list operation that
`candidates` and `resolve` ask for. `pc` names the operation under way: `with`
(a union of `union_all`, which takes the values of a hash map in any order),
`drop`, `without` and `join` (the three operations of `NotEqual`), `narrow` (the
intersection with the next matcher). A label set is a function from some names
to values, as `LabelSet` is sorted and has each name once; a missing posting
list is empty. Encoding needs Db's write lock and resolving its read lock, so
`Encode` happens between resolves.

**Framing** is the log as bytes: `RecordEncoder`, `RecordHeader`, `decode` with
its `Reader`, `read_record` and `replay`. A file is a sequence of *cells* of four
bytes. A u32 is a cell, a u64 or f64 two, the kind byte has a cell of its own and
a string as many as its length says. Each limit of the code is then the same
comparison with cells for bytes. A failed read fails every later one, which is
what `?` does; results are functions of the payload, and `reserved` records by how much
the largest capacity `with_capacity` was asked for exceeds the payload. The
checksum is a stand-in with the two features of CRC-32 the argument needs: it
notices a change within one cell, and is not zero for a header of zeros. The
actions are the writer's (`Write`, `CreateSegment`), the stop that leaves any
beginning of the last segment with or without zeros after it (`StopAndOpen`),
one damaged cell (`DamageCell`; `DamageUnseen` if the checksum fits all the same),
and replay record by record. `BeginsRecord` is what `read_record` asks of the cells it
is given. `TearsSeen` and `DamageSeen` say what crc32 is there for and cannot promise for
all data: that the beginning of a record with zeros behind it, or a record with a changed cell, is not
taken for a record. They are hypotheses of theorems, not of the model; `MCFraming` has TLC evaluate both for
its batches.

**Handover** is two servers and one directory. `Persistence` drops the segment
store and with it LOCK before the log, so there is a time in which the old
server's flusher still takes, writes and rotates (`Take`, `WriteHalf`,
`WriteRest`) while the new one runs `open_with` (`Open`, `ReadRecord`, `NextFile`,
`ReadHole`, `Create`, then the flush of what was replayed: `Cut`, `Save`, or
`NothingToFlush`). The cut rotates the new log, so there are two files behind the last
one found, and `remove_through` runs twice: for the flush, which takes the log's first
own file too, and for `open_with`. Each lists the files (`List`, into `doomed`) and
unlinks them one by one (`RemoveFile`, `Removed`); what the old server creates behind the
listing stays, and it may create again an id that has just been unlinked. A cut that finds its file there aborts the process,
which is a `Killed`. The old one writes at its own offset
through its own handle: into a file that the new one has cut this leaves a hole,
into one that it has removed it is in vain. Either may be killed at any step. There is
one series, and a record is one sample. The old server never
recovers and the new one never takes writes: these are in `Db`.

**WalProofs** is about `Wal`: what it promises about records and files, about their
order, and the step from `Wal` to `WalLog`. **FoldFacts** says what a fold over a
sequence computes, element by element, and what parts of a joined sequence are.
**DbProofs** uses that for the memory and the segments of `Db`, **DbHistory** for what
a stop leaves and a replay brings back, **DbView** for what queries show. **IndexProofs** (with the loops
of `SortedLists`), **FramingProofs** and **HandoverProofs** are about the modules they are named after. The **MC** modules give the
constants values; MCWal and Db also state the two refinements' mapping (`LogSpec`
in MCWal, `StoreSpec` in Db).

The `Mistaken...` operators are each one action or helper with
a slip the code could plausibly have had (a missing reset, a dropped sync, a
swapped order). They are used by no specification; putting one in the place of
the definition it is named after makes the property named in `PROJECT.json` fail,
which shows the property can see that slip.

## 3. Runs

| run | specification and bounds | shows |
|---|---|---|
| `wal_safety` | `Spec`, 2 clients (symmetric), 2 records, a segment per record, one cut (below id 2) | all safety invariants of `Wal` |
| `wal_refines` | `Spec`, 1 client, 3 records, 2 to a segment, two cuts (below id 3) | `Wal` implements `WalLog`; a second cut covers what a first left behind and loses nothing |
| `wal_group_commit` | `FairSpec`, 2 clients (not symmetric: liveness), 2 records, a segment per record, no batch reaches the threshold, no cut | every wait is served without timers, also of a record that is pending behind another batch |
| `wal_live` | `FairSpec`, 1 client that may let go of its wait, 2 records, 2 to a batch, a segment per record, 2 rotations | cuts and closes end without timers; with them every record becomes durable |
| `db_kill` | 2 series, 3 batches, limit of 3 samples, 3 stops, one batch too large | a query shows a prefix of the history with all that was acknowledged; implements `Tsdb` |
| `db_power` | 2 stops that may lose unsynced ends | a database that opens shows a prefix, without holes; a query for any series and range answers with exactly that part of it |
| `index` | `FairSpec`, 4 label sets in any order, lists of up to 3 matchers | the index is exact, each merge is, a resolve is, and every resolve ends |
| `framing` | 5 batches, 2 records, 2 segments, 2 stops, one damaged cell | replay hands on what was appended, repairs what it can, and leaves a log it can read |
| `handover` | 3 writes, a segment after each batch, 3 starts | what survives two servers meeting over one log |
| `db_none` | `Durability::None`, 1 kill | **violated**: acknowledged batches are lost |
| `db_late` | no stop | **violated**: an acknowledged late point cannot be read |
| `db_power_refused` | 2 stops with loss of power | **violated**: a database that can never be opened again |

Why the bounds suffice: the hazards of `Wal` need two of something (two clients
whose waits overlap, two records in two segments, a cut during a rotation, a
batch in hand while another is pending); with `SegmentMax = 1` every batch
after the first rotates, so rotation meets each of the other operations. In
`wal_safety` a client may append again after its wait, be cancelled, or wait for
nothing (`AppendNothing`: an empty batch), so two records do not mean two calls.
In `wal_group_commit` two records let the clients wait on different batches: when the
flusher looks at the waiter count after one batch, the other client's record may be
pending, and only the count or that client's unpark brings the flusher back. The slip the run
is tried against, that only the first of those who wait unparks, breaks no wait when
there is one record. The hazards of `Db` need a stop inside a recovery from a stop (two), and
one more to see what the second left; three batches fill the buffer of three
samples once and leave a batch over; batches use one series in order, two
series in another order than they were first used (so that ids after recovery
differ from those in the log), one series twice in a batch with a late sample.
Failed starts count as stops, since recovery could otherwise fail for ever.

`index` has a label set without a `job`, one with an empty value, and two that share
a pair, so that a posting list can have two ids and a matcher can have no list. Three
ids are enough for every order of the heads in a merge; the fourth makes a list
left over after a loop longer than one. Lists of three matchers are those in which each
leaves something for the next.

`framing`: of the batches one is empty once its series without samples is left out,
one has a series without labels and one with an empty label (the shortest the
decoder's limits allow), one has labels out of order and twice, one is of
the largest size allowed, one is a cell larger. The second stop happens after the
first repair, with more records behind it, which is how an end left
behind would be found. Tears are at every cell; zeros are none or a header's
worth, and none in a log that is damaged as well; damage comes before the last start, which
reads it. A damaged cell may become a 1 (a count, a kind, a length) or a value that is
no text.

`handover`: three writes fill a batch in hand, the buffer behind it and a file
already closed; three starts let two be killed in the middle of another's
work. The old server may rotate twice, so it can begin a file between any two steps of
a start's cut and removals.

`MaxRecords`, `MaxSegment`, `MaxBatches`, `MaxStops`, `MaxFiles`, `MaxSegments`, `MaxWrites` and `MaxOpens` are bounds
of the model, each in the guard of the action that would grow without them.
`Ended` (Wal) and `Idle` (Db) are self-loops of states in which the program
rightly waits or is over, so deadlock is checked there, and in `Index`, which can always go on. `Framing` and `Handover` end where a log is
refused or both servers are done, and their runs do not check it.

**Fairness** (`ThreadFairness`): the operating system runs every thread that can
run (weak fairness of the flusher and of each of the syncer's steps), the async
runtime polls a client that can go on, and the owner finishes what it began.
Appends, cancellations, cuts and closes are never forced. No timer is fair in
`FairSpec`: `WaitServed`, `CutServed` and `CloseServed` hold by the wakeups
alone. The code has the timers too (`park_timeout`): `AllDurable` is an
implication with their fairness on its left, since a record nobody waits for
moves by nothing else. `ResolveEnds` needs that a resolve is not stopped in
the middle, which a thread in a loop without blocking calls is not. For `CutServed` the database's lock is what keeps
appends out during a cut; the log alone does not promise it.

## 4. What the violated runs show

* `db_none`: the default durability acknowledges before the log reaches a file,
  against FR-03 and NFR-04 of the requirements document.
* `db_late`: `SeriesState::append` drops a late sample silently, against FR-01
  and FR-09. This is why `Tsdb` promises only samples that are newer.
* `db_power_refused`: recovery creates a new segment while the replayed one was
  never fsynced, so for a while two segments are unsynced and `reader.rs` repairs
  only the last. `rotate` is careful about exactly this. Loss of power is
  outside the project's own tests.

Seen while modelling and not kept as runs (see `hazards`): names lost between the
rename of a segment and the next directory sync; `Equal` and `NotEqual` disagree
about a missing label, as a test of the index expects (index.rs:358); a server
dropped without a flush while records are in its buffer may leave a log that
every later start refuses, because its flusher writes past the place where the
next server has cut the file (`RefusedOnlyIfLate` says that nothing else can);
the comment at `db.rs:367` calls a drop a crash that loses the sample, but `Drop`
drains the log.

## 5. Proofs

`WalProofs` proves, for any finite set of clients and any values of the bounds
(`WalAssumption`), first:

* `TypeCorrect`: `Spec => []TypeOK`;
* `WaitersCounted`: `Spec => []WaitersCount`.

The two need each other: `waiters` stays a natural number only because it counts
clients, and the count is a sum of natural numbers only in a typed state. So the
inductive invariant is their conjunction (`InitType`, `InitWaiters`, `NextType`,
`NextWaiters`). `WaiterIsCounted` is the lemma that lets the guard of a wait be
dropped: a client inside `wait` is one of those counted.

Under the same assumptions it then proves what the log promises about records: `NothingLost` (`NoLoss`), `AckedIsOnDisk` (`AckedOnDisk`),
`SyncClaimed` (`SyncClaim`) and `OnlyLastIsUnsynced` (`OnlyLastUnsynced`). None
of the four is inductive as it stands. The inductive invariant `Inv` adds, for
each hand-over of a record, what its two sides rely on:

| part | why it is needed |
|---|---|
| `FilesOK` | the flusher's segment exists, is the newest, and all older ones are synced: a removal cannot take it, a rotation may start the next |
| `HandleOK` | the syncer's handle is the newest segment's, or that one is still empty: the one instant (`swap`) at which the handle is stale is harmless |
| `SpareOK` | the spare buffer is empty at a take: the swap brings nothing back |
| `SavedOK` | while the owner trims, everything appended is saved: Db's lock keeps appends out from the save to the last unlink |
| `LsnOK` | pending records are newer than the batch in hand: publishing its LSN says nothing of them |
| `PublishedOK`, `AckOK` | what is published is in a file; what is acknowledged is published |
| `SyncOK` | between the syncer's steps, what it will count is durable or in the file it holds |

`SyncClaim` is the longest argument. When the syncer clones the handle, a
published record is in some file (`PublishedOK`); if that is not the newest it
is synced already (`FilesOK`); if it is, the newest is not empty and so its
handle is the shared one (`HandleOK`). From there to the fdatasync the record
stays in that file or is saved (lemma `InFile`), and what is durable stays so
(`Kept`). The proof has one lemma for each part, over lemmas that say what each
thread leaves alone (`...Frame`), which steps touch files (`FileSteps`) and what
each of those does to them (`Written`, `Created`, `FileSynced`, `Removed`).

Its second part is the order of the records: `LogIsInOrder` (`LogInOrder`),
`CutCoversAll` (`CutCovers`) and `ClosedIsDurable` (`ClosedDurable`), from
`OrderInv`, which holds with `Inv` beside it:

| part | why it is needed |
|---|---|
| `FilesAscend`, `FilesStored`, `HandFollows`, `BufFollows` | `LogInOrder` itself, with the number of records stored as a name (`Stored`): a write appends the hand to the newest file because all that is stored is below it |
| `NewEmpty` | a rotation hands over an empty segment: a cut that lands between the steps of a rotation answers with the id before it |
| `CutOK` | from the request of a cut on nobody appends, so what the flusher finds drained is drained when the owner reads the answer, and when it removes |
| `ClosedOK` | the flusher leaves only when the log is closed and drained, and syncs last |
| `SyncedWritten` | no more is synced than is written: needed where a file's sync count is compared with its length |

Its third part proves `WalImplementsLog`, `Spec => LogSpec`, with the mapping
TLC checks: `WalLog`'s set of stored records is what has left the buffer and the hand,
its durable set is `Durable`. The one thing to show that is not read off an
action is that what becomes durable is a prefix of what is stored
(`SyncedUpTo`): an fdatasync makes one file durable, and what is older is in an older
file, which `FilesOK` says is synced, or saved. Each action is
then a `Store`, a `Sync`, a `Save` or a stutter.

`IndexProofs` proves the three invariants of `Index` for any
names, values, label sets and lists of matchers (`IndexAssumption`). The loops
come first, for any two ascending lists. `LoopAt` says of one call that what has been put
out lies below what is left of both lists, and that with what the operation
makes of the rest it is what is wanted; `InPlace` says that
`intersect_in_place` has written no further than it has read, so the rest of the
list is as it was. `TurnKeeps` shows that a turn preserves both, whatever the arm
(`LessKeeps`, `GreaterKeeps`, `SameKeeps`), and `LoopReturns` that they give the
result. The rest then needs no loop: `ResolveInv` says for each place of a
resolve what its lists hold (`AtFold`: the series whose value has been merged,
whatever order the values came in; `AtDrop`: those that have the label;
`AtWithout`, `AtJoin`, `AtNarrow`), and each action passes from one to the next.
`IndexInv` adds to `IndexExact` that ids count up, which is why an id appended
to a list keeps it ascending. The theorems are `IndexIsExact`, `MergesAreExact`
and `ResolveIsExact`.

`HandoverProofs` proves all five of `Handover`'s invariants for any samples, segment
size and number of writes and starts (`HandoverAssumption`). `IInv` has the types,
`OneHolder` (which places of the two servers go with which holder of LOCK),
`FoundThere` (a file being replayed exists, so reading it is defined), `DoomedThere` (so
does one that is about to be removed: only the flush of the old server could take it first,
and that needs LOCK) and `InOrder`: what is saved followed by what the new server has in memory ascends,
and while the old one has LOCK everything accepted is what is saved and what its
memory holds. `TypeCorrect` and `SavedInOrder` follow at once. `FlushedStopLosesNothing`
adds `SavesAll`: once the flush is done all that was accepted is saved, and nothing
ever leaves a data segment, whatever becomes of the log.

`LosesOnlyBuffered` and `RefusesOnlyLateLogs` need an invariant about every record,
`SInv` (`SafeHandover`). A record's place in the log counts only if replay can get
there and will take it (`At`): nothing unreadable before it in its file, nothing
larger before it in the log, and the old server writes only behind it. `OldLog` says
that, while the old server has LOCK, each accepted sample is saved or at such a place, or
in the hand or the buffer on the way to one. When LOCK is let go what is left
in memory is `buffered`, and for the others `NewLog` takes over: saved, or at such
a place and replay is before it or has taken it (`Replayed`). That survives a
killed start because a file is removed only once all that was replayed is saved (`Done`) or
replay found nothing, and the old server's
late writes because they land behind the place. `Clean` is the other half: as long as the old
server has not written `late`, the only unreadable place is the half-written end of the
last file, which replay may repair. `AtEnd` says why it is there: until then the
flusher writes at the end of its file. The largest and the smallest of a bounded set
(`MaxIs`, `MinIs`) come from the well-foundedness of the naturals.

`DbProofs` proves three invariants of `Db` for any labels, any batches of samples
with timestamps from 1, any durability and any bounds (`DbAssumption`):

* `TypeCorrect`: `TypeOK`;
* `BufferedIsExact`: `BufferedExact`;
* `OpensAgain`: `NeverRefused`, under `"ends" \notin PowerLoss`. The hypothesis is the
  one the run `db_power_refused` shows to be needed; losses of names stay allowed.

One inductive invariant gives all three (`SafeDb`, `SafeInv`):

| part | why it is needed |
|---|---|
| `Types` | what is replayed must be records and what is loaded must be segments, for the folds to have values at all |
| `Places` | which variables are empty at which step: memory at `renamed`, the buffer of the log while a database opens |
| `Buffered` | the count is the sum over the index, and the index lists each series once and every one that has samples; else a series would count twice, or not at all |
| `InOrder` | the first sample of each segment is newer than the last of those before it, as `index_segment` demands; the next segment is what memory holds, so memory must follow the segments too, and `newest` must be its last sample |
| `Whole` | only the last file of the log is torn, and only while the server is down: a stop may tear the file being written, recovery repairs it before there is a new one |

The hard step is `Open`, which builds memory from whatever is there. Nothing is
assumed of the log but the types of its records: replay keeps memory in order
whatever ids the records name and in whatever state of the resolver, because
`AppendSample` drops what is not newer (`RecordsSound`, `OpenReads`). So a log that overlaps
the segments, lies before them or repeats itself cannot make a segment that a
later start refuses, and a kill between the rename and the removal
or a removal that fails needs no argument of its own.

`DbHistory` adds `AckedIsKept` (`AckedKept`), for writes that wait for the log
(`Written`) and without a loss of power; `db_none` and the hazards of
`LosePower` show that both hypotheses are needed. `KeepInv` is what must hold beside `SafeInv`:

| part | why it is needed |
|---|---|
| `LogKept`: `Numbers` | the batches are numbered without a gap from the files to the buffer, and the last that has left the buffer is in a file: so a stop loses exactly what is in the buffer (`SurvivorsAre`), or the end of that (`DrainedKept`) |
| `acked <= Len(hist) - Len(walBuf)` | what was acknowledged has left the buffer |
| `Removable` | between the cut and the last unlink nothing is in the buffer, and once the rename is done a segment stands for all of the history: so the log may go |
| `Recovering`, `LogKept`: `Begun` | `open_with` removes the replayed log without a flush when replay counted nothing. That loses nothing only if it never happens to a log that matters |

The last is the part that a reading of the code does not show. With segments,
a replay that counts nothing means that they have it all. Without any, it must not
happen, and that depends on the ids: samples whose id no record names stay parked and are
dropped at the end of the replay. `Begun` says that the first record of such a log defines the
id of its first entry, since a new generation logs its series again and no record before it has been
removed without a segment; `ReplayFresh` that replay then counts at least one sample, as in an
empty memory no sample is late.

The operators are folds over sequences, and `FoldLeft` of the community modules is
defined by `CHOOSE` of a recursive function. `FoldFacts` shows that there is such a
function (`Iterates`), once for any fold: a set of numbers that has 0 and with each number
the next has them all (`UpTo`), which is well-foundedness of `<` on a set, so no
operator is handed to an induction theorem. Each fold then has a lemma that
gives its values one element after the other (`LoadSegmentRun`, `AppendAllRun`, `ReplayedRun`,
...), and the proofs go along these. `Entries`, `InRange` and the order in `Save` are folds for
that reason; `SelectSeq` is defined by an operator with a recursive function inside that the prover does not
unfold.

`DbView` proves what a client of `Db` sees:

* `ShowsHistory`: `ViewIsHistory`, under `"names" \notin PowerLoss`;
* `AnswersRange`: `RangeExact`, under the same hypothesis;
* `KeepsPromise`: `Spec => StoreSpec`, the refinement of `Tsdb`, for writes that wait for the
  log and without a loss of power, as in the run that checks it.

A lost name takes a segment whose records the log no longer has, so the first hypothesis
cannot be dropped (see the hazard at `segment.rs:136`); a loss of unsynced ends is
allowed: it takes back the end of the history, and what is left is shown. All three
rest on `ViewInv`, which says of each place that samples are in what they have to do with
the history. TLC checked it on `db_kill` and `db_power` before it was proved.

| part | why it is needed |
|---|---|
| `LogHolds` | from the first file left, the log's records are, one by one, the batches after those the segments stand for: what replay reads is the rest of the history |
| `SegmentsHold` | segment after segment the samples of a series are what a client would be answered after the first `Upto` batches |
| `IdsMean` | there is an index in which each id that a record defines or uses has its meaning; of a running database it is the index in memory. Replay builds one of its own, in other numbers perhaps, and two defined ids of one record never become one |
| `LoggedDefined` | a series that will not be logged again has its id defined in a record that is after the segments: a generation ends only with the cut of the log |
| `MemoryShows` | while it answers, segments and memory together show the history |
| `FilesFollow` | which files are empty, or synced, at which step of an `open` or a flush: a loss of ends takes from one file, and those after it have nothing in them |

The step to see is `Open` again (`DbHistory`, second part). The history after
the segments is replayed over them, from the first file that is left. Some of its
records the segments may already have, since the files are removed one at
a time after a save. `AppendSample` drops what is not newer, `restore` and parked samples put
what comes before its id is defined in its place, and the result is the answer to the whole history
because an answer of the history is itself built by keeping only what is newer: appending
batches that are already in it changes nothing (`Shortened`). What is parked at the end
of a replay would be lost; `LoggedDefined` and `IdsMean` say that nothing is.

`AnswersRange` has three steps after that. In a running database times rise along
the segments and memory (`Rising`), hence the two positions that `partition_point` finds in memory bound exactly
the range. A segment that `MayHold` leaves out has nothing in the range, since
its first and last sample are its least and greatest. A filter of what
was joined is the join of what was filtered.

`FramingProofs` is about the codec and then the bytes of the log, for any batches whose parts are
of the types the code gives them (`FramingAssumption`: 64-bit numbers are pairs of cells, strings are
free of cells that are not UTF-8), any bounds and any cells that damage may leave. First the codec:

* `RoundTrip`: `Decode(Payload[b])` succeeds and gives `RecordOf[b]`. `GoodGot` says of a
  reader that it has not failed, has reserved no more than there is, where it stands and what it read last;
  each reading function has a lemma that takes such a reader in front of what the
  encoder writes to one behind it (`ReadStrIs`, `ReadLabelIs`, `ReadSeriesIs`, `ReadSamplesIs`). A count is
  accepted because each item it announces takes at least the cells it is divided by
  (`FitsThere`); this is where the constants of encoder and decoder could differ. The labels that come back are
  sorted a second time, which changes nothing because `FromLabels` has put them in strict
  order (`Insert` keeps the order and replaces a label of the same name).
* `Reserves`: `ReservesWhatIsThere`. It is about any payload, not one the encoder made:
  every count is followed through `Take`, `Fits` and `ReadItems` (`DecodeReserves`).
* `TypeCorrect`: `TypeOK`, from `TypeInv`, which adds what the files and the reader's results are.

Then the bytes, where each theorem names what it asks of the checksum:

* `RepairsTears`: `TearsRepaired`, under `TearsSeen`;
* `RepairsCuts`: `TearsRepaired` where a stop leaves no zeros, whatever the checksum
  does: a record cut short is shorter than its header says, or has no header;
* `DeliversInOrder` and `LeavesClean`: `DeliversWritten` and `OpensClean`, under `TearsSeen`
  and `DamageSeen`.

The hypotheses cannot be dropped for a checksum of 32 bits: damage that it does not see hands on a
record nobody wrote, which is why the two invariants leave out `damage = "unseen"`. They are
not empty: TLC evaluates `TearsSeen /\ DamageSeen` for the batches of `framing` (`ChecksumTells`).

The inductive invariant is `ByteInv`, beside `TypeInv`:

| part | why it is needed |
|---|---|
| `FileUp`, `FileDown` | a file is the records of `logged` and nothing else, but for the damage; only the last one, and only after a stop, may be those records with something behind them that is no record |
| `Position` | replay stands behind a whole number of records: so what it meets next is a record, the end of the file, or the place where the file breaks (`Found`) |
| `ReadTo` | what it has handed on is the records before its place, and the files it has left were whole |
| `Opened` | an opened log has been read to the last cell, so the next file starts behind a clean one |
| `damage = "none" => pc # "refused"` | only damage leads to a refusal |

`Breaks(cells, bs, g, J)` is the shape of a file with something wrong: the first `g` records whole, then `J`,
which is not taken for a record and does not hold the next one. A tear makes such a file (`ZerosCut`,
`CutHere`), a changed cell does (`SpoiltBreaks`, by `DamageSeen`), and cutting one again leaves one (`StopCuts`),
so any number of stops does. `EncodedAll` can be cut in one way only, as a header tells the length
of its record; this gives `WholeIn` its value, and `Finds` what replay meets behind record `j`: record `j + 1`
if there is one before the break, which by `RoundTrip` is handed on as it was given, else the break. In the last
segment that is repaired, and cuts off nothing that is whole, as a stop has taken out of `logged` whatever
it tore; in any other it is refused, and only damage puts it there.

Every invariant that a passing run checks is now stated by a theorem. Only model-checked are the liveness
properties (`WaitServed`, `CutServed`, `CloseServed`, `AllDurable`, `ResolveEnds`), which need
fairness and ENABLED and so are beyond the prover, and what `TearsSeen` and `DamageSeen` say
of particular batches.

## 6. Not modelled

* `MemTable`: `storage/mod.rs` does not declare it, so none of it is compiled.
* HTTP routing, parsing and formatting (`api.rs`): pure functions and I/O, no
  state.
* The JSON payload of a data segment and its checksum: it is written to a
  temporary name, synced and renamed, so a crash leaves it whole or absent.
* `LabelSet::insert_label` and `get`: a binary search each; only tests of the
  crate insert labels that way.
* `backlog_bytes`: nothing calls it. Statistics of a recovery, `commit_delay`,
  `writeback`, buffer capacities: no property depends on them.
* A limit of the buffer, which the code does not have, and a cut among writers
  that do not hold Db's lock, which Db does not do.
* Two data directories over one `--wal-dir`, which nothing guards against.
* The overflow of 64-bit counters.

## 7. Plan

Of the safety properties nothing is left to prove. What would come next is outside the model as it
stands: a shared `--wal-dir` (section 6), and a limit on the log's buffer once the code has one.
