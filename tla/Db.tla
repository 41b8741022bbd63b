----------------------------------- MODULE Db ----------------------------------
(***************************************************************************)
(* The database (src/src/db.rs) over its two kinds of files: immutable     *)
(* .seg segments (storage/segment.rs) and the write-ahead log. Batches are *)
(* written and flushed, and the process is dropped, killed or loses power  *)
(* at any step and is opened again, which replays the log.                 *)
(*                                                                         *)
(* Db's write lock makes a caller's steps one thread, pc says where it is. *)
(* The log is seen as module Wal shows it: records move from the buffer to *)
(* the last file in order, every other file is synced, a cut drains.       *)
(* A sample is <<timestamp, number of its batch>>, timestamps from 1.      *)
(***************************************************************************)
EXTENDS Integers, Sequences, SequencesExt

CONSTANTS
    Labels,       \* label sets
    Batches,      \* what may be written: sequences of [labels, samples]
    Oversized,    \* those whose record would exceed MAX_RECORD_BYTES
    MaxBuffer,    \* max_buffer_samples
    Written,      \* TRUE: Durability::Written, FALSE: Durability::None
    PowerLoss,    \* what a loss of power takes, if there can be one, besides
                  \*   memory: "ends" of unsynced files, unsynced "names"
    MaxBatches,   \* bound: batches in the history
    MaxStops,     \* bound: drops, kills, power losses, failed opens
    MaxFiles      \* bound: no rotation or flush by request past this file id

ASSUME DbAssumption ==
    /\ Batches \subseteq Seq([labels : Labels, samples : Seq(Nat \ {0})])
    /\ MaxBuffer \in Nat \ {0}
    /\ Written \in BOOLEAN
    /\ PowerLoss \subseteq {"ends", "names"}
    /\ MaxBatches \in Nat /\ MaxStops \in Nat /\ MaxFiles \in Nat

VARIABLES
    segs,      \* the .seg files in number order: [data, order, upto]
    named,     \* how many of them have their name fsynced
    wal,       \* file id -> [recs, synced, torn]
    walBuf,    \* records appended and not yet in a file
    m,         \* memory: [index, samples, newest, buffered]
    logged,    \* labels logged in this generation (logged_gen = generation)
    failed,    \* DbState.failed
    pc, by,    \* where the holder of the lock is, and on whose behalf
    doomed,    \* the id to remove log files through
    hist,      \* ghost: the batches appended to the log that survive
    acked,     \* ghost: batches acknowledged by the last stop
    stops      \* ghost: counts toward MaxStops

vars == <<segs, named, wal, walBuf, m, logged, failed, pc, by, doomed, hist,
          acked, stops>>

disk == <<segs, named, wal>>
ghosts == <<hist, acked, stops>>

-----------------------------------------------------------------------------
(* Memory: storage/series.rs and the part of storage/index.rs writes use. *)

NoMemory ==
    [index |-> <<>>, samples |-> [l \in Labels |-> <<>>],
     newest |-> [l \in Labels |-> 0], buffered |-> 0]

-----------------------------------------------------------------------------
(* Mistakes this code could have made: each is the definition it is named    *)
(* after with one slip, and the properties at the end tell it from the real  *)
(* one.                                                                      *)

\* A dropped sample is counted as buffered.
MistakenAppendSample(mem, l, s) ==
    IF s[1] > mem.newest[l]
      THEN [mem EXCEPT !.samples[l] = Append(@, s), !.newest[l] = s[1],
                       !.buffered = @ + 1]
      ELSE [mem EXCEPT !.buffered = @ + 1]

\* The log is removed before what it held is flushed.
MistakenCreateFile ==
    /\ pc = "create"
    /\ wal' = [f \in DOMAIN wal \cup {doomed + 1} |->
                 IF f = doomed + 1
                   THEN [recs |-> <<>>, synced |-> 0, torn |-> FALSE] ELSE wal[f]]
    /\ pc' = IF doomed = 0 THEN "idle" ELSE "remove"
    /\ UNCHANGED <<segs, named, walBuf, m, logged, failed, by, doomed, ghosts>>

\* The generation stays, and series are not logged again.
MistakenSaveDone ==
    /\ pc = "renamed"
    /\ named' = Len(segs)
    /\ m' = [m EXCEPT !.buffered = 0]
    /\ pc' = "remove"
    /\ UNCHANGED <<segs, wal, walBuf, logged, failed, by, doomed, ghosts>>

\* What was logged is remembered beyond the process.
MistakenStopped ==
    /\ walBuf' = <<>> /\ m' = NoMemory /\ logged' = logged /\ failed' = FALSE
    /\ pc' = "down" /\ by' = "open" /\ doomed' = 0

\* The log is trimmed although the flush failed.
MistakenSaveFails ==
    /\ pc = "save"
    /\ m' = [m EXCEPT !.samples = [l \in Labels |-> <<>>]]
    /\ failed' = TRUE /\ pc' = "remove"
    /\ UNCHANGED <<disk, walBuf, logged, by, doomed, ghosts>>

\* The file that makes way is left to the page cache.
MistakenLogRotate ==
    /\ pc = "idle" /\ walBuf # <<>>
    /\ \E f \in DOMAIN wal :
         /\ \A g \in DOMAIN wal : g <= f
         /\ wal[f].recs # <<>> /\ f < MaxFiles
         /\ wal' = [g \in DOMAIN wal \cup {f + 1} |->
                      IF g = f + 1
                        THEN [recs |-> <<>>, synced |-> 0, torn |-> FALSE]
                        ELSE wal[g]]
    /\ UNCHANGED <<segs, named, walBuf, m, logged, failed, pc, by, doomed, ghosts>>

-----------------------------------------------------------------------------
\* Index::encode: ids are positions in the order of first use.
Encode(mem, l) ==
    IF l \in Range(mem.index) THEN mem
                              ELSE [mem EXCEPT !.index = Append(@, l)]

IdOf(mem, l) == CHOOSE i \in DOMAIN mem.index : mem.index[i] = l

\* SeriesState::append: a sample not newer than the newest is dropped.
AppendSample(mem, l, s) ==
    IF s[1] > mem.newest[l]
      THEN [mem EXCEPT !.samples[l] = Append(@, s), !.newest[l] = s[1],
                       !.buffered = @ + 1]
      ELSE mem

AppendSamples(mem, l, ss) ==
    FoldLeft(LAMBDA acc, s : AppendSample(acc, l, s), mem, ss)

\* Db::write skips the entries with no samples.
Entries(batch) ==
    FoldLeft(LAMBDA acc, e : IF e.samples = <<>> THEN acc ELSE Append(acc, e),
             <<>>, batch)

EncodeAll(mem, es) == FoldLeft(LAMBDA acc, e : Encode(acc, e.labels), mem, es)

\* A record: the series not logged in this generation, once each, and the
\* samples of every entry, both by id.
Record(mem, es, no) ==
    LET ls == FoldLeft(LAMBDA acc, e :
                         IF e.labels \in logged \cup Range(acc) THEN acc
                                                    ELSE Append(acc, e.labels),
                       <<>>, es)
    IN  [no      |-> no,
         series  |-> [i \in DOMAIN ls |-> [id |-> IdOf(mem, ls[i]), labels |-> ls[i]]],
         samples |-> [i \in DOMAIN es |->
                        [id      |-> IdOf(mem, es[i].labels),
                         samples |-> [j \in DOMAIN es[i].samples |->
                                        <<es[i].samples[j], no>>]]]]

AppendAll(mem, rec) ==
    FoldLeft(LAMBDA acc, e : AppendSamples(acc, mem.index[e.id], e.samples),
             mem, rec.samples)

-----------------------------------------------------------------------------
(* Recovery: SegmentStore::open, restore_newest, reader::replay, Resolver. *)

\* index_segment rejects a file whose series do not go on after the previous.
SegmentInOrder(seg, mem) ==
    \A l \in Labels : LET ss == seg.data[l] IN
        /\ \A i \in 1 .. Len(ss) - 1 : ss[i][1] < ss[i + 1][1]
        /\ ss # <<>> => ss[1][1] > mem.newest[l]

\* The series of a segment are stored by id, which orders the new ids.
LoadSegment(mem, seg) ==
    FoldLeft(LAMBDA acc, l :
                [Encode(acc, l) EXCEPT !.newest[l] = Last(seg.data[l])[1]],
             mem, seg.order)

Loaded(n) == FoldLeft(LoadSegment, NoMemory, SubSeq(segs, 1, n))

\* A mistake: restore_newest is not called.
MistakenRestored == [Loaded(Len(segs)) EXCEPT !.newest = [l \in Labels |-> 0]]

\* Memory before the log is replayed: newest is the latest on disk.
Restored == Loaded(Len(segs))

SegmentsInOrder ==
    \A n \in DOMAIN segs : SegmentInOrder(segs[n], Loaded(n - 1))

FileIds == DOMAIN wal
LastFile == CHOOSE f \in FileIds : \A g \in FileIds : g <= f

\* A damaged record is repaired by truncation in the last file only.
LogReadable == \A f \in FileIds : wal[f].torn => f = LastFile

\* Resolver::apply, with the label set standing for the sink's id: a series
\* record names an id and releases the samples that waited for it.
ApplySeries(r, e) ==
    LET parked == IF e.id \in DOMAIN r.pending THEN r.pending[e.id] ELSE <<>>
    IN  [m       |-> AppendSamples(Encode(r.m, e.labels), e.labels, parked),
         ids     |-> [i \in DOMAIN r.ids \cup {e.id} |->
                        IF i = e.id THEN e.labels ELSE r.ids[i]],
         pending |-> [i \in DOMAIN r.pending \ {e.id} |-> r.pending[i]]]

ApplySamples(r, e) ==
    IF e.id \in DOMAIN r.ids
      THEN [r EXCEPT !.m = AppendSamples(@, r.ids[e.id], e.samples)]
      ELSE [r EXCEPT !.pending =
              [i \in DOMAIN @ \cup {e.id} |->
                 (IF i \in DOMAIN @ THEN @[i] ELSE <<>>)
                 \o (IF i = e.id THEN e.samples ELSE <<>>)]]

ApplyRecord(r, rec) ==
    FoldLeft(ApplySamples, FoldLeft(ApplySeries, r, rec.series), rec.samples)

Replayed(mem, recs) ==
    FoldLeft(ApplyRecord, [m |-> mem, ids |-> <<>>, pending |-> <<>>], recs).m

\* The records of all the files, in the order of their ids.
LogRecords ==
    IF FileIds = {} THEN <<>>
    ELSE FlattenSeq([f \in 1 .. LastFile |->
                       IF f \in FileIds THEN wal[f].recs ELSE <<>>])

Init ==
    /\ segs = <<>> /\ named = 0 /\ wal = <<>>
    /\ walBuf = <<>> /\ m = NoMemory /\ logged = {} /\ failed = FALSE
    /\ pc = "down" /\ by = "open" /\ doomed = 0
    /\ hist = <<>> /\ acked = 0 /\ stops = 0

-----------------------------------------------------------------------------
(* Db::open_with. *)

EmptyFile == [recs |-> <<>>, synced |-> 0, torn |-> FALSE]

WithFile(w, id) ==
    [f \in DOMAIN w \cup {id} |-> IF f = id THEN EmptyFile ELSE w[f]]

Repaired(f) == [wal[f] EXCEPT !.torn = FALSE, !.synced = Len(wal[f].recs)]

\* Read everything: refuse, or repair the end of the log and replay it.
Open ==
    /\ pc = "down"
    /\ SegmentsInOrder /\ LogReadable
    /\ m' = Replayed(Restored, LogRecords)
    /\ wal' = [f \in FileIds |-> IF wal[f].torn THEN Repaired(f) ELSE wal[f]]
    /\ doomed' = IF FileIds = {} THEN 0 ELSE LastFile
    /\ pc' = "create" /\ by' = "open"
    /\ UNCHANGED <<segs, named, walBuf, logged, failed, ghosts>>

Refuse ==
    /\ pc = "down"
    /\ ~(SegmentsInOrder /\ LogReadable)
    /\ pc' = "refused"
    /\ UNCHANGED <<disk, walBuf, m, logged, failed, by, doomed, ghosts>>

\* Ghost: the log about to be removed added nothing to the segments.
NothingNew ==
    IF segs = <<>> THEN segs ELSE [segs EXCEPT ![Len(segs)].upto = Len(hist)]

\* The new active file; then, if there was a log, flush what it held and
\* remove it through its last file.
CreateFile ==
    /\ pc = "create"
    /\ wal' = WithFile(wal, doomed + 1)
    /\ pc' = CASE doomed = 0                     -> "idle"
               [] doomed # 0 /\ m.buffered = 0   -> "remove"
               [] doomed # 0 /\ m.buffered # 0   -> "cut"
    /\ segs' = IF pc' = "remove" THEN NothingNew ELSE segs
    /\ UNCHANGED <<named, walBuf, m, logged, failed, by, doomed, ghosts>>

-----------------------------------------------------------------------------
(* Db::write. *)

Write(batch) ==
    LET es  == Entries(batch)
        mem == EncodeAll(m, es)
        rec == Record(mem, es, Len(hist) + 1)
    IN  /\ pc = "idle" /\ ~failed
        /\ es # <<>> /\ batch \notin Oversized
        /\ Len(hist) < MaxBatches
        /\ walBuf' = Append(walBuf, rec)
        /\ logged' = logged \cup {es[i].labels : i \in DOMAIN es}
        /\ m' = AppendAll(mem, rec)
        /\ hist' = Append(hist, batch)
        /\ by' = "write"
        /\ pc' = IF m'.buffered >= MaxBuffer THEN "cut" ELSE "idle"
        /\ UNCHANGED <<disk, failed, doomed, acked, stops>>

\* The log refuses a record over MAX_RECORD_BYTES: the labels stay indexed.
WriteTooLarge(batch) ==
    /\ batch \in Oversized
    /\ pc = "idle" /\ ~failed
    /\ m' = EncodeAll(m, Entries(batch))
    /\ UNCHANGED <<disk, walBuf, logged, failed, pc, by, doomed, ghosts>>

-----------------------------------------------------------------------------
(* DbState::flush, by a request, by a write that fills the buffer or by open. *)

Flush ==
    /\ pc = "idle" /\ ~failed /\ m.buffered > 0
    /\ LastFile < MaxFiles
    /\ pc' = "cut" /\ by' = "flush"
    /\ UNCHANGED <<disk, walBuf, m, logged, failed, doomed, ghosts>>

\* The log after n records of its buffer have reached the last file.
Drained(n) == [wal EXCEPT ![LastFile].recs = @ \o SubSeq(walBuf, 1, n)]

Synced(w) == [w EXCEPT ![LastFile].synced = Len(w[LastFile].recs)]

\* Wal::cut.
Cut ==
    /\ pc = "cut"
    /\ wal' = WithFile(Synced(Drained(Len(walBuf))), LastFile + 1)
    /\ walBuf' = <<>>
    /\ doomed' = LastFile
    /\ pc' = "save"
    /\ UNCHANGED <<segs, named, m, logged, failed, by, ghosts>>

Emptied == [m EXCEPT !.samples = [l \in Labels |-> <<>>]]

\* take_samples, then the file is written and synced under a temporary name,
\* which open ignores, and renamed.
Save ==
    /\ pc = "save"
    /\ segs' = Append(segs,
         [data  |-> m.samples,
          order |-> FoldLeft(LAMBDA acc, l : IF m.samples[l] = <<>> THEN acc
                                                              ELSE Append(acc, l),
                             <<>>, m.index),
          upto  |-> Len(hist)])
    /\ m' = Emptied
    /\ pc' = "renamed"
    /\ UNCHANGED <<named, wal, walBuf, logged, failed, by, doomed, ghosts>>

\* The directory is synced, the segment is known, a new generation begins.
SaveDone ==
    /\ pc = "renamed"
    /\ named' = Len(segs)
    /\ m' = [m EXCEPT !.buffered = 0]
    /\ logged' = {}
    /\ pc' = "remove"
    /\ UNCHANGED <<segs, wal, walBuf, failed, by, doomed, ghosts>>

\* The process ends or the opening Db is dropped: memory is gone.
Stopped ==
    /\ walBuf' = <<>> /\ m' = NoMemory /\ logged' = {} /\ failed' = FALSE
    /\ pc' = "down" /\ by' = "open" /\ doomed' = 0

OpenFails == stops < MaxStops /\ stops' = stops + 1 /\ Stopped

\* An error before the rename or after it. A running Db takes no more
\* requests; an opening one is not opened.
SaveFails ==
    /\ pc \in {"save", "renamed"}
    /\ IF by = "open"
         THEN OpenFails
         ELSE /\ failed' = TRUE /\ m' = Emptied /\ pc' = "idle"
              /\ UNCHANGED <<walBuf, logged, by, doomed, stops>>
    /\ UNCHANGED <<disk, hist, acked>>

\* Wal::remove_through unlinks in id order.
RemoveFile ==
    /\ pc = "remove"
    /\ \E f \in FileIds :
         /\ f <= doomed
         /\ \A g \in FileIds : f <= g
         /\ wal' = [g \in FileIds \ {f} |-> wal[g]]
    /\ UNCHANGED <<segs, named, walBuf, m, logged, failed, pc, by, doomed, ghosts>>

RemoveDone ==
    /\ pc = "remove" /\ \A f \in FileIds : f > doomed
    /\ pc' = "idle" /\ doomed' = 0
    /\ UNCHANGED <<disk, walBuf, m, logged, failed, by, ghosts>>

\* A running Db reports the error and goes on.
RemoveFails ==
    /\ pc = "remove"
    /\ IF by = "open"
         THEN OpenFails
         ELSE /\ pc' = "idle" /\ doomed' = 0
              /\ UNCHANGED <<walBuf, m, logged, failed, by, stops>>
    /\ UNCHANGED <<disk, hist, acked>>

-----------------------------------------------------------------------------
(* The log's own threads, as module Wal has them. *)

Up == pc \notin {"down", "refused", "create"}

LogWrite ==
    /\ Up
    /\ \E n \in 1 .. Len(walBuf) :
         /\ wal' = Drained(n)
         /\ walBuf' = SubSeq(walBuf, n + 1, Len(walBuf))
    /\ UNCHANGED <<segs, named, m, logged, failed, pc, by, doomed, ghosts>>

LogSync ==
    /\ Up
    /\ wal' = Synced(wal)
    /\ UNCHANGED <<segs, named, walBuf, m, logged, failed, pc, by, doomed, ghosts>>

\* A full file makes way for a batch in hand.
LogRotate ==
    /\ Up /\ walBuf # <<>>
    /\ wal[LastFile].recs # <<>> /\ LastFile < MaxFiles
    /\ wal' = WithFile(Synced(wal), LastFile + 1)
    /\ UNCHANGED <<segs, named, walBuf, m, logged, failed, pc, by, doomed, ghosts>>

-----------------------------------------------------------------------------
(* Db::query for the series of a set ls of labels, as Index::resolve selects *)
(* it, from a time to a time no earlier: the answer by label set.            *)

InRange(ss, from, to) ==
    FoldLeft(LAMBDA acc, s : IF s[1] >= from /\ s[1] <= to THEN Append(acc, s) ELSE acc,
             <<>>, ss)

\* A mistake: a segment that ends with the first instant asked for is skipped.
MistakenMayHold(seg, ls, from, to) ==
    \E l \in ls : /\ seg.data[l] # <<>>
                  /\ seg.data[l][1][1] <= to /\ Last(seg.data[l])[1] > from

\* SegmentStore::read skips a segment by the first and last time it holds of
\* each series, ...
MayHold(seg, ls, from, to) ==
    \E l \in ls : /\ seg.data[l] # <<>>
                  /\ seg.data[l][1][1] <= to /\ Last(seg.data[l])[1] >= from

\* ... and takes what it wants of the others, oldest segment first.
ReadSegments(ls, l, from, to) ==
    FlattenSeq([i \in DOMAIN segs |->
      IF MayHold(segs[i], ls, from, to) THEN InRange(segs[i].data[l], from, to)
                                        ELSE <<>>])

\* SeriesState::range, between two partition points: samples come in the order
\* of their times.
MemoryRange(ss, from, to) ==
    LET lo == Max({0} \cup {i \in DOMAIN ss : ss[i][1] < from})
        hi == Max({0} \cup {i \in DOMAIN ss : ss[i][1] <= to})
    IN  SubSeq(ss, lo + 1, hi)

Query(ls, from, to) ==
    [l \in ls \cap Range(m.index) |->
       ReadSegments(ls, l, from, to) \o MemoryRange(m.samples[l], from, to)]

-----------------------------------------------------------------------------
(* The process stops. *)

\* Batches a client may have been told are written.
Ackable ==
    LET returned == IF by = "write" /\ pc # "idle" THEN Len(hist) - 1 ELSE Len(hist)
        stored   == Len(hist) - Len(walBuf)
    IN  IF Written THEN stored ELSE returned

\* The last batch that files sg and w hold.
Survivors(sg, w) ==
    LET nos == {sg[i].upto : i \in DOMAIN sg}
               \cup UNION {{w[f].recs[i].no : i \in DOMAIN w[f].recs} : f \in DOMAIN w}
    IN  CHOOSE n \in nos \cup {0} : \A k \in nos : k <= n

StopWith ==
    /\ stops < MaxStops
    /\ stops' = stops + 1
    /\ acked' = IF Ackable > acked THEN Ackable ELSE acked
    /\ hist' = SubSeq(hist, 1, Survivors(segs', wal'))
    /\ Stopped

\* Drop for Wal closes the log, which drains it and syncs it.
Drop ==
    /\ pc = "idle"
    /\ wal' = Synced(Drained(Len(walBuf)))
    /\ UNCHANGED <<segs, named>>
    /\ StopWith

\* A kill, or the log's process::abort. A write of the buffer under way may
\* leave some whole records and a part of the next.
Kill ==
    /\ pc \notin {"down", "refused"}
    /\ \E n \in 0 .. Len(walBuf), cut \in BOOLEAN :
         /\ cut => n < Len(walBuf)
         /\ wal' = IF walBuf = <<>> THEN wal
                   ELSE [Drained(n) EXCEPT ![LastFile].torn = cut]
    /\ UNCHANGED <<segs, named>>
    /\ StopWith

\* Files with records or a part of one that were never synced.
Loose == {f \in FileIds : wal[f].torn \/ wal[f].synced < Len(wal[f].recs)}

\* Unsynced ends of files are lost or damaged, unsynced names are lost.
LosePower ==
    /\ PowerLoss # {} /\ pc # "refused"
    /\ \E n \in named .. Len(segs) :
         /\ "names" \in PowerLoss \/ n = Len(segs)
         /\ segs' = SubSeq(segs, 1, n)
    /\ named' = Len(segs')
    /\ IF "ends" \in PowerLoss
         THEN \E kept \in [Loose -> 0 .. MaxBatches], damaged \in SUBSET Loose :
                /\ \A f \in Loose :
                     /\ kept[f] \in wal[f].synced .. Len(wal[f].recs)
                     /\ f \in damaged => wal[f].torn \/ kept[f] < Len(wal[f].recs)
                /\ wal' = [f \in FileIds |->
                     IF f \in Loose
                       THEN [recs   |-> SubSeq(wal[f].recs, 1, kept[f]),
                             synced |-> kept[f],
                             torn   |-> f \in damaged]
                       ELSE wal[f]]
         ELSE wal' = wal
    /\ StopWith

-----------------------------------------------------------------------------
\* Waiting for a request, or never able to take one.
Idle ==
    /\ pc \in {"idle", "refused"}
    /\ UNCHANGED vars

Next ==
    \/ Open \/ Refuse \/ CreateFile
    \/ \E b \in Batches : Write(b) \/ WriteTooLarge(b)
    \/ Flush \/ Cut \/ Save \/ SaveDone \/ SaveFails
    \/ RemoveFile \/ RemoveDone \/ RemoveFails
    \/ LogWrite \/ LogSync \/ LogRotate
    \/ Drop \/ Kill \/ LosePower
    \/ Idle

Spec == Init /\ [][Next]_vars

-----------------------------------------------------------------------------
(* Properties *)

TypeOK ==
    /\ named \in 0 .. Len(segs)
    /\ FileIds \subseteq Nat
    /\ \A f \in FileIds :
         wal[f].synced \in 0 .. Len(wal[f].recs) /\ wal[f].torn \in BOOLEAN
    /\ m.samples \in [Labels -> Seq(Nat \X Nat)]
    /\ m.newest \in [Labels -> Nat] /\ m.buffered \in Nat
    /\ Range(m.index) \subseteq Labels /\ logged \subseteq Range(m.index)
    /\ pc \in {"down", "refused", "create", "idle", "cut", "save", "renamed",
               "remove"}
    /\ by \in {"open", "write", "flush"} /\ failed \in BOOLEAN
    /\ doomed \in Nat /\ acked \in Nat

\* All that is kept of one series: the segments, then memory.
View(l) == FlattenSeq([i \in DOMAIN segs |-> segs[i].data[l]]) \o m.samples[l]

Answers == pc = "idle" /\ ~failed

Promise == INSTANCE Tsdb WITH
    answer <- IF Answers THEN [l \in Labels |-> View(l)] ELSE [l \in {} |-> <<>>]

\* Db keeps the promise of Tsdb.
StoreSpec == Promise!Spec

\* Whenever a query can run it sees exactly the batches of a prefix of the
\* history, none lost, doubled or reordered, through any flushes, failures,
\* stops at any step and replays of whatever was left of the log.
ViewIsHistory ==
    Answers => [l \in Labels |-> View(l)] = Promise!Answer(hist)

\* The times of any sample, and one before and one after them all.
Times ==
    LET ts == UNION {UNION {Range(b[i].samples) : i \in DOMAIN b} : b \in Batches}
    IN  ts \cup {t - 1 : t \in ts} \cup {t + 1 : t \in ts}

\* A query of any series over any range answers with exactly the samples of
\* the history in the range, wherever flushes and restarts have put them; the
\* first and last times by which a segment is skipped never hide a sample.
RangeExact ==
    Answers =>
      LET all == Promise!Answer(hist)
      IN  \A ls \in SUBSET Labels, from, to \in Times :
            from <= to =>
              LET q == Query(ls, from, to)
              IN  \A l \in ls :
                    InRange(all[l], from, to) = IF l \in DOMAIN q THEN q[l] ELSE <<>>

\* No stop takes back a batch that was acknowledged.
AckedKept == acked <= Len(hist)

\* A stop never leaves files that open rejects.
NeverRefused == pc # "refused"

\* Every point a write has accepted can be read.
EveryPointReadable ==
    Answers => \A l \in Labels :
        \A p \in Range(Promise!Submitted(hist, l)) :
            \E q \in Range(View(l)) : q[1] = p[1]

\* buffered_samples, which decides when to flush, is what memory holds, and
\* it stays under its limit between requests.
BufferedExact ==
    Answers =>
      /\ m.buffered = FoldLeft(LAMBDA acc, l : acc + Len(m.samples[l]), 0, m.index)
      /\ m.buffered < MaxBuffer

================================================================================
