-------------------------------- MODULE Framing --------------------------------
(***************************************************************************)
(* The log as bytes: how a record is encoded (wal/codec.rs, wal/record.rs, *)
(* wal/writer.rs) and how replay reads the files back, repairs the end of  *)
(* the last one and refuses anything else it cannot read (wal/reader.rs).  *)
(*                                                                         *)
(* A file is a sequence of cells of four bytes, each a number. A u32 is a  *)
(* cell; a u64, and an f64 whose bits are all that counts, is a pair of    *)
(* them; a string is as many cells as its length says, and the kind byte   *)
(* has a cell to itself. An offset counts cells.                           *)
(***************************************************************************)
EXTENDS Integers, Sequences, SequencesExt, FiniteSetsExt

CONSTANTS
    MaxCells,     \* MAX_RECORD_BYTES
    NotText,      \* cells that are not UTF-8
    Batches,      \* what may be appended: [series, samples], with
                  \*   series : Seq([id, labels]), labels : Seq([name, value])
                  \*   samples : Seq([id, samples]), samples : Seq(4 cells)
    ZeroTails,    \* how many zero cells a loss of power may leave
    BadCells,     \* what a damaged cell may hold
    MaxRecords, MaxStops, MaxSegments   \* bounds on a run

\* What a cell, a pair of cells and a string may be, and a label set as it is given.
Cells == Seq(Nat)
Pair == [1 .. 2 -> Nat]
Text == Seq(Nat \ NotText)
Labels == Seq([name : Text, value : Text])

ASSUME FramingAssumption ==
    /\ \A b \in Batches :
          /\ b.series \in Seq([id : Pair, labels : Labels])
          /\ b.samples \in Seq([id : Pair, samples : Seq([1 .. 4 -> Nat])])
    /\ ZeroTails \subseteq Nat /\ BadCells \subseteq Nat
    /\ MaxRecords \in Nat /\ MaxStops \in Nat /\ MaxSegments \in Nat \ {0}

VARIABLES
    segments,   \* the files of the log, in order
    pc,         \* "up", "reading", "opened" or "refused"
    at, offset, \* what replay reads next: the segment, and where in it
    delivered,  \* the records replay has handed on
    reserved,   \* by how much the largest capacity decode asked for is over
                \*   the length of its payload, 0 if it is not
    logged,     \* the records written whole in each segment (ghost)
    stops,
    damage      \* "none", "seen" or, with a checksum that fits, "unseen"

vars == <<segments, pc, at, offset, delivered, reserved, logged, stops, damage>>
replay == <<at, offset, delivered, reserved>>

-----------------------------------------------------------------------------
(* Encoding. *)

WriteKind == 0
HeaderLen == 3

\* A stand-in for crc32: like it, it sees any change within one cell, and is
\* not zero for a header of zeros.
Modulus == 65521
Mix(h, c) == (7 * h + c) % Modulus
RecordCrc(kind, len, payload) == FoldLeft(Mix, 1, <<kind, len>> \o payload)

Header(payload) ==
    <<Len(payload), RecordCrc(WriteKind, Len(payload), payload), WriteKind>>

PutBytes(s) == <<Len(s)>> \o s

\* Lexicographic, as String's cmp.
Before(s, t) ==
    \E n \in 0 .. Len(s) :
        /\ n < Len(t) /\ (n < Len(s) => s[n + 1] < t[n + 1])
        /\ \A i \in 1 .. n : s[i] = t[i]

\* A label goes behind those of earlier names, over one of its own.
Insert(ls, l) ==
    LET n == Max({0} \cup {i \in DOMAIN ls : Before(ls[i].name, l.name)})
        m == IF n < Len(ls) /\ ls[n + 1].name = l.name THEN n + 1 ELSE n
    IN  SubSeq(ls, 1, n) \o <<l>> \o SubSeq(ls, m + 1, Len(ls))

\* Sorted by name, the last value given to a name.
FromLabels(ls) == FoldLeft(Insert, <<>>, ls)

EncodeLabel(l) == PutBytes(l.name) \o PutBytes(l.value)
EncodeLabels(ls) ==
    <<Len(ls)>> \o FlattenSeq([n \in 1 .. Len(ls) |-> EncodeLabel(ls[n])])
EncodeSeries(e) == e.id \o EncodeLabels(e.labels)
EncodeSamples(e) == e.id \o <<Len(e.samples)>> \o FlattenSeq(e.samples)

\* What the encoder writes of the entries: none without samples.
WithSamples(es) ==
    FoldLeft(LAMBDA q, e : IF e.samples = <<>> THEN q ELSE Append(q, e), <<>>, es)

\* The record of a batch: its label sets and its samples.
RecordOf == [b \in Batches |->
    [series  |-> [n \in 1 .. Len(b.series) |->
                      [id |-> b.series[n].id, labels |-> FromLabels(b.series[n].labels)]],
     samples |-> WithSamples(b.samples)]]

Payload == [b \in Batches |->
    LET rec == RecordOf[b]
    IN  <<Len(rec.series), Len(rec.samples)>>
            \o FlattenSeq([n \in 1 .. Len(rec.series) |-> EncodeSeries(rec.series[n])])
            \o FlattenSeq([n \in 1 .. Len(rec.samples) |-> EncodeSamples(rec.samples[n])])]

Encoded == [b \in Batches |-> Header(Payload[b]) \o Payload[b]]

EncodedAll(bs) == FlattenSeq([n \in 1 .. Len(bs) |-> Encoded[bs[n]]])

Empty(b) == RecordOf[b].series = <<>> /\ RecordOf[b].samples = <<>>

-----------------------------------------------------------------------------
(* Decoding. A reader is [buf, pos, ok, got, reserved]: got is what the     *)
(* last call read.                                                         *)

Reader(payload) == [buf |-> payload, pos |-> 0, ok |-> TRUE, got |-> <<0>>, reserved |-> 0]
Fail(r) == [r EXCEPT !.ok = FALSE, !.got = <<0>>]
Remaining(r) == Len(r.buf) - r.pos

\* A count is believed as it is read.
MistakenFits(r, n, size) == TRUE

\* n items of at least size cells may be left.
Fits(r, n, size) == n <= Remaining(r) \div size

Take(r, n) ==
    IF r.ok /\ n <= Remaining(r)
    THEN [r EXCEPT !.pos = @ + n, !.got = SubSeq(r.buf, r.pos + 1, r.pos + n)]
    ELSE Fail(r)

ReadStr(r) ==
    LET len == Take(r, 1)
        str == Take(len, len.got[1])
    IN  IF str.ok /\ Range(str.got) \cap NotText # {} THEN Fail(str) ELSE str

\* n items into a vector of that capacity.
ReadItems(r, n, Item(_)) ==
    IF ~r.ok THEN Fail(r) ELSE
    FoldLeft(LAMBDA acc, x : LET e == Item(acc) IN [e EXCEPT !.got = Append(acc.got, e.got)],
             [r EXCEPT !.got = <<>>, !.reserved = Max({@, n - Len(r.buf)})],
             [x \in 1 .. n |-> x])

Counted(r, n, size, Item(_)) ==
    IF Fits(r, n, size) THEN ReadItems(r, n, Item) ELSE Fail(r)

ReadLabel(r) ==
    LET name == ReadStr(r)
        value == ReadStr(name)
    IN  [value EXCEPT !.got = [name |-> name.got, value |-> value.got]]

DecodeLabels(r) ==
    LET n == Take(r, 1)
        ls == Counted(n, n.got[1], 2, ReadLabel)
    IN  IF ls.ok THEN [ls EXCEPT !.got = FromLabels(ls.got)] ELSE ls

ReadSeries(r) ==
    LET id == Take(r, 2)
        labels == DecodeLabels(id)
    IN  [labels EXCEPT !.got = [id |-> id.got, labels |-> labels.got]]

ReadSample(r) == Take(r, 4)

ReadSamples(r) ==
    LET id == Take(r, 2)
        n == Take(id, 1)
        s == Counted(n, n.got[1], 4, ReadSample)
    IN  [s EXCEPT !.got = [id |-> id.got, samples |-> s.got]]

\* ok with the record in got, or not ok.
Decode(payload) ==
    LET counts  == Take(Reader(payload), 2)
        series  == ReadItems(counts, counts.got[1], ReadSeries)
        samples == ReadItems(series, counts.got[2], ReadSamples)
        rec     == [series |-> series.got, samples |-> samples.got]
    IN  IF counts.ok /\ Fits(counts, counts.got[1] + counts.got[2], 3)
        THEN [samples EXCEPT !.ok = @ /\ Remaining(samples) = 0, !.got = rec]
        ELSE Fail(counts)

-----------------------------------------------------------------------------
(* The writer's side, and what may happen to the files. *)

Init ==
    /\ segments = <<<<>>>> /\ logged = <<<<>>>>
    /\ pc = "up" /\ at = 1 /\ offset = 0 /\ delivered = <<>> /\ reserved = 0
    /\ stops = 0 /\ damage = "none"

LastSegment == Len(segments)
Written == FlattenSeq(logged)

\* append_with, and the flusher's write. An empty batch is not logged.
Write(b) ==
    /\ pc = "up" /\ Len(Written) < MaxRecords
    /\ ~Empty(b) /\ Len(Payload[b]) <= MaxCells
    /\ segments' = [segments EXCEPT ![LastSegment] = @ \o Encoded[b]]
    /\ logged' = [logged EXCEPT ![LastSegment] = Append(@, b)]
    /\ UNCHANGED <<pc, replay, stops, damage>>

\* rotate(), and Wal::open once the log has been replayed.
CreateSegment ==
    /\ pc \in {"up", "opened"} /\ LastSegment < MaxSegments
    /\ segments' = Append(segments, <<>>) /\ logged' = Append(logged, <<>>)
    /\ pc' = "up"
    /\ UNCHANGED <<replay, stops, damage>>

\* How many of the first records of bs the cells hold whole.
WholeIn(bs, cells) ==
    Max({n \in 0 .. Len(bs) : IsPrefix(EncodedAll(SubSeq(bs, 1, n)), cells)})
WholeRead == WholeIn(logged[at], SubSeq(segments[at], 1, offset))

StartReading ==
    pc' = "reading" /\ at' = 1 /\ offset' = 0 /\ delivered' = <<>> /\ reserved' = 0

\* The process stops and the log is opened again. Of the last segment the
\* first n cells are left, with zeros after them if it was being written to. To
\* bound the run a damaged file gets no zeros.
StopAndOpen(n, zeros) ==
    /\ stops < MaxStops /\ stops' = stops + 1
    /\ zeros > 0 => pc = "up" /\ damage = "none"
    /\ StartReading
    /\ LET is == SubSeq(segments[LastSegment], 1, n) \o [z \in 1 .. zeros |-> 0]
       IN  /\ segments' = [segments EXCEPT ![LastSegment] = is]
           /\ logged' = [logged EXCEPT ![LastSegment] = SubSeq(@, 1, WholeIn(@, is))]
    /\ UNCHANGED damage

\* One cell of a file changes, before the last start.
DamageCell(s, n, cell) ==
    /\ pc = "up" /\ stops < MaxStops /\ damage = "none" /\ segments[s][n] # cell
    /\ segments' = [segments EXCEPT ![s][n] = cell]
    /\ damage' = "seen"
    /\ UNCHANGED <<pc, replay, logged, stops>>

\* A cell of the only record of a segment changes, and the checksum fits.
DamageUnseen(s, n, cell) ==
    /\ pc = "up" /\ stops < MaxStops /\ damage = "none" /\ Len(logged[s]) = 1
    /\ n > HeaderLen /\ segments[s][n] # cell
    /\ LET payload == SubSeq([segments[s] EXCEPT ![n] = cell], HeaderLen + 1, Len(segments[s]))
       IN  segments' = [segments EXCEPT ![s] = Header(payload) \o payload]
    /\ damage' = "unseen"
    /\ UNCHANGED <<pc, replay, logged, stops>>

-----------------------------------------------------------------------------
(* Replay. *)

PayloadOf(cells) == SubSeq(cells, HeaderLen + 1, HeaderLen + cells[1])

\* read_record finds a whole record.
BeginsRecord(cells) ==
    /\ Len(cells) >= HeaderLen                                   \* Truncated
    /\ cells[3] = WriteKind                                      \* InvalidKind
    /\ cells[1] <= MaxCells                                      \* InvalidLength
    /\ Len(cells) - HeaderLen >= cells[1]                        \* Truncated
    /\ RecordCrc(cells[3], cells[1], PayloadOf(cells)) = cells[2] \* ChecksumMismatch

Rest == SubSeq(segments[at], offset + 1, Len(segments[at]))
PayloadLen == Rest[1]
PayloadRead == PayloadOf(Rest)
Readable == BeginsRecord(Rest)

Unreadable == pc = "reading" /\ Rest # <<>> /\ ~Readable

\* The offset of the next record forgets the header of this one.
MistakenDeliver ==
    /\ pc = "reading" /\ Rest # <<>> /\ Readable
    /\ delivered' = Append(delivered, Decode(PayloadRead).got)
    /\ offset' = offset + PayloadLen
    /\ UNCHANGED <<pc, segments, at, reserved, logged, stops, damage>>

\* A whole record that decode rejects is refused in the last segment too.
Deliver ==
    /\ pc = "reading" /\ Rest # <<>> /\ Readable
    /\ LET d == Decode(PayloadRead)
       IN  /\ reserved' = Max({reserved, d.reserved})
           /\ IF d.ok
              THEN /\ delivered' = Append(delivered, d.got)
                   /\ offset' = offset + HeaderLen + PayloadLen
                   /\ UNCHANGED pc
              ELSE pc' = "refused" /\ UNCHANGED <<delivered, offset>>
    /\ UNCHANGED <<segments, at, logged, stops, damage>>

\* One segment too many.
MistakenEndOfSegment ==
    /\ pc = "reading" /\ Rest = <<>>
    /\ at <= LastSegment /\ at' = at + 1 /\ offset' = 0
    /\ UNCHANGED <<pc, segments, delivered, reserved, logged, stops, damage>>

EndOfSegment ==
    /\ pc = "reading" /\ Rest = <<>>
    /\ IF at < LastSegment
       THEN at' = at + 1 /\ offset' = 0 /\ UNCHANGED pc
       ELSE pc' = "opened" /\ UNCHANGED <<at, offset>>
    /\ UNCHANGED <<segments, delivered, reserved, logged, stops, damage>>

\* Only a record cut short.
MistakenRepairable ==
    /\ at = LastSegment
    /\ Len(Rest) < HeaderLen \/ Len(Rest) - HeaderLen < PayloadLen
\* Whatever is wrong, in the last segment it is the end of the log.
Repairable == at = LastSegment

\* The end of the log is found but left in the file.
MistakenRepair ==
    /\ Unreadable /\ Repairable
    /\ logged' = [logged EXCEPT ![at] = SubSeq(@, 1, WholeRead)]
    /\ pc' = "opened"
    /\ UNCHANGED <<segments, replay, stops, damage>>

Repair ==
    /\ Unreadable /\ Repairable
    /\ segments' = [segments EXCEPT ![at] = SubSeq(@, 1, offset)]
    /\ logged' = [logged EXCEPT ![at] = SubSeq(@, 1, WholeRead)]
    /\ pc' = "opened"
    /\ UNCHANGED <<replay, stops, damage>>

Refuse ==
    /\ Unreadable /\ ~Repairable
    /\ pc' = "refused"
    /\ UNCHANGED <<segments, replay, logged, stops, damage>>

Next ==
    \/ \E b \in Batches : Write(b)
    \/ CreateSegment
    \/ \E n \in 0 .. Len(segments[LastSegment]), z \in ZeroTails : StopAndOpen(n, z)
    \/ \E s \in 1 .. LastSegment, c \in BadCells : \E n \in 1 .. Len(segments[s]) :
           DamageCell(s, n, c) \/ DamageUnseen(s, n, c)
    \/ Deliver \/ EndOfSegment \/ Repair \/ Refuse

Spec == Init /\ [][Next]_vars

-----------------------------------------------------------------------------
(* What crc32 is there for, and cannot promise: TLC checks it of the values  *)
(* that MCFraming gives the constants, what is proved of them rests on it.   *)

\* The beginning of a record with zeros behind it is not taken for a record,
\* unless it is the whole of it.
TearsSeen ==
    \A b \in Batches, z \in ZeroTails : \A k \in 0 .. Len(Encoded[b]) - 1 :
        LET cells == SubSeq(Encoded[b], 1, k) \o [i \in 1 .. z |-> 0]
        IN  IsPrefix(Encoded[b], cells) \/ ~BeginsRecord(cells)

\* Nor is a record of which a cell has changed, whatever is written behind it.
DamageSeen ==
    \A b \in Batches, c \in BadCells : \A n \in 1 .. Len(Encoded[b]) :
        c # Encoded[b][n] =>
            \A more \in UNION {[1 .. m -> Batches] : m \in 0 .. MaxRecords} :
                ~BeginsRecord([Encoded[b] EXCEPT ![n] = c] \o EncodedAll(more))

-----------------------------------------------------------------------------
(* Properties. *)

TypeOK ==
    /\ pc \in {"up", "reading", "opened", "refused"}
    /\ Len(logged) = LastSegment /\ LastSegment \in 1 .. MaxSegments
    /\ at \in 1 .. LastSegment /\ offset >= 0
    /\ stops \in 0 .. MaxStops /\ damage \in {"none", "seen", "unseen"}

\* Replay hands on, segment by segment and in order, the records that were
\* appended, each as it was given: their counts, lengths and limits mean the
\* same to writer.rs and codec.rs's encoder as to reader.rs and its decoder.
\* It never hands on a record after one that is damaged, nor part of one.
DeliversWritten ==
    damage # "unseen" /\ pc \in {"reading", "opened"} =>
        LET before == FlattenSeq(SubSeq(logged, 1, at - 1))
                          \o SubSeq(logged[at], 1, WholeRead)
        IN  delivered = [n \in 1 .. Len(before) |-> RecordOf[before[n]]]

\* A log that opens holds the records replay has handed on and nothing else,
\* whatever was wrong with its end: replay's next reading of it (reader.rs:47,
\* when the segment is no longer the last) finds nothing to repair.
OpensClean ==
    damage # "unseen" /\ pc = "opened" =>
        FlattenSeq(segments) = EncodedAll(Written)

\* After any stops, each of which may tear the last segment anywhere and leave
\* zeros behind, replay never refuses the log (reader.rs:53), and what it cuts
\* off is less than a record.
TearsRepaired ==
    damage = "none" =>
        /\ pc # "refused"
        /\ Unreadable => WholeRead = Len(logged[at])

\* No capacity decode reserves is larger than the payload it reads, even when a
\* count is damaged and the checksum does not tell (codec.rs:23, 114, 129).
ReservesWhatIsThere == reserved = 0
================================================================================
