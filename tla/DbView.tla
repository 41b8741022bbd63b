------------------------------- MODULE DbView ---------------------------------
(***************************************************************************)
(* What a query of module Db answers, proved for any labels, any batches   *)
(* and any bounds: segments and memory together show the history of the    *)
(* batches written, through every flush, cut, kill, drop and restart and   *)
(* every loss of unsynced file ends; so a query returns exactly the part   *)
(* of it in its range, and Db implements the store of module Tsdb.         *)
(***************************************************************************)
EXTENDS DbHistory

\* Records that have left the buffer for the last file.
LEMMA DrainedFiled ==
    ASSUME NEW k, Shape(wal, k), LastFile \in DOMAIN wal,
           \A g \in DOMAIN wal : g <= LastFile,
           walBuf \in Seq(Rec(k)), Len(hist) \in Nat, InSequence(wal),
           Numbered(segs, wal, walBuf, hist), NEW n \in 0 .. Len(walBuf)
    PROVE  LET buf == SubSeq(walBuf, n + 1, Len(walBuf))
               v   == Drained(n)
           IN  /\ InSequence(v) /\ Numbered(segs, v, buf, hist)
               /\ Filed(v) = Filed(wal) \cup {walBuf[i] : i \in 1 .. n}
               /\ InLog(v, buf) = InLog(wal, walBuf)
               /\ DOMAIN v = DOMAIN wal
               /\ \A f \in DOMAIN wal : f # LastFile => v[f].recs = wal[f].recs
<1> DEFINE buf == SubSeq(walBuf, n + 1, Len(walBuf))
<1> DEFINE q == SubSeq(walBuf, 1, n)
<1> DEFINE v == Drained(n)
<1> DEFINE last == LastFile
<1> DEFINE old == wal[last].recs
<1> DEFINE was == Len(hist) - Len(walBuf)
<1>1. /\ DOMAIN v = DOMAIN wal
      /\ \A f \in DOMAIN wal : v[f].recs = IF f = last THEN wal[f].recs \o q
                                           ELSE wal[f].recs
  BY DrainedIs
<1>2. /\ Upto(segs) \in 0 .. was
      /\ \A i \in DOMAIN segs : segs[i].upto <= Upto(segs)
      /\ \A i \in DOMAIN walBuf : walBuf[i].no = was + i
      /\ \A r \in Filed(wal) : r.no <= was
      /\ \A j \in Upto(segs) + 1 .. was : \E r \in Filed(wal) : r.no = j
  BY DEF Numbered
<1>3. /\ q \in Seq(Rec(k)) /\ Len(q) = n /\ \A i \in 1 .. n : q[i] = walBuf[i]
      /\ Len(buf) = Len(walBuf) - n /\ buf \in Seq(Rec(k))
      /\ \A i \in 1 .. Len(walBuf) - n : buf[i] = walBuf[n + i]
      /\ Len(walBuf) \in Nat /\ n \in Nat /\ n <= Len(walBuf)
      /\ DOMAIN walBuf = 1 .. Len(walBuf) /\ DOMAIN buf = 1 .. Len(walBuf) - n
  BY Split
<1> HIDE DEF q, buf
<1>4. was \in Nat /\ last \in Nat /\ old \in Seq(Rec(k)) /\ last \in DOMAIN wal
  BY <1>2, <1>3 DEF Shape, LogFile
<1>5. /\ DOMAIN (old \o q) = 1 .. Len(old) + n /\ Len(old) \in Nat
      /\ DOMAIN old = 1 .. Len(old)
      /\ \A i \in 1 .. Len(old) : (old \o q)[i] = old[i]
      /\ \A i \in 1 .. n : (old \o q)[Len(old) + i] = q[i]
  <2>1. old \in Seq(Rec(k)) /\ q \in Seq(Rec(k)) /\ Len(q) = n
    BY <1>3, <1>4
  <2> HIDE DEF old
  <2>2. DOMAIN old = 1 .. Len(old) /\ Len(old) \in Nat
    BY <2>1
  <2>3. /\ DOMAIN (old \o q) = 1 .. Len(old) + Len(q)
        /\ \A i \in 1 .. Len(old) : (old \o q)[i] = old[i]
        /\ \A i \in 1 .. Len(q) : (old \o q)[Len(old) + i] = q[i]
    <3> DEFINE S == Rec(k)
    <3>1. old \in Seq(S) /\ q \in Seq(S)
      BY <2>1
    <3> HIDE DEF S, q
    <3>2. DOMAIN (old \o q) = 1 .. Len(old) + Len(q)
      BY <3>1, JoinIs
    <3>3. \A i \in 1 .. Len(old) : (old \o q)[i] = old[i]
      BY <3>1, JoinIs
    <3>4. \A i \in 1 .. Len(q) : (old \o q)[Len(old) + i] = q[i]
      BY <3>1, JoinIs
    <3> QED BY <3>2, <3>3, <3>4
  <2> QED BY <2>1, <2>2, <2>3, Zenon
<1>6. \A f \in DOMAIN wal : \A i \in DOMAIN wal[f].recs :
         wal[f].recs[i] \in Filed(wal) /\ wal[f].recs[i].no <= was
  BY <1>2 DEF Filed
<1> HIDE DEF q, buf, v, was, last
<1>7. ASSUME NEW f \in DOMAIN v, f # last
      PROVE  v[f].recs = wal[f].recs
  BY <1>1, <1>7
<1>8. v[last].recs = old \o q
  BY <1>1, <1>4
<1>9. ASSUME NEW i \in DOMAIN v[last].recs
      PROVE  \/ i \in DOMAIN old /\ v[last].recs[i] = old[i]
             \/ \E j \in 1 .. n : /\ i = Len(old) + j /\ v[last].recs[i] = walBuf[j]
                                  /\ walBuf[j].no = was + j
  <2>0. i \in 1 .. Len(old) + n
    BY <1>5, <1>8
  <2>1. CASE i <= Len(old)
    BY <1>5, <1>8, <2>0, <2>1
  <2>2. CASE i > Len(old)
    <3> DEFINE j == i - Len(old)
    <3>0. Len(old) \in Nat /\ n \in Nat
      BY <1>3, <1>5
    <3>1. j \in 1 .. n /\ i = Len(old) + j
      <4> HIDE DEF old
      <4> QED BY <2>0, <2>2, <3>0
    <3> HIDE DEF j
    <3>2. v[last].recs[i] = q[j] /\ q[j] = walBuf[j]
      <4> HIDE DEF old
      <4>1. (old \o q)[Len(old) + j] = q[j]
        BY <1>5, <3>1
      <4>2. q[j] = walBuf[j]
        BY <1>3, <3>1
      <4> QED BY <1>8, <3>1, <4>1, <4>2, Zenon
    <3>3. j \in DOMAIN walBuf
      BY <1>3, <3>1
    <3>4. walBuf[j].no = was + j
      BY <1>2, <3>3
    <3> QED BY <3>1, <3>2, <3>4
  <2> QED BY <1>5, <2>0, <2>1, <2>2
<1>10. ASSUME NEW j \in 1 .. n
       PROVE  Len(old) + j \in DOMAIN v[last].recs
              /\ v[last].recs[Len(old) + j] = walBuf[j]
  <2> HIDE DEF old
  <2>1. Len(old) + j \in 1 .. Len(old) + n
    BY <1>3, <1>5
  <2>2. (old \o q)[Len(old) + j] = q[j] /\ q[j] = walBuf[j]
    BY <1>3, <1>5
  <2> QED BY <1>5, <1>8, <2>1, <2>2, Zenon
<1>11. ASSUME NEW i \in DOMAIN old PROVE i \in DOMAIN v[last].recs /\ v[last].recs[i] = old[i]
  BY <1>3, <1>5, <1>8
<1>12. Filed(v) = Filed(wal) \cup {walBuf[i] : i \in 1 .. n}
  <2>1. ASSUME NEW f \in DOMAIN v, NEW i \in DOMAIN v[f].recs
        PROVE  v[f].recs[i] \in Filed(wal) \cup {walBuf[j] : j \in 1 .. n}
    <3>1. CASE f # last
      BY <1>1, <1>6, <1>7, <3>1
    <3>2. CASE f = last
      BY <1>4, <1>6, <1>9, <3>2
    <3> QED BY <3>1, <3>2
  <2>2. ASSUME NEW f \in DOMAIN wal, NEW i \in DOMAIN wal[f].recs
        PROVE  wal[f].recs[i] \in Filed(v)
    <3>1. CASE f # last
      BY <1>1, <1>7, <3>1 DEF Filed
    <3>2. CASE f = last
      BY <1>1, <1>4, <1>11, <3>2 DEF Filed
    <3> QED BY <3>1, <3>2
  <2>3. ASSUME NEW j \in 1 .. n PROVE walBuf[j] \in Filed(v)
    BY <1>1, <1>4, <1>10 DEF Filed
  <2> QED BY <2>1, <2>2, <2>3 DEF Filed
<1>13. InSequence(v)
  <2>1. ASSUME NEW f \in DOMAIN v PROVE Ascending(v[f].recs)
    <3>1. CASE f # last
      BY <1>1, <1>7, <3>1 DEF InSequence
    <3>2. CASE f = last
      <4> DEFINE r == v[last].recs
      <4> SUFFICES ASSUME NEW i \in DOMAIN r, NEW j \in DOMAIN r, i < j
                   PROVE  r[i].no < r[j].no
        BY <3>2 DEF Ascending
      <4>1. \A x \in DOMAIN old : old[x].no <= was /\ old[x].no \in Nat
        <5>1. \A x \in DOMAIN old : old[x] \in Rec(k)
          BY <1>4
        <5> QED BY <1>4, <1>6, <5>1 DEF Rec, LogRecord
      <4>2. CASE j \in DOMAIN old /\ r[j] = old[j]
        <5>1. i \in DOMAIN old /\ r[i] = old[i]
          BY <1>5, <1>8, <4>2
        <5>2. Ascending(old)
          BY <1>4 DEF InSequence
        <5> QED BY <4>2, <5>1, <5>2 DEF Ascending
      <4>3. CASE \E y \in 1 .. n : j = Len(old) + y /\ r[j].no = was + y
        <5>1. PICK y \in 1 .. n : j = Len(old) + y /\ r[j].no = was + y
          BY <4>3
        <5>2. CASE i \in DOMAIN old /\ r[i] = old[i]
          BY <1>4, <4>1, <5>1, <5>2
        <5>3. CASE \E x \in 1 .. n : i = Len(old) + x /\ r[i].no = was + x
          BY <1>4, <1>5, <5>1, <5>3
        <5> QED BY <1>9, <5>2, <5>3
      <4> QED BY <1>9, <4>2, <4>3
    <3> QED BY <3>1, <3>2
  <2>2. ASSUME NEW f \in DOMAIN v, NEW g \in DOMAIN v, f < g,
               NEW i \in DOMAIN v[f].recs, NEW j \in DOMAIN v[g].recs
        PROVE  v[f].recs[i].no < v[g].recs[j].no
    <3>1. f # last
      <4>1. g <= last /\ f \in Nat /\ g \in Nat
        BY <1>1 DEF last, Shape
      <4> QED BY <1>4, <2>2, <4>1
    <3>2. f \in DOMAIN wal /\ v[f].recs = wal[f].recs /\ i \in DOMAIN wal[f].recs
      BY <1>1, <1>7, <3>1
    <3>3. CASE g # last
      BY <1>1, <1>7, <2>2, <3>2, <3>3 DEF InSequence
    <3>4. CASE g = last /\ j \in DOMAIN old /\ v[g].recs[j] = old[j]
      BY <1>4, <2>2, <3>2, <3>4 DEF InSequence
    <3>5. CASE g = last /\ \E y \in 1 .. n : v[g].recs[j].no = was + y
      <4>1. wal[f].recs[i].no <= was
        BY <1>6, <3>2
      <4>2. wal[f].recs[i].no \in Nat
        <5>1. wal[f].recs \in Seq(Rec(k))
          BY <3>2 DEF Shape, LogFile
        <5>2. wal[f].recs[i] \in Rec(k)
          BY <3>2, <5>1
        <5> QED BY <5>2 DEF Rec, LogRecord
      <4> QED BY <1>4, <3>2, <3>5, <4>1, <4>2
    <3> QED BY <1>9, <3>3, <3>4, <3>5
  <2> QED BY <2>1, <2>2 DEF InSequence
<1>14. Numbered(segs, v, buf, hist)
  <2> DEFINE m1 == Len(hist) - Len(buf)
  <2>1. m1 = was + n
    BY <1>3, <1>4 DEF was
  <2> HIDE DEF m1
  <2> DEFINE u == Upto(segs)
  <2>a. /\ was \in Nat /\ n \in Nat /\ u \in Nat /\ u <= was
    BY <1>2, <1>3, <1>4
  <2>b. m1 \in Nat /\ was <= m1
    BY <2>1, <2>a
  <2> HIDE DEF u
  <2>2. ASSUME NEW i \in DOMAIN buf PROVE buf[i].no = m1 + i
    <3>1. n + i \in DOMAIN walBuf /\ buf[i] = walBuf[n + i] /\ i \in Nat
      BY <1>3
    <3>2. buf[i].no = was + (n + i)
      BY <1>2, <3>1
    <3> QED BY <1>3, <1>4, <2>1, <3>1, <3>2
  <2>3. ASSUME NEW r \in Filed(v) PROVE r.no <= m1
    <3>1. CASE r \in Filed(wal)
      <4>1. PICK f \in DOMAIN wal : \E i \in DOMAIN wal[f].recs : r = wal[f].recs[i]
        BY <3>1 DEF Filed
      <4>2. wal[f].recs \in Seq(Rec(k))
        BY <4>1 DEF Shape, LogFile
      <4>3. r.no \in Nat
        BY <4>1, <4>2 DEF Rec, LogRecord
      <4>4. r.no <= was
        BY <1>2, <3>1
      <4>5. was \in Nat /\ n \in Nat
        BY <1>3, <1>4
      <4> QED BY <2>1, <2>b, <4>3, <4>4, <4>5
    <3>2. CASE \E i \in 1 .. n : r = walBuf[i]
      <4>1. PICK i \in 1 .. n : r = walBuf[i]
        BY <3>2
      <4>2. i \in DOMAIN walBuf
        BY <1>3
      <4>3. r.no = was + i
        BY <1>2, <4>1, <4>2
      <4> QED BY <2>1, <2>a, <4>3
    <3> QED BY <1>12, <3>1, <3>2
  <2>4. ASSUME NEW j \in u + 1 .. m1 PROVE \E r \in Filed(v) : r.no = j
    <3>1. CASE j <= was
      <4>1. j \in u + 1 .. was
        BY <2>a, <2>b, <3>1
      <4>2. PICK r \in Filed(wal) : r.no = j
        BY <1>2, <4>1 DEF u
      <4>3. r \in Filed(v)
        BY <1>12
      <4> QED BY <4>2, <4>3
    <3>2. CASE j > was
      <4>1. j - was \in 1 .. n /\ j - was \in DOMAIN walBuf /\ was + (j - was) = j
        BY <1>3, <2>1, <2>a, <2>b, <3>2
      <4> DEFINE i == j - was
      <4>2. i \in 1 .. n /\ i \in DOMAIN walBuf /\ was + i = j
        BY <4>1
      <4> HIDE DEF i
      <4>3. walBuf[i].no = was + i
        BY <1>2, <4>2
      <4>4. walBuf[i] \in Filed(v)
        BY <1>12, <4>2
      <4> QED BY <4>2, <4>3, <4>4
    <3> QED BY <2>a, <2>b, <3>1, <3>2
  <2>5. u \in 0 .. m1
    BY <2>a, <2>b
  <2> QED BY <1>2, <2>2, <2>3, <2>4, <2>5 DEF Numbered, m1, u
<1>15. InLog(v, buf) = InLog(wal, walBuf)
  <2>1. ASSUME NEW i \in DOMAIN buf PROVE \E j \in DOMAIN walBuf : buf[i] = walBuf[j]
    <3>1. n + i \in DOMAIN walBuf /\ buf[i] = walBuf[n + i]
      BY <1>3
    <3> QED BY <3>1
  <2>2. ASSUME NEW j \in DOMAIN walBuf
        PROVE  j \in 1 .. n \/ \E i \in DOMAIN buf : walBuf[j] = buf[i]
    <3>1. CASE j > n
      <4>1. j - n \in DOMAIN buf /\ n + (j - n) = j
        BY <1>3, <3>1
      <4> QED BY <1>3, <4>1
    <3> QED BY <1>3, <3>1
  <2>3. \A j \in 1 .. n : j \in DOMAIN walBuf
    BY <1>3
  <2>4. {buf[i] : i \in DOMAIN buf} \subseteq {walBuf[i] : i \in DOMAIN walBuf}
    BY <2>1
  <2>5. {walBuf[i] : i \in DOMAIN walBuf}
          \subseteq {walBuf[i] : i \in 1 .. n} \cup {buf[i] : i \in DOMAIN buf}
    BY <2>2
  <2>6. {walBuf[i] : i \in 1 .. n} \subseteq {walBuf[i] : i \in DOMAIN walBuf}
    BY <2>3
  <2> QED BY <1>12, <2>4, <2>5, <2>6, Zenon DEF InLog
<1>16. \A f \in DOMAIN wal : f # last => v[f].recs = wal[f].recs
  BY <1>1
<1> QED BY <1>1, <1>12, <1>13, <1>14, <1>15, <1>16 DEF v, buf, last

-----------------------------------------------------------------------------
(* The invariant. *)

\* The log holds the batches that the segments do not, in order.
LogHolds == InSequence(wal) /\ Numbered(segs, wal, walBuf, hist)

\* The segments hold what the batches before them answer.
SegmentsHold ==
    /\ Listed(segs)
    /\ Stored(segs) = Promise!Answer(SubSeq(hist, 1, Upto(segs)))
    /\ \A n \in DOMAIN hist : Entries(hist[n]) # <<>>

\* The ids in the log have a meaning, and a running Db goes on with it.
IdsMean ==
    \E idx : /\ Meant(InLog(wal, walBuf), Upto(segs), hist, idx)
             /\ pc = "idle" \/ by # "open" => idx = m.index

\* A running Db that has not failed shows the history.
MemoryShows == pc \notin {"down", "refused"} /\ ~failed => Shows(m, segs, hist)

\* Some record of recs after batch u gives label l an id.
Declares(recs, u, l) ==
    \E d \in recs : u < d.no /\ \E i \in DOMAIN d.series : d.series[i].labels = l

\* A series that will not be logged again is in a record that replay will use.
LoggedDefined ==
    /\ pc = "remove" => logged = {}
    /\ pc \in {"idle", "cut", "save"} /\ ~failed =>
         \A l \in logged : Declares(InLog(wal, walBuf), Upto(segs), l)

\* A file is not synced only if nothing is in those after it.
SyncedBefore(w) ==
    \A f, g \in DOMAIN w : f < g /\ w[f].synced < Len(w[f].recs) => w[g].recs = <<>>

\* Whether files are followed by others depends on where the holder of the lock is.
FilesFollow ==
    /\ pc \in {"save", "renamed", "remove"} => walBuf = <<>>
    /\ pc \in {"renamed", "remove"} => Upto(segs) = Len(hist)
    /\ pc \in {"down", "refused", "create"} => by = "open"
    /\ by = "open" /\ pc # "idle" => walBuf = <<>>
    /\ by = "open" /\ pc \notin {"idle", "down", "refused"} =>
         \A f \in DOMAIN wal : f > doomed => wal[f].recs = <<>>
    /\ pc = "create" => \A f \in DOMAIN wal : f <= doomed
    /\ SyncedBefore(wal)
    /\ \A f, g \in DOMAIN wal : f < g /\ wal[f].synced < Len(wal[f].recs) =>
         by = "open" /\ pc # "idle"

\* What SafeInv adds to: with it, what is seen is the history.
ViewInv ==
    /\ LogHolds /\ SegmentsHold /\ IdsMean /\ MemoryShows /\ LoggedDefined
    /\ FilesFollow

LEMMA FiledNone ==
    ASSUME NEW w, \A f \in DOMAIN w : w[f].recs = <<>>
    PROVE  Filed(w) = {} /\ InLog(w, <<>>) = {} /\ InSequence(w)
BY DEF Filed, InLog, InSequence, Ascending

\* Nothing has been written.
LEMMA InitView == Init => ViewInv
<1> SUFFICES ASSUME Init PROVE ViewInv
  OBVIOUS
<1>1. /\ segs = <<>> /\ wal = <<>> /\ walBuf = <<>> /\ hist = <<>> /\ logged = {}
      /\ pc = "down" /\ by = "open" /\ DOMAIN wal = {} /\ DOMAIN segs = {}
      /\ DOMAIN walBuf = {} /\ DOMAIN hist = {} /\ Len(hist) = 0 /\ Len(walBuf) = 0
  BY DEF Init
<1>2. Filed(wal) = {} /\ InLog(wal, walBuf) = {} /\ InSequence(wal)
  BY <1>1, FiledNone
<1>3. Upto(segs) = 0
  BY <1>1 DEF Upto
<1>4. LogHolds
  BY <1>1, <1>2, <1>3 DEF LogHolds, Numbered
<1>5. SegmentsHold
  <2>1. SubSeq(hist, 1, 0) = <<>>
    BY <1>1
  <2>2. Stored(segs) = Promise!Answer(<<>>)
    BY <1>1, StoredNone, AnswerNone, Zenon
  <2>3. Listed(segs)
    BY <1>1 DEF Listed
  <2> QED BY <1>1, <1>3, <2>1, <2>2, <2>3 DEF SegmentsHold
<1>6. IdsMean
  <2>1. Meant(InLog(wal, walBuf), Upto(segs), hist, <<>>)
    BY <1>2 DEF Meant
  <2> QED BY <1>1, <2>1 DEF IdsMean
<1>7. MemoryShows /\ LoggedDefined
  BY <1>1 DEF MemoryShows, LoggedDefined
<1>8. FilesFollow
  BY <1>1 DEF FilesFollow, SyncedBefore
<1> QED BY <1>4, <1>5, <1>6, <1>7, <1>8 DEF ViewInv

\* A step of the log: records move, and none is gained or lost.
LEMMA LogStepView ==
    ASSUME ViewInv, UNCHANGED <<segs, m, logged, failed, pc, by, hist>>,
           InSequence(wal'), Numbered(segs, wal', walBuf', hist),
           InLog(wal', walBuf') = InLog(wal, walBuf), FilesFollow'
    PROVE  ViewInv'
<1>1. LogHolds'
  BY DEF LogHolds
<1>2. SegmentsHold'
  BY DEF ViewInv, SegmentsHold
<1>3. IdsMean'
  BY DEF ViewInv, IdsMean
<1>4. MemoryShows' /\ LoggedDefined'
  BY DEF ViewInv, MemoryShows, LoggedDefined
<1> QED BY <1>1, <1>2, <1>3, <1>4 DEF ViewInv

\* What a file other than the last is in after records are written, ...
LEMMA DrainedElse ==
    ASSUME NEW k, Shape(wal, k), NEW n
    PROVE  \A f \in DOMAIN wal : f # LastFile => Drained(n)[f] = wal[f]
<1> DEFINE new == [wal[LastFile] EXCEPT !.recs = wal[LastFile].recs \o SubSeq(walBuf, 1, n)]
<1> DEFINE last == LastFile
<1>1. Drained(n) = [wal EXCEPT ![last] = new]
  BY DEF Drained
<1> HIDE DEF new, last
<1> QED BY <1>1 DEF Shape, last

\* ... and after the last is synced.
LEMMA SyncedIs ==
    ASSUME NEW k, NEW w, Shape(w, k), LastFile \in DOMAIN w
    PROVE  LET v == Synced(w) IN
           /\ DOMAIN v = DOMAIN w /\ \A f \in DOMAIN w : f # LastFile => v[f] = w[f]
           /\ v[LastFile].recs = w[LastFile].recs
           /\ v[LastFile].synced = Len(v[LastFile].recs)
<1> DEFINE last == LastFile
<1> DEFINE old == w[last]
<1> DEFINE new == [old EXCEPT !.synced = Len(old.recs)]
<1>1. Synced(w) = [w EXCEPT ![last] = new]
  BY DEF Synced
<1>2. old \in LogFile(k)
  BY DEF Shape
<1> HIDE DEF old
<1>3. new.recs = old.recs /\ new.synced = Len(old.recs)
  BY <1>2 DEF LogFile
<1> HIDE DEF new, last
<1>4. w = [f \in DOMAIN w |-> w[f]]
  BY DEF Shape
<1> QED BY <1>1, <1>3, <1>4 DEF last, old

\* Then comes a new file.
LEMMA NextFileIs ==
    ASSUME NEW k, NEW w, Shape(w, k), LastFile \in DOMAIN w, LastFile \in Nat,
           \A g \in DOMAIN w : g <= LastFile
    PROVE  LET v == WithFile(Synced(w), LastFile + 1) IN
           /\ DOMAIN v = DOMAIN w \cup {LastFile + 1}
           /\ \A f \in DOMAIN w : f # LastFile => v[f] = w[f]
           /\ v[LastFile].recs = w[LastFile].recs
           /\ v[LastFile].synced = Len(v[LastFile].recs)
           /\ v[LastFile + 1].recs = <<>>
<1> DEFINE s == Synced(w)
<1> DEFINE v == WithFile(s, LastFile + 1)
<1>1. /\ DOMAIN s = DOMAIN w /\ \A f \in DOMAIN w : f # LastFile => s[f] = w[f]
      /\ s[LastFile].recs = w[LastFile].recs
      /\ s[LastFile].synced = Len(s[LastFile].recs)
  BY SyncedIs
<1> HIDE DEF s
<1>2. DOMAIN v = DOMAIN w \cup {LastFile + 1}
  BY <1>1 DEF WithFile
<1>3. \A f \in DOMAIN w : f # LastFile + 1
  <2> SUFFICES ASSUME NEW f \in DOMAIN w PROVE f # LastFile + 1
    OBVIOUS
  <2>1. f \in Nat /\ f <= LastFile
    BY DEF Shape
  <2> QED BY <2>1
<1>4. \A f \in DOMAIN w : v[f] = s[f]
  BY <1>1, <1>3 DEF WithFile
<1>5. v[LastFile + 1].recs = <<>>
  BY DEF WithFile, EmptyFile
<1> QED BY <1>1, <1>2, <1>4, <1>5 DEF s

\* Files as the log's own threads leave them.
LEMMA WriteFollows ==
    ASSUME NEW k, Shape(wal, k), LastFile \in DOMAIN wal,
           \A g \in DOMAIN wal : g <= LastFile, NEW n,
           \A f, g \in DOMAIN wal : f < g => ~(wal[f].synced < Len(wal[f].recs))
    PROVE  \A f, g \in DOMAIN Drained(n) :
              f < g => ~(Drained(n)[f].synced < Len(Drained(n)[f].recs))
<1> DEFINE v == Drained(n)
<1>1. DOMAIN v = DOMAIN wal
  BY DrainedIs
<1>2. \A f \in DOMAIN wal : f # LastFile => v[f] = wal[f]
  BY DrainedElse
<1> HIDE DEF v
<1>3. ASSUME NEW f \in DOMAIN v, NEW g \in DOMAIN v, f < g
      PROVE  f # LastFile
  <2>1. f \in Nat /\ g \in Nat /\ LastFile \in Nat
    BY <1>1 DEF Shape
  <2> QED BY <1>1, <1>3, <2>1
<1> QED BY <1>1, <1>2, <1>3 DEF v

LEMMA LogWriteView == SafeInv /\ ViewInv /\ LogWrite => ViewInv'
<1> SUFFICES ASSUME SafeInv, ViewInv, LogWrite PROVE ViewInv'
  OBVIOUS
<1>1. Up /\ UNCHANGED <<segs, m, logged, failed, pc, by, doomed, hist>>
  BY DEF LogWrite, ghosts
<1>2. PICK n \in 1 .. Len(walBuf) :
        wal' = Drained(n) /\ walBuf' = SubSeq(walBuf, n + 1, Len(walBuf))
  BY DEF LogWrite
<1>3. /\ Len(hist) \in Nat /\ walBuf \in Seq(Rec(Len(hist))) /\ Len(walBuf) \in Nat
      /\ Shape(wal, Len(hist))
  BY KeepTypes
<1>4. n \in 0 .. Len(walBuf) /\ walBuf # <<>>
  BY <1>3
<1>5. /\ LastFile \in DOMAIN wal /\ \A g \in DOMAIN wal : g <= LastFile
  BY <1>1, UpLast DEF SafeInv
<1>6. InSequence(wal) /\ Numbered(segs, wal, walBuf, hist)
  BY DEF ViewInv, LogHolds
<1>7. /\ InSequence(wal') /\ Numbered(segs, wal', walBuf', hist)
      /\ InLog(wal', walBuf') = InLog(wal, walBuf)
  BY <1>2, <1>3, <1>4, <1>5, <1>6, DrainedFiled
<1>8. FilesFollow'
  <2>1. FilesFollow
    BY DEF ViewInv
  <2>2. /\ pc \notin {"save", "renamed", "remove", "down", "refused", "create"}
        /\ by # "open" \/ pc = "idle"
    BY <1>1, <1>4, <2>1 DEF FilesFollow, Up
  <2>3. \A f, g \in DOMAIN wal : f < g => ~(wal[f].synced < Len(wal[f].recs))
    BY <2>1, <2>2 DEF FilesFollow
  <2>4. \A f, g \in DOMAIN wal' : f < g => ~(wal'[f].synced < Len(wal'[f].recs))
    BY <1>2, <1>3, <1>5, <2>3, WriteFollows
  <2> QED BY <1>1, <2>2, <2>4 DEF FilesFollow, SyncedBefore
<1> QED BY <1>1, <1>7, <1>8, LogStepView

LEMMA SameInLog ==
    ASSUME NEW v, NEW w, NEW buf, NEW sg, NEW past, SameRecs(v, w)
    PROVE  /\ InLog(v, buf) = InLog(w, buf) /\ (InSequence(w) => InSequence(v))
           /\ Numbered(sg, w, buf, past) => Numbered(sg, v, buf, past)
BY SameFiled DEF InLog, Numbered

LEMMA LogSyncView == SafeInv /\ ViewInv /\ LogSync => ViewInv'
<1> SUFFICES ASSUME SafeInv, ViewInv, LogSync PROVE ViewInv'
  OBVIOUS
<1>1. /\ Up /\ UNCHANGED <<segs, m, logged, failed, pc, by, doomed, hist, walBuf>>
      /\ wal' = Synced(wal)
  BY DEF LogSync, ghosts
<1>3. Shape(wal, Len(hist))
  BY KeepTypes
<1>5. /\ LastFile \in DOMAIN wal /\ \A g \in DOMAIN wal : g <= LastFile
  BY <1>1, UpLast DEF SafeInv
<1>6. InSequence(wal) /\ Numbered(segs, wal, walBuf, hist)
  BY DEF ViewInv, LogHolds
<1>7. /\ InSequence(wal') /\ Numbered(segs, wal', walBuf', hist)
      /\ InLog(wal', walBuf') = InLog(wal, walBuf)
  BY <1>1, <1>3, <1>5, <1>6, SyncedSame, SameInLog
<1>8. FilesFollow'
  <2>1. FilesFollow
    BY DEF ViewInv
  <2>2. /\ DOMAIN wal' = DOMAIN wal
        /\ \A f \in DOMAIN wal : f # LastFile => wal'[f] = wal[f]
        /\ wal'[LastFile].recs = wal[LastFile].recs
    BY <1>1, <1>3, <1>5, SyncedIs
  <2>3. \A f \in DOMAIN wal : wal'[f].recs = wal[f].recs
    BY <2>2
  <2>4. ASSUME NEW f \in DOMAIN wal', NEW g \in DOMAIN wal', f < g
        PROVE  wal'[f] = wal[f]
    <3>1. f \in Nat /\ g \in Nat /\ LastFile \in Nat /\ g <= LastFile
      BY <1>3, <1>5, <2>2 DEF Shape
    <3> QED BY <2>2, <2>4, <3>1
  <2>5. /\ SyncedBefore(wal')
        /\ \A f, g \in DOMAIN wal' : f < g /\ wal'[f].synced < Len(wal'[f].recs) =>
             by = "open" /\ pc # "idle"
    BY <2>1, <2>2, <2>3, <2>4 DEF FilesFollow, SyncedBefore
  <2> QED BY <1>1, <2>1, <2>2, <2>3, <2>5 DEF FilesFollow, Up
<1> QED BY <1>1, <1>7, <1>8, LogStepView

LEMMA LogRotateView == SafeInv /\ ViewInv /\ LogRotate => ViewInv'
<1> SUFFICES ASSUME SafeInv, ViewInv, LogRotate PROVE ViewInv'
  OBVIOUS
<1>1. /\ Up /\ UNCHANGED <<segs, m, logged, failed, pc, by, doomed, hist, walBuf>>
      /\ wal' = WithFile(Synced(wal), LastFile + 1) /\ walBuf # <<>>
  BY DEF LogRotate, ghosts
<1>3. Shape(wal, Len(hist))
  BY KeepTypes
<1>5. /\ LastFile \in DOMAIN wal /\ LastFile \in Nat
      /\ \A g \in DOMAIN wal : g <= LastFile
  BY <1>1, UpLast DEF SafeInv
<1>6. InSequence(wal) /\ Numbered(segs, wal, walBuf, hist)
  BY DEF ViewInv, LogHolds
<1>7. /\ InSequence(wal') /\ Numbered(segs, wal', walBuf', hist)
      /\ InLog(wal', walBuf') = InLog(wal, walBuf)
  <2>1. SameRecs(wal', wal)
    BY <1>1, <1>3, NextFileSame
  <2> QED BY <1>1, <1>6, <2>1, SameInLog
<1>8. FilesFollow'
  <2>1. FilesFollow
    BY DEF ViewInv
  <2>2. /\ pc \notin {"save", "renamed", "remove", "down", "refused", "create"}
        /\ by # "open" \/ pc = "idle"
    BY <1>1, <2>1 DEF FilesFollow, Up
  <2>3. \A f, g \in DOMAIN wal : f < g => ~(wal[f].synced < Len(wal[f].recs))
    BY <2>1, <2>2 DEF FilesFollow
  <2>4. /\ DOMAIN wal' = DOMAIN wal \cup {LastFile + 1}
        /\ \A f \in DOMAIN wal : f # LastFile => wal'[f] = wal[f]
        /\ wal'[LastFile].synced = Len(wal'[LastFile].recs)
    BY <1>1, <1>3, <1>5, NextFileIs, ZenonT(40)
  <2>5. ASSUME NEW f \in DOMAIN wal', NEW g \in DOMAIN wal', f < g,
               wal'[f].synced < Len(wal'[f].recs)
        PROVE  FALSE
    <3>1. \A h \in DOMAIN wal' : h \in Nat /\ h <= LastFile + 1
      BY <1>3, <1>5, <2>4 DEF Shape
    <3>2. f <= LastFile /\ f # LastFile + 1
      BY <1>5, <2>5, <3>1
    <3>3. f # LastFile
      <4>1. ASSUME f = LastFile PROVE FALSE
        <5>1. wal'[f].synced = Len(wal'[f].recs)
          BY <2>4, <4>1
        <5>2. wal[f].recs \in Seq(Rec(Len(hist))) /\ f \in DOMAIN wal
          BY <1>3, <1>5, <4>1 DEF Shape, LogFile
        <5>3. wal'[f].recs = wal[f].recs
          BY <1>1, <1>3, <1>5, <4>1, NextFileIs
        <5>4. Len(wal'[f].recs) \in Nat
          BY <5>2, <5>3
        <5> QED BY <2>5, <5>1, <5>4
      <4> QED BY <4>1
    <3>4. f \in DOMAIN wal /\ wal'[f] = wal[f]
      BY <2>4, <3>2, <3>3
    <3>5. f < LastFile
      BY <1>5, <3>1, <3>2, <3>3
    <3> QED BY <1>5, <2>3, <2>5, <3>4, <3>5
  <2> QED BY <1>1, <2>2, <2>5 DEF FilesFollow, SyncedBefore
<1> QED BY <1>1, <1>7, <1>8, LogStepView

\* No id is needed of records that the segments hold.
LEMMA MeantAll ==
    ASSUME NEW recs, NEW some, some \subseteq recs, NEW u, NEW idx, NEW v, NEW h \in Seq(Batches),
           v = Len(h), Meant(recs, u, h, idx)
    PROVE  Meant(some, v, h, idx)
<1>1. \A r \in some : Means(r, h, idx) /\ idx \in Seq(Labels)
  BY DEF Meant
<1>2. \A r \in some : ~(r.no > v)
  BY <1>1 DEF Means
<1> QED BY <1>1, <1>2 DEF Meant

LEMMA CutView == SafeInv /\ ViewInv /\ Cut => ViewInv'
<1> SUFFICES ASSUME SafeInv, ViewInv, Cut PROVE ViewInv'
  OBVIOUS
<1> DEFINE n == Len(walBuf)
<1> DEFINE w == Drained(n)
<1>1. /\ Up /\ pc = "cut" /\ pc' = "save" /\ walBuf' = <<>>
      /\ UNCHANGED <<segs, m, logged, failed, by, hist>>
      /\ wal' = WithFile(Synced(w), LastFile + 1) /\ doomed' = LastFile
  BY DEF Cut, ghosts, Up
<1>2. /\ Len(hist) \in Nat /\ walBuf \in Seq(Rec(Len(hist))) /\ n \in Nat
      /\ Shape(wal, Len(hist)) /\ n \in 0 .. n
  BY KeepTypes
<1>3. /\ LastFile \in DOMAIN wal /\ LastFile \in Nat
      /\ \A g \in DOMAIN wal : g <= LastFile
  BY <1>1, UpLast DEF SafeInv
<1>4. InSequence(wal) /\ Numbered(segs, wal, walBuf, hist) /\ FilesFollow
  BY DEF ViewInv, LogHolds
<1>5. SubSeq(walBuf, n + 1, n) = <<>> /\ SubSeq(walBuf, 1, n) = walBuf
  BY <1>2
<1>6. /\ InSequence(w) /\ Numbered(segs, w, <<>>, hist)
      /\ InLog(w, <<>>) = InLog(wal, walBuf)
  <2> DEFINE buf == SubSeq(walBuf, n + 1, Len(walBuf))
  <2>1. n \in 0 .. Len(walBuf)
    BY <1>2
  <2> HIDE DEF n
  <2>2. InSequence(Drained(n)) /\ Numbered(segs, Drained(n), buf, hist)
    BY <1>2, <1>3, <1>4, <2>1, DrainedFiled
  <2>3. InLog(Drained(n), buf) = InLog(wal, walBuf)
    BY <1>2, <1>3, <1>4, <2>1, DrainedFiled
  <2>4. buf = <<>>
    BY <1>5 DEF n
  <2> QED BY <2>2, <2>3, <2>4
<1>7. /\ Shape(w, Len(hist)) /\ DOMAIN w = DOMAIN wal
      /\ \A f \in DOMAIN wal : f # LastFile => w[f] = wal[f]
  BY <1>2, <1>3, DrainedShape, DrainedElse
<1>8. w[LastFile].recs = wal[LastFile].recs \o walBuf
  BY <1>2, <1>3, <1>5, DrainedIs
<1> HIDE DEF w, n
<1>9. /\ InSequence(wal') /\ Numbered(segs, wal', <<>>, hist)
      /\ InLog(wal', <<>>) = InLog(wal, walBuf)
  <2>1. SameRecs(wal', w)
    BY <1>1, <1>7, NextFileSame
  <2> QED BY <1>6, <2>1, SameInLog
<1>10. LogHolds' /\ SegmentsHold' /\ IdsMean' /\ MemoryShows' /\ LoggedDefined'
  <2>1. LogHolds'
    BY <1>1, <1>9 DEF LogHolds
  <2>2. SegmentsHold'
    BY <1>1 DEF ViewInv, SegmentsHold
  <2>3. IdsMean'
    BY <1>1, <1>9 DEF ViewInv, IdsMean
  <2>4. MemoryShows'
    BY <1>1 DEF ViewInv, MemoryShows
  <2>5. LoggedDefined'
    BY <1>1, <1>9 DEF ViewInv, LoggedDefined
  <2> QED BY <2>1, <2>2, <2>3, <2>4, <2>5
<1>11. /\ DOMAIN wal' = DOMAIN wal \cup {LastFile + 1}
       /\ \A f \in DOMAIN wal : f # LastFile => wal'[f] = wal[f]
       /\ wal'[LastFile].recs = w[LastFile].recs
       /\ wal'[LastFile].synced = Len(wal'[LastFile].recs)
       /\ wal'[LastFile + 1].recs = <<>>
  <2>1. LastFile \in DOMAIN w /\ \A g \in DOMAIN w : g <= LastFile
    BY <1>3, <1>7
  <2>2. /\ DOMAIN wal' = DOMAIN w \cup {LastFile + 1}
        /\ \A f \in DOMAIN w : f # LastFile => wal'[f] = w[f]
        /\ wal'[LastFile].recs = w[LastFile].recs
        /\ wal'[LastFile].synced = Len(wal'[LastFile].recs)
        /\ wal'[LastFile + 1].recs = <<>>
    <3> DEFINE v == WithFile(Synced(w), LastFile + 1)
    <3>1. /\ DOMAIN v = DOMAIN w \cup {LastFile + 1}
          /\ \A f \in DOMAIN w : f # LastFile => v[f] = w[f]
          /\ v[LastFile].recs = w[LastFile].recs
          /\ v[LastFile].synced = Len(v[LastFile].recs)
          /\ v[LastFile + 1].recs = <<>>
      <4>1. LastFile \in Nat /\ Shape(w, Len(hist))
        BY <1>3, <1>7
      <4> QED BY <2>1, <4>1, NextFileIs, Zenon
    <3>2. wal' = v
      BY <1>1
    <3> HIDE DEF v
    <3> QED BY <3>1, <3>2
  <2> QED BY <1>7, <2>2
<1>12. \A g \in DOMAIN wal' : g \in Nat /\ g <= LastFile + 1
  BY <1>2, <1>3, <1>11 DEF Shape
<1>13. \A g \in DOMAIN wal' : g > LastFile => g = LastFile + 1
  BY <1>3, <1>12
<1>14. ASSUME NEW f \in DOMAIN wal', NEW g \in DOMAIN wal', f < g,
              wal'[f].synced < Len(wal'[f].recs)
       PROVE  wal'[g].recs = <<>> /\ by = "open"
  <2>1. f # LastFile
    <3>1. ASSUME f = LastFile PROVE FALSE
      <4>1. Len(wal'[f].recs) \in Nat
        <5>1. w[f].recs \in Seq(Rec(Len(hist)))
          BY <1>3, <1>7, <3>1 DEF Shape, LogFile
        <5> QED BY <1>11, <3>1, <5>1
      <4> QED BY <1>11, <1>14, <3>1, <4>1
    <3> QED BY <3>1
  <2>2. f < LastFile /\ f \in DOMAIN wal
    BY <1>3, <1>11, <1>12, <1>14, <2>1
  <2>3. wal[f].synced < Len(wal[f].recs)
    BY <1>11, <1>14, <2>1, <2>2
  <2>4. by = "open" /\ wal[LastFile].recs = <<>> /\ walBuf = <<>>
    BY <1>1, <1>3, <1>4, <2>2, <2>3 DEF FilesFollow, SyncedBefore
  <2>5. w[LastFile].recs = <<>>
    BY <1>8, <2>4
  <2>6. CASE g = LastFile \/ g = LastFile + 1
    BY <1>11, <2>4, <2>5, <2>6
  <2>7. CASE g # LastFile /\ g # LastFile + 1
    <3>1. g \in DOMAIN wal /\ wal'[g] = wal[g]
      BY <1>11, <2>7
    <3> QED BY <1>4, <1>14, <2>2, <2>3, <2>4, <3>1 DEF FilesFollow, SyncedBefore
  <2> QED BY <2>6, <2>7
<1>15. FilesFollow'
  BY <1>1, <1>11, <1>13, <1>14 DEF FilesFollow, SyncedBefore
<1> QED BY <1>10, <1>15 DEF ViewInv

LEMMA RemoveFileView == SafeInv /\ ViewInv /\ RemoveFile => ViewInv'
<1> SUFFICES ASSUME SafeInv, ViewInv, RemoveFile PROVE ViewInv'
  OBVIOUS
<1>1. /\ pc = "remove"
      /\ UNCHANGED <<segs, m, logged, failed, pc, by, doomed, hist, walBuf>>
  BY DEF RemoveFile, ghosts
<1>2. DOMAIN wal' \subseteq DOMAIN wal /\ \A f \in DOMAIN wal' : wal'[f] = wal[f]
  BY DEF RemoveFile, FileIds
<1>3. FilesFollow /\ walBuf = <<>> /\ Upto(segs) = Len(hist)
  BY <1>1 DEF ViewInv, FilesFollow
<1>4. Len(hist) \in Nat /\ hist \in Seq(Batches)
  BY KeepTypes
<1>5. Filed(wal') \subseteq Filed(wal) /\ InLog(wal', walBuf) \subseteq InLog(wal, walBuf)
  BY <1>2 DEF Filed, InLog
<1>6. LogHolds'
  <2>1. InSequence(wal) /\ Numbered(segs, wal, <<>>, hist)
    BY <1>3 DEF ViewInv, LogHolds
  <2>2. InSequence(wal')
    BY <1>2, <2>1 DEF InSequence
  <2>3. Len(hist) - Len(<<>>) = Len(hist) /\ Upto(segs) + 1 .. Len(hist) = {}
    BY <1>3, <1>4
  <2>4. Numbered(segs, wal', <<>>, hist)
    BY <1>5, <2>1, <2>3 DEF Numbered
  <2> QED BY <1>1, <1>3, <2>2, <2>4 DEF LogHolds
<1>7. SegmentsHold' /\ MemoryShows'
  BY <1>1 DEF ViewInv, SegmentsHold, MemoryShows
<1>8. IdsMean'
  <2>1. PICK idx : /\ Meant(InLog(wal, walBuf), Upto(segs), hist, idx)
                   /\ pc = "idle" \/ by # "open" => idx = m.index
    BY DEF ViewInv, IdsMean
  <2>2. Meant(InLog(wal', walBuf), Upto(segs), hist, idx)
    BY <1>3, <1>4, <1>5, <2>1, MeantAll
  <2> QED BY <1>1, <2>1, <2>2 DEF IdsMean
<1>9. LoggedDefined'
  BY <1>1 DEF ViewInv, LoggedDefined
<1>10. FilesFollow'
  BY <1>1, <1>2, <1>3 DEF FilesFollow, SyncedBefore
<1> QED BY <1>6, <1>7, <1>8, <1>9, <1>10 DEF ViewInv

\* Steps that leave the log, the segments and the history alone.
LEMMA SameLogView ==
    ASSUME ViewInv, UNCHANGED <<segs, wal, walBuf, hist>>,
           IdsMean', MemoryShows', LoggedDefined', FilesFollow'
    PROVE  ViewInv'
BY DEF ViewInv, LogHolds, SegmentsHold

LEMMA FlushView == SafeInv /\ ViewInv /\ Flush => ViewInv'
<1> SUFFICES ASSUME SafeInv, ViewInv, Flush PROVE ViewInv'
  OBVIOUS
<1>1. /\ pc = "idle" /\ pc' = "cut" /\ by' = "flush"
      /\ UNCHANGED <<segs, m, logged, failed, doomed, hist, wal, walBuf>>
  BY DEF Flush, ghosts, disk
<1>2. IdsMean'
  BY <1>1 DEF ViewInv, IdsMean
<1>3. MemoryShows' /\ LoggedDefined'
  BY <1>1 DEF ViewInv, MemoryShows, LoggedDefined
<1>4. FilesFollow'
  BY <1>1 DEF ViewInv, FilesFollow, SyncedBefore
<1> QED BY <1>1, <1>2, <1>3, <1>4, SameLogView

LEMMA RefuseView == SafeInv /\ ViewInv /\ Refuse => ViewInv'
<1> SUFFICES ASSUME SafeInv, ViewInv, Refuse PROVE ViewInv'
  OBVIOUS
<1>1. /\ pc = "down" /\ pc' = "refused"
      /\ UNCHANGED <<segs, m, logged, failed, by, doomed, hist, wal, walBuf>>
  BY DEF Refuse, ghosts, disk
<1>2. IdsMean'
  BY <1>1 DEF ViewInv, IdsMean
<1>3. MemoryShows' /\ LoggedDefined'
  BY <1>1 DEF ViewInv, MemoryShows, LoggedDefined
<1>4. FilesFollow'
  BY <1>1 DEF ViewInv, FilesFollow, SyncedBefore
<1> QED BY <1>1, <1>2, <1>3, <1>4, SameLogView

LEMMA StutterView == SafeInv /\ ViewInv /\ UNCHANGED vars => ViewInv'
<1> SUFFICES ASSUME SafeInv, ViewInv, UNCHANGED vars PROVE ViewInv'
  OBVIOUS
<1>1. UNCHANGED <<segs, m, logged, failed, by, doomed, hist, wal, walBuf, pc>>
  BY DEF vars
<1>2. IdsMean'
  BY <1>1 DEF ViewInv, IdsMean
<1>3. MemoryShows' /\ LoggedDefined'
  BY <1>1 DEF ViewInv, MemoryShows, LoggedDefined
<1>4. FilesFollow'
  BY <1>1 DEF ViewInv, FilesFollow, SyncedBefore
<1> QED BY <1>1, <1>2, <1>3, <1>4, SameLogView

\* An opening Db gives up.
LEMMA OpenFailsView ==
    ASSUME SafeInv, ViewInv, by = "open", pc \notin {"idle", "down", "refused"}, OpenFails,
           UNCHANGED <<disk, hist, acked>>
    PROVE  ViewInv'
<1>1. /\ walBuf' = <<>> /\ logged' = {} /\ pc' = "down" /\ by' = "open"
      /\ UNCHANGED <<segs, wal, hist>>
  BY DEF OpenFails, Stopped, disk
<1>2. walBuf = <<>>
  BY DEF ViewInv, FilesFollow
<1>3. IdsMean'
  BY <1>1, <1>2 DEF ViewInv, IdsMean
<1>4. MemoryShows' /\ LoggedDefined'
  BY <1>1 DEF MemoryShows, LoggedDefined
<1>5. FilesFollow'
  BY <1>1 DEF ViewInv, FilesFollow, SyncedBefore
<1> QED BY <1>1, <1>2, <1>3, <1>4, <1>5, SameLogView

LEMMA SaveFailsView == SafeInv /\ ViewInv /\ SaveFails => ViewInv'
<1> SUFFICES ASSUME SafeInv, ViewInv, SaveFails PROVE ViewInv'
  OBVIOUS
<1>1. pc \in {"save", "renamed"} /\ UNCHANGED <<disk, hist, acked>>
  BY DEF SaveFails
<1>2. CASE by = "open"
  BY <1>1, <1>2, OpenFailsView DEF SaveFails
<1>3. CASE by # "open"
  <2>1. /\ failed' = TRUE /\ m' = Emptied /\ pc' = "idle"
        /\ UNCHANGED <<segs, wal, hist, walBuf, logged, by, doomed>>
    BY <1>3 DEF SaveFails, disk
  <2>2. Emptied.index = m.index
    BY EmptiedIs DEF SafeInv, Types, Buffered
  <2>3. IdsMean'
    BY <1>3, <2>1, <2>2 DEF ViewInv, IdsMean
  <2>4. MemoryShows' /\ LoggedDefined'
    BY <2>1 DEF MemoryShows, LoggedDefined
  <2>5. FilesFollow'
    BY <1>3, <2>1 DEF ViewInv, FilesFollow, SyncedBefore
  <2> QED BY <2>1, <2>3, <2>4, <2>5, SameLogView
<1> QED BY <1>2, <1>3

\* The flush is over.
LEMMA OverView ==
    ASSUME SafeInv, ViewInv, pc = "remove", pc' = "idle", doomed' = 0,
           UNCHANGED <<segs, wal, walBuf, m, logged, failed, by, hist>>,
           by = "open" => \A f \in DOMAIN wal : f > doomed
    PROVE  ViewInv'
<1>1. FilesFollow /\ walBuf = <<>> /\ logged = {}
  BY DEF ViewInv, FilesFollow, LoggedDefined
<1>2. m.index \in Seq(Labels) /\ Shape(wal, Len(hist))
  BY MemoryHas, KeepTypes DEF SafeInv, Types
<1>3. by = "open" => \A f \in DOMAIN wal : wal[f].recs = <<>>
  BY <1>1 DEF FilesFollow
<1>4. IdsMean'
  <2>1. CASE by = "open"
    <3>1. InLog(wal, walBuf) = {}
      BY <1>1, <1>3, <2>1, FiledNone
    <3>2. Meant(InLog(wal, walBuf), Upto(segs), hist, m.index)
      BY <1>2, <3>1 DEF Meant
    <3> QED BY <3>2 DEF IdsMean
  <2>2. CASE by # "open"
    BY <2>2 DEF ViewInv, IdsMean
  <2> QED BY <2>1, <2>2
<1>5. MemoryShows' /\ LoggedDefined'
  BY <1>1 DEF ViewInv, MemoryShows, LoggedDefined
<1>6. FilesFollow'
  <2>1. ASSUME by = "open", NEW f \in DOMAIN wal, wal[f].synced < Len(wal[f].recs)
        PROVE  FALSE
    <3>1. Len(wal[f].recs) = 0 /\ wal[f].synced \in Nat
      BY <1>2, <1>3, <2>1 DEF Shape, LogFile
    <3> QED BY <2>1, <3>1
  <2> QED BY <1>1, <2>1 DEF FilesFollow, SyncedBefore
<1> QED BY <1>4, <1>5, <1>6, SameLogView

LEMMA RemoveDoneView == SafeInv /\ ViewInv /\ RemoveDone => ViewInv'
BY OverView DEF RemoveDone, disk, ghosts, FileIds

LEMMA RemoveFailsView == SafeInv /\ ViewInv /\ RemoveFails => ViewInv'
<1> SUFFICES ASSUME SafeInv, ViewInv, RemoveFails PROVE ViewInv'
  OBVIOUS
<1>1. pc = "remove" /\ UNCHANGED <<disk, hist, acked>>
  BY DEF RemoveFails
<1>2. CASE by = "open"
  BY <1>1, <1>2, OpenFailsView DEF RemoveFails
<1>3. CASE by # "open"
  BY <1>1, <1>3, OverView DEF RemoveFails, disk
<1> QED BY <1>2, <1>3

\* A sum of nothing.
LEMMA TotalZero ==
    ASSUME NEW samples \in [Labels -> Seq(Sample)], NEW q \in Seq(Labels),
           Total(samples, q) = 0
    PROVE  \A i \in DOMAIN q : samples[q[i]] = <<>>
<1> DEFINE n == Len(q)
<1>1. n \in Nat /\ DOMAIN q = 1 .. n /\ \A i \in 1 .. n : q[i] \in Labels
  OBVIOUS
<1>2. PICK r \in [0 .. n -> Nat] :
               /\ r[0] = 0 /\ r[n] = 0
               /\ \A i \in 1 .. n : r[i] = r[i - 1] + Len(samples[q[i]])
  BY SumRun
<1>3. \A i \in 1 .. n : samples[q[i]] \in Seq(Sample) /\ Len(samples[q[i]]) \in Nat
  BY <1>1
<1> DEFINE G == {j \in 0 .. n : r[n - j] = 0}
<1> HIDE DEF n
<1>4. 0 \in G
  BY <1>1, <1>2
<1>5. ASSUME NEW j \in 1 .. n, j - 1 \in G PROVE j \in G
  <2> DEFINE i == n - (j - 1)
  <2>1. i \in 1 .. n /\ i - 1 = n - j /\ i - 1 \in 0 .. n
    BY <1>1
  <2>2. r[i] = 0
    BY <1>5
  <2> HIDE DEF i
  <2>3. r[i - 1] \in Nat /\ Len(samples[q[i]]) \in Nat
    BY <1>2, <1>3, <2>1
  <2>4. r[i] = r[i - 1] + Len(samples[q[i]])
    BY <1>2, <2>1
  <2>5. r[i - 1] = 0
    BY <2>2, <2>3, <2>4
  <2> QED BY <2>1, <2>5
<1>6. \A j \in 0 .. n : j \in G
  <2> HIDE DEF G
  <2> QED BY <1>1, <1>4, <1>5, UpTo
<1>7. ASSUME NEW i \in 1 .. n PROVE samples[q[i]] = <<>>
  <2>1. n - i \in 0 .. n /\ n - (n - i) = i /\ n - (i - 1) \in 0 .. n
        /\ n - (n - (i - 1)) = i - 1
    BY <1>1
  <2>2. r[i] = 0 /\ r[i - 1] = 0
    BY <1>6, <2>1
  <2>3. r[i] = r[i - 1] + Len(samples[q[i]]) /\ Len(samples[q[i]]) \in Nat
    BY <1>2, <1>3
  <2>4. Len(samples[q[i]]) = 0
    BY <2>2, <2>3
  <2> QED BY <1>3, <2>4
<1> QED BY <1>1, <1>7

\* Memory with the same samples shows the same.
LEMMA TracksSame ==
    ASSUME NEW mem, NEW st, NEW v, Tracks(mem, st, v), NEW new \in Memory,
           new.samples = mem.samples, new.newest = mem.newest
    PROVE  Tracks(new, st, v)
BY DEF Tracks

LEMMA SaveDoneView == SafeInv /\ ViewInv /\ SaveDone => ViewInv'
<1> SUFFICES ASSUME SafeInv, ViewInv, SaveDone PROVE ViewInv'
  OBVIOUS
<1>1. /\ pc = "renamed" /\ pc' = "remove" /\ logged' = {}
      /\ m' = [m EXCEPT !.buffered = 0]
      /\ UNCHANGED <<segs, wal, walBuf, hist, failed, by, doomed>>
  BY DEF SaveDone, ghosts
<1>2. m \in Memory
  BY DEF SafeInv, Types
<1>3. /\ m' \in Memory /\ m'.samples = m.samples /\ m'.newest = m.newest
      /\ m'.index = m.index
  BY <1>1, <1>2 DEF Memory
<1>4. IdsMean'
  BY <1>1, <1>3 DEF ViewInv, IdsMean
<1>5. MemoryShows'
  <2>1. ASSUME ~failed PROVE Shows(m', segs, hist)
    <3>1. Shows(m, segs, hist)
      BY <1>1, <2>1 DEF ViewInv, MemoryShows
    <3> QED BY <1>3, <3>1, TracksSame DEF Shows
  <2> QED BY <1>1, <2>1 DEF MemoryShows
<1>6. LoggedDefined'
  BY <1>1 DEF LoggedDefined
<1>7. FilesFollow'
  BY <1>1 DEF ViewInv, FilesFollow, SyncedBefore
<1> QED BY <1>1, <1>4, <1>5, <1>6, <1>7, SameLogView

LEMMA SameView ==
    ASSUME NEW a \in [Labels -> Seq(Sample)], NEW b \in [Labels -> Seq(Sample)],
           \A l \in Labels : a[l] = b[l]
    PROVE  a = b
OBVIOUS

LEMMA WholeHist == \A h \in Seq(Batches) : SubSeq(h, 1, Len(h)) = h
OBVIOUS

LEMMA SaveView == SafeInv /\ ViewInv /\ Save => ViewInv'
<1> SUFFICES ASSUME SafeInv, ViewInv, Save PROVE ViewInv'
  OBVIOUS
<1> DEFINE k == Len(hist)
<1> DEFINE seg == NewSegment(m, k)
<1> DEFINE v == Promise!Answer(hist)
<1>1. /\ segs' = Append(segs, seg) /\ m' = Emptied /\ pc = "save" /\ pc' = "renamed"
      /\ UNCHANGED <<wal, walBuf, logged, failed, by, doomed, hist>>
  BY Zenon DEF Save, NewSegment, Ordered, ghosts
<1>2. /\ m \in Memory /\ Indexed(m) /\ segs \in Seq(Seg(k)) /\ k \in Nat /\ ~failed
      /\ hist \in Seq(Batches)
  BY <1>1, KeepTypes DEF SafeInv, Types, Places, Buffered
<1>3. segs \in Seq(Segment)
  BY <1>2, SegmentsType
<1>4. seg \in Segment /\ seg.upto = k /\ seg.data = m.samples
      /\ seg.order = Ordered(m.samples, m.index)
  <2>1. GoesOn(m, LoadedFrom(segs).newest)
    BY <1>1, <1>2 DEF SafeInv, InOrder
  <2>2. seg \in Segment
    BY <1>2, <1>3, <2>1, SavedInOrder
  <2> QED BY <2>2 DEF NewSegment
<1>5. Shows(m, segs, hist) /\ FilesFollow /\ walBuf = <<>>
  BY <1>1, <1>2 DEF ViewInv, MemoryShows, FilesFollow
<1>6. m.samples \in [Labels -> Seq(Sample)] /\ m.index \in Seq(Labels)
  BY <1>2, MemoryHas
<1> HIDE DEF seg, k, v
<1>7. /\ segs' \in Seq(Segment) /\ DOMAIN segs' = 1 .. Len(segs) + 1 /\ Len(segs) \in Nat
      /\ Len(segs') = Len(segs) + 1 /\ segs' # <<>> /\ DOMAIN segs = 1 .. Len(segs)
      /\ segs'[Len(segs) + 1] = seg /\ \A i \in 1 .. Len(segs) : segs'[i] = segs[i]
  BY <1>1, <1>3, <1>4
<1>8. Upto(segs') = k
  BY <1>4, <1>7 DEF Upto
<1>9. \A l \in Labels : Stored(segs')[l] = v[l] /\ Stored(segs')[l] = Stored(segs)[l] \o m.samples[l]
  <2> SUFFICES ASSUME NEW l \in Labels
               PROVE  Stored(segs')[l] = v[l]
                      /\ Stored(segs')[l] = Stored(segs)[l] \o m.samples[l]
    OBVIOUS
  <2>1. Stored(Append(segs, seg))[l] = Stored(segs)[l] \o seg.data[l]
    BY <1>3, <1>4, StoredMore
  <2>2. v[l] = Stored(segs)[l] \o m.samples[l]
    BY <1>5 DEF Shows, Tracks, v
  <2> QED BY <1>1, <1>4, <2>1, <2>2
<1>10. v \in [Labels -> Seq(Sample)] /\ Stored(segs') \in [Labels -> Seq(Sample)]
  BY <1>2, <1>7, AnswerType, StoredType DEF v
<1>11. Stored(segs') = v
  <2>1. \A l \in Labels : Stored(segs')[l] = v[l]
    BY <1>9
  <2> QED BY <1>10, <2>1, SameView
<1>12. LogHolds'
  <2>1. InSequence(wal) /\ Numbered(segs, wal, walBuf, hist)
    BY DEF ViewInv, LogHolds
  <2>2. Len(hist) - Len(walBuf) = k /\ k + 1 .. k = {}
    BY <1>2, <1>5 DEF k
  <2>3. \A i \in DOMAIN segs' : segs'[i].upto <= k
    <3>1. ASSUME NEW i \in 1 .. Len(segs) PROVE segs'[i].upto <= k
      BY <1>2, <1>7 DEF Seg
    <3>2. seg.upto <= k
      BY <1>2, <1>4
    <3>3. \A i \in DOMAIN segs' : i \in 1 .. Len(segs) \/ i = Len(segs) + 1
      BY <1>7
    <3> QED BY <1>7, <3>1, <3>2, <3>3
  <2>4. Numbered(segs', wal, walBuf, hist)
    <3>1. k \in 0 .. k
      BY <1>2
    <3> QED BY <1>8, <2>1, <2>2, <2>3, <3>1 DEF Numbered
  <2> QED BY <1>1, <2>1, <2>4 DEF LogHolds
<1>13. SegmentsHold'
  <2>1. Listed(segs')
    <3>1. Listed(segs)
      BY DEF ViewInv, SegmentsHold
    <3>2. Held(seg) \subseteq Range(seg.order)
      <4>1. \A l \in Labels : m.samples[l] # <<>> => l \in Range(m.index)
        BY <1>2 DEF Indexed
      <4>2. Range(Ordered(m.samples, m.index)) = {l \in Range(m.index) : m.samples[l] # <<>>}
        BY <1>6, OrderedIs
      <4> QED BY <1>4, <4>1, <4>2 DEF Held
    <3>3. \A i \in DOMAIN segs' : i \in 1 .. Len(segs) \/ i = Len(segs) + 1
      BY <1>7
    <3> QED BY <1>7, <3>1, <3>2, <3>3 DEF Listed
  <2>2. SubSeq(hist, 1, Upto(segs')) = hist
    BY <1>2, <1>8, WholeHist DEF k
  <2>3. \A n \in DOMAIN hist : Entries(hist[n]) # <<>>
    BY DEF ViewInv, SegmentsHold
  <2> QED BY <1>1, <1>11, <2>1, <2>2, <2>3 DEF SegmentsHold, v
<1>14. Emptied \in Memory /\ Emptied.index = m.index /\ Emptied.newest = m.newest
       /\ \A l \in Labels : Emptied.samples[l] = <<>>
  BY <1>2, EmptiedIs
<1>15. IdsMean'
  <2>1. PICK idx : /\ Meant(InLog(wal, walBuf), Upto(segs), hist, idx)
                   /\ pc = "idle" \/ by # "open" => idx = m.index
    BY DEF ViewInv, IdsMean
  <2>2. Meant(InLog(wal, walBuf), Upto(segs'), hist, idx)
    <3>1. Upto(segs') = Len(hist)
      BY <1>8 DEF k
    <3> QED BY <1>2, <2>1, <3>1, MeantAll
  <2> QED BY <1>1, <1>14, <2>1, <2>2 DEF IdsMean
<1>16. MemoryShows'
  <2>1. \A l \in Labels : v[l] = Stored(segs')[l] \o Emptied.samples[l]
    <3> SUFFICES ASSUME NEW l \in Labels PROVE v[l] = v[l] \o <<>>
      BY <1>11, <1>14
    <3>1. v[l] \in Seq(Sample)
      BY <1>10
    <3> QED BY <3>1, JoinNone
  <2>2. \A l \in Labels : Emptied.newest[l] = Time(v[l])
    BY <1>5, <1>14 DEF Shows, Tracks, v
  <2>3. Tracks(Emptied, Stored(segs'), v)
    BY <1>10, <1>14, <2>1, <2>2 DEF Tracks
  <2>4. ASSUME NEW l \in Labels, Stored(segs')[l] # <<>> PROVE l \in Range(m.index)
    <3>1. Stored(segs)[l] \in Seq(Sample) /\ m.samples[l] \in Seq(Sample)
      BY <1>3, <1>6, StoredType
    <3>2. Stored(segs)[l] # <<>> \/ m.samples[l] # <<>>
      BY <1>9, <2>4, <3>1, TimeJoin
    <3> QED BY <1>2, <1>5, <3>2 DEF Shows, Indexed
  <2> QED BY <1>1, <1>14, <2>3, <2>4 DEF MemoryShows, Shows, v
<1>17. LoggedDefined'
  BY <1>1 DEF LoggedDefined
<1>18. FilesFollow'
  BY <1>1, <1>5, <1>8 DEF FilesFollow, SyncedBefore, k
<1> QED BY <1>12, <1>13, <1>15, <1>16, <1>17, <1>18 DEF ViewInv

\* A batch with a sample shows.
LEMMA FirstShows ==
    ASSUME hist \in Seq(Batches), hist # <<>>,
           \A n \in DOMAIN hist : Entries(hist[n]) # <<>>
    PROVE  \E l \in Labels : Promise!Answer(hist)[l] # <<>>
<1> DEFINE b == hist[1]
<1> DEFINE es == Entries(b)
<1>1. 1 \in DOMAIN hist /\ Len(hist) \in Nat /\ b \in Batches
  OBVIOUS
<1>2. b \in Seq(Entry) /\ es \in Seq(Entry) /\ es # <<>>
  BY <1>1, BatchIs, BatchType
<1>3. \A i \in DOMAIN es : es[i].samples # <<>>
  BY <1>2, EntriesHold
<1> HIDE DEF es
<1>4. 1 \in DOMAIN es /\ es[1] \in Entry
  BY <1>2
<1> DEFINE l == es[1].labels
<1> DEFINE v == Promise!Answer(hist)
<1>5. l \in Labels /\ es[1].samples \in Seq(Nat \ {0}) /\ es[1].samples # <<>>
  BY <1>3, <1>4 DEF Entry
<1>6. Old(v[l], BatchOf(b, l, 1))
  BY <1>1, <1>5, AnswerOld
<1>7. BatchOf(es, l, 1) = BatchOf(b, l, 1)
  BY <1>2, EntriesOf DEF es
<1> HIDE DEF b, v
<1>8. Old(v[l], Stamped(es[1].samples, 1))
  <2>1. Old(v[l], BatchOf(es, es[1].labels, 1))
    BY <1>6, <1>7
  <2> QED BY <1>2, <1>4, <2>1, EntryOld
<1>9. 1 \in DOMAIN Stamped(es[1].samples, 1)
  <2>1. 1 \in DOMAIN es[1].samples
    BY <1>5
  <2> QED BY <2>1 DEF Stamped
<1>10. v[l] # <<>>
  BY <1>8, <1>9 DEF Old
<1> QED BY <1>5, <1>10 DEF v

\* What the last segment covers, when the log added nothing to it.
LEMMA NothingNewUpto ==
    ASSUME NEW k \in Nat, Len(hist) = k, segs \in Seq(Seg(k)), segs # <<>>
    PROVE  /\ NothingNew # <<>> /\ Upto(NothingNew) = k
           /\ \A i \in DOMAIN NothingNew : NothingNew[i].upto <= k
<1> DEFINE z == Len(segs)
<1> DEFINE s == [segs[z] EXCEPT !.upto = k]
<1> DEFINE new == NothingNew
<1>1. z \in DOMAIN segs /\ z \in Nat /\ segs[z] \in Segment /\ DOMAIN segs = 1 .. z
  BY DEF Seg
<1>2. s.upto = k
  BY <1>1 DEF Segment
<1>3. new = [segs EXCEPT ![z] = s]
  BY DEF NothingNew
<1>4. Len(new) = Len(segs) /\ new \in Seq(Seg(k))
  BY NothingNewIs
<1> HIDE DEF s, z, new
<1>5. /\ DOMAIN new = DOMAIN segs
      /\ \A i \in DOMAIN new : new[i] = IF i = z THEN s ELSE segs[i]
  BY <1>3
<1>6. \A i \in DOMAIN new : new[i].upto <= k
  BY <1>4 DEF Seg
<1>7. new # <<>> /\ Upto(new) = k
  <2>1. new[z] = s /\ Len(new) = z
    BY <1>1, <1>4, <1>5 DEF z
  <2>2. new # <<>>
    BY <1>1, <1>5
  <2> QED BY <1>2, <2>1, <2>2 DEF Upto
<1> QED BY <1>6, <1>7 DEF new

LEMMA CreateFileView == SafeInv /\ ViewInv /\ CreateFile => ViewInv'
<1> SUFFICES ASSUME SafeInv, ViewInv, CreateFile PROVE ViewInv'
  OBVIOUS
<1>1. /\ pc = "create" /\ wal' = WithFile(wal, doomed + 1)
      /\ segs' = IF pc' = "remove" THEN NothingNew ELSE segs
      /\ UNCHANGED <<walBuf, m, logged, failed, by, doomed, hist>>
  BY DEF CreateFile, ghosts
<1>2. /\ m.buffered \in Nat /\ m \in Memory /\ doomed \in Nat /\ Shape(wal, Len(hist))
      /\ segs \in Seq(Seg(Len(hist))) /\ Len(hist) \in Nat /\ hist \in Seq(Batches)
      /\ m.samples \in [Labels -> Seq(Sample)] /\ m.index \in Seq(Labels)
  BY KeepTypes, MemoryHas DEF SafeInv, Types
<1>3. /\ pc' \in {"idle", "remove", "cut"}
      /\ pc' = "idle" => doomed = 0
      /\ pc' = "remove" => m.buffered = 0
  BY <1>2 DEF CreateFile
<1>4. /\ FilesFollow /\ by = "open" /\ walBuf = <<>> /\ logged = {} /\ ~failed
      /\ \A f \in DOMAIN wal : f <= doomed
  BY <1>1 DEF ViewInv, FilesFollow, SafeInv, Places
<1>5. Shows(m, segs, hist) /\ InSequence(wal) /\ Numbered(segs, wal, walBuf, hist)
  BY <1>1, <1>4 DEF ViewInv, MemoryShows, LogHolds
<1>6. /\ DOMAIN wal' = DOMAIN wal \cup {doomed + 1} /\ wal'[doomed + 1].recs = <<>>
      /\ \A f \in DOMAIN wal : f # doomed + 1 /\ wal'[f] = wal[f]
      /\ \A f \in DOMAIN wal' : f \in Nat \ {0}
  <2>1. doomed + 1 \notin DOMAIN wal
    BY <1>2, <1>4
  <2> QED BY <1>1, <1>2, <2>1 DEF WithFile, EmptyFile, Shape
<1>7. SameRecs(wal', wal)
  BY <1>6 DEF SameRecs
<1>8. /\ InLog(wal', walBuf) = InLog(wal, walBuf) /\ InSequence(wal')
      /\ Numbered(segs, wal', walBuf, hist)
  BY <1>5, <1>7, SameInLog
<1>9. LoggedDefined'
  BY <1>1, <1>4 DEF LoggedDefined
<1>10. /\ SyncedBefore(wal')
       /\ \A f \in DOMAIN wal' : f > doomed => wal'[f].recs = <<>>
       /\ \A f, g \in DOMAIN wal' : f < g /\ wal'[f].synced < Len(wal'[f].recs) =>
            pc' # "idle"
  <2>1. \A f \in DOMAIN wal' : f > doomed => wal'[f].recs = <<>>
    BY <1>2, <1>4, <1>6
  <2>2. ASSUME NEW f \in DOMAIN wal', NEW g \in DOMAIN wal', f < g,
               wal'[f].synced < Len(wal'[f].recs)
        PROVE  wal'[g].recs = <<>> /\ pc' # "idle"
    <3>1. CASE g = doomed + 1
      <4>1. f # doomed + 1 /\ f \in DOMAIN wal /\ f <= doomed
        BY <1>2, <1>4, <1>6, <2>2, <3>1
      <4>2. doomed # 0
        BY <1>2, <1>6, <4>1
      <4>3. pc' # "idle"
        BY <1>3, <4>2
      <4>4. wal'[doomed + 1].recs = <<>>
        BY <1>6
      <4> QED BY <3>1, <4>3, <4>4, Zenon
    <3>2. CASE g # doomed + 1
      <4>1. g \in DOMAIN wal /\ g <= doomed /\ f \in Nat /\ g \in Nat \ {0}
        BY <1>4, <1>6, <3>2
      <4>2. f \in DOMAIN wal /\ doomed # 0
        BY <1>2, <1>6, <2>2, <4>1
      <4> QED BY <1>3, <1>4, <1>6, <2>2, <4>1, <4>2 DEF FilesFollow, SyncedBefore
    <3> QED BY <3>1, <3>2
  <2> QED BY <2>1, <2>2 DEF SyncedBefore
<1>11. CASE pc' # "remove"
  <2>1. segs' = segs
    BY <1>1, <1>11
  <2>2. LogHolds' /\ SegmentsHold' /\ MemoryShows'
    <3>1. LogHolds'
      BY <1>1, <1>8, <2>1 DEF LogHolds
    <3>2. SegmentsHold'
      BY <1>1, <2>1 DEF ViewInv, SegmentsHold
    <3>3. MemoryShows'
      BY <1>1, <1>5, <2>1 DEF MemoryShows
    <3> QED BY <3>1, <3>2, <3>3
  <2>3. IdsMean'
    <3>1. CASE pc' = "idle"
      <4>1. DOMAIN wal = {}
        <5>1. doomed = 0
          BY <1>3, <3>1
        <5>2. \A f \in DOMAIN wal : f <= 0 /\ f \in Nat \ {0}
          BY <1>4, <1>6, <5>1
        <5> QED BY <5>2
      <4>2. InLog(wal, walBuf) = {}
        BY <1>4, <4>1, FiledNone
      <4>3. Meant({}, Upto(segs), hist, m.index)
        BY <1>2 DEF Meant
      <4> QED BY <1>1, <1>8, <2>1, <4>2, <4>3 DEF IdsMean
    <3>2. CASE pc' # "idle"
      BY <1>1, <1>4, <1>8, <2>1, <3>2 DEF ViewInv, IdsMean
    <3> QED BY <3>1, <3>2
  <2>4. FilesFollow'
    <3>1. pc' \in {"idle", "cut"}
      BY <1>3, <1>11
    <3> QED BY <1>1, <1>4, <1>10, <3>1 DEF FilesFollow
  <2> QED BY <1>9, <2>2, <2>3, <2>4 DEF ViewInv
<1>12. CASE pc' = "remove"
  <2> DEFINE k == Len(hist)
  <2> DEFINE v == Promise!Answer(hist)
  <2>1. segs' = NothingNew /\ m.buffered = 0
    BY <1>1, <1>3, <1>12
  <2>2. \A l \in Labels : m.samples[l] = <<>>
    <3>1. Indexed(m) /\ Counted(m)
      BY <1>1, <1>4 DEF SafeInv, Buffered
    <3>2. Total(m.samples, m.index) = 0
      BY <2>1, <3>1 DEF Counted
    <3>3. \A i \in DOMAIN m.index : m.samples[m.index[i]] = <<>>
      BY <1>2, <3>2, TotalZero
    <3> QED BY <1>2, <3>1, <3>3 DEF Indexed, Range
  <2>3. segs \in Seq(Segment) /\ segs' \in Seq(Segment) /\ Len(segs') = Len(segs)
        /\ segs' \in Seq(Seg(k))
        /\ \A i \in 1 .. Len(segs') : segs'[i].data = segs[i].data
                                      /\ segs'[i].order = segs[i].order
    BY <1>2, <2>1, NothingNewIs, SegmentsType
  <2>4. Stored(segs') = Stored(segs)
    BY <2>3, StoredSame
  <2>5. v = Stored(segs)
    <3>1. v \in [Labels -> Seq(Sample)] /\ Stored(segs) \in [Labels -> Seq(Sample)]
      BY <1>2, <2>3, AnswerType, StoredType
    <3>2. \A l \in Labels : v[l] = Stored(segs)[l] \o m.samples[l]
      BY <1>5 DEF Shows, Tracks
    <3> HIDE DEF v
    <3>3. \A l \in Labels : v[l] = Stored(segs)[l]
      <4> SUFFICES ASSUME NEW l \in Labels PROVE v[l] = Stored(segs)[l]
        OBVIOUS
      <4>1. v[l] = Stored(segs)[l] \o <<>> /\ Stored(segs)[l] \in Seq(Sample)
        BY <2>2, <3>1, <3>2
      <4> QED BY <4>1, JoinNone
    <3> QED BY <3>1, <3>3, SameView
  <2>6. Upto(segs') = k /\ \A i \in DOMAIN segs' : segs'[i].upto <= k
    <3>1. CASE segs # <<>>
      BY <1>2, <2>1, <3>1, NothingNewUpto
    <3>2. CASE segs = <<>>
      <4>1. \A l \in Labels : v[l] = <<>>
        BY <2>5, <3>2, StoredNone
      <4>2. hist = <<>>
        BY <1>2, <4>1, FirstShows DEF ViewInv, SegmentsHold
      <4>3. segs' = <<>>
        BY <2>1, <3>2 DEF NothingNew
      <4> QED BY <4>2, <4>3 DEF Upto
    <3> QED BY <3>1, <3>2
  <2> HIDE DEF k, v
  <2>7. LogHolds'
    <3>1. Numbered(segs, wal', <<>>, hist) /\ k - Len(<<>>) = k /\ k + 1 .. k = {}
          /\ k \in 0 .. k
      BY <1>2, <1>4, <1>8 DEF k
    <3>2. Numbered(segs', wal', <<>>, hist)
      BY <2>6, <3>1 DEF Numbered, k
    <3> QED BY <1>1, <1>4, <1>8, <3>2 DEF LogHolds
  <2>8. SegmentsHold'
    <3>1. Listed(segs')
      <4>1. Listed(segs)
        BY DEF ViewInv, SegmentsHold
      <4>2. DOMAIN segs' = DOMAIN segs /\ DOMAIN segs' = 1 .. Len(segs')
        BY <2>3
      <4> QED BY <2>3, <4>1, <4>2 DEF Listed, Held
    <3>2. SubSeq(hist, 1, Upto(segs')) = hist
      BY <1>2, <2>6, WholeHist DEF k
    <3>3. \A n \in DOMAIN hist : Entries(hist[n]) # <<>>
      BY DEF ViewInv, SegmentsHold
    <3> QED BY <1>1, <2>4, <2>5, <3>1, <3>2, <3>3 DEF SegmentsHold, v
  <2>9. IdsMean'
    <3>1. PICK idx : Meant(InLog(wal, walBuf), Upto(segs), hist, idx)
      BY DEF ViewInv, IdsMean
    <3>2. Meant(InLog(wal', walBuf), Upto(segs'), hist, idx)
      BY <1>2, <1>8, <2>6, <3>1, MeantAll DEF k
    <3> QED BY <1>1, <1>4, <1>12, <3>2 DEF IdsMean
  <2>10. MemoryShows'
    BY <1>1, <1>5, <2>4 DEF MemoryShows, Shows
  <2>11. FilesFollow'
    BY <1>1, <1>4, <1>10, <1>12, <2>6 DEF FilesFollow, k
  <2> QED BY <1>9, <2>7, <2>8, <2>9, <2>10, <2>11 DEF ViewInv
<1> QED BY <1>11, <1>12

LEMMA OpenView == SafeInv /\ ViewInv /\ Open => ViewInv'
<1> SUFFICES ASSUME SafeInv, ViewInv, Open PROVE ViewInv'
  OBVIOUS
<1>1. /\ m' = Replayed(Restored, LogRecords)
      /\ wal' = [f \in FileIds |-> IF wal[f].torn THEN Repaired(f) ELSE wal[f]]
      /\ doomed' = IF FileIds = {} THEN 0 ELSE LastFile
      /\ pc = "down" /\ pc' = "create" /\ by' = "open"
      /\ UNCHANGED <<segs, walBuf, logged, failed, hist>>
  BY DEF Open, ghosts
<1>2. /\ Shape(wal, Len(hist)) /\ hist \in Seq(Batches) /\ Len(hist) \in Nat
      /\ segs \in Seq(Seg(Len(hist)))
  BY KeepTypes
<1>3. walBuf = <<>> /\ FilesFollow
  BY <1>1 DEF ViewInv, FilesFollow, SafeInv, Places
<1>4. DOMAIN wal' = DOMAIN wal
  BY <1>1 DEF FileIds
<1>5. ASSUME NEW f \in DOMAIN wal
      PROVE  /\ wal'[f].recs = wal[f].recs
             /\ wal'[f].synced < Len(wal'[f].recs) => wal[f].synced < Len(wal[f].recs)
  <2> DEFINE old == wal[f]
  <2> DEFINE new == [old EXCEPT !.torn = FALSE, !.synced = Len(old.recs)]
  <2>1. old \in LogFile(Len(hist))
    BY <1>2 DEF Shape
  <2>2. wal'[f] = IF old.torn THEN new ELSE old
    BY <1>1, <1>4, Zenon DEF Repaired, FileIds
  <2> HIDE DEF old
  <2>3. new.recs = old.recs /\ new.synced = Len(old.recs) /\ Len(old.recs) \in Nat
    BY <2>1 DEF LogFile
  <2> HIDE DEF new
  <2> QED BY <2>2, <2>3 DEF old
<1>6. SameRecs(wal', wal)
  BY <1>4, <1>5 DEF SameRecs
<1>7. InSequence(wal) /\ Numbered(segs, wal, walBuf, hist)
  BY DEF ViewInv, LogHolds
<1>8. /\ InLog(wal', walBuf) = InLog(wal, walBuf) /\ InSequence(wal')
      /\ Numbered(segs, wal', walBuf, hist)
  BY <1>6, <1>7, SameInLog
<1>9. LogHolds' /\ SegmentsHold' /\ IdsMean' /\ LoggedDefined'
  BY <1>1, <1>8 DEF ViewInv, LogHolds, SegmentsHold, IdsMean, LoggedDefined
<1>10. Shows(Replayed(Restored, LogRecords), segs, hist)
  <2>1. segs \in Seq(Segment)
    BY <1>2, SegmentsType
  <2>2. PICK idx : Meant(InLog(wal, walBuf), Upto(segs), hist, idx)
    BY DEF ViewInv, IdsMean
  <2>3. InLog(wal, walBuf) = Filed(wal)
    BY <1>3 DEF InLog
  <2>4. Len(hist) - Len(walBuf) = Len(hist)
    BY <1>2, <1>3
  <2>5. /\ Upto(segs) \in 0 .. Len(hist)
        /\ \A n \in Upto(segs) + 1 .. Len(hist) : \E r \in Filed(wal) : r.no = n
    BY <1>7, <2>4 DEF Numbered
  <2>6. Listed(segs) /\ Stored(segs) = Promise!Answer(SubSeq(hist, 1, Upto(segs)))
    BY DEF ViewInv, SegmentsHold
  <2>7. Meant(Filed(wal), Upto(segs), hist, idx)
    BY <2>2, <2>3
  <2> QED BY <1>2, <1>7, <2>1, <2>5, <2>6, <2>7, OpenShows
<1>11. MemoryShows'
  BY <1>1, <1>10 DEF MemoryShows
<1>12. FilesFollow'
  <2>1. \A f \in DOMAIN wal' : f <= doomed'
    BY <1>1, <1>2, <1>4, LastIs DEF FileIds
  <2>2. \A f \in DOMAIN wal' : ~(f > doomed')
    <3>1. doomed' \in Nat
      BY <1>1, <1>2, LastIs DEF FileIds
    <3>2. DOMAIN wal' \subseteq Nat
      BY <1>2, <1>4 DEF Shape
    <3> QED BY <2>1, <3>1, <3>2
  <2>3. SyncedBefore(wal')
    BY <1>3, <1>4, <1>5 DEF FilesFollow, SyncedBefore
  <2> QED BY <1>1, <1>3, <2>1, <2>2, <2>3 DEF FilesFollow
<1> QED BY <1>9, <1>11, <1>12 DEF ViewInv

-----------------------------------------------------------------------------
(* A write. *)

\* idx goes on as more.
Extends(more, idx) == \A i \in DOMAIN idx : i \in DOMAIN more /\ more[i] = idx[i]

\* Ids once given stay.
LEMMA EncodeExtends ==
    ASSUME NEW mem \in Memory, NEW l \in Labels
    PROVE  LET new == Encode(mem, l) IN
           /\ new \in Memory /\ Extends(new.index, mem.index)
           /\ new.samples = mem.samples /\ new.newest = mem.newest
<1> DEFINE new == Encode(mem, l)
<1> DEFINE q == mem.index
<1>1. /\ new \in Memory /\ new.samples = mem.samples /\ new.newest = mem.newest
      /\ new.index = q \/ new.index = Append(q, l)
  BY EncodeIs
<1>2. q \in Seq(Labels)
  BY MemoryHas
<1> HIDE DEF new, q
<1>3. Extends(q, q)
  BY DEF Extends
<1>4. Extends(Append(q, l), q)
  BY <1>2 DEF Extends
<1> QED BY <1>1, <1>3, <1>4 DEF new, q

LEMMA EncodeAllMore ==
    ASSUME NEW mem \in Memory, NEW es \in Seq(Entry)
    PROVE  LET new == EncodeAll(mem, es) IN
           /\ new \in Memory /\ Extends(new.index, mem.index)
           /\ new.samples = mem.samples /\ new.newest = mem.newest
<1>1. Len(es) \in Nat /\ \A i \in 1 .. Len(es) : es[i] \in Entry
  OBVIOUS
<1>2. PICK r \in [0 .. Len(es) -> Memory] :
               /\ r[0] = mem /\ r[Len(es)] = EncodeAll(mem, es)
               /\ \A i \in 1 .. Len(es) : r[i] = Encode(r[i - 1], es[i].labels)
  BY EncodeAllRun
<1> DEFINE P(x) == /\ Extends(x.index, mem.index)
                   /\ x.samples = mem.samples /\ x.newest = mem.newest
<1> DEFINE G == {i \in 0 .. Len(es) : P(r[i])}
<1>3. 0 \in G
  BY <1>1, <1>2 DEF Extends
<1>4. ASSUME NEW i \in 1 .. Len(es), i - 1 \in G PROVE i \in G
  <2> DEFINE a == r[i - 1]
  <2> DEFINE b == es[i].labels
  <2>1. P(a) /\ i \in 0 .. Len(es)
    BY <1>1, <1>4
  <2>2. a \in Memory /\ b \in Labels /\ r[i] = Encode(a, b)
    <3>1. i - 1 \in 0 .. Len(es)
      BY <1>1
    <3>2. es[i] \in Entry
      BY <1>1
    <3>3. b \in Labels
      BY <3>2 DEF Entry
    <3> QED BY <1>2, <3>1, <3>3
  <2> HIDE DEF a, b, G
  <2>3. /\ Extends(Encode(a, b).index, a.index)
        /\ Encode(a, b).samples = a.samples /\ Encode(a, b).newest = a.newest
    BY <2>2, EncodeExtends
  <2>4. Extends(Encode(a, b).index, mem.index)
    BY <2>1, <2>3 DEF Extends
  <2>5. P(r[i])
    BY <2>1, <2>2, <2>3, <2>4
  <2> QED BY <2>1, <2>5 DEF G
<1> HIDE DEF G, P
<1>5. Len(es) \in G
  BY <1>1, <1>3, <1>4, UpTo
<1>6. P(EncodeAll(mem, es)) /\ EncodeAll(mem, es) \in Memory
  BY <1>1, <1>2, <1>5 DEF G
<1> QED BY <1>6 DEF P

\* A record means the same with more ids and more history.
LEMMA MeansMore ==
    ASSUME NEW r, NEW h \in Seq(Batches), NEW b \in Batches, NEW idx, NEW more,
           Extends(more, idx), Means(r, h, idx)
    PROVE  Means(r, h, more) /\ Means(r, Append(h, b), more)
<1>1. /\ r.no \in DOMAIN h /\ Carries(r.samples, Entries(h[r.no]), idx, r.no)
      /\ \A k \in DOMAIN r.series :
           r.series[k].id \in DOMAIN idx /\ idx[r.series[k].id] = r.series[k].labels
  BY DEF Means
<1>2. Carries(r.samples, Entries(h[r.no]), more, r.no)
  BY <1>1 DEF Carries, Extends
<1>3. \A k \in DOMAIN r.series :
        r.series[k].id \in DOMAIN more /\ more[r.series[k].id] = r.series[k].labels
  BY <1>1 DEF Extends
<1>4. r.no \in DOMAIN Append(h, b) /\ Append(h, b)[r.no] = h[r.no]
  BY <1>1
<1> QED BY <1>1, <1>2, <1>3, <1>4 DEF Means

LEMMA MeantMore ==
    ASSUME NEW recs, NEW u, NEW h \in Seq(Batches), NEW idx, NEW more \in Seq(Labels),
           Extends(more, idx), Meant(recs, u, h, idx)
    PROVE  Meant(recs, u, h, more)
<1>1. ASSUME NEW r \in recs PROVE Means(r, h, more)
  <2>1. Means(r, h, idx)
    BY DEF Meant
  <2>2. PICK n \in DOMAIN h : TRUE
    BY <2>1 DEF Means
  <2>3. h[n] \in Batches
    OBVIOUS
  <2> QED BY <2>1, <2>3, MeansMore
<1> QED BY <1>1 DEF Meant

\* What memory keeps when it is only given more ids.
LEMMA ShowsMore ==
    ASSUME NEW mem, NEW sg, NEW h, Shows(mem, sg, h), NEW es \in Seq(Entry)
    PROVE  Shows(EncodeAll(mem, es), sg, h)
<1> DEFINE new == EncodeAll(mem, es)
<1>1. mem \in Memory
  BY DEF Shows, Tracks
<1>2. /\ new \in Memory /\ Range(new.index) = Range(mem.index) \cup Used(es)
      /\ new.samples = mem.samples /\ new.newest = mem.newest
  BY <1>1, EncodeAllSound, EncodeAllMore
<1> HIDE DEF new
<1>3. Tracks(new, Stored(sg), Promise!Answer(h))
  BY <1>2, TracksSame DEF Shows
<1>4. \A l \in Labels : Stored(sg)[l] # <<>> => l \in Range(new.index)
  BY <1>2 DEF Shows
<1> QED BY <1>3, <1>4 DEF Shows, new

LEMMA WriteTooLargeView ==
    ASSUME NEW b \in Batches, SafeInv, ViewInv, WriteTooLarge(b)
    PROVE  ViewInv'
<1> DEFINE es == Entries(b)
<1>1. /\ m' = EncodeAll(m, es) /\ pc = "idle" /\ ~failed
      /\ UNCHANGED <<segs, wal, walBuf, hist, logged, failed, pc, by, doomed>>
  BY DEF WriteTooLarge, disk, ghosts
<1>2. es \in Seq(Entry) /\ m \in Memory /\ hist \in Seq(Batches)
  BY BatchType DEF SafeInv, Types
<1> HIDE DEF es
<1>3. m' \in Memory /\ Extends(m'.index, m.index)
  BY <1>1, <1>2, EncodeAllMore
<1>4. IdsMean'
  <2>1. Meant(InLog(wal, walBuf), Upto(segs), hist, m.index)
    BY <1>1 DEF ViewInv, IdsMean
  <2>2. m'.index \in Seq(Labels)
    BY <1>3, MemoryHas
  <2>3. Meant(InLog(wal, walBuf), Upto(segs), hist, m'.index)
    BY <1>2, <1>3, <2>1, <2>2, MeantMore
  <2> QED BY <1>1, <2>3 DEF IdsMean
<1>5. MemoryShows'
  <2>1. Shows(m, segs, hist)
    BY <1>1 DEF ViewInv, MemoryShows
  <2>2. Shows(m', segs, hist)
    BY <1>1, <1>2, <2>1, ShowsMore
  <2> QED BY <1>1, <2>2 DEF MemoryShows
<1>6. LoggedDefined' /\ FilesFollow'
  <2>1. LoggedDefined'
    BY <1>1 DEF ViewInv, LoggedDefined
  <2>2. FilesFollow'
    BY <1>1 DEF ViewInv, FilesFollow, SyncedBefore
  <2> QED BY <2>1, <2>2
<1> QED BY <1>1, <1>4, <1>5, <1>6, SameLogView

\* Every label of a record is logged already or in the record.
LEMMA NewLabelsAll ==
    ASSUME NEW es \in Seq(Entry)
    PROVE  Used(es) \subseteq logged \cup Range(NewLabels(es))
<1>1. PICK r \in [0 .. Len(es) -> Seq(Labels)] :
               /\ r[0] = <<>> /\ r[Len(es)] = NewLabels(es)
               /\ \A i \in 1 .. Len(es) :
                     r[i] = (IF es[i].labels \in logged \cup Range(r[i - 1])
                               THEN r[i - 1] ELSE Append(r[i - 1], es[i].labels))
  BY NewLabelsRun
<1>2. Len(es) \in Nat /\ DOMAIN es = 1 .. Len(es)
  OBVIOUS
<1> DEFINE have(i) == logged \cup Range(r[i])
<1> DEFINE G == {i \in 0 .. Len(es) : \A j \in 1 .. i : es[j].labels \in have(i)}
<1>3. 0 \in G
  BY <1>2
<1>4. ASSUME NEW i \in 1 .. Len(es), i - 1 \in G PROVE i \in G
  <2> DEFINE q == r[i - 1]
  <2> DEFINE x == es[i].labels
  <2>1. i \in 0 .. Len(es) /\ i - 1 \in 0 .. Len(es)
        /\ \A j \in 1 .. i - 1 : es[j].labels \in have(i - 1)
    BY <1>2, <1>4
  <2>2. q \in Seq(Labels) /\ x \in Labels
    <3>1. r[i - 1] \in Seq(Labels)
      BY <1>1, <2>1
    <3>2. es[i] \in Entry
      OBVIOUS
    <3> QED BY <3>1, <3>2 DEF Entry
  <2>3. r[i] = IF x \in logged \cup Range(q) THEN q ELSE Append(q, x)
    BY <1>1
  <2>4. have(i - 1) = logged \cup Range(q)
    OBVIOUS
  <2> HIDE DEF q
  <2>5. Range(Append(q, x)) = Range(q) \cup {x}
    BY <2>2, RangeAppend
  <2>6. have(i) = logged \cup Range(q) \cup {x}
    BY <2>3, <2>5
  <2> HIDE DEF have, G
  <2>7. \A j \in 1 .. i : es[j].labels \in have(i)
    <3>1. \A j \in 1 .. i : j \in 1 .. i - 1 \/ j = i
      BY <2>1
    <3> QED BY <2>1, <2>4, <2>6, <3>1
  <2> QED BY <2>1, <2>7 DEF G
<1> HIDE DEF G, have
<1>5. Len(es) \in G
  BY <1>2, <1>3, <1>4, UpTo
<1> QED BY <1>1, <1>2, <1>5 DEF G, have, Used

\* A record says what it means.
LEMMA RecordMeans ==
    ASSUME NEW mem \in Memory, NEW es \in Seq(Entry), Used(es) \subseteq Range(mem.index),
           NEW no
    PROVE  LET rec == Record(mem, es, no) IN
           /\ rec.no = no /\ Carries(rec.samples, es, mem.index, no)
           /\ \A k \in DOMAIN rec.series :
                rec.series[k].id \in DOMAIN mem.index
                /\ mem.index[rec.series[k].id] = rec.series[k].labels
           /\ \A l \in Range(NewLabels(es)) :
                \E k \in DOMAIN rec.series : rec.series[k].labels = l
<1> DEFINE ls == NewLabels(es)
<1> DEFINE series == [i \in DOMAIN ls |-> [id |-> IdOf(mem, ls[i]), labels |-> ls[i]]]
<1> DEFINE samples == [i \in DOMAIN es |->
                         [id |-> IdOf(mem, es[i].labels),
                          samples |-> [j \in DOMAIN es[i].samples |->
                                         <<es[i].samples[j], no>>]]]
<1> DEFINE rec == Record(mem, es, no)
<1>1. rec = [no |-> no, series |-> series, samples |-> samples]
  BY Zenon DEF Record, NewLabels
<1>2. rec.no = no /\ rec.series = series /\ rec.samples = samples
  <2> HIDE DEF series, samples, rec
  <2> QED BY <1>1
<1>3. Range(ls) \subseteq Range(mem.index)
  BY NewLabelsIs
<1>4. ASSUME NEW k \in DOMAIN ls
      PROVE  series[k].id \in DOMAIN mem.index /\ mem.index[series[k].id] = ls[k]
             /\ series[k].labels = ls[k]
  <2>1. ls[k] \in Range(mem.index)
    BY <1>3 DEF Range
  <2>2. IdOf(mem, ls[k]) \in DOMAIN mem.index /\ mem.index[IdOf(mem, ls[k])] = ls[k]
    BY <2>1, IdOfIs
  <2> HIDE DEF ls
  <2> QED BY <2>2
<1>5. ASSUME NEW i \in DOMAIN es
      PROVE  /\ samples[i].id \in DOMAIN mem.index
             /\ mem.index[samples[i].id] = es[i].labels
             /\ samples[i].samples = Stamped(es[i].samples, no)
  <2>1. es[i].labels \in Range(mem.index)
    BY DEF Used
  <2>2. /\ IdOf(mem, es[i].labels) \in DOMAIN mem.index
        /\ mem.index[IdOf(mem, es[i].labels)] = es[i].labels
    BY <2>1, IdOfIs
  <2>3. samples[i].id = IdOf(mem, es[i].labels)
        /\ samples[i].samples = Stamped(es[i].samples, no)
    BY Zenon DEF Stamped
  <2> QED BY <2>2, <2>3
<1>6. DOMAIN samples = DOMAIN es /\ DOMAIN series = DOMAIN ls
  OBVIOUS
<1>7. ASSUME NEW l \in Range(ls) PROVE \E k \in DOMAIN ls : ls[k] = l
  BY <1>7 DEF Range
<1> HIDE DEF samples, series, ls, rec
<1>8. Carries(samples, es, mem.index, no)
  BY <1>5, <1>6 DEF Carries
<1>9. \A k \in DOMAIN series : series[k].id \in DOMAIN mem.index
                               /\ mem.index[series[k].id] = series[k].labels
  BY <1>4, <1>6
<1>10. \A l \in Range(ls) : \E k \in DOMAIN series : series[k].labels = l
  BY <1>4, <1>6, <1>7
<1> QED BY <1>2, <1>8, <1>9, <1>10 DEF rec, ls

\* Memory follows the batch of a record.
LEMMA AppendAllTracks ==
    ASSUME NEW mem, NEW st, NEW v, Tracks(mem, st, v), NEW rec, NEW es \in Seq(Entry),
           NEW no \in Nat, rec.samples \in Seq(Known(mem)),
           Carries(rec.samples, es, mem.index, no)
    PROVE  Tracks(AppendAll(mem, rec), st, After(v, es, no))
<1> DEFINE q == rec.samples
<1> DEFINE part(i) == SubSeq(es, 1, i)
<1>1. mem \in Memory /\ Len(q) \in Nat /\ v \in [Labels -> Seq(Sample)]
  BY DEF Tracks
<1>2. PICK r \in [0 .. Len(q) -> Memory] :
               /\ r[0] = mem /\ r[Len(q)] = AppendAll(mem, rec)
               /\ \A i \in 1 .. Len(q) :
                     r[i] = AppendSamples(r[i - 1], mem.index[q[i].id], q[i].samples)
  BY <1>1, AppendAllRun
<1> DEFINE G == {i \in 0 .. Len(q) : Tracks(r[i], st, After(v, part(i), no))}
<1>3. 0 \in G
  <2>1. part(0) = <<>>
    OBVIOUS
  <2>2. After(v, part(0), no) = v
    BY <1>1, <2>1, AfterNone
  <2> HIDE DEF part
  <2> QED BY <1>1, <1>2, <2>2
<1>4. ASSUME NEW i \in 1 .. Len(q), i - 1 \in G PROVE i \in G
  <2> DEFINE w == After(v, part(i - 1), no)
  <2>1. /\ Tracks(r[i - 1], st, w)
        /\ i \in 0 .. Len(q) /\ q[i] \in Known(mem) /\ i \in DOMAIN q /\ i \in DOMAIN es
    BY <1>1, <1>4 DEF Carries
  <2>2. r[i] = AppendSamples(r[i - 1], mem.index[q[i].id], q[i].samples)
    BY <1>2
  <2>3. /\ part(i - 1) \in Seq(Entry) /\ part(i) = Append(part(i - 1), es[i])
        /\ es[i] \in Entry
    <3>1. i \in 1 .. Len(es)
      BY <2>1
    <3> HIDE DEF q
    <3>2. part(i - 1) \in Seq(Entry)
      BY <3>1
    <3>3. part(i) = Append(part(i - 1), es[i])
      BY <3>1, BeginMore
    <3>4. es[i] \in Entry
      BY <3>1
    <3> QED BY <3>2, <3>3, <3>4
  <2> HIDE DEF part, w, G
  <2> DEFINE l == mem.index[q[i].id]
  <2>4. l = es[i].labels /\ q[i].samples = Stamped(es[i].samples, no)
    BY <2>1 DEF Carries
  <2>5. l \in Labels /\ q[i].samples \in Seq(Sample)
    BY <2>1, <2>3, <2>4 DEF Known, Entry
  <2> HIDE DEF l
  <2>6. Tracks(AppendSamples(r[i - 1], l, q[i].samples), st, Plus(w, l, q[i].samples))
    BY <2>1, <2>5, AppendSamplesTracks DEF Plus
  <2>7. After(v, part(i), no) = Plus(w, es[i].labels, Stamped(es[i].samples, no))
    <3> DEFINE b == part(i - 1)
    <3> DEFINE e == es[i]
    <3>1. part(i) = Append(b, e) /\ w = After(v, b, no)
      BY <2>3 DEF w
    <3>2. b \in Seq(Entry) /\ e \in Entry /\ v \in [Labels -> Seq(Sample)]
      BY <1>1, <2>3
    <3> HIDE DEF b, e
    <3>3. After(v, Append(b, e), no)
            = Plus(After(v, b, no), e.labels, Stamped(e.samples, no))
      BY <3>2, AfterMore
    <3> QED BY <3>1, <3>3, Zenon DEF e
  <2>8. Tracks(r[i], st, After(v, part(i), no))
    <3>1. After(v, part(i), no) = Plus(w, l, q[i].samples)
      BY <2>4, <2>7, Zenon
    <3>2. r[i] = AppendSamples(r[i - 1], l, q[i].samples)
      BY <2>2 DEF l
    <3> QED BY <2>6, <3>1, <3>2, Zenon
  <2> QED BY <2>1, <2>8, Zenon DEF G
<1> HIDE DEF G, part
<1>5. Len(q) \in G
  BY <1>1, <1>3, <1>4, UpTo
<1>6. part(Len(q)) = es
  <2>1. Len(q) = Len(es)
    BY <1>1 DEF Carries
  <2> QED BY <2>1 DEF part
<1> QED BY <1>2, <1>5, <1>6 DEF G

\* The same samples with and without the entries that have none.
LEMMA AfterEntries ==
    ASSUME NEW v \in [Labels -> Seq(Sample)], NEW b \in Seq(Entry), NEW no \in Nat
    PROVE  After(v, Entries(b), no) = After(v, b, no)
<1>1. \A l \in Labels : BatchOf(Entries(b), l, no) = BatchOf(b, l, no)
  BY EntriesOf
<1> QED BY <1>1 DEF After

\* The series in logged are in records that replay will use, under the ids that
\* memory gives them; so a record rec that comes next is understood.
LEMMA WriteMeant ==
    ASSUME NEW recs, NEW u \in Nat, NEW h \in Seq(Batches), NEW b \in Batches,
           u <= Len(h), NEW mem \in Memory, Indexed(mem), NEW idx,
           Extends(mem.index, idx), Meant(recs, u, h, idx),
           NEW es, es = Entries(b), Used(es) \subseteq Range(mem.index),
           \A l \in logged : Declares(recs, u, l)
    PROVE  LET rec == Record(mem, es, Len(h) + 1) IN
           /\ Meant(recs \cup {rec}, u, Append(h, b), mem.index)
           /\ \A l \in logged \cup Used(es) : Declares(recs \cup {rec}, u, l)
<1> DEFINE no == Len(h) + 1
<1> DEFINE rec == Record(mem, es, no)
<1> DEFINE new == Append(h, b)
<1>1. no \in Nat /\ u < no /\ Len(h) \in Nat /\ no <= no /\ \A n \in DOMAIN h : n \in Nat /\ n <= no
  OBVIOUS
<1>2. no \in DOMAIN new /\ new[no] = b
  OBVIOUS
<1>3. es \in Seq(Entry) /\ mem.index \in Seq(Labels)
  BY BatchType, MemoryHas
<1> HIDE DEF no
<1>4. /\ rec.no = no /\ Carries(rec.samples, es, mem.index, no)
      /\ \A k \in DOMAIN rec.series :
            rec.series[k].id \in DOMAIN mem.index
            /\ mem.index[rec.series[k].id] = rec.series[k].labels
      /\ \A l \in Range(NewLabels(es)) :
            \E k \in DOMAIN rec.series : rec.series[k].labels = l
  BY <1>3, RecordMeans, SMTT(20)
<1>5. Used(es) \subseteq logged \cup Range(NewLabels(es))
  BY <1>3, NewLabelsAll
<1> HIDE DEF rec, new
<1>6. Means(rec, new, mem.index)
  BY <1>2, <1>4 DEF Means
<1>7. \A r \in recs : Means(r, h, idx) /\ Means(r, new, mem.index)
  BY MeansMore DEF Meant, new
<1>8. ASSUME NEW l \in logged \cup Used(es)
      PROVE  \E d \in recs \cup {rec} : u < d.no /\ d.no <= no
                /\ \E k \in DOMAIN d.series : d.series[k].labels = l
  <2>1. CASE l \in logged
    <3>1. PICK d \in recs : u < d.no /\ \E k \in DOMAIN d.series : d.series[k].labels = l
      BY <2>1 DEF Declares
    <3>2. d.no \in DOMAIN h
      BY <1>7 DEF Means
    <3> QED BY <1>1, <3>1, <3>2
  <2>2. CASE l \in Range(NewLabels(es))
    <3>1. \E k \in DOMAIN rec.series : rec.series[k].labels = l
      BY <1>4, <2>2
    <3> QED BY <1>1, <1>4, <3>1
  <2> QED BY <1>5, <2>1, <2>2
<1>9. ASSUME NEW l \in logged \cup Used(es) PROVE Declares(recs \cup {rec}, u, l)
  BY <1>8 DEF Declares
<1>10. ASSUME NEW i \in DOMAIN rec.samples
       PROVE  \E d \in recs \cup {rec} : u < d.no /\ d.no <= no
                                          /\ Defines(d, rec.samples[i].id)
  <2> DEFINE l == es[i].labels
  <2> DEFINE id == rec.samples[i].id
  <2>1. i \in DOMAIN es /\ id \in DOMAIN mem.index /\ mem.index[id] = l
    BY <1>4 DEF Carries
  <2>2. l \in Used(es)
    BY <2>1 DEF Used
  <2> HIDE DEF l, id
  <2>3. PICK d \in recs \cup {rec} : /\ u < d.no /\ d.no <= no
           /\ \E k \in DOMAIN d.series : d.series[k].labels = l
    BY <1>8, <2>2
  <2>4. PICK k \in DOMAIN d.series : d.series[k].labels = l
    BY <2>3
  <2>5. Means(d, new, mem.index)
    BY <1>6, <1>7
  <2>6. d.series[k].id \in DOMAIN mem.index /\ mem.index[d.series[k].id] = l
    BY <2>4, <2>5 DEF Means
  <2>7. d.series[k].id = id
    BY <2>1, <2>6 DEF Indexed
  <2>8. Defines(d, id)
    BY <2>7 DEF Defines
  <2> QED BY <2>3, <2>8 DEF id
<1>11. Meant(recs \cup {rec}, u, new, mem.index)
  <2>1. \A r \in recs \cup {rec} : Means(r, new, mem.index)
    BY <1>6, <1>7
  <2>2. ASSUME NEW r \in recs \cup {rec}, r.no > u, NEW i \in DOMAIN r.samples
        PROVE  \E d \in recs \cup {rec} :
                  u < d.no /\ d.no <= r.no /\ Defines(d, r.samples[i].id)
    <3>1. CASE r \in recs
      BY <2>2, <3>1 DEF Meant
    <3>2. CASE r = rec
      BY <1>4, <1>10, <3>2
    <3> QED BY <3>1, <3>2
  <2> QED BY <1>3, <2>1, <2>2 DEF Meant
<1> QED BY <1>9, <1>11 DEF rec, new, no

LEMMA WriteView == ASSUME NEW b \in Batches, SafeInv, ViewInv, Write(b) PROVE ViewInv'
<1> DEFINE k == Len(hist)
<1> DEFINE es == Entries(b)
<1> DEFINE mem == EncodeAll(m, es)
<1> DEFINE rec == Record(mem, es, k + 1)
<1> DEFINE v == Promise!Answer(hist)
<1> DEFINE u == Upto(segs)
<1> DEFINE log == InLog(wal, walBuf)
<1>1. /\ walBuf' = Append(walBuf, rec)
      /\ logged' = logged \cup Used(es)
      /\ m' = AppendAll(mem, rec)
      /\ hist' = Append(hist, b) /\ by' = "write" /\ pc' \in {"cut", "idle"}
      /\ pc = "idle" /\ ~failed /\ es # <<>>
      /\ UNCHANGED <<segs, wal, failed, doomed>>
  BY DEF Write, Used, disk
<1>2. /\ k \in Nat /\ hist \in Seq(Batches) /\ walBuf \in Seq(Rec(k)) /\ m \in Memory
      /\ Len(walBuf) \in Nat /\ Shape(wal, k) /\ segs \in Seq(Seg(k))
  BY KeepTypes DEF SafeInv, Types
<1>3. es \in Seq(Entry) /\ segs \in Seq(Segment)
  BY <1>2, BatchType, SegmentsType
<1>4. LoadedFrom(segs).newest \in [Labels -> Nat] /\ Sound(m, LoadedFrom(segs).newest)
  BY <1>1, SoundNow
<1> HIDE DEF es
<1>5. /\ mem \in Memory /\ Indexed(mem) /\ Range(mem.index) = Range(m.index) \cup Used(es)
      /\ Extends(mem.index, m.index) /\ Sound(mem, LoadedFrom(segs).newest)
  BY <1>2, <1>3, <1>4, EncodeAllSound, EncodeAllMore DEF Sound
<1>6. /\ Meant(log, u, hist, m.index) /\ Shows(m, segs, hist)
      /\ \A l \in logged : Declares(log, u, l)
  BY <1>1 DEF ViewInv, IdsMean, MemoryShows, LoggedDefined
<1>7. InSequence(wal) /\ Numbered(segs, wal, walBuf, hist)
  BY DEF ViewInv, LogHolds
<1>8. /\ u \in 0 .. k - Len(walBuf) /\ u \in Nat /\ u <= k
      /\ \A i \in DOMAIN walBuf : walBuf[i].no = k - Len(walBuf) + i
  BY <1>2, <1>7 DEF Numbered
<1>9. Shows(mem, segs, hist)
  BY <1>3, <1>6, ShowsMore
<1> HIDE DEF mem, u, log
<1>10. /\ Meant(log \cup {rec}, u, hist', mem.index)
       /\ \A l \in logged \cup Used(es) : Declares(log \cup {rec}, u, l)
  <2>1. Used(es) \subseteq Range(mem.index) /\ es = Entries(b)
    BY <1>5 DEF es
  <2> QED BY <1>1, <1>2, <1>5, <1>6, <1>8, <2>1, WriteMeant
<1>11. rec \in LogRecord /\ rec.samples \in Seq(Known(mem)) /\ rec.no = k + 1
  BY <1>2, <1>3, <1>5, RecordType, SMTT(30)
<1>12. Carries(rec.samples, es, mem.index, k + 1)
  BY <1>3, <1>5, RecordMeans
<1> HIDE DEF rec
<1>13. m'.index = mem.index
  BY <1>1, <1>4, <1>5, <1>11, AppendAllSound
<1>14. /\ Len(hist') = k + 1 /\ Len(walBuf') = Len(walBuf) + 1 /\ hist' \in Seq(Batches)
       /\ DOMAIN walBuf' = 1 .. Len(walBuf) + 1 /\ DOMAIN walBuf = 1 .. Len(walBuf)
       /\ \A i \in 1 .. Len(walBuf) : walBuf'[i] = walBuf[i]
       /\ walBuf'[Len(walBuf) + 1] = rec
  BY <1>1, <1>2
<1>15. InLog(wal', walBuf') = log \cup {rec}
  <2>1. \A i \in DOMAIN walBuf' : i \in DOMAIN walBuf \/ i = Len(walBuf) + 1
    BY <1>2, <1>14, SMTT(30)
  <2>2. \A i \in DOMAIN walBuf : i \in DOMAIN walBuf' /\ walBuf'[i] = walBuf[i]
    BY <1>2, <1>14
  <2>3. Len(walBuf) + 1 \in DOMAIN walBuf'
    BY <1>2, <1>14
  <2> DEFINE z == Len(walBuf) + 1
  <2>4. {walBuf'[i] : i \in DOMAIN walBuf'} = {walBuf[i] : i \in DOMAIN walBuf} \cup {rec}
    <3>1. walBuf'[z] = rec
      BY <1>14
    <3> HIDE DEF z
    <3>2. z \in DOMAIN walBuf' /\ \A i \in DOMAIN walBuf' : i \in DOMAIN walBuf \/ i = z
      BY <2>1, <2>3 DEF z
    <3> QED BY <2>2, <3>1, <3>2
  <2> QED BY <1>1, <2>4 DEF InLog, log
<1>16. LogHolds'
  <2>1. Len(hist') - Len(walBuf') = k - Len(walBuf)
    BY <1>2, <1>14
  <2>2. k - Len(walBuf) + (Len(walBuf) + 1) = k + 1
    BY <1>2
  <2>3. \A i \in DOMAIN walBuf' : walBuf'[i].no = k - Len(walBuf) + i
    <3> SUFFICES ASSUME NEW i \in 1 .. Len(walBuf) + 1
                 PROVE  walBuf'[i].no = k - Len(walBuf) + i
      BY <1>14
    <3>1. CASE i = Len(walBuf) + 1
      BY <1>11, <1>14, <2>2, <3>1
    <3>2. CASE i # Len(walBuf) + 1
      <4>1. i \in 1 .. Len(walBuf)
        BY <1>2, <3>2
      <4> QED BY <1>8, <1>14, <4>1
    <3> QED BY <3>1, <3>2
  <2>4. Numbered(segs, wal, walBuf', hist')
    BY <1>7, <2>1, <2>3 DEF Numbered
  <2> QED BY <1>1, <1>7, <2>4 DEF LogHolds
<1>17. SegmentsHold'
  <2>1. SubSeq(hist', 1, u) = SubSeq(hist, 1, u)
    BY <1>1, <1>2, <1>8
  <2>2. \A n \in DOMAIN hist' : Entries(hist'[n]) # <<>>
    <3>1. \A n \in DOMAIN hist' : (n \in DOMAIN hist /\ hist'[n] = hist[n]) \/ hist'[n] = b
      BY <1>1, <1>2
    <3>2. Entries(b) # <<>>
      BY <1>1 DEF es
    <3> QED BY <3>1, <3>2 DEF ViewInv, SegmentsHold
  <2>3. Listed(segs) /\ Stored(segs) = Promise!Answer(SubSeq(hist, 1, u))
    BY DEF ViewInv, SegmentsHold, u
  <2> QED BY <1>1, <2>1, <2>2, <2>3 DEF SegmentsHold, u
<1>18. IdsMean'
  BY <1>1, <1>10, <1>13, <1>15 DEF IdsMean, u
<1>19. MemoryShows'
  <2>1. Tracks(mem, Stored(segs), v)
    BY <1>9 DEF Shows
  <2>2. Tracks(AppendAll(mem, rec), Stored(segs), After(v, es, k + 1))
    <3>1. k + 1 \in Nat
      BY <1>2
    <3> HIDE DEF v
    <3> QED BY <1>3, <1>11, <1>12, <2>1, <3>1, AppendAllTracks
  <2>3. After(v, es, k + 1) = Promise!Answer(hist')
    <3>1. v \in [Labels -> Seq(Sample)] /\ b \in Seq(Entry) /\ k + 1 \in Nat
      BY <1>2, AnswerType, BatchIs
    <3>2. Promise!Answer(hist') = After(v, b, k + 1)
      BY <1>1, <1>2, AnswerMore
    <3> HIDE DEF v
    <3>3. After(v, es, k + 1) = After(v, b, k + 1)
      BY <3>1, AfterEntries DEF es
    <3> QED BY <3>2, <3>3
  <2>4. \A l \in Labels : Stored(segs)[l] # <<>> => l \in Range(m'.index)
    BY <1>9, <1>13 DEF Shows
  <2> QED BY <1>1, <2>2, <2>3, <2>4 DEF MemoryShows, Shows
<1>20. LoggedDefined'
  BY <1>1, <1>10, <1>15 DEF LoggedDefined, u
<1>21. FilesFollow'
  <2>1. FilesFollow
    BY DEF ViewInv
  <2> QED BY <1>1, <2>1 DEF FilesFollow, SyncedBefore
<1> QED BY <1>16, <1>17, <1>18, <1>19, <1>20, <1>21 DEF ViewInv

-----------------------------------------------------------------------------
(* Stops. *)

\* The batch that the history of a stop ends with is the last in the files.
LEMMA SurvivorsLast ==
    ASSUME NEW k \in Nat, NEW sg \in Seq(Seg(k)), NEW w, Shape(w, k)
    PROVE  LET n == Survivors(sg, w) IN
           /\ n \in 0 .. k
           /\ \A i \in DOMAIN sg : sg[i].upto <= n
           /\ \A r \in Filed(w) : r \in LogRecord /\ r.no \in Nat /\ r.no <= n
           /\ n = 0 \/ (\E i \in DOMAIN sg : sg[i].upto = n) \/ \E r \in Filed(w) : r.no = n
<1> DEFINE nos == Nos(sg, w)
<1> DEFINE n == Survivors(sg, w)
<1>1. n \in 0 .. k /\ sg \in Seq(Seg(n)) /\ Shape(w, n)
  BY SurvivorsIs
<1>2. n = CHOOSE x \in nos \cup {0} : \A j \in nos : j <= x
  BY DEF Survivors, Nos
<1> HIDE DEF n
<1>3. \A i \in DOMAIN sg : sg[i].upto \in Nat /\ sg[i].upto <= n
  BY <1>1 DEF Seg, Segment
<1>4. ASSUME NEW f \in DOMAIN w, NEW i \in DOMAIN w[f].recs
      PROVE  w[f].recs[i] \in LogRecord /\ w[f].recs[i].no \in Nat /\ w[f].recs[i].no <= n
  <2>1. w[f].recs \in Seq(Rec(n))
    BY <1>1 DEF Shape, LogFile
  <2>2. w[f].recs[i] \in LogRecord /\ w[f].recs[i].no <= n
    BY <2>1 DEF Rec
  <2> QED BY <2>2 DEF LogRecord
<1>5. \A x \in nos : x \in 0 .. n
  BY <1>1, <1>3, <1>4 DEF Nos
<1>6. \A x \in nos : (\E i \in DOMAIN sg : sg[i].upto = x) \/ \E r \in Filed(w) : r.no = x
  BY DEF Nos, Filed
<1>7. n \in nos \cup {0}
  <2> HIDE DEF nos
  <2>1. nos \cup {0} \subseteq 0 .. k
    BY <1>1, <1>5
  <2>2. \E x \in nos \cup {0} : \A j \in nos \cup {0} : j <= x
    BY <2>1, Greatest
  <2> QED BY <1>2, <2>2, Zenon
<1>8. \A r \in Filed(w) : r \in LogRecord /\ r.no \in Nat /\ r.no <= n
  BY <1>4 DEF Filed
<1>9. n = 0 \/ (\E i \in DOMAIN sg : sg[i].upto = n) \/ \E r \in Filed(w) : r.no = n
  <2> HIDE DEF nos
  <2> QED BY <1>6, <1>7
<1> QED BY <1>1, <1>3, <1>8, <1>9 DEF n

\* Records of a shorter history mean what they did.
LEMMA MeantLess ==
    ASSUME NEW recs, NEW less \in SUBSET recs, NEW u \in Nat, NEW h \in Seq(Batches),
           NEW n \in 0 .. Len(h), NEW idx, Meant(recs, u, h, idx),
           \A r \in recs : r.no \in Nat, \A r \in less : r.no <= n,
           \A s \in recs, r \in less : s.no <= r.no => s \in less
    PROVE  Meant(less, u, SubSeq(h, 1, n), idx)
<1> DEFINE past == SubSeq(h, 1, n)
<1>1. DOMAIN past = 1 .. n /\ (\A i \in 1 .. n : past[i] = h[i]) /\ DOMAIN h = 1 .. Len(h)
  OBVIOUS
<1> HIDE DEF past
<1>2. ASSUME NEW r \in less PROVE Means(r, past, idx)
  <2>1. Means(r, h, idx) /\ r.no \in Nat /\ r.no <= n
    BY DEF Meant
  <2>2. r.no \in DOMAIN past /\ past[r.no] = h[r.no]
    BY <1>1, <2>1 DEF Means
  <2> QED BY <2>1, <2>2 DEF Means
<1>3. ASSUME NEW r \in less, r.no > u, NEW i \in DOMAIN r.samples
      PROVE  \E d \in less : u < d.no /\ d.no <= r.no /\ Defines(d, r.samples[i].id)
  <2>1. PICK d \in recs : u < d.no /\ d.no <= r.no /\ Defines(d, r.samples[i].id)
    BY <1>3 DEF Meant
  <2>2. d \in less
    BY <2>1
  <2> QED BY <2>1, <2>2
<1>4. idx \in Seq(Labels)
  BY DEF Meant
<1> QED BY <1>2, <1>3, <1>4 DEF Meant, past

\* Any stop that leaves the segments and the first records of the log.
LEMMA ViewStop ==
    ASSUME SafeInv, ViewInv, SafeInv', StopWith, segs' = segs,
           InSequence(wal'), Filed(wal') \subseteq InLog(wal, walBuf),
           \A s \in InLog(wal, walBuf), r \in Filed(wal') :
              s.no <= r.no => s \in Filed(wal'),
           SyncedBefore(wal')
    PROVE  ViewInv'
<1> DEFINE n == Survivors(segs', wal')
<1> DEFINE recs == InLog(wal, walBuf)
<1> DEFINE less == Filed(wal')
<1> DEFINE u == Upto(segs)
<1> DEFINE h == SubSeq(hist, 1, n)
<1>1. /\ walBuf' = <<>> /\ logged' = {} /\ pc' = "down" /\ by' = "open"
      /\ hist' = h
  BY DEF StopWith, Stopped
<1>2. /\ Len(hist) \in Nat /\ hist \in Seq(Batches) /\ segs \in Seq(Seg(Len(hist)))
      /\ Shape(wal, Len(hist)) /\ walBuf \in Seq(Rec(Len(hist)))
  BY KeepTypes DEF SafeInv, Types
<1>0. /\ n \in Nat
      /\ \A i \in DOMAIN segs : segs[i].upto <= n
      /\ \A r \in less : r \in LogRecord /\ r.no \in Nat /\ r.no <= n
      /\ n = 0 \/ (\E i \in DOMAIN segs : segs[i].upto = n) \/ \E r \in less : r.no = n
  <2> DEFINE k == Len(hist')
  <2>1. Types'
    BY DEF SafeInv
  <2>2. k \in Nat /\ segs' \in Seq(Seg(k)) /\ Shape(wal', k)
    BY <2>1 DEF Types
  <2> HIDE DEF k
  <2>3. n \in 0 .. k
    BY <2>2, SurvivorsLast
  <2>4. n \in Nat
    BY <2>2, <2>3
  <2> QED BY <2>2, <2>4, SurvivorsLast
<1> HIDE DEF n
<1>5. Numbered(segs, wal, walBuf, hist)
  BY DEF ViewInv, LogHolds
<1> DEFINE b == Len(hist) - Len(walBuf)
<1>6. /\ u \in 0 .. b /\ \A i \in DOMAIN segs : segs[i].upto <= u
      /\ \A i \in DOMAIN walBuf : walBuf[i].no = b + i
      /\ \A r \in Filed(wal) : r.no <= b
      /\ \A k \in u + 1 .. b : \E r \in Filed(wal) : r.no = k
      /\ b \in Nat /\ Len(walBuf) \in Nat /\ Len(hist) = b + Len(walBuf)
      /\ DOMAIN walBuf = 1 .. Len(walBuf)
  <2>1. Len(walBuf) \in Nat /\ DOMAIN walBuf = 1 .. Len(walBuf)
    BY <1>2
  <2>2. u \in 0 .. b
    BY <1>5 DEF Numbered
  <2>3. b \in Nat /\ Len(hist) = b + Len(walBuf)
    BY <1>2, <2>1, <2>2
  <2> QED BY <1>5, <2>1, <2>2, <2>3 DEF Numbered
<1> HIDE DEF b
<1>3. /\ n \in 0 .. Len(hist)
      /\ \A i \in DOMAIN segs : segs[i].upto <= n
      /\ \A r \in less : r \in LogRecord /\ r.no \in Nat /\ r.no <= n
      /\ n = 0 \/ (\E i \in DOMAIN segs : segs[i].upto = n) \/ \E r \in less : r.no = n
  <2>1. \A i \in DOMAIN segs : segs[i].upto <= Len(hist)
    <3>1. \A i \in DOMAIN segs : segs[i] \in Seg(Len(hist))
      BY <1>2
    <3> QED BY <3>1 DEF Seg
  <2>2. \A r \in recs : r.no <= Len(hist)
    <3>1. \A r \in Filed(wal) : r.no \in Nat
      BY <1>2, SurvivorsLast
    <3>2. \A r \in Filed(wal) : r.no <= Len(hist)
      BY <1>6, <3>1
    <3>3. \A i \in DOMAIN walBuf : walBuf[i].no <= Len(hist)
      BY <1>6
    <3> QED BY <3>2, <3>3 DEF InLog
  <2>3. n <= Len(hist)
    <3>1. \A r \in less : r.no <= Len(hist)
      BY <2>2
    <3> HIDE DEF less
    <3> QED BY <1>2, <1>0, <2>1, <3>1
  <2> QED BY <1>2, <1>0, <2>3
<1>4. h \in Seq(Batches) /\ Len(h) = n /\ DOMAIN h = 1 .. n
      /\ \A i \in 1 .. n : h[i] = hist[i]
  BY <1>2, <1>3
<1>7. \A k \in u + 1 .. Len(hist) : \E r \in recs : r.no = k
  <2> SUFFICES ASSUME NEW k \in u + 1 .. Len(hist) PROVE \E r \in recs : r.no = k
    OBVIOUS
  <2>1. CASE k <= b
    <3>1. k \in u + 1 .. b
      BY <1>6, <2>1
    <3> QED BY <1>6, <3>1 DEF InLog
  <2>2. CASE ~(k <= b)
    <3>1. k - b \in DOMAIN walBuf /\ b + (k - b) = k
      BY <1>6, <2>2
    <3>2. walBuf[k - b].no = k
      BY <1>6, <3>1
    <3> QED BY <3>1, <3>2 DEF InLog
  <2> QED BY <2>1, <2>2
<1>8. \A r \in recs : r.no \in Nat
  <2>1. \A r \in Filed(wal) : r.no \in Nat
    BY <1>2, SurvivorsLast
  <2>2. \A i \in DOMAIN walBuf : walBuf[i].no \in Nat
    BY <1>6
  <2> QED BY <2>1, <2>2 DEF InLog
<1>9. u \in Nat /\ u <= n
  <2>1. u \in Nat
    BY <1>6
  <2>2. CASE segs = <<>>
    BY <1>3, <2>2 DEF Upto
  <2>3. CASE segs # <<>>
    <3>1. Len(segs) \in DOMAIN segs
      BY <1>2, <2>3
    <3> QED BY <1>3, <2>1, <2>3, <3>1 DEF Upto
  <2> QED BY <2>1, <2>2, <2>3
<1>10. \A k \in u + 1 .. n : \E r \in less : r.no = k
  <2> SUFFICES ASSUME NEW k \in u + 1 .. n PROVE \E r \in less : r.no = k
    OBVIOUS
  <2>1. k \in Nat /\ k <= n /\ u < k /\ k \in u + 1 .. Len(hist) /\ n \in Nat
    BY <1>3, <1>9
  <2>2. PICK r \in less : r.no = n
    <3>1. n # 0 /\ ~\E i \in DOMAIN segs : segs[i].upto = n
      <4>1. \A i \in DOMAIN segs : segs[i].upto \in Nat
        BY <1>2 DEF Seg, Segment
      <4> QED BY <1>6, <1>9, <2>1, <4>1
    <3> QED BY <1>3, <3>1
  <2>3. PICK s \in recs : s.no = k
    BY <1>7, <2>1
  <2>4. s.no <= r.no
    BY <2>1, <2>2, <2>3
  <2>5. s \in less
    BY <2>4
  <2> QED BY <2>3, <2>5
<1>11. InLog(wal', walBuf') = less
  BY <1>1 DEF InLog
<1>12. Numbered(segs', wal', walBuf', hist')
  <2>1. walBuf' = <<>> /\ Len(walBuf') = 0 /\ DOMAIN walBuf' = {} /\ Len(hist') - 0 = n
    BY <1>1, <1>3, <1>4
  <2>2. u \in 0 .. n
    BY <1>3, <1>9
  <2> HIDE DEF less, h
  <2> QED BY <1>3, <1>6, <1>10, <2>1, <2>2 DEF Numbered, less
<1>13. LogHolds'
  BY <1>12 DEF LogHolds
<1>14. SegmentsHold'
  <2>1. SegmentsHold
    BY DEF ViewInv
  <2>2. SubSeq(h, 1, u) = SubSeq(hist, 1, u)
    <3> HIDE DEF u
    <3> QED BY <1>2, <1>3, <1>9
  <2>3. Stored(segs') = Promise!Answer(SubSeq(hist', 1, Upto(segs')))
    BY <1>1, <2>1, <2>2 DEF SegmentsHold
  <2>4. \A i \in DOMAIN hist' : Entries(hist'[i]) # <<>>
    <3>1. \A i \in 1 .. n : i \in DOMAIN hist
      BY <1>2, <1>3
    <3> QED BY <1>1, <1>4, <2>1, <3>1 DEF SegmentsHold
  <2> QED BY <2>1, <2>3, <2>4 DEF SegmentsHold
<1>15. IdsMean'
  <2>1. PICK idx : Meant(recs, u, hist, idx)
    BY DEF ViewInv, IdsMean
  <2>2. Meant(less, u, h, idx)
    <3> HIDE DEF recs, less, u
    <3>1. less \in SUBSET recs
      BY DEF recs, less
    <3>2. \A r \in less : r.no <= n
      BY <1>3
    <3>3. \A s \in recs, r \in less : s.no <= r.no => s \in less
      BY DEF recs, less
    <3>4. u \in Nat
      BY <1>9
    <3> QED BY <1>2, <1>3, <1>8, <2>1, <3>1, <3>2, <3>3, <3>4, MeantLess
  <2>3. Meant(InLog(wal', walBuf'), Upto(segs'), hist', idx)
    BY <1>1, <1>11, <2>2
  <2> QED BY <1>1, <2>3 DEF IdsMean
<1>16. MemoryShows' /\ LoggedDefined' /\ FilesFollow'
  BY <1>1 DEF MemoryShows, LoggedDefined, FilesFollow
<1> QED BY <1>13, <1>14, <1>15, <1>16 DEF ViewInv

\* Files that are all the records of the log, or those before the buffer.
LEMMA FiledFirst ==
    ASSUME SafeInv, ViewInv,
           NEW s \in InLog(wal, walBuf), NEW r \in Filed(wal), s.no <= r.no
    PROVE  s \in Filed(wal)
<1> DEFINE b == Len(hist) - Len(walBuf)
<1>1. Numbered(segs, wal, walBuf, hist)
  BY DEF ViewInv, LogHolds
<1>2. Len(hist) \in Nat /\ walBuf \in Seq(Rec(Len(hist))) /\ Shape(wal, Len(hist))
  BY KeepTypes
<1>3. r.no <= b /\ r.no \in Nat
  <2>1. r.no <= b
    BY <1>1 DEF Numbered
  <2>2. r.no \in Nat
    BY <1>2, SurvivorsLast, KeepTypes
  <2> QED BY <2>1, <2>2
<1>4. b \in Int /\ DOMAIN walBuf = 1 .. Len(walBuf) /\ \A i \in DOMAIN walBuf : walBuf[i].no = b + i
  BY <1>1, <1>2 DEF Numbered
<1> HIDE DEF b
<1>5. ASSUME NEW i \in DOMAIN walBuf, s = walBuf[i] PROVE FALSE
  BY <1>3, <1>4, <1>5
<1> QED BY <1>5 DEF InLog

\* A file that is not the last is synced while the log is written.
LEMMA LooseLast ==
    ASSUME ViewInv, by # "open" \/ pc = "idle", NEW f \in DOMAIN wal, NEW g \in DOMAIN wal,
           f < g
    PROVE  ~(wal[f].synced < Len(wal[f].recs))
BY DEF ViewInv, FilesFollow

LEMMA DropView == SafeInv /\ SafeInv' /\ ViewInv /\ Drop => ViewInv'
<1> SUFFICES ASSUME SafeInv, SafeInv', ViewInv, Drop PROVE ViewInv'
  OBVIOUS
<1> DEFINE n == Len(walBuf)
<1> DEFINE v == Drained(n)
<1> DEFINE buf == SubSeq(walBuf, n + 1, Len(walBuf))
<1>1. Up /\ pc = "idle" /\ wal' = Synced(v) /\ segs' = segs /\ StopWith
  BY DEF Drop, Up
<1>2. /\ Len(hist) \in Nat /\ walBuf \in Seq(Rec(Len(hist))) /\ Shape(wal, Len(hist))
      /\ n \in 0 .. Len(walBuf) /\ buf = <<>> /\ n \in Nat
      /\ \A i \in DOMAIN walBuf : i \in 1 .. n
  BY KeepTypes
<1>3. /\ LastFile \in DOMAIN wal /\ \A g \in DOMAIN wal : g <= LastFile
  BY <1>1, UpLast DEF SafeInv
<1>4. InSequence(wal) /\ Numbered(segs, wal, walBuf, hist)
  BY DEF ViewInv, LogHolds
<1> HIDE DEF n, buf
<1>5. /\ InSequence(v) /\ InLog(v, buf) = InLog(wal, walBuf) /\ DOMAIN v = DOMAIN wal
  BY <1>2, <1>3, <1>4, DrainedFiled DEF buf
<1>6. Shape(v, Len(hist))
  BY <1>2, <1>3, DrainedShape
<1>7. \A f, g \in DOMAIN v : f < g => ~(v[f].synced < Len(v[f].recs))
  BY <1>1, <1>2, <1>3, WriteFollows, LooseLast
<1> HIDE DEF v
<1>8. SameRecs(wal', v)
  BY <1>1, <1>3, <1>5, <1>6, SyncedSame
<1>9. InSequence(wal') /\ Filed(wal') = InLog(wal, walBuf)
  <2>1. InSequence(wal') /\ Filed(wal') = Filed(v)
    BY <1>5, <1>8, SameFiled
  <2>2. InLog(v, <<>>) = Filed(v)
    BY DEF InLog
  <2> QED BY <1>2, <1>5, <2>1, <2>2
<1>10. SyncedBefore(wal')
  <2>1. /\ DOMAIN wal' = DOMAIN v
        /\ \A f \in DOMAIN v : f # LastFile => wal'[f] = v[f]
    BY <1>1, <1>3, <1>5, <1>6, SyncedIs
  <2>2. ASSUME NEW f \in DOMAIN wal', NEW g \in DOMAIN wal', f < g
        PROVE  wal'[f] = v[f]
    <3>1. f \in Nat /\ g \in Nat /\ LastFile \in Nat /\ g <= LastFile
      BY <1>2, <1>3, <1>5, <2>1 DEF Shape
    <3> QED BY <2>1, <2>2, <3>1
  <2> QED BY <1>7, <2>1, <2>2 DEF SyncedBefore
<1> QED BY <1>1, <1>9, <1>10, ViewStop

\* The log is as it was.
LEMMA SameStops ==
    ASSUME SafeInv, SafeInv', ViewInv, StopWith, segs' = segs, wal' = wal
    PROVE  ViewInv'
<1>1. InSequence(wal') /\ SyncedBefore(wal')
  BY DEF ViewInv, LogHolds, FilesFollow
<1>2. Filed(wal') \subseteq InLog(wal, walBuf)
  BY DEF InLog
<1>3. \A s \in InLog(wal, walBuf), r \in Filed(wal') : s.no <= r.no => s \in Filed(wal')
  BY FiledFirst
<1> QED BY <1>1, <1>2, <1>3, ViewStop

LEMMA KillView == SafeInv /\ SafeInv' /\ ViewInv /\ Kill => ViewInv'
<1> SUFFICES ASSUME SafeInv, SafeInv', ViewInv, Kill PROVE ViewInv'
  OBVIOUS
<1>1. pc \notin {"down", "refused"} /\ segs' = segs /\ StopWith
  BY DEF Kill
<1>2. /\ Shape(wal, Len(hist)) /\ walBuf \in Seq(Rec(Len(hist)))
      /\ Len(walBuf) \in Nat /\ Len(hist) \in Nat
  BY KeepTypes
<1>3. PICK n \in 0 .. Len(walBuf), cut \in BOOLEAN :
         wal' = IF walBuf = <<>> THEN wal
                ELSE [Drained(n) EXCEPT ![LastFile].torn = cut]
  BY DEF Kill
<1>4. CASE walBuf = <<>>
  <2>1. wal' = wal
    BY <1>3, <1>4
  <2> QED BY <1>1, <2>1, SameStops
<1>5. CASE walBuf # <<>>
  <2>1. Up /\ (by # "open" \/ pc = "idle")
    BY <1>1, <1>5 DEF SafeInv, Places, Up, ViewInv, FilesFollow
  <2>2. LastFile \in DOMAIN wal /\ \A g \in DOMAIN wal : g <= LastFile
    BY <2>1, UpLast DEF SafeInv
  <2> DEFINE v == Drained(n)
  <2> DEFINE buf == SubSeq(walBuf, n + 1, Len(walBuf))
  <2>3. InSequence(wal) /\ Numbered(segs, wal, walBuf, hist)
    BY DEF ViewInv, LogHolds
  <2>4. /\ InSequence(v) /\ Filed(v) = Filed(wal) \cup {walBuf[i] : i \in 1 .. n}
        /\ DOMAIN v = DOMAIN wal
    BY <1>2, <2>2, <2>3, DrainedFiled
  <2>5. Shape(v, Len(hist))
    BY <1>2, <2>2, DrainedShape
  <2>6. \A f, g \in DOMAIN v : f < g => ~(v[f].synced < Len(v[f].recs))
    BY <1>2, <2>1, <2>2, WriteFollows, LooseLast
  <2>7. wal' = [v EXCEPT ![LastFile].torn = cut]
    BY <1>3, <1>5
  <2> HIDE DEF v
  <2>8. /\ DOMAIN wal' = DOMAIN v
        /\ \A f \in DOMAIN wal' : wal'[f].recs = v[f].recs /\ wal'[f].synced = v[f].synced
    <3> DEFINE old == v[LastFile]
    <3> DEFINE new == [old EXCEPT !.torn = cut]
    <3>1. old \in LogFile(Len(hist))
      BY <2>2, <2>4, <2>5 DEF Shape
    <3>2. wal' = [v EXCEPT ![LastFile] = new]
      BY <2>7
    <3> HIDE DEF old
    <3>3. new.recs = old.recs /\ new.synced = old.synced
      BY <3>1 DEF LogFile
    <3> HIDE DEF new
    <3>4. /\ DOMAIN wal' = DOMAIN v
          /\ \A f \in DOMAIN wal' : wal'[f] = IF f = LastFile THEN new ELSE v[f]
      BY <2>4, <2>5, <3>2 DEF Shape
    <3> QED BY <3>3, <3>4 DEF old
  <2>9. SameRecs(wal', v)
    BY <2>8 DEF SameRecs
  <2>10. SyncedBefore(wal')
    BY <2>6, <2>8 DEF SyncedBefore
  <2>11. InSequence(wal') /\ Filed(wal') = Filed(wal) \cup {walBuf[i] : i \in 1 .. n}
    BY <2>4, <2>9, SameFiled
  <2>12. Filed(wal') \subseteq InLog(wal, walBuf)
    <3>1. \A i \in 1 .. n : i \in DOMAIN walBuf
      BY <1>2
    <3> QED BY <2>11, <3>1 DEF InLog
  <2>13. ASSUME NEW s \in InLog(wal, walBuf), NEW r \in Filed(wal'), s.no <= r.no
         PROVE  s \in Filed(wal')
    <3>1. CASE r \in Filed(wal)
      BY <2>11, <2>13, <3>1, FiledFirst
    <3>2. CASE s \in Filed(wal)
      BY <2>11, <3>2
    <3>3. CASE r \notin Filed(wal) /\ s \notin Filed(wal)
      <4>1. PICK i \in 1 .. n : r = walBuf[i]
        BY <2>11, <2>13, <3>3
      <4>2. PICK j \in DOMAIN walBuf : s = walBuf[j]
        BY <2>13, <3>3 DEF InLog
      <4> DEFINE b == Len(hist) - Len(walBuf)
      <4>3. b \in Int
        BY <1>2
      <4>4. \A k \in DOMAIN walBuf : walBuf[k].no = b + k
        BY <2>3 DEF Numbered
      <4> HIDE DEF b
      <4>5. i \in DOMAIN walBuf /\ j \in Nat /\ j >= 1 /\ i \in Nat /\ i <= n /\ n \in Nat
        BY <1>2
      <4>6. j <= i
        BY <2>13, <4>1, <4>2, <4>3, <4>4, <4>5
      <4>7. j \in 1 .. n
        BY <4>5, <4>6
      <4> QED BY <2>11, <4>2, <4>7
    <3> QED BY <3>1, <3>2, <3>3
  <2> QED BY <1>1, <2>10, <2>11, <2>12, <2>13, ViewStop
<1> QED BY <1>4, <1>5

\* A loss of power takes the ends of unsynced files.
LEMMA EndsLost ==
    ASSUME SafeInv, ViewInv, NEW w, DOMAIN w = DOMAIN wal,
           \A f \in DOMAIN wal :
              \/ w[f].recs = wal[f].recs
              \/ \E c \in wal[f].synced .. Len(wal[f].recs) : w[f].recs = SubSeq(wal[f].recs, 1, c)
    PROVE  /\ InSequence(w) /\ Filed(w) \subseteq Filed(wal)
           /\ \A s \in InLog(wal, walBuf), r \in Filed(w) : s.no <= r.no => s \in Filed(w)
<1>1. Shape(wal, Len(hist)) /\ InSequence(wal) /\ SyncedBefore(wal) /\ Len(hist) \in Nat
  BY KeepTypes DEF ViewInv, LogHolds, FilesFollow
<1>2. ASSUME NEW f \in DOMAIN wal
      PROVE  \E c \in wal[f].synced .. Len(wal[f].recs) :
                /\ w[f].recs = SubSeq(wal[f].recs, 1, c)
                /\ DOMAIN w[f].recs = 1 .. c /\ \A i \in 1 .. c : w[f].recs[i] = wal[f].recs[i]
                /\ c \in Nat
  <2> DEFINE q == wal[f].recs
  <2>1. q \in Seq(Rec(Len(hist))) /\ wal[f].synced \in Nat /\ wal[f].synced <= Len(q)
    BY <1>1 DEF Shape, LogFile
  <2>2. PICK c \in wal[f].synced .. Len(q) : w[f].recs = SubSeq(q, 1, c)
    <3>1. q = SubSeq(q, 1, Len(q)) /\ Len(q) \in wal[f].synced .. Len(q)
      <4> HIDE DEF q
      <4> QED BY <2>1
    <3> QED BY <3>1
  <2> HIDE DEF q
  <2>3. c \in 0 .. Len(q)
    BY <2>1, <2>2
  <2>4. DOMAIN SubSeq(q, 1, c) = 1 .. c /\ \A i \in 1 .. c : SubSeq(q, 1, c)[i] = q[i]
    BY <2>1, <2>3
  <2>5. c \in Nat
    BY <2>3
  <2>6. \E x \in wal[f].synced .. Len(q) :
           /\ w[f].recs = SubSeq(q, 1, x)
           /\ DOMAIN w[f].recs = 1 .. x /\ \A i \in 1 .. x : w[f].recs[i] = q[i]
           /\ x \in Nat
    BY <2>2, <2>4, <2>5
  <2> QED BY <2>6, Zenon DEF q
<1>3. \A f \in DOMAIN wal : DOMAIN w[f].recs \subseteq DOMAIN wal[f].recs
        /\ \A i \in DOMAIN w[f].recs : w[f].recs[i] = wal[f].recs[i]
  <2> SUFFICES ASSUME NEW f \in DOMAIN wal
               PROVE  DOMAIN w[f].recs \subseteq DOMAIN wal[f].recs
                      /\ \A i \in DOMAIN w[f].recs : w[f].recs[i] = wal[f].recs[i]
    OBVIOUS
  <2>1. wal[f].recs \in Seq(Rec(Len(hist))) /\ wal[f].synced \in Nat
    BY <1>1 DEF Shape, LogFile
  <2>2. PICK c \in wal[f].synced .. Len(wal[f].recs) :
                /\ w[f].recs = SubSeq(wal[f].recs, 1, c)
                /\ DOMAIN w[f].recs = 1 .. c /\ \A i \in 1 .. c : w[f].recs[i] = wal[f].recs[i]
                /\ c \in Nat
    BY <1>2
  <2>3. DOMAIN wal[f].recs = 1 .. Len(wal[f].recs) /\ Len(wal[f].recs) \in Nat
    BY <2>1
  <2>4. 1 .. c \subseteq 1 .. Len(wal[f].recs)
    BY <2>1, <2>2, <2>3
  <2> QED BY <2>2, <2>3, <2>4
<1>4. InSequence(w)
  <2>1. \A f \in DOMAIN w : Ascending(w[f].recs)
    <3> SUFFICES ASSUME NEW f \in DOMAIN w, NEW i \in DOMAIN w[f].recs,
                        NEW j \in DOMAIN w[f].recs, i < j
                 PROVE  w[f].recs[i].no < w[f].recs[j].no
      BY DEF Ascending
    <3>1. /\ f \in DOMAIN wal /\ i \in DOMAIN wal[f].recs /\ j \in DOMAIN wal[f].recs
          /\ w[f].recs[i] = wal[f].recs[i] /\ w[f].recs[j] = wal[f].recs[j]
      BY <1>3
    <3> QED BY <1>1, <3>1 DEF InSequence, Ascending
  <2>2. ASSUME NEW f \in DOMAIN w, NEW g \in DOMAIN w, f < g,
               NEW i \in DOMAIN w[f].recs, NEW j \in DOMAIN w[g].recs
        PROVE  w[f].recs[i].no < w[g].recs[j].no
    <3>1. /\ f \in DOMAIN wal /\ i \in DOMAIN wal[f].recs
          /\ g \in DOMAIN wal /\ j \in DOMAIN wal[g].recs
          /\ w[f].recs[i] = wal[f].recs[i] /\ w[g].recs[j] = wal[g].recs[j]
      BY <1>3
    <3> QED BY <1>1, <2>2, <3>1 DEF InSequence
  <2> QED BY <2>1, <2>2 DEF InSequence
<1>5. Filed(w) \subseteq Filed(wal)
  BY <1>3 DEF Filed
<1>6. ASSUME NEW s \in InLog(wal, walBuf), NEW r \in Filed(w), s.no <= r.no
      PROVE  s \in Filed(w)
  <2>1. s \in Filed(wal) /\ r \in Filed(wal)
    BY <1>5, <1>6, FiledFirst
  <2>2. PICK f \in DOMAIN wal : \E i \in DOMAIN wal[f].recs : s = wal[f].recs[i]
    BY <2>1 DEF Filed
  <2>3. PICK i \in DOMAIN wal[f].recs : s = wal[f].recs[i]
    BY <2>2
  <2>4. PICK g \in DOMAIN wal : \E j \in DOMAIN w[g].recs : r = w[g].recs[j]
    BY DEF Filed
  <2>5. PICK j \in DOMAIN w[g].recs : r = w[g].recs[j]
    BY <2>4
  <2>6. j \in DOMAIN wal[g].recs /\ r = wal[g].recs[j]
    BY <1>3, <2>5
  <2>7. s.no \in Nat /\ r.no \in Nat
    BY <1>1, <2>1, SurvivorsLast, KeepTypes
  <2>8. f \in Nat /\ g \in Nat
    BY <1>1 DEF Shape
  <2>9. wal[f].recs \in Seq(Rec(Len(hist))) /\ wal[f].synced \in Nat
        /\ wal[f].synced <= Len(wal[f].recs)
    BY <1>1 DEF Shape, LogFile
  <2>10. PICK c \in wal[f].synced .. Len(wal[f].recs) :
                /\ DOMAIN w[f].recs = 1 .. c /\ \A k \in 1 .. c : w[f].recs[k] = wal[f].recs[k]
                /\ c \in Nat
    BY <1>2
  <2>11. i \in 1 .. c
    <3>1. CASE f < g
      <4>1. wal[g].recs # <<>>
        BY <2>6
      <4>2. ~(wal[f].synced < Len(wal[f].recs))
        BY <1>1, <3>1, <4>1 DEF SyncedBefore
      <4>3. Len(wal[f].recs) \in Nat /\ DOMAIN wal[f].recs = 1 .. Len(wal[f].recs)
        BY <2>9
      <4> QED BY <2>3, <2>9, <2>10, <4>2, <4>3
    <3>2. CASE f = g
      <4>1. ~(j < i)
        <5>1. j < i => r.no < s.no
          BY <1>1, <2>3, <2>6, <3>2 DEF InSequence, Ascending
        <5> QED BY <1>6, <2>7, <5>1
      <4>2. i \in Nat /\ i >= 1 /\ j \in Nat
        BY <2>3, <2>6, <2>9, <3>2
      <4>3. j \in 1 .. c
        BY <2>5, <2>10, <3>2
      <4> QED BY <2>10, <4>1, <4>2, <4>3
    <3>3. CASE g < f
      <4>1. r.no < s.no
        BY <1>1, <2>3, <2>6, <3>3 DEF InSequence
      <4> QED BY <1>6, <2>7, <4>1
    <3> QED BY <2>8, <3>1, <3>2, <3>3
  <2>12. i \in DOMAIN w[f].recs /\ w[f].recs[i] = s
    BY <2>3, <2>10, <2>11
  <2> QED BY <2>12 DEF Filed
<1> QED BY <1>4, <1>5, <1>6

LEMMA LosePowerView ==
    "names" \notin PowerLoss /\ SafeInv /\ SafeInv' /\ ViewInv /\ LosePower => ViewInv'
<1> SUFFICES ASSUME "names" \notin PowerLoss, SafeInv, SafeInv', ViewInv, LosePower
             PROVE  ViewInv'
  OBVIOUS
<1>1. StopWith /\ segs' = segs
  <2>1. PICK n \in named .. Len(segs) : n = Len(segs) /\ segs' = SubSeq(segs, 1, n)
    BY DEF LosePower
  <2>2. segs \in Seq(Seg(Len(hist)))
    BY KeepTypes
  <2> QED BY <2>1, <2>2 DEF LosePower
<1>2. CASE "ends" \notin PowerLoss
  <2>1. wal' = wal
    BY <1>2 DEF LosePower
  <2> QED BY <1>1, <2>1, SameStops
<1>3. CASE "ends" \in PowerLoss
  <2>1. PICK kept \in [Loose -> 0 .. MaxBatches], damaged \in SUBSET Loose :
          /\ \A f \in Loose : kept[f] \in wal[f].synced .. Len(wal[f].recs)
          /\ wal' = [f \in FileIds |->
                       IF f \in Loose
                         THEN [recs   |-> SubSeq(wal[f].recs, 1, kept[f]),
                               synced |-> kept[f],
                               torn   |-> f \in damaged]
                         ELSE wal[f]]
    BY <1>3 DEF LosePower
  <2>2. DOMAIN wal' = DOMAIN wal
    BY <2>1 DEF FileIds
  <2>3. \A f \in DOMAIN wal : f \notin Loose => wal'[f] = wal[f]
    BY <2>1 DEF FileIds
  <2>4. \A f \in DOMAIN wal : f \in Loose =>
          wal'[f].recs = SubSeq(wal[f].recs, 1, kept[f]) /\ wal'[f].synced = kept[f]
    BY <2>1 DEF FileIds
  <2>5. \A f \in DOMAIN wal :
              \/ wal'[f].recs = wal[f].recs
              \/ \E c \in wal[f].synced .. Len(wal[f].recs) :
                    wal'[f].recs = SubSeq(wal[f].recs, 1, c)
    BY <2>1, <2>3, <2>4
  <2>6. /\ InSequence(wal') /\ Filed(wal') \subseteq Filed(wal)
        /\ \A s \in InLog(wal, walBuf), r \in Filed(wal') : s.no <= r.no => s \in Filed(wal')
    BY <2>2, <2>5, EndsLost
  <2>7. ASSUME NEW f \in DOMAIN wal PROVE ~(wal'[f].synced < Len(wal'[f].recs))
    <3>1. CASE f \notin Loose
      BY <2>3, <3>1 DEF Loose, FileIds
    <3>2. CASE f \in Loose
      <4>1. wal[f].recs \in Seq(Rec(Len(hist))) /\ wal[f].synced \in Nat
        BY KeepTypes DEF Shape, LogFile
      <4>2. kept[f] \in wal[f].synced .. Len(wal[f].recs)
        BY <2>1, <3>2
      <4> DEFINE c == kept[f]
      <4>3. wal'[f].recs = SubSeq(wal[f].recs, 1, c) /\ wal'[f].synced = c
        BY <2>4, <3>2
      <4> HIDE DEF c
      <4>4. Len(SubSeq(wal[f].recs, 1, c)) = c /\ c \in Nat
        BY <4>1, <4>2 DEF c
      <4> QED BY <4>3, <4>4
    <3> QED BY <3>1, <3>2
  <2>8. SyncedBefore(wal')
    BY <2>2, <2>7 DEF SyncedBefore
  <2>9. Filed(wal') \subseteq InLog(wal, walBuf)
    BY <2>6 DEF InLog
  <2> QED BY <1>1, <2>6, <2>8, <2>9, ViewStop
<1> QED BY <1>2, <1>3

\* While no loss of power takes directory entries the invariants are inductive.
LEMMA NextView ==
    ASSUME "names" \notin PowerLoss, SafeInv, SafeInv', ViewInv, [Next]_vars
    PROVE  ViewInv'
<1>1. CASE Open
  BY <1>1, OpenView
<1>2. CASE Refuse
  BY <1>2, RefuseView
<1>3. CASE CreateFile
  BY <1>3, CreateFileView
<1>4. ASSUME NEW b \in Batches, Write(b) PROVE ViewInv'
  BY <1>4, WriteView
<1>5. ASSUME NEW b \in Batches, WriteTooLarge(b) PROVE ViewInv'
  BY <1>5, WriteTooLargeView
<1>6. CASE Flush
  BY <1>6, FlushView
<1>7. CASE Cut
  BY <1>7, CutView
<1>8. CASE Save
  BY <1>8, SaveView
<1>9. CASE SaveDone
  BY <1>9, SaveDoneView
<1>10. CASE SaveFails
  BY <1>10, SaveFailsView
<1>11. CASE RemoveFile
  BY <1>11, RemoveFileView
<1>12. CASE RemoveDone
  BY <1>12, RemoveDoneView
<1>13. CASE RemoveFails
  BY <1>13, RemoveFailsView
<1>14. CASE LogWrite
  BY <1>14, LogWriteView
<1>15. CASE LogSync
  BY <1>15, LogSyncView
<1>16. CASE LogRotate
  BY <1>16, LogRotateView
<1>17. CASE Drop
  BY <1>17, DropView
<1>18. CASE Kill
  BY <1>18, KillView
<1>19. CASE LosePower
  BY <1>19, LosePowerView
<1>20. CASE Idle \/ UNCHANGED vars
  BY <1>20, StutterView DEF Idle
<1> QED BY <1>1, <1>2, <1>3, <1>4, <1>5, <1>6, <1>7, <1>8, <1>9, <1>10, <1>11, <1>12,
           <1>13, <1>14, <1>15, <1>16, <1>17, <1>18, <1>19, <1>20, Zenon DEF Next

\* What is seen is the segments and memory.
LEMMA ViewShown == SafeInv /\ ViewInv => ViewIsHistory
<1> SUFFICES ASSUME SafeInv, ViewInv, Answers
             PROVE  [l \in Labels |-> View(l)] = Promise!Answer(hist)
  BY DEF ViewIsHistory
<1>1. Shows(m, segs, hist)
  BY DEF ViewInv, MemoryShows, Answers
<1> DEFINE all == Promise!Answer(hist)
<1>2. /\ all \in [Labels -> Seq(Sample)]
      /\ \A l \in Labels : all[l] = Stored(segs)[l] \o m.samples[l]
  BY <1>1, Zenon DEF Shows, Tracks
<1>3. \A l \in Labels : View(l) = Stored(segs)[l] \o m.samples[l]
  BY DEF View, Stored
<1> HIDE DEF all
<1>4. all = [l \in Labels |-> all[l]]
  BY <1>2
<1> QED BY <1>2, <1>3, <1>4 DEF all

\* So they always hold.
LEMMA InvariantsAlways ==
    ASSUME "names" \notin PowerLoss
    PROVE  Spec => [](SafeInv /\ ViewInv)
<1>1. Init => SafeInv /\ ViewInv
  BY InitSafe, InitView
<1>2. SafeInv /\ ViewInv /\ [Next]_vars => SafeInv' /\ ViewInv'
  BY NextSafe, NextView
<1> QED BY <1>1, <1>2, PTL DEF Spec

\* What segments and memory hold of a series, one after the other, is what the
\* history of written batches answers, whenever a query can be answered: no
\* sample is lost, doubled or out of order through writes (Db::write), flushes
\* (DbState::flush: cut the log, save a segment, remove the old files), failures,
\* kills, drops, restarts (Db::open_with) and losses of power that take the
\* unsynced ends of files.
THEOREM ShowsHistory ==
    ASSUME "names" \notin PowerLoss
    PROVE  Spec => []ViewIsHistory
BY ViewShown, InvariantsAlways, PTL

-----------------------------------------------------------------------------
(* The abstract specification. *)

\* A step that adds no batch and takes none back, ...
LEMMA StepChange ==
    ASSUME ViewIsHistory', UNCHANGED <<hist, acked>>
    PROVE  Promise!Next
<1>1. Promise!Change
  BY Zenon DEF ViewIsHistory, Promise!Unavailable, Promise!Change
<1> QED BY <1>1 DEF Promise!Next

\* ... one that writes a batch, ...
LEMMA StepWrite ==
    ASSUME ViewIsHistory', NEW b \in Batches, hist' = Append(hist, b), acked' = acked
    PROVE  Promise!Next
<1>1. Promise!Write
  BY Zenon DEF ViewIsHistory, Promise!Unavailable, Promise!Write
<1> QED BY <1>1 DEF Promise!Next

\* ... and one that stops and leaves the first batches, the acknowledged ones in
\* any case.
LEMMA StepStop ==
    ASSUME SafeInv, SafeInv', AckedKept', Shortened, StopWith
    PROVE  Promise!Next
<1> DEFINE n == Len(hist')
<1>1. /\ Len(hist) \in Nat /\ hist \in Seq(Batches) /\ acked \in Nat
      /\ Len(walBuf) \in Nat
  BY KeepTypes
<1>2. n \in Nat /\ acked' \in Nat
  <2>1. Types'
    BY DEF SafeInv
  <2> QED BY <2>1 DEF Types
<1>3. hist' = SubSeq(hist, 1, n)
  BY <1>1 DEF Shortened
<1>4. acked <= acked'
  <2>1. Ackable \in Int
    BY <1>1 DEF Ackable
  <2>2. acked' = IF Ackable > acked THEN Ackable ELSE acked
    BY DEF StopWith
  <2> QED BY <1>1, <2>1, <2>2
<1>5. acked' <= n
  BY DEF AckedKept
<1>6. pc' = "down"
  BY DEF StopWith, Stopped
<1> HIDE DEF n
<1>7. n \in acked .. Len(hist) /\ acked' \in acked .. n
  <2>1. n <= Len(hist)
    <3>1. Len(hist') <= Len(hist)
      BY <1>1 DEF Shortened
    <3> QED BY <3>1 DEF n
  <2> QED BY <1>1, <1>2, <1>4, <1>5, <2>1
<1>8. ~Answers'
  BY <1>6 DEF Answers
<1>9. Promise!Stop
  BY <1>3, <1>7, <1>8, Zenon DEF Promise!Unavailable, Promise!Stop
<1> QED BY <1>9 DEF Promise!Next

\* Every step is one of the promise, or changes nothing it knows of.
LEMMA StepKeepsPromise ==
    ASSUME SafeInv, SafeInv', ViewIsHistory', AckedKept', [Next]_vars, PowerLoss = {}
    PROVE  [Promise!Next]_(Promise!vars)
<1>1. SUFFICES Promise!Next
  BY Zenon
<1>2. CASE \/ Open \/ Refuse \/ CreateFile \/ Flush \/ Cut \/ Save \/ SaveDone \/ SaveFails
           \/ RemoveFile \/ RemoveDone \/ RemoveFails
           \/ LogWrite \/ LogSync \/ LogRotate \/ Idle \/ UNCHANGED vars
  <2>1. UNCHANGED <<hist, acked>>
    BY <1>2, Zenon
    DEF Open, Refuse, CreateFile, Flush, Cut, Save, SaveDone, SaveFails, RemoveFile,
        RemoveDone, RemoveFails, LogWrite, LogSync, LogRotate, Idle, vars, ghosts
  <2> QED BY <2>1, StepChange
<1>3. ASSUME NEW b \in Batches, Write(b) PROVE Promise!Next
  <2>1. hist' = Append(hist, b) /\ acked' = acked
    BY <1>3 DEF Write
  <2> QED BY <2>1, StepWrite
<1>4. ASSUME NEW b \in Batches, WriteTooLarge(b) PROVE Promise!Next
  <2>1. UNCHANGED <<hist, acked>>
    BY <1>4 DEF WriteTooLarge, ghosts
  <2> QED BY <2>1, StepChange
<1>5. CASE Drop
  BY <1>5, DropSafe, StepStop DEF Drop
<1>6. CASE Kill
  BY <1>6, KillSafe, StepStop DEF Kill
<1>7. CASE LosePower
  BY <1>7 DEF LosePower
<1> QED BY <1>2, <1>3, <1>4, <1>5, <1>6, <1>7, Zenon DEF Next

\* In the beginning there is nothing.
LEMMA StartKeepsPromise == Init => Promise!Init
BY Zenon DEF Init, Promise!Init, Promise!Unavailable, Answers

\* Db implements the store of module Tsdb, a history that is queried: a stop may
\* take back the last batches, never one that was acknowledged
\* (Db::wait with Durability::Written), and whoever queries sees the history. The
\* refinement mapping answers nothing while the Db is down, opening or failed.
THEOREM KeepsPromise ==
    ASSUME Written, PowerLoss = {}
    PROVE  Spec => StoreSpec
<1>1. Spec => []SafeInv
  BY SafeDb
<1>2. Spec => []AckedKept
  BY AckedIsKept
<1>3. Spec => []ViewIsHistory
  BY ShowsHistory
<1>4. /\ SafeInv /\ ViewIsHistory /\ AckedKept
      /\ SafeInv' /\ ViewIsHistory' /\ AckedKept' /\ [Next]_vars
      => [Promise!Next]_(Promise!vars)
  BY StepKeepsPromise
<1> QED BY <1>1, <1>2, <1>3, <1>4, StartKeepsPromise, PTL DEF Spec, StoreSpec, Promise!Spec

-----------------------------------------------------------------------------
(* Queries. *)

\* One more sample, if it is in the range.
Taken(q, s, from, to) == IF s[1] >= from /\ s[1] <= to THEN Append(q, s) ELSE q

\* InRange sample by sample.
TakenOf(r, ss, from, to) ==
    /\ r \in [0 .. Len(ss) -> Seq(Sample)]
    /\ r[0] = <<>> /\ r[Len(ss)] = InRange(ss, from, to)
    /\ \A i \in 1 .. Len(ss) : r[i] = Taken(r[i - 1], ss[i], from, to)

LEMMA InRangeRun ==
    ASSUME NEW ss \in Seq(Sample), NEW from, NEW to
    PROVE  \E r : TakenOf(r, ss, from, to)
<1> DEFINE T == Seq(Sample)
<1> DEFINE F == [p \in T \X Sample |-> Taken(p[1], p[2], from, to)]
<1> DEFINE Step(g, s) ==
      IF ss[Max(s)][1] >= from /\ ss[Max(s)][1] <= to
        THEN Append(g[s \ {Max(s)}], ss[Max(s)]) ELSE g[s \ {Max(s)}]
<1> DEFINE Eq(g) == g = [s \in SUBSET DOMAIN ss |-> IF s = {} THEN <<>> ELSE Step(g, s)]
<1> DEFINE it == CHOOSE g : Eq(g)
<1>1. F \in [T \X Sample -> T]
  BY DEF Taken
<1>b. <<>> \in T
  OBVIOUS
<1>2. \A a \in T, b \in Sample : F[<<a, b>>] = Taken(a, b, from, to)
  OBVIOUS
<1> HIDE DEF F
<1>3. Foldable(T, Sample, <<>>, F, ss)
  BY <1>1, <1>b, Zenon DEF Foldable
<1>4. Eq(it)
  <2>1. PICK g : Values(g, T, Sample, <<>>, F, ss)
    BY <1>3, Iterates
  <2>2. \A s \in SUBSET DOMAIN ss : g[s] = IF s = {} THEN <<>> ELSE Step(g, s)
    BY <1>2, <2>1 DEF Values, Taken
  <2>3. Eq(g)
    BY <2>1, <2>2, Zenon DEF Values
  <2> QED BY <2>3, Zenon
<1>5. InRange(ss, from, to) = it[DOMAIN ss]
  BY Zenon DEF InRange, FoldLeft, MapThenFoldSet
<1> HIDE DEF it
<1>6. \A s \in SUBSET DOMAIN ss : it[s] = IF s = {} THEN <<>> ELSE Step(it, s)
  BY <1>4
<1>7. Iteration(it, T, Sample, <<>>, F, ss)
  BY <1>2, <1>6 DEF Iteration, Taken
<1>8. PICK r : Run(r, T, Sample, <<>>, F, ss) /\ r[Len(ss)] = it[DOMAIN ss]
  BY <1>3, <1>7, Unrolled
<1>9. ASSUME NEW i \in 1 .. Len(ss) PROVE r[i] = Taken(r[i - 1], ss[i], from, to)
  <2>1. r[i - 1] \in T /\ ss[i] \in Sample /\ r[i] = F[<<r[i - 1], ss[i]>>]
    BY <1>8 DEF Run
  <2> QED BY <1>2, <2>1, Zenon
<1>10. r \in [0 .. Len(ss) -> Seq(Sample)]
  BY <1>8 DEF Run
<1> QED BY <1>5, <1>8, <1>9, <1>10, Zenon DEF Run, TakenOf

LEMMA InRangeType ==
    ASSUME NEW ss \in Seq(Sample), NEW from, NEW to
    PROVE  InRange(ss, from, to) \in Seq(Sample)
<1>1. Len(ss) \in 0 .. Len(ss)
  OBVIOUS
<1>2. PICK r : TakenOf(r, ss, from, to)
  BY InRangeRun
<1> QED BY <1>1, <1>2 DEF TakenOf

LEMMA InRangeNone ==
    ASSUME NEW from, NEW to
    PROVE  InRange(<<>>, from, to) = <<>>
<1>1. <<>> \in Seq(Sample) /\ Len(<<>>) = 0
  OBVIOUS
<1>2. PICK r : TakenOf(r, <<>>, from, to)
  BY <1>1, InRangeRun
<1> QED BY <1>1, <1>2 DEF TakenOf

\* One more sample.
LEMMA InRangeMore ==
    ASSUME NEW a \in Seq(Sample), NEW s \in Sample, NEW from, NEW to
    PROVE  InRange(Append(a, s), from, to) = Taken(InRange(a, from, to), s, from, to)
<1> DEFINE b == Append(a, s)
<1> DEFINE n == Len(a)
<1>1. /\ n \in Nat /\ b \in Seq(Sample) /\ Len(b) = n + 1
      /\ b[n + 1] = s /\ \A i \in 1 .. n : b[i] = a[i]
  OBVIOUS
<1> HIDE DEF b
<1>p. PICK r : TakenOf(r, a, from, to)
  BY InRangeRun
<1>q. PICK t : TakenOf(t, b, from, to)
  BY <1>1, InRangeRun
<1>2. /\ r[0] = <<>> /\ r[n] = InRange(a, from, to)
      /\ \A i \in 1 .. n : r[i] = Taken(r[i - 1], a[i], from, to)
  BY <1>p, Zenon DEF TakenOf
<1>3. /\ t[0] = <<>> /\ t[Len(b)] = InRange(b, from, to)
      /\ \A i \in 1 .. Len(b) : t[i] = Taken(t[i - 1], b[i], from, to)
  BY <1>q, Zenon DEF TakenOf
<1> HIDE DEF n
<1> DEFINE G == {i \in 0 .. n : t[i] = r[i]}
<1>4. 0 \in G
  BY <1>1, <1>2, <1>3
<1>5. ASSUME NEW i \in 1 .. n, i - 1 \in G PROVE i \in G
  <2>1. t[i - 1] = r[i - 1] /\ i \in 1 .. Len(b) /\ i \in 0 .. n
    BY <1>1, <1>5
  <2>2. t[i] = Taken(t[i - 1], b[i], from, to) /\ r[i] = Taken(r[i - 1], a[i], from, to)
    BY <1>2, <1>3, <2>1
  <2>3. b[i] = a[i]
    BY <1>1
  <2>4. t[i] = r[i]
    BY <2>1, <2>2, <2>3, Zenon
  <2> QED BY <2>1, <2>4
<1> HIDE DEF G
<1>6. n \in G
  BY <1>1, <1>4, <1>5, UpTo
<1>7. t[n] = InRange(a, from, to)
  BY <1>2, <1>6 DEF G
<1>8. t[n + 1] = Taken(t[n + 1 - 1], b[n + 1], from, to)
  BY <1>1, <1>3
<1>9. n + 1 - 1 = n
  BY <1>1
<1>10. InRange(b, from, to) = Taken(InRange(a, from, to), s, from, to)
  BY <1>1, <1>3, <1>7, <1>8, <1>9, Zenon
<1> QED BY <1>10 DEF b

\* One sequence of samples after another.
LEMMA InRangeJoin ==
    ASSUME NEW a \in Seq(Sample), NEW b \in Seq(Sample), NEW from, NEW to
    PROVE  InRange(a \o b, from, to) = InRange(a, from, to) \o InRange(b, from, to)
<1> DEFINE R(ss) == InRange(ss, from, to)
<1> DEFINE G == {i \in 0 .. Len(b) : R(a \o SubSeq(b, 1, i)) = R(a) \o R(SubSeq(b, 1, i))}
<1>1. Len(b) \in Nat /\ \A ss \in Seq(Sample) : R(ss) \in Seq(Sample)
  BY InRangeType
<1>0. \A ss \in Seq(Sample), s \in Sample : R(Append(ss, s)) = Taken(R(ss), s, from, to)
  BY InRangeMore
<1>n. R(<<>>) = <<>>
  BY InRangeNone
<1> HIDE DEF R
<1>2. 0 \in G
  <2>1. SubSeq(b, 1, 0) = <<>>
    OBVIOUS
  <2>2. a \o <<>> = a /\ R(a) \o <<>> = R(a)
    BY <1>1, JoinNone
  <2>4. 0 \in 0 .. Len(b)
    BY <1>1
  <2> QED BY <1>n, <2>1, <2>2, <2>4
<1>3. ASSUME NEW i \in 1 .. Len(b), i - 1 \in G PROVE i \in G
  <2> DEFINE c == SubSeq(b, 1, i - 1)
  <2>1. /\ c \in Seq(Sample) /\ b[i] \in Sample /\ SubSeq(b, 1, i) = Append(c, b[i])
        /\ i \in 0 .. Len(b) /\ a \o c \in Seq(Sample)
    BY <1>1, BeginMore
  <2>2. R(a \o c) = R(a) \o R(c)
    BY <1>3
  <2> HIDE DEF c
  <2>3. a \o Append(c, b[i]) = Append(a \o c, b[i])
    BY <2>1, JoinMore
  <2>4. R(a \o Append(c, b[i])) = Taken(R(a \o c), b[i], from, to)
    BY <1>0, <2>1, <2>3, Zenon
  <2>5. R(Append(c, b[i])) = Taken(R(c), b[i], from, to)
    BY <1>0, <2>1, Zenon
  <2>6. R(a) \o Append(R(c), b[i]) = Append(R(a) \o R(c), b[i])
    BY <1>1, <2>1, JoinMore
  <2>7. R(a \o Append(c, b[i])) = R(a) \o R(Append(c, b[i]))
    BY <2>2, <2>4, <2>5, <2>6, Zenon DEF Taken
  <2> QED BY <2>1, <2>7
<1> HIDE DEF G
<1>4. Len(b) \in G
  BY <1>1, <1>2, <1>3, UpTo
<1>5. SubSeq(b, 1, Len(b)) = b
  OBVIOUS
<1> QED BY <1>4, <1>5 DEF G, R

\* No sample is in the range.
LEMMA InRangeOut ==
    ASSUME NEW ss \in Seq(Sample), NEW from, NEW to,
           \A i \in 1 .. Len(ss) : ~(ss[i][1] >= from /\ ss[i][1] <= to)
    PROVE  InRange(ss, from, to) = <<>>
<1>p. PICK r : TakenOf(r, ss, from, to)
  BY InRangeRun
<1>1. /\ r[0] = <<>> /\ r[Len(ss)] = InRange(ss, from, to)
      /\ \A i \in 1 .. Len(ss) : r[i] = Taken(r[i - 1], ss[i], from, to)
  BY <1>p, Zenon DEF TakenOf
<1> DEFINE n == Len(ss)
<1> DEFINE G == {i \in 0 .. n : r[i] = <<>>}
<1>2. n \in Nat
  OBVIOUS
<1>3. 0 \in G
  BY <1>1, <1>2
<1>4. \A i \in 1 .. n : i - 1 \in G => i \in G
  <2> SUFFICES ASSUME NEW i \in 1 .. n, i - 1 \in G PROVE i \in G
    OBVIOUS
  <2>1. r[i] = r[i - 1]
    BY <1>1 DEF Taken
  <2> QED BY <2>1
<1> HIDE DEF G, n
<1>5. n \in G
  BY <1>2, <1>3, <1>4, UpTo
<1> QED BY <1>1, <1>5 DEF G, n

\* Samples in the order of their times, no two at one time.
Rising(ss) == \A i, j \in DOMAIN ss : i < j => ss[i][1] < ss[j][1]

\* Samples that count are such.
LEMMA NewestRises ==
    ASSUME NEW ss \in Seq(Sample)
    PROVE  Rising(Newest(<<>>, ss))
<1>1. <<>> \in Seq(Sample)
  OBVIOUS
<1>2. PICK r \in [0 .. Len(ss) -> Seq(Sample)] :
               /\ r[0] = <<>> /\ r[Len(ss)] = Newest(<<>>, ss)
               /\ \A i \in 1 .. Len(ss) : r[i] = Kept(r[i - 1], ss[i])
  BY <1>1, NewestRun
<1> DEFINE n == Len(ss)
<1> DEFINE G == {i \in 0 .. n : Rising(r[i])}
<1>3. n \in Nat
  OBVIOUS
<1>4. 0 \in G
  BY <1>2, <1>3 DEF Rising
<1>5. ASSUME NEW q \in Seq(Sample), NEW s \in Sample, Rising(q)
      PROVE  Rising(Kept(q, s))
  <2>1. CASE q # <<>> /\ s[1] <= Last(q)[1]
    BY <1>5, <2>1 DEF Kept
  <2>2. CASE q = <<>>
    <3>1. Kept(q, s) = <<s>>
      BY <2>2 DEF Kept
    <3> QED BY <3>1 DEF Rising
  <2>3. CASE q # <<>> /\ ~(s[1] <= Last(q)[1])
    <3> DEFINE k == Len(q)
    <3>1. k \in Nat /\ k \in DOMAIN q /\ DOMAIN q = 1 .. k /\ \A i \in 1 .. k : q[i][1] \in Nat
      BY <2>3 DEF Sample
    <3>2. /\ Kept(q, s) = Append(q, s) /\ DOMAIN Append(q, s) = 1 .. k + 1
          /\ \A i \in 1 .. k : Append(q, s)[i] = q[i]
          /\ Append(q, s)[k + 1] = s
      BY <2>3 DEF Kept
    <3>3. q[k][1] < s[1] /\ s[1] \in Nat
      BY <2>3, <3>1 DEF Last, Sample
    <3> HIDE DEF k
    <3>4. \A i \in 1 .. k : q[i][1] < s[1]
      <4> SUFFICES ASSUME NEW i \in 1 .. k PROVE q[i][1] < s[1]
        OBVIOUS
      <4>1. i \in DOMAIN q /\ q[i][1] \in Nat /\ q[k][1] \in Nat /\ i \in Nat /\ i <= k
        BY <3>1
      <4>2. i < k => q[i][1] < q[k][1]
        BY <1>5, <3>1, <4>1, Zenon DEF Rising
      <4>3. i = k \/ i < k
        BY <3>1, <4>1
      <4> QED BY <3>3, <4>1, <4>2, <4>3
    <3> DEFINE w == Append(q, s)
    <3> HIDE DEF w
    <3>5. ASSUME NEW i \in DOMAIN w, NEW j \in DOMAIN w, i < j
          PROVE  w[i][1] < w[j][1]
      <4>1. i \in 1 .. k /\ w[i] = q[i]
        BY <3>1, <3>2, <3>5 DEF w
      <4>2. CASE j = k + 1
        BY <3>2, <3>4, <4>1, <4>2 DEF w
      <4>3. CASE j # k + 1
        <5>1. j \in 1 .. k /\ w[j] = q[j]
          BY <3>1, <3>2, <3>5, <4>3 DEF w
        <5> QED BY <1>5, <3>1, <3>5, <4>1, <5>1 DEF Rising
      <4> QED BY <4>2, <4>3
    <3> QED BY <3>2, <3>5 DEF Rising, w
  <2> QED BY <2>1, <2>2, <2>3
<1>6. \A i \in 1 .. n : i - 1 \in G => i \in G
  <2> SUFFICES ASSUME NEW i \in 1 .. n, i - 1 \in G PROVE i \in G
    OBVIOUS
  <2>1. r[i - 1] \in Seq(Sample) /\ ss[i] \in Sample /\ r[i] = Kept(r[i - 1], ss[i])
    BY <1>2, <1>3
  <2>2. Rising(r[i - 1])
    OBVIOUS
  <2>3. Rising(r[i])
    BY <1>5, <2>1, <2>2, Zenon
  <2> QED BY <2>3
<1> HIDE DEF G, n
<1>7. n \in G
  BY <1>3, <1>4, <1>6, UpTo
<1> QED BY <1>2, <1>7 DEF G, n

\* The parts of such a sequence are too.
LEMMA RisingParts ==
    ASSUME NEW a \in Seq(Sample), NEW b \in Seq(Sample), Rising(a \o b)
    PROVE  Rising(a) /\ Rising(b)
<1> DEFINE v == a \o b
<1> DEFINE n == Len(a)
<1>1. /\ n \in Nat /\ DOMAIN v = 1 .. n + Len(b) /\ Len(b) \in Nat
      /\ DOMAIN a = 1 .. n /\ DOMAIN b = 1 .. Len(b)
      /\ \A i \in 1 .. n : v[i] = a[i]
      /\ \A i \in 1 .. Len(b) : v[n + i] = b[i]
  BY JoinIs
<1>2. Rising(v)
  OBVIOUS
<1> HIDE DEF v, n
<1>3. Rising(a)
  BY <1>1, <1>2 DEF Rising
<1>4. ASSUME NEW i \in DOMAIN b, NEW j \in DOMAIN b, i < j
      PROVE  b[i][1] < b[j][1]
  <2>1. n + i \in DOMAIN v /\ n + j \in DOMAIN v /\ n + i < n + j
    BY <1>1, <1>4
  <2>2. v[n + i] = b[i] /\ v[n + j] = b[j]
    BY <1>1
  <2> QED BY <1>2, <2>1, <2>2 DEF Rising
<1> QED BY <1>3, <1>4 DEF Rising

\* The first samples of a series that are before a time, ...
LEMMA PointIs ==
    ASSUME NEW ss \in Seq(Sample), Rising(ss), NEW c \in Int
    PROVE  LET k == Max({0} \cup {i \in DOMAIN ss : ss[i][1] < c}) IN
           k \in 0 .. Len(ss) /\ \A i \in 1 .. Len(ss) : ss[i][1] < c <=> i <= k
<1> DEFINE n == Len(ss)
<1> DEFINE S == {0} \cup {i \in DOMAIN ss : ss[i][1] < c}
<1> DEFINE k == Max(S)
<1>1. n \in Nat /\ DOMAIN ss = 1 .. n /\ \A i \in 1 .. n : ss[i][1] \in Nat
  BY DEF Sample
<1>2. S \subseteq 0 .. n /\ S # {} /\ 0 \in S
  BY <1>1
<1>3. \A i \in 1 .. n : i \in S <=> ss[i][1] < c
  BY <1>1
<1> HIDE DEF S, n
<1>4. \E x \in S : \A y \in S : y <= x
  BY <1>1, <1>2, Greatest
<1>5. \E x \in S : \A y \in S : x >= y
  <2>1. PICK x \in S : \A y \in S : y <= x
    BY <1>4
  <2>2. \A y \in S : x >= y
    BY <1>1, <1>2, <2>1
  <2> QED BY <2>2
<1>6. k \in S /\ \A y \in S : k >= y
  BY <1>5, Zenon DEF Max
<1> HIDE DEF k
<1>7. k \in 0 .. n
  BY <1>2, <1>6
<1>8. ASSUME NEW i \in 1 .. n PROVE ss[i][1] < c <=> i <= k
  <2>1. ss[i][1] < c => i <= k
    BY <1>1, <1>3, <1>6, <1>7
  <2>2. ASSUME i <= k PROVE ss[i][1] < c
    <3>1. k \in 1 .. n
      BY <1>1, <1>7, <2>2
    <3>2. ss[k][1] < c
      BY <1>3, <1>6, <3>1
    <3>3. i < k => ss[i][1] < ss[k][1]
      BY <1>1, <3>1 DEF Rising
    <3>4. ss[i][1] \in Nat /\ ss[k][1] \in Nat
      BY <1>1, <3>1
    <3> QED BY <1>1, <2>2, <3>1, <3>2, <3>3, <3>4
  <2> QED BY <2>1, <2>2
<1> QED BY <1>7, <1>8 DEF k, S, n

\* ... so that memory answers with what is in the range.
LEMMA MemoryRangeIs ==
    ASSUME NEW ss \in Seq(Sample), Rising(ss), NEW from \in Int, NEW to \in Int, from <= to
    PROVE  MemoryRange(ss, from, to) = InRange(ss, from, to)
<1> DEFINE lo == Max({0} \cup {i \in DOMAIN ss : ss[i][1] < from})
<1> DEFINE hi == Max({0} \cup {i \in DOMAIN ss : ss[i][1] <= to})
<1> DEFINE n == Len(ss)
<1>1. n \in Nat /\ DOMAIN ss = 1 .. n /\ \A i \in 1 .. n : ss[i] \in Sample /\ ss[i][1] \in Nat
  BY DEF Sample
<1>2. lo \in 0 .. n /\ \A i \in 1 .. n : ss[i][1] < from <=> i <= lo
  BY PointIs
<1>3. hi \in 0 .. n /\ \A i \in 1 .. n : ss[i][1] <= to <=> i <= hi
  <2> DEFINE c == to + 1
  <2> DEFINE k == Max({0} \cup {i \in DOMAIN ss : ss[i][1] < c})
  <2>1. c \in Int /\ \A i \in 1 .. n : ss[i][1] < c <=> ss[i][1] <= to
    BY <1>1
  <2> HIDE DEF c
  <2>2. k \in 0 .. n /\ \A i \in 1 .. n : ss[i][1] < c <=> i <= k
    BY <2>1, PointIs
  <2>3. {i \in DOMAIN ss : ss[i][1] < c} = {i \in DOMAIN ss : ss[i][1] <= to}
    BY <1>1, <2>1
  <2>4. k = hi
    BY <2>3
  <2> HIDE DEF k, hi
  <2> QED BY <2>1, <2>2, <2>4
<1>4. MemoryRange(ss, from, to) = SubSeq(ss, lo + 1, hi)
  BY Zenon DEF MemoryRange
<1> HIDE DEF lo, hi
<1>p. PICK r : TakenOf(r, ss, from, to)
  BY InRangeRun
<1>5. /\ r[0] = <<>> /\ r[n] = InRange(ss, from, to)
      /\ \A i \in 1 .. n : r[i] = Taken(r[i - 1], ss[i], from, to)
  BY <1>p, Zenon DEF TakenOf
<1> HIDE DEF n
<1> DEFINE Part(i) == SubSeq(ss, lo + 1, IF i < hi THEN i ELSE hi)
<1> DEFINE G == {i \in 0 .. n : r[i] = Part(i)}
<1>6. 0 \in G
  <2>1. Part(0) = <<>>
    BY <1>1, <1>2, <1>3
  <2>2. 0 \in 0 .. n
    BY <1>1
  <2>3. r[0] = Part(0)
    BY <1>5, <2>1, Zenon
  <2> HIDE DEF Part
  <2> QED BY <2>2, <2>3
<1>7. \A i \in 1 .. n : i - 1 \in G => i \in G
  <2> SUFFICES ASSUME NEW i \in 1 .. n, i - 1 \in G PROVE i \in G
    OBVIOUS
  <2>1. r[i - 1] = Part(i - 1) /\ r[i] = Taken(r[i - 1], ss[i], from, to) /\ i \in 0 .. n
    BY <1>1, <1>5
  <2>2. /\ lo \in Nat /\ hi \in Nat /\ hi <= n /\ i \in Nat /\ i >= 1 /\ i - 1 \in Nat
        /\ i \in 1 .. Len(ss) /\ n \in Nat
    BY <1>1, <1>2, <1>3 DEF n
  <2>3. ss[i][1] >= from <=> lo < i
    BY <1>1, <1>2, <2>2
  <2>4. ss[i][1] <= to <=> i <= hi
    BY <1>3
  <2> DEFINE c == SubSeq(ss, lo + 1, i - 1)
  <2>5. /\ lo < i => SubSeq(ss, lo + 1, i) = Append(c, ss[i])
        /\ i <= lo => SubSeq(ss, lo + 1, i) = <<>>
    BY <2>2, MiddleMore
  <2>6. CASE i > hi
    <3>1. Part(i) = Part(i - 1)
      BY <2>2, <2>6
    <3>2. r[i] = r[i - 1]
      BY <2>1, <2>2, <2>4, <2>6 DEF Taken
    <3> QED BY <2>1, <3>1, <3>2
  <2>7. CASE i <= hi
    <3>1. Part(i) = SubSeq(ss, lo + 1, i) /\ Part(i - 1) = c
      BY <2>2, <2>7
    <3> HIDE DEF Part
    <3>2. CASE lo < i
      <4>1. r[i] = Append(r[i - 1], ss[i])
        BY <2>1, <2>3, <2>4, <2>7, <3>2 DEF Taken
      <4> QED BY <2>1, <2>5, <3>1, <3>2, <4>1, Zenon
    <3>3. CASE ~(lo < i)
      <4>1. r[i] = r[i - 1]
        BY <2>1, <2>3, <3>3 DEF Taken
      <4>2. i <= lo /\ i - 1 <= lo
        BY <2>2, <3>3
      <4>3. c = <<>>
        BY <2>2, <4>2
      <4>4. SubSeq(ss, lo + 1, i) = <<>>
        BY <2>5, <4>2
      <4> QED BY <2>1, <3>1, <4>1, <4>3, <4>4, Zenon
    <3> QED BY <3>2, <3>3
  <2> QED BY <2>2, <2>6, <2>7
<1> HIDE DEF G, Part
<1>8. n \in G
  BY <1>1, <1>6, <1>7, UpTo
<1>9. r[n] = Part(n)
  BY <1>8 DEF G
<1>10. Part(n) = SubSeq(ss, lo + 1, hi)
  <2>1. (IF n < hi THEN n ELSE hi) = hi
    BY <1>1, <1>3
  <2> QED BY <2>1 DEF Part
<1> QED BY <1>4, <1>5, <1>9, <1>10

\* What is in the range of each segment, ...
Shares(sg, l, from, to) == [i \in DOMAIN sg |-> InRange(sg[i].data[l], from, to)]

LEMMA SharesAll ==
    ASSUME NEW sg \in Seq(Segment), NEW l \in Labels, NEW from, NEW to
    PROVE  Shares(sg, l, from, to) \in Seq(Seq(Sample)) /\ Len(Shares(sg, l, from, to)) = Len(sg)
<1> DEFINE q == [i \in DOMAIN sg |-> InRange(sg[i].data[l], from, to)]
<1>1. \A i \in DOMAIN sg : sg[i].data[l] \in Seq(Sample)
  BY DEF Segment
<1>2. \A i \in DOMAIN sg : InRange(sg[i].data[l], from, to) \in Seq(Sample)
  BY <1>1, InRangeType
<1>3. DOMAIN sg = 1 .. Len(sg) /\ Len(sg) \in Nat
  OBVIOUS
<1>4. q \in [1 .. Len(sg) -> Seq(Sample)]
  BY <1>2, <1>3
<1> HIDE DEF q
<1>5. q \in Seq(Seq(Sample))
  BY <1>3, <1>4, FunctionIsSeq
<1>6. Len(q) = Len(sg)
  BY <1>3, <1>4, <1>5
<1> QED BY <1>5, <1>6, Zenon DEF q, Shares

LEMMA SharesMore ==
    ASSUME NEW sg \in Seq(Segment), NEW s \in Segment, NEW l \in Labels, NEW from, NEW to
    PROVE  FlattenSeq(Shares(Append(sg, s), l, from, to))
             = FlattenSeq(Shares(sg, l, from, to)) \o InRange(s.data[l], from, to)
<1> DEFINE p == Append(sg, s)
<1> DEFINE q == Shares(sg, l, from, to)
<1> DEFINE r == Shares(p, l, from, to)
<1> DEFINE x == InRange(s.data[l], from, to)
<1>1. /\ p \in Seq(Segment) /\ Len(p) = Len(sg) + 1 /\ Len(sg) \in Nat
      /\ p[Len(sg) + 1] = s /\ \A i \in 1 .. Len(sg) : p[i] = sg[i]
      /\ DOMAIN p = 1 .. Len(p) /\ DOMAIN sg = 1 .. Len(sg)
  OBVIOUS
<1>2. x \in Seq(Sample)
  <2>1. s.data[l] \in Seq(Sample)
    BY DEF Segment
  <2> QED BY <2>1, InRangeType
<1>3. q \in Seq(Seq(Sample)) /\ Len(q) = Len(sg)
  BY SharesAll
<1> HIDE DEF p
<1>4. r \in Seq(Seq(Sample)) /\ Len(r) = Len(p)
  BY <1>1, SharesAll
<1>5. /\ \A i \in 1 .. Len(sg) : q[i] = InRange(sg[i].data[l], from, to)
      /\ \A i \in 1 .. Len(p) : r[i] = InRange(p[i].data[l], from, to)
  BY <1>1 DEF Shares
<1> HIDE DEF q, r
<1> DEFINE t == Append(q, x)
<1>6. r[Len(sg) + 1] = x
  BY <1>1, <1>5
<1> HIDE DEF x
<1>7. t \in Seq(Seq(Sample)) /\ Len(t) = Len(sg) + 1 /\ t[Len(sg) + 1] = x
      /\ \A i \in 1 .. Len(sg) : t[i] = q[i]
  BY <1>2, <1>3
<1> HIDE DEF t
<1>8. ASSUME NEW i \in 1 .. Len(r) PROVE r[i] = t[i]
  <2>1. CASE i = Len(sg) + 1
    BY <1>6, <1>7, <2>1
  <2>2. CASE i # Len(sg) + 1
    <3>1. i \in 1 .. Len(sg) /\ i \in 1 .. Len(p)
      BY <1>1, <1>4, <2>2
    <3> QED BY <1>1, <1>5, <1>7, <3>1
  <2> QED BY <2>1, <2>2
<1>9. r = t
  BY <1>1, <1>4, <1>7, <1>8, SameSeq
<1>10. FlattenSeq(t) = FlattenSeq(q) \o x
  BY <1>2, <1>3, FlattenMore DEF t
<1> QED BY <1>9, <1>10, Zenon DEF p, q, r, x

\* ... is in the range of what they hold together.
LEMMA SharesIs ==
    ASSUME NEW sg \in Seq(Segment), NEW l \in Labels, NEW from, NEW to
    PROVE  FlattenSeq(Shares(sg, l, from, to)) = InRange(Stored(sg)[l], from, to)
<1> DEFINE R(ss) == InRange(ss, from, to)
<1> DEFINE All(p) == FlattenSeq(Shares(p, l, from, to))
<1> DEFINE G == {i \in 0 .. Len(sg) :
                    All(SubSeq(sg, 1, i)) = R(Stored(SubSeq(sg, 1, i))[l])}
<1>1. Len(sg) \in Nat /\ SubSeq(sg, 1, 0) = <<>> /\ SubSeq(sg, 1, Len(sg)) = sg
  OBVIOUS
<1>2. All(<<>>) = R(Stored(<<>>)[l])
  <2>1. Shares(<<>>, l, from, to) = <<>>
    BY DEF Shares
  <2>2. All(<<>>) = <<>>
    BY <2>1, FlattenNone, Zenon
  <2>3. Stored(<<>>)[l] = <<>>
    BY StoredNone
  <2> QED BY <2>2, <2>3, InRangeNone
<1>3. \A p \in Seq(Segment), s \in Segment : All(Append(p, s)) = All(p) \o R(s.data[l])
  BY SharesMore
<1>4. \A p \in Seq(Segment), s \in Segment :
        R(Stored(Append(p, s))[l]) = R(Stored(p)[l]) \o R(s.data[l])
  <2> SUFFICES ASSUME NEW p \in Seq(Segment), NEW s \in Segment
               PROVE  R(Stored(Append(p, s))[l]) = R(Stored(p)[l]) \o R(s.data[l])
    OBVIOUS
  <2> DEFINE a == Stored(p)[l]
  <2> DEFINE b == s.data[l]
  <2>1. Stored(Append(p, s))[l] = a \o b /\ a \in Seq(Sample) /\ b \in Seq(Sample)
    BY StoredMore
  <2> HIDE DEF a, b
  <2>2. R(a \o b) = R(a) \o R(b)
    BY <2>1, InRangeJoin
  <2> QED BY <2>1, <2>2 DEF a, b
<1> HIDE DEF R, All
<1>5. 0 \in G
  <2>1. 0 \in 0 .. Len(sg)
    BY <1>1
  <2>2. All(SubSeq(sg, 1, 0)) = R(Stored(SubSeq(sg, 1, 0))[l])
    BY <1>1, <1>2, Zenon
  <2> QED BY <2>1, <2>2
<1>6. \A i \in 1 .. Len(sg) : i - 1 \in G => i \in G
  <2> SUFFICES ASSUME NEW i \in 1 .. Len(sg), i - 1 \in G PROVE i \in G
    OBVIOUS
  <2> DEFINE c == SubSeq(sg, 1, i - 1)
  <2>1. c \in Seq(Segment) /\ SubSeq(sg, 1, i) = Append(c, sg[i]) /\ sg[i] \in Segment
    BY BeginMore
  <2>2. All(c) = R(Stored(c)[l]) /\ i \in 0 .. Len(sg)
    OBVIOUS
  <2> HIDE DEF c
  <2>3. All(Append(c, sg[i])) = R(Stored(Append(c, sg[i]))[l])
    BY <1>3, <1>4, <2>1, <2>2, ZenonT(30)
  <2> QED BY <2>1, <2>2, <2>3
<1> HIDE DEF G
<1>7. Len(sg) \in G
  BY <1>1, <1>5, <1>6, UpTo
<1> QED BY <1>1, <1>7 DEF G, R, All

\* The segments of a rising series hold rising parts of it.
LEMMA SegmentsRise ==
    ASSUME NEW sg \in Seq(Segment), NEW l \in Labels, Rising(Stored(sg)[l])
    PROVE  \A i \in DOMAIN sg : Rising(sg[i].data[l])
<1> DEFINE G == {i \in 0 .. Len(sg) :
                    Rising(Stored(SubSeq(sg, 1, i))[l]) =>
                       \A j \in 1 .. i : Rising(sg[j].data[l])}
<1>1. Len(sg) \in Nat /\ SubSeq(sg, 1, Len(sg)) = sg /\ DOMAIN sg = 1 .. Len(sg)
  OBVIOUS
<1>2. 0 \in G
  BY <1>1
<1>3. \A i \in 1 .. Len(sg) : i - 1 \in G => i \in G
  <2> SUFFICES ASSUME NEW i \in 1 .. Len(sg), i - 1 \in G,
                      Rising(Stored(SubSeq(sg, 1, i))[l]), NEW j \in 1 .. i
               PROVE  Rising(sg[j].data[l])
    BY <1>1
  <2> DEFINE c == SubSeq(sg, 1, i - 1)
  <2>1. c \in Seq(Segment) /\ SubSeq(sg, 1, i) = Append(c, sg[i]) /\ sg[i] \in Segment
    BY BeginMore
  <2>2. Rising(Stored(c)[l]) => \A k \in 1 .. i - 1 : Rising(sg[k].data[l])
    OBVIOUS
  <2> HIDE DEF c
  <2>3. /\ Stored(Append(c, sg[i]))[l] = Stored(c)[l] \o sg[i].data[l]
        /\ sg[i].data[l] \in Seq(Sample) /\ Stored(c)[l] \in Seq(Sample)
    BY <2>1, StoredMore
  <2>4. Rising(Stored(c)[l] \o sg[i].data[l])
    BY <2>1, <2>3
  <2>5. Rising(Stored(c)[l]) /\ Rising(sg[i].data[l])
    BY <2>3, <2>4, RisingParts
  <2>6. j = i \/ j \in 1 .. i - 1
    BY <1>1
  <2> QED BY <2>2, <2>5, <2>6
<1> HIDE DEF G
<1>4. Len(sg) \in G
  BY <1>1, <1>2, <1>3, UpTo
<1> QED BY <1>1, <1>4 DEF G

\* A segment that is skipped has nothing in the range.
LEMMA Skipped ==
    ASSUME NEW seg \in Segment, NEW ls \in SUBSET Labels, NEW l \in ls,
           NEW from \in Int, NEW to \in Int, Rising(seg.data[l]), ~MayHold(seg, ls, from, to)
    PROVE  InRange(seg.data[l], from, to) = <<>>
<1> DEFINE ss == seg.data[l]
<1> DEFINE n == Len(ss)
<1>1. ss \in Seq(Sample) /\ Rising(ss)
  BY DEF Segment
<1>2. ss # <<>> => ~(ss[1][1] <= to /\ Last(ss)[1] >= from)
  BY DEF MayHold
<1> HIDE DEF ss
<1>3. n \in Nat /\ DOMAIN ss = 1 .. n /\ \A i \in 1 .. n : ss[i][1] \in Nat
  BY <1>1 DEF Sample
<1>4. ss # <<>> => Last(ss) = ss[n]
  BY <1>1 DEF Last
<1> HIDE DEF n
<1>5. ASSUME NEW i \in 1 .. n PROVE ~(ss[i][1] >= from /\ ss[i][1] <= to)
  <2>1. ss # <<>> /\ 1 \in 1 .. n /\ n \in 1 .. n
    BY <1>1, <1>3 DEF n
  <2>2. ~(ss[1][1] <= to /\ ss[n][1] >= from)
    BY <1>2, <1>4, <2>1
  <2>3. (1 < i => ss[1][1] < ss[i][1]) /\ (i < n => ss[i][1] < ss[n][1])
    BY <1>1, <1>3, <2>1, Zenon DEF Rising
  <2>4. (i = 1 \/ 1 < i) /\ (i = n \/ i < n)
    BY <1>3
  <2>5. ss[1][1] \in Nat /\ ss[i][1] \in Nat /\ ss[n][1] \in Nat
    BY <1>3, <2>1
  <2> QED BY <2>2, <2>3, <2>4, <2>5
<1>6. InRange(ss, from, to) = <<>>
  BY <1>1, <1>5, InRangeOut DEF n
<1> QED BY <1>6 DEF ss

\* What is read of the segments.
LEMMA ReadIs ==
    ASSUME segs \in Seq(Segment), NEW ls \in SUBSET Labels, NEW l \in ls,
           NEW from \in Int, NEW to \in Int, Rising(Stored(segs)[l])
    PROVE  ReadSegments(ls, l, from, to) = InRange(Stored(segs)[l], from, to)
<1>1. l \in Labels
  OBVIOUS
<1>2. ASSUME NEW i \in DOMAIN segs
      PROVE  (IF MayHold(segs[i], ls, from, to) THEN InRange(segs[i].data[l], from, to)
                                                ELSE <<>>)
               = InRange(segs[i].data[l], from, to)
  <2> DEFINE seg == segs[i]
  <2>1. seg \in Segment /\ Rising(seg.data[l])
    BY <1>1, SegmentsRise
  <2> HIDE DEF seg
  <2>2. ~MayHold(seg, ls, from, to) => InRange(seg.data[l], from, to) = <<>>
    BY <2>1, Skipped
  <2> QED BY <2>2, Zenon DEF seg
<1>3. ReadSegments(ls, l, from, to) = FlattenSeq(Shares(segs, l, from, to))
  <2> DEFINE p == [i \in DOMAIN segs |->
                     IF MayHold(segs[i], ls, from, to)
                       THEN InRange(segs[i].data[l], from, to) ELSE <<>>]
  <2> DEFINE q == [i \in DOMAIN segs |-> InRange(segs[i].data[l], from, to)]
  <2>1. p = q
    BY <1>2
  <2> QED BY <2>1, Zenon DEF ReadSegments, Shares
<1> QED BY <1>1, <1>3, SharesIs

\* Times are numbers.
LEMMA TimesType == Times \subseteq Int
<1> DEFINE ts == UNION {UNION {Range(b[i].samples) : i \in DOMAIN b} : b \in Batches}
<1>1. ASSUME NEW b \in Batches, NEW i \in DOMAIN b, NEW t \in Range(b[i].samples)
      PROVE  t \in Int
  <2>1. b \in Seq(Entry)
    BY DbAssumption DEF Entry
  <2>2. b[i] \in Entry
    BY <2>1
  <2> DEFINE q == b[i].samples
  <2>3. q \in Seq(Nat \ {0})
    BY <2>2 DEF Entry
  <2>4. t \in Range(q)
    OBVIOUS
  <2> HIDE DEF q
  <2>5. PICK j \in DOMAIN q : t = q[j]
    BY <2>4 DEF Range
  <2> QED BY <2>3, <2>5
<1>2. \A t \in ts : t \in Int
  BY <1>1
<1>3. Times = ts \cup {t - 1 : t \in ts} \cup {t + 1 : t \in ts}
  BY DEF Times
<1> HIDE DEF ts
<1> QED BY <1>2, <1>3

\* What a history answers is in the order of its times.
LEMMA AnswerRises ==
    ASSUME NEW h \in Seq(Batches), NEW l \in Labels
    PROVE  Rising(Promise!Answer(h)[l])
<1>1. Samples(h, l) \in Seq(Sample)
  BY SamplesType
<1>2. Promise!Answer(h)[l] = Newest(<<>>, Samples(h, l))
  BY AnswerIs
<1> QED BY <1>1, <1>2, NewestRises

\* Segments that are skipped, samples that are cut off in the others and the two
\* binary searches in memory leave what is in the range.
LEMMA QueryShown == SafeInv /\ ViewInv => RangeExact
<1> SUFFICES ASSUME SafeInv, ViewInv, Answers,
                    NEW ls \in SUBSET Labels, NEW from \in Times, NEW to \in Times, from <= to,
                    NEW l \in ls
             PROVE  InRange(Promise!Answer(hist)[l], from, to)
                      = IF l \in DOMAIN Query(ls, from, to) THEN Query(ls, from, to)[l]
                                                            ELSE <<>>
  BY Zenon DEF RangeExact
<1> DEFINE all == Promise!Answer(hist)[l]
<1> DEFINE st == Stored(segs)[l]
<1> DEFINE mem == m.samples[l]
<1>1. l \in Labels /\ from \in Int /\ to \in Int
  BY TimesType
<1>2. Shows(m, segs, hist) /\ hist \in Seq(Batches) /\ segs \in Seq(Segment)
      /\ m \in Memory /\ Indexed(m)
  BY SegmentsType, KeepTypes DEF ViewInv, MemoryShows, Answers, SafeInv, Types, Buffered
<1>3. all = st \o mem
  BY <1>1, <1>2, Zenon DEF Shows, Tracks
<1>4. st \in Seq(Sample) /\ mem \in Seq(Sample)
  BY <1>1, <1>2, StoredType, MemoryHas
<1>5. Rising(all)
  BY <1>1, <1>2, AnswerRises
<1>6. (st # <<>> => l \in Range(m.index)) /\ (mem # <<>> => l \in Range(m.index))
  BY <1>1, <1>2 DEF Shows, Indexed
<1> HIDE DEF all, st, mem
<1>7. Rising(st) /\ Rising(mem)
  BY <1>3, <1>4, <1>5, RisingParts
<1>8. InRange(all, from, to) = InRange(st, from, to) \o InRange(mem, from, to)
  BY <1>3, <1>4, InRangeJoin
<1>9. CASE l \in Range(m.index)
  <2>1. ReadSegments(ls, l, from, to) = InRange(st, from, to)
    BY <1>1, <1>2, <1>7, ReadIs DEF st
  <2>2. MemoryRange(mem, from, to) = InRange(mem, from, to)
    BY <1>1, <1>4, <1>7, MemoryRangeIs
  <2>3. l \in DOMAIN Query(ls, from, to)
        /\ Query(ls, from, to)[l] = ReadSegments(ls, l, from, to) \o MemoryRange(mem, from, to)
    BY <1>9, Zenon DEF Query, mem
  <2> QED BY <1>8, <2>1, <2>2, <2>3, Zenon DEF all
<1>10. CASE l \notin Range(m.index)
  <2>1. st = <<>> /\ mem = <<>>
    BY <1>6, <1>10
  <2>2. InRange(all, from, to) = <<>>
    <3>1. InRange(<<>>, from, to) = <<>>
      BY InRangeNone
    <3>2. <<>> \o <<>> = <<>>
      OBVIOUS
    <3> QED BY <1>8, <2>1, <3>1, <3>2, Zenon
  <2>3. l \notin DOMAIN Query(ls, from, to)
    BY <1>10, Zenon DEF Query
  <2> QED BY <2>2, <2>3, Zenon DEF all
<1> QED BY <1>9, <1>10

\* A query (Db::query) returns of each series it names exactly the samples of the
\* history whose times are in its range, in their order, though it skips segments
\* by their bounds and reads memory between two
\* positions (SeriesState::range).
THEOREM AnswersRange ==
    ASSUME "names" \notin PowerLoss
    PROVE  Spec => []RangeExact
<1>1. Spec => [](SafeInv /\ ViewInv)
  BY InvariantsAlways
<1> QED BY <1>1, QueryShown, PTL
===============================================================================
