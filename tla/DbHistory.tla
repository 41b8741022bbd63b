------------------------------- MODULE DbHistory ------------------------------
(***************************************************************************)
(* What becomes of the history of module Db, proved for any labels, any    *)
(* batches and any bounds: what a stop leaves of it (part 1), and what open*)
(* rebuilds from what is left (part 2).                                    *)
(***************************************************************************)
EXTENDS DbProofs

-----------------------------------------------------------------------------
(***************************************************************************)
(* Part 1: without a loss of power, with writes that wait for the log, no  *)
(* acknowledged batch is ever taken back.                                  *)
(***************************************************************************)

-----------------------------------------------------------------------------
(* Replay counts at least one sample of a log that defines what it uses. *)

\* The first entry of a record has samples, and its id is defined in it.
OwnIds(rec) ==
    /\ rec.samples # <<>> /\ rec.samples[1].samples # <<>>
    /\ \E k \in DOMAIN rec.series : rec.series[k].id = rec.samples[1].id

\* Nothing has been counted only if nothing is in the way of a first sample.
Fresh(mem) == mem.buffered > 0 \/ \A l \in Labels : mem.newest[l] = 0

\* A sample counts then, ...
LEMMA AppendSampleFresh ==
    ASSUME NEW mem \in Memory, NEW l \in Labels, NEW s \in Sample
    PROVE  LET new == AppendSample(mem, l, s) IN
           /\ new.buffered >= mem.buffered
           /\ Fresh(mem) => new.buffered > 0
<1> DEFINE new == AppendSample(mem, l, s)
<1>1. mem.buffered \in Nat /\ s[1] \in Nat \ {0} /\ mem.newest[l] \in Nat
  BY DEF Memory, Sample
<1>2. CASE s[1] > mem.newest[l]
  <2>1. new.buffered = mem.buffered + 1
    BY <1>2 DEF AppendSample, Memory
  <2> QED BY <1>1, <2>1
<1>3. CASE ~(s[1] > mem.newest[l])
  <2>1. new = mem
    BY <1>3, Zenon DEF AppendSample
  <2>2. mem.newest[l] # 0
    BY <1>1, <1>3
  <2>3. Fresh(mem) => mem.buffered > 0
    BY <2>2 DEF Fresh
  <2> QED BY <1>1, <2>1, <2>3
<1> QED BY <1>2, <1>3

\* ... as does the first of many, ...
LEMMA AppendSamplesFresh ==
    ASSUME NEW mem \in Memory, NEW l \in Labels, NEW ss \in Seq(Sample)
    PROVE  LET new == AppendSamples(mem, l, ss) IN
           /\ new.buffered >= mem.buffered
           /\ Fresh(mem) => Fresh(new) /\ (ss # <<>> => new.buffered > 0)
<1> DEFINE new == AppendSamples(mem, l, ss)
<1>1. PICK r \in [0 .. Len(ss) -> Memory] :
               /\ r[0] = mem /\ r[Len(ss)] = new
               /\ \A i \in 1 .. Len(ss) :
                     r[i] = AppendSample(r[i - 1], l, ss[i])
  BY AppendSamplesRun
<1>2. Len(ss) \in Nat /\ (ss # <<>> => Len(ss) > 0) /\ mem.buffered \in Nat
  BY DEF Memory
<1> HIDE DEF new
<1> DEFINE G == {i \in 0 .. Len(ss) : /\ r[i].buffered >= mem.buffered
                                      /\ Fresh(mem) /\ i > 0 => r[i].buffered > 0}
<1>3. 0 \in G
  BY <1>1, <1>2
<1>4. ASSUME NEW i \in 1 .. Len(ss), i - 1 \in G PROVE i \in G
  <2>1. /\ r[i - 1].buffered >= mem.buffered
        /\ Fresh(mem) /\ i - 1 > 0 => r[i - 1].buffered > 0
    BY <1>4
  <2> HIDE DEF G
  <2>2. i - 1 \in 0 .. Len(ss) /\ i \in 0 .. Len(ss) /\ ss[i] \in Sample
        /\ (i - 1 > 0 \/ i - 1 = 0)
    BY <1>2
  <2>3. r[i - 1] \in Memory /\ r[i] \in Memory /\ r[i] = AppendSample(r[i - 1], l, ss[i])
    BY <1>1, <2>2
  <2>4. Fresh(mem) => Fresh(r[i - 1])
    BY <1>1, <2>1, <2>2 DEF Fresh
  <2>5. r[i].buffered >= r[i - 1].buffered /\ (Fresh(mem) => r[i].buffered > 0)
    BY <2>2, <2>3, <2>4, AppendSampleFresh
  <2>6. r[i].buffered \in Nat /\ r[i - 1].buffered \in Nat
    BY <2>3 DEF Memory
  <2>7. r[i].buffered >= mem.buffered
    BY <1>2, <2>1, <2>5, <2>6
  <2> QED BY <2>2, <2>5, <2>7 DEF G
<1> HIDE DEF G
<1>5. Len(ss) \in G
  BY <1>2, <1>3, <1>4, UpTo
<1>6. new.buffered >= mem.buffered /\ (Fresh(mem) /\ Len(ss) > 0 => new.buffered > 0)
  BY <1>1, <1>5 DEF G
<1>7. Len(ss) = 0 => new = mem
  BY <1>1
<1>8. Fresh(mem) => Fresh(new)
  BY <1>2, <1>6, <1>7 DEF Fresh
<1> QED BY <1>2, <1>6, <1>8 DEF new

\* ... and what is parked, if any; ids are not forgotten. A series, ...
LEMMA ApplySeriesFresh ==
    ASSUME NEW state \in Resolver, NEW e \in IdSeries
    PROVE  LET new == ApplySeries(state, e) IN
           /\ new.m.buffered >= state.m.buffered
           /\ Fresh(state.m) => Fresh(new.m)
           /\ DOMAIN new.ids = DOMAIN state.ids \cup {e.id}
<1> DEFINE parked == IF e.id \in DOMAIN state.pending THEN state.pending[e.id] ELSE <<>>
<1> DEFINE mem == Encode(state.m, e.labels)
<1> DEFINE new == ApplySeries(state, e)
<1>1. /\ state.m \in Memory /\ DOMAIN state.pending \in SUBSET Nat
      /\ state.pending \in [DOMAIN state.pending -> Seq(Sample)]
  BY PartialIs DEF Resolver
<1>2. parked \in Seq(Sample) /\ e.labels \in Labels
  BY <1>1 DEF IdSeries
<1>3. mem \in Memory /\ mem.newest = state.m.newest /\ mem.buffered = state.m.buffered
  BY <1>1, <1>2, EncodeIs
<1>4. /\ new.m = AppendSamples(mem, e.labels, parked)
      /\ DOMAIN new.ids = DOMAIN state.ids \cup {e.id}
  BY DEF ApplySeries
<1> HIDE DEF parked, mem, new
<1>5. Fresh(state.m) => Fresh(mem)
  BY <1>3, Zenon DEF Fresh
<1>6. new.m.buffered >= mem.buffered /\ (Fresh(mem) => Fresh(new.m))
  BY <1>2, <1>3, <1>4, AppendSamplesFresh
<1> QED BY <1>3, <1>4, <1>5, <1>6 DEF new

\* ... an entry whose id is known, ...
LEMMA ApplySamplesFresh ==
    ASSUME NEW state \in Resolver, NEW e \in IdEntry
    PROVE  LET new == ApplySamples(state, e) IN
           /\ new.m.buffered >= state.m.buffered
           /\ new.ids = state.ids
           /\ Fresh(state.m) =>
                 /\ Fresh(new.m)
                 /\ e.id \in DOMAIN state.ids /\ e.samples # <<>> => new.m.buffered > 0
<1> DEFINE new == ApplySamples(state, e)
<1>1. /\ state.m \in Memory /\ state.m.buffered \in Nat
      /\ DOMAIN state.ids \in SUBSET Nat /\ state.ids \in [DOMAIN state.ids -> Labels]
  BY PartialIs DEF Resolver, Memory
<1>2. e.samples \in Seq(Sample)
  BY DEF IdEntry
<1>3. CASE e.id \in DOMAIN state.ids
  <2> DEFINE mem == AppendSamples(state.m, state.ids[e.id], e.samples)
  <2>1. new.m = mem /\ new.ids = state.ids
    BY <1>3 DEF ApplySamples, Resolver
  <2>2. state.ids[e.id] \in Labels
    BY <1>1, <1>3
  <2>3. /\ mem.buffered >= state.m.buffered
        /\ Fresh(state.m) => Fresh(mem) /\ (e.samples # <<>> => mem.buffered > 0)
    BY <1>1, <1>2, <2>2, AppendSamplesFresh
  <2> HIDE DEF new, mem
  <2> QED BY <2>1, <2>3 DEF new
<1>4. CASE e.id \notin DOMAIN state.ids
  <2>1. new.m = state.m /\ new.ids = state.ids
    BY <1>4 DEF ApplySamples, Resolver
  <2> HIDE DEF new
  <2>2. new.m.buffered >= state.m.buffered
    BY <1>1, <2>1
  <2> QED BY <1>4, <2>1, <2>2 DEF new
<1> QED BY <1>3, <1>4

\* ... all the series of a record, ...
LEMMA SeriesFresh ==
    ASSUME NEW state \in Resolver, NEW q \in Seq(IdSeries)
    PROVE  LET new == SeriesApplied(state, q) IN
           /\ new \in Resolver
           /\ new.m.buffered >= state.m.buffered
           /\ Fresh(state.m) => Fresh(new.m)
           /\ \A k \in DOMAIN q : q[k].id \in DOMAIN new.ids
<1> DEFINE new == SeriesApplied(state, q)
<1>1. PICK r \in [0 .. Len(q) -> Resolver] :
               /\ r[0] = state /\ r[Len(q)] = new
               /\ \A i \in 1 .. Len(q) : r[i] = ApplySeries(r[i - 1], q[i])
  BY ApplySeriesRun
<1>2. Len(q) \in Nat /\ DOMAIN q = 1 .. Len(q) /\ state.m.buffered \in Nat
  BY DEF Resolver, Memory
<1> HIDE DEF new
<1> DEFINE G == {i \in 0 .. Len(q) :
      /\ r[i].m.buffered >= state.m.buffered
      /\ Fresh(state.m) => Fresh(r[i].m)
      /\ \A k \in 1 .. i : q[k].id \in DOMAIN r[i].ids}
<1>3. 0 \in G
  BY <1>1, <1>2
<1>4. ASSUME NEW i \in 1 .. Len(q), i - 1 \in G PROVE i \in G
  <2>1. /\ r[i - 1].m.buffered >= state.m.buffered
        /\ Fresh(state.m) => Fresh(r[i - 1].m)
        /\ \A k \in 1 .. i - 1 : q[k].id \in DOMAIN r[i - 1].ids
    BY <1>4
  <2> HIDE DEF G
  <2>2. i - 1 \in 0 .. Len(q) /\ i \in 0 .. Len(q) /\ q[i] \in IdSeries
        /\ \A k \in 1 .. i : k \in 1 .. i - 1 \/ k = i
    BY <1>2
  <2>3. r[i - 1] \in Resolver /\ r[i] \in Resolver /\ r[i] = ApplySeries(r[i - 1], q[i])
    BY <1>1, <2>2
  <2>4. /\ r[i].m.buffered >= r[i - 1].m.buffered
        /\ Fresh(r[i - 1].m) => Fresh(r[i].m)
        /\ DOMAIN r[i].ids = DOMAIN r[i - 1].ids \cup {q[i].id}
    BY <2>2, <2>3, ApplySeriesFresh
  <2>5. r[i].m.buffered \in Nat /\ r[i - 1].m.buffered \in Nat
    BY <2>3 DEF Resolver, Memory
  <2>6. r[i].m.buffered >= state.m.buffered
    BY <1>2, <2>1, <2>4, <2>5
  <2>7. \A k \in 1 .. i : q[k].id \in DOMAIN r[i].ids
    BY <2>1, <2>2, <2>4, Zenon
  <2>8. Fresh(state.m) => Fresh(r[i].m)
    BY <2>1, <2>4, Zenon
  <2> QED BY <2>2, <2>6, <2>7, <2>8 DEF G
<1> HIDE DEF G
<1>5. Len(q) \in G
  BY <1>2, <1>3, <1>4, UpTo
<1>6. new \in Resolver
  BY <1>1, <1>2
<1> QED BY <1>1, <1>2, <1>5, <1>6 DEF G, new

\* ... its samples, ...
LEMMA SamplesFresh ==
    ASSUME NEW state \in Resolver, NEW q \in Seq(IdEntry)
    PROVE  LET new == SamplesApplied(state, q) IN
           /\ new \in Resolver
           /\ new.m.buffered >= state.m.buffered
           /\ Fresh(state.m) /\ q # <<>> /\ q[1].samples # <<>>
                /\ q[1].id \in DOMAIN state.ids => new.m.buffered > 0
<1> DEFINE new == SamplesApplied(state, q)
<1> DEFINE Good == /\ Fresh(state.m) /\ q # <<>> /\ q[1].samples # <<>>
                   /\ q[1].id \in DOMAIN state.ids
<1>1. PICK r \in [0 .. Len(q) -> Resolver] :
               /\ r[0] = state /\ r[Len(q)] = new
               /\ \A i \in 1 .. Len(q) : r[i] = ApplySamples(r[i - 1], q[i])
  BY ApplySamplesRun
<1>2. Len(q) \in Nat /\ state.m.buffered \in Nat /\ (q # <<>> => Len(q) > 0)
  BY DEF Resolver, Memory
<1> HIDE DEF new
<1> DEFINE G == {i \in 0 .. Len(q) :
      /\ r[i].m.buffered >= state.m.buffered
      /\ Good /\ i > 0 => r[i].m.buffered > 0}
<1>3. 0 \in G
  BY <1>1, <1>2
<1>4. ASSUME NEW i \in 1 .. Len(q), i - 1 \in G PROVE i \in G
  <2>1. /\ r[i - 1].m.buffered >= state.m.buffered
        /\ Good /\ i - 1 > 0 => r[i - 1].m.buffered > 0
    BY <1>4
  <2> HIDE DEF G
  <2>2. i - 1 \in 0 .. Len(q) /\ i \in 0 .. Len(q) /\ q[i] \in IdEntry
        /\ (i - 1 > 0 \/ (i - 1 = 0 /\ i = 1))
    BY <1>2
  <2>3. r[i - 1] \in Resolver /\ r[i] \in Resolver /\ r[i] = ApplySamples(r[i - 1], q[i])
    BY <1>1, <2>2
  <2>4. /\ r[i].m.buffered >= r[i - 1].m.buffered
        /\ Fresh(r[i - 1].m) =>
              /\ Fresh(r[i].m)
              /\ q[i].id \in DOMAIN r[i - 1].ids /\ q[i].samples # <<>>
                    => r[i].m.buffered > 0
    BY <2>2, <2>3, ApplySamplesFresh
  <2>5. r[i].m.buffered \in Nat /\ r[i - 1].m.buffered \in Nat
    BY <2>3 DEF Resolver, Memory
  <2>6. r[i].m.buffered >= state.m.buffered
    BY <1>2, <2>1, <2>4, <2>5
  <2>7. Good => r[i].m.buffered > 0
    <3>1. CASE i - 1 > 0
      <4> HIDE DEF Good
      <4> QED BY <2>1, <2>4, <2>5, <3>1
    <3>2. CASE i = 1
      <4>1. r[i - 1] = state
        BY <1>1, <3>2
      <4> QED BY <2>4, <3>2, <4>1, Zenon
    <3> QED BY <2>2, <3>1, <3>2
  <2> QED BY <2>2, <2>6, <2>7 DEF G
<1> HIDE DEF G
<1>5. Len(q) \in G
  BY <1>2, <1>3, <1>4, UpTo
<1>6. new \in Resolver
  BY <1>1, <1>2
<1>7. new.m.buffered >= state.m.buffered /\ (Good /\ Len(q) > 0 => new.m.buffered > 0)
  BY <1>1, <1>5 DEF G
<1> QED BY <1>2, <1>6, <1>7 DEF new

\* ... and all of it.
LEMMA RecordFresh ==
    ASSUME NEW state \in Resolver, NEW rec \in LogRecord
    PROVE  LET new == ApplyRecord(state, rec) IN
           /\ new.m.buffered >= state.m.buffered
           /\ Fresh(state.m) /\ OwnIds(rec) => new.m.buffered > 0
<1> DEFINE mid == SeriesApplied(state, rec.series)
<1> DEFINE new == ApplyRecord(state, rec)
<1>1. rec.series \in Seq(IdSeries) /\ rec.samples \in Seq(IdEntry)
  BY DEF LogRecord
<1>2. /\ mid \in Resolver /\ mid.m.buffered >= state.m.buffered
      /\ Fresh(state.m) => Fresh(mid.m)
      /\ \A k \in DOMAIN rec.series : rec.series[k].id \in DOMAIN mid.ids
  BY <1>1, SeriesFresh
<1>3. new = SamplesApplied(mid, rec.samples)
  BY Zenon DEF ApplyRecord, SeriesApplied, SamplesApplied
<1> HIDE DEF mid, new
<1>4. /\ new \in Resolver /\ new.m.buffered >= mid.m.buffered
      /\ Fresh(mid.m) /\ rec.samples # <<>> /\ rec.samples[1].samples # <<>>
           /\ rec.samples[1].id \in DOMAIN mid.ids => new.m.buffered > 0
  BY <1>1, <1>2, <1>3, SamplesFresh
<1>5. /\ new.m.buffered \in Nat /\ mid.m.buffered \in Nat /\ state.m.buffered \in Nat
  BY <1>2, <1>4 DEF Resolver, Memory
<1>6. new.m.buffered >= state.m.buffered
  BY <1>2, <1>4, <1>5
<1>7. OwnIds(rec) => /\ rec.samples # <<>> /\ rec.samples[1].samples # <<>>
                     /\ rec.samples[1].id \in DOMAIN mid.ids
  BY <1>2, Zenon DEF OwnIds
<1>8. Fresh(state.m) /\ OwnIds(rec) => new.m.buffered > 0
  BY <1>2, <1>4, <1>7, Zenon
<1> QED BY <1>6, <1>8 DEF new

\* A log whose first record defines its first id is not replayed in vain.
LEMMA ReplayFresh ==
    ASSUME NEW state \in Resolver, Fresh(state.m), NEW recs \in Seq(LogRecord),
           recs # <<>>, OwnIds(recs[1])
    PROVE  RecordsApplied(state, recs).m.buffered > 0
<1> DEFINE new == RecordsApplied(state, recs)
<1>1. PICK r \in [0 .. Len(recs) -> Resolver] :
               /\ r[0] = state /\ r[Len(recs)] = new
               /\ \A i \in 1 .. Len(recs) : r[i] = ApplyRecord(r[i - 1], recs[i])
  BY ReplayedRun
<1>2. Len(recs) \in Nat /\ Len(recs) > 0
  OBVIOUS
<1> HIDE DEF new
<1> DEFINE G == {i \in 0 .. Len(recs) : i > 0 => r[i].m.buffered > 0}
<1>3. 0 \in G
  BY <1>2
<1>4. ASSUME NEW i \in 1 .. Len(recs), i - 1 \in G PROVE i \in G
  <2>1. i - 1 > 0 => r[i - 1].m.buffered > 0
    BY <1>4
  <2> HIDE DEF G
  <2>2. i - 1 \in 0 .. Len(recs) /\ i \in 0 .. Len(recs) /\ recs[i] \in LogRecord
        /\ (i - 1 > 0 \/ (i - 1 = 0 /\ i = 1))
    BY <1>2
  <2>3. r[i - 1] \in Resolver /\ r[i] \in Resolver /\ r[i] = ApplyRecord(r[i - 1], recs[i])
    BY <1>1, <2>2
  <2>4. /\ r[i].m.buffered >= r[i - 1].m.buffered
        /\ Fresh(r[i - 1].m) /\ OwnIds(recs[i]) => r[i].m.buffered > 0
    BY <2>2, <2>3, RecordFresh
  <2>5. r[i].m.buffered \in Nat /\ r[i - 1].m.buffered \in Nat
    BY <2>3 DEF Resolver, Memory
  <2>6. r[i].m.buffered > 0
    <3>1. CASE i - 1 > 0
      BY <2>1, <2>4, <2>5, <3>1
    <3>2. CASE i = 1
      <4>1. r[i - 1] = state
        BY <1>1, <3>2
      <4> QED BY <2>4, <3>2, <4>1, Zenon
    <3> QED BY <2>2, <3>1, <3>2
  <2> QED BY <2>2, <2>6 DEF G
<1> HIDE DEF G
<1>5. Len(recs) \in G
  BY <1>2, <1>3, <1>4, UpTo
<1>6. r[Len(recs)].m.buffered > 0
  BY <1>2, <1>5 DEF G
<1> QED BY <1>1, <1>6 DEF new

-----------------------------------------------------------------------------
(* Which batches are in files. *)

\* The batches of history that have left the buffer are numbered as they should
\* be, and the last of them is in segments sg or in files w.
Numbers(sg, w, buf, past) ==
    LET n == Len(past) - Len(buf)
    IN  /\ Len(buf) <= Len(past)
        /\ \A i \in DOMAIN buf : buf[i].no = n + i
        /\ \A f \in DOMAIN w : \A i \in DOMAIN w[f].recs : w[f].recs[i].no \in 1 .. n
        /\ \A i \in DOMAIN sg : sg[i].upto <= n
        /\ n # 0 => \/ \E i \in DOMAIN sg : sg[i].upto = n
                    \/ \E f \in DOMAIN w : \E i \in DOMAIN w[f].recs :
                         w[f].recs[i].no = n

\* The first record of the log defines the id it uses.
Begun(w, buf) ==
    \/ /\ \A f \in DOMAIN w : w[f].recs = <<>>
       /\ buf # <<>> /\ OwnIds(buf[1])
    \/ \E f \in DOMAIN w :
         /\ w[f].recs # <<>> /\ OwnIds(w[f].recs[1])
         /\ \A g \in DOMAIN w : g < f => w[g].recs = <<>>

\* What of history past is in segments, in files and in the buffer. Without
\* segments all of it must be replayed, so the log must not be without effect.
LogKept(sg, w, buf, past) ==
    Numbers(sg, w, buf, past) /\ (sg = <<>> /\ past # <<>> => Begun(w, buf))

\* v has the records of w, and for the rest empty files.
SameRecs(v, w) ==
    /\ DOMAIN w \subseteq DOMAIN v
    /\ \A f \in DOMAIN w : v[f].recs = w[f].recs
    /\ \A f \in DOMAIN v : f \notin DOMAIN w => v[f].recs = <<>>

\* It does not matter which files are empty, or synced, or torn.
LEMMA SameRecsKept ==
    ASSUME NEW sg, NEW w, NEW v, NEW buf, NEW past, SameRecs(v, w),
           LogKept(sg, w, buf, past)
    PROVE  LogKept(sg, v, buf, past)
<1>1. ASSUME NEW f \in DOMAIN v, v[f].recs # <<>>
      PROVE  f \in DOMAIN w /\ v[f].recs = w[f].recs
  BY <1>1 DEF SameRecs
<1>2. \A f \in DOMAIN w : f \in DOMAIN v /\ v[f].recs = w[f].recs
  BY DEF SameRecs
<1>3. Numbers(sg, w, buf, past) /\ (sg = <<>> /\ past # <<>> => Begun(w, buf))
  BY DEF LogKept
<1>4. Numbers(sg, v, buf, past)
  <2> DEFINE n == Len(past) - Len(buf)
  <2>1. /\ Len(buf) <= Len(past)
        /\ \A i \in DOMAIN buf : buf[i].no = n + i
        /\ \A f \in DOMAIN w : \A i \in DOMAIN w[f].recs : w[f].recs[i].no \in 1 .. n
        /\ \A i \in DOMAIN sg : sg[i].upto <= n
        /\ n # 0 => \/ \E i \in DOMAIN sg : sg[i].upto = n
                    \/ \E f \in DOMAIN w : \E i \in DOMAIN w[f].recs :
                         w[f].recs[i].no = n
    BY <1>3 DEF Numbers
  <2> HIDE DEF n
  <2>2. ASSUME NEW f \in DOMAIN v, NEW i \in DOMAIN v[f].recs
        PROVE  v[f].recs[i].no \in 1 .. n
    <3>1. v[f].recs # <<>>
      OBVIOUS
    <3>2. f \in DOMAIN w /\ v[f].recs = w[f].recs
      BY <1>1, <3>1
    <3>3. i \in DOMAIN w[f].recs /\ v[f].recs[i] = w[f].recs[i]
      BY <3>2
    <3> QED BY <2>1, <3>2, <3>3
  <2>3. (\E f \in DOMAIN w : \E i \in DOMAIN w[f].recs : w[f].recs[i].no = n)
          => \E f \in DOMAIN v : \E i \in DOMAIN v[f].recs : v[f].recs[i].no = n
    BY <1>2, Zenon
  <2>4. n # 0 => \/ \E i \in DOMAIN sg : sg[i].upto = n
                 \/ \E f \in DOMAIN v : \E i \in DOMAIN v[f].recs :
                      v[f].recs[i].no = n
    BY <2>1, <2>3, Zenon
  <2> QED BY <2>1, <2>2, <2>4, Zenon DEF Numbers, n
<1>5. Begun(w, buf) => Begun(v, buf)
  <2>1. (\A f \in DOMAIN w : w[f].recs = <<>>) => \A f \in DOMAIN v : v[f].recs = <<>>
    BY <1>1, Zenon
  <2>2. ASSUME NEW f \in DOMAIN w, w[f].recs # <<>>, OwnIds(w[f].recs[1]),
               \A g \in DOMAIN w : g < f => w[g].recs = <<>>
        PROVE  /\ f \in DOMAIN v /\ v[f].recs # <<>> /\ OwnIds(v[f].recs[1])
               /\ \A g \in DOMAIN v : g < f => v[g].recs = <<>>
    BY <1>1, <1>2, <2>2, Zenon
  <2> QED BY <2>1, <2>2, Zenon DEF Begun
<1> QED BY <1>3, <1>4, <1>5, Zenon DEF LogKept

LEMMA SameRecsTransitive ==
    ASSUME NEW u, NEW v, NEW w, SameRecs(u, v), SameRecs(v, w)
    PROVE  SameRecs(u, w)
<1>1. \A f \in DOMAIN u : f \notin DOMAIN w => u[f].recs = <<>>
  BY Zenon DEF SameRecs
<1>2. DOMAIN w \subseteq DOMAIN u /\ \A f \in DOMAIN w : u[f].recs = w[f].recs
  BY DEF SameRecs
<1> QED BY <1>1, <1>2 DEF SameRecs

LEMMA WithFileSame ==
    ASSUME NEW w, NEW id, id \notin DOMAIN w
    PROVE  SameRecs(WithFile(w, id), w)
BY DEF SameRecs, WithFile, EmptyFile

LEMMA SyncedSame ==
    ASSUME NEW k, NEW w, Shape(w, k), LastFile \in DOMAIN w
    PROVE  SameRecs(Synced(w), w)
<1> DEFINE old == w[LastFile]
<1> DEFINE new == [old EXCEPT !.synced = Len(old.recs)]
<1> DEFINE v == Synced(w)
<1>1. old \in LogFile(k)
  BY DEF Shape
<1>2. v = [w EXCEPT ![LastFile] = new]
  BY DEF Synced
<1> HIDE DEF v, old
<1>3. new.recs = old.recs
  BY <1>1 DEF LogFile
<1> HIDE DEF new
<1>4. /\ DOMAIN v = DOMAIN w
      /\ \A f \in DOMAIN v : v[f] = IF f = LastFile THEN new ELSE w[f]
  BY <1>2 DEF Shape
<1> QED BY <1>3, <1>4 DEF SameRecs, old, v

\* What Drained writes.
LEMMA DrainedIs ==
    ASSUME NEW k, Shape(wal, k), LastFile \in DOMAIN wal, NEW n
    PROVE  LET v == Drained(n) IN
           /\ DOMAIN v = DOMAIN wal
           /\ \A f \in DOMAIN wal : v[f].recs =
                 IF f = LastFile THEN wal[f].recs \o SubSeq(walBuf, 1, n)
                 ELSE wal[f].recs
<1> DEFINE old == wal[LastFile]
<1> DEFINE new == [old EXCEPT !.recs = old.recs \o SubSeq(walBuf, 1, n)]
<1> DEFINE v == Drained(n)
<1>1. old \in LogFile(k)
  BY DEF Shape
<1>2. v = [wal EXCEPT ![LastFile] = new]
  BY DEF Drained
<1> HIDE DEF v, old
<1>3. new.recs = old.recs \o SubSeq(walBuf, 1, n)
  BY <1>1 DEF LogFile
<1> HIDE DEF new
<1>4. /\ DOMAIN v = DOMAIN wal
      /\ \A f \in DOMAIN v : v[f] = IF f = LastFile THEN new ELSE wal[f]
  BY <1>2 DEF Shape
<1> QED BY <1>3, <1>4, Zenon DEF old, v

\* Records that move from the buffer to the last file stay in order.
LEMMA DrainedKept ==
    ASSUME NEW k, Shape(wal, k), LastFile \in DOMAIN wal,
           \A g \in DOMAIN wal : g <= LastFile,
           walBuf \in Seq(Rec(k)), hist \in Seq(Batches), NEW n \in 0 .. Len(walBuf),
           LogKept(segs, wal, walBuf, hist), segs \in Seq(Seg(k)), k \in Nat
    PROVE  LET buf == SubSeq(walBuf, n + 1, Len(walBuf)) IN
           /\ LogKept(segs, Drained(n), buf, hist)
           /\ Len(hist) - Len(buf) = Len(hist) - Len(walBuf) + n
<1> DEFINE buf == SubSeq(walBuf, n + 1, Len(walBuf))
<1> DEFINE q == SubSeq(walBuf, 1, n)
<1> DEFINE v == Drained(n)
<1> DEFINE old == wal[LastFile].recs
<1> DEFINE was == Len(hist) - Len(walBuf)
<1>1. /\ DOMAIN v = DOMAIN wal
      /\ \A f \in DOMAIN wal : v[f].recs = IF f = LastFile THEN wal[f].recs \o q
                                           ELSE wal[f].recs
  BY DrainedIs
<1>2. /\ Len(walBuf) <= Len(hist)
      /\ \A i \in DOMAIN walBuf : walBuf[i].no = was + i
      /\ \A f \in DOMAIN wal : \A i \in DOMAIN wal[f].recs : wal[f].recs[i].no \in 1 .. was
      /\ \A i \in DOMAIN segs : segs[i].upto <= was
      /\ was # 0 => \/ \E i \in DOMAIN segs : segs[i].upto = was
                    \/ \E f \in DOMAIN wal : \E i \in DOMAIN wal[f].recs :
                         wal[f].recs[i].no = was
  BY DEF LogKept, Numbers
<1>3. Len(hist) \in Nat /\ Len(walBuf) \in Nat /\ n \in Nat /\ n <= Len(walBuf)
  OBVIOUS
<1>4. was \in Nat
  BY <1>2, <1>3
<1>5. /\ buf \in Seq(Rec(k)) /\ Len(buf) = Len(walBuf) - n
      /\ \A i \in 1 .. Len(buf) : n + i \in 1 .. Len(walBuf) /\ buf[i] = walBuf[n + i]
      /\ DOMAIN buf = 1 .. Len(buf)
  OBVIOUS
<1>6. /\ q \in Seq(Rec(k)) /\ Len(q) = n
      /\ \A i \in 1 .. n : i \in DOMAIN walBuf /\ q[i] = walBuf[i]
  OBVIOUS
<1>7. old \in Seq(Rec(k))
  BY DEF Shape, LogFile
<1>8. DOMAIN walBuf = 1 .. Len(walBuf)
  OBVIOUS
<1>9. \A g \in DOMAIN wal : wal[g].recs \in Seq(Rec(k)) /\ g \in Nat
  BY DEF Shape, LogFile
<1> HIDE DEF buf, q, v
<1>10. Len(hist) - Len(buf) = was + n
  BY <1>3, <1>4, <1>5
<1>11. /\ old \o q \in Seq(Rec(k)) /\ Len(old \o q) = Len(old) + n /\ Len(old) \in Nat
       /\ \A i \in 1 .. Len(old) : (old \o q)[i] = old[i]
       /\ \A i \in 1 .. n : (old \o q)[Len(old) + i] = q[i]
  <2> HIDE DEF old
  <2>1. Len(q) = n /\ Len(old) \in Nat
    BY <1>6, <1>7
  <2>2. /\ old \o q \in Seq(Rec(k)) /\ Len(old \o q) = Len(old) + Len(q)
        /\ \A i \in 1 .. Len(old) : (old \o q)[i] = old[i]
        /\ \A i \in 1 .. Len(q) : (old \o q)[Len(old) + i] = q[i]
    <3>1. q \in Seq(Rec(k)) /\ old \in Seq(Rec(k))
      BY <1>6, <1>7, Zenon
    <3> QED BY <3>1, JoinIs
  <2>3. \A i \in 1 .. n : i \in 1 .. Len(q)
    BY <2>1
  <2>4. Len(old \o q) = Len(old) + n
    BY <2>1, <2>2, Zenon
  <2>5. \A i \in 1 .. n : (old \o q)[Len(old) + i] = q[i]
    BY <2>2, <2>3, Zenon
  <2> QED BY <2>1, <2>2, <2>4, <2>5, Zenon
<1> HIDE DEF was, old
<1>12. Numbers(segs, v, buf, hist)
  <2>1. Len(buf) <= Len(hist)
    BY <1>2, <1>3, <1>5
  <2>2. \A i \in DOMAIN buf : buf[i].no = (was + n) + i
    <3> SUFFICES ASSUME NEW i \in 1 .. Len(buf) PROVE buf[i].no = (was + n) + i
      BY <1>5
    <3>1. n + i \in 1 .. Len(walBuf) /\ buf[i] = walBuf[n + i]
      BY <1>5
    <3>2. walBuf[n + i].no = was + (n + i)
      BY <1>2, <1>8, <3>1
    <3> QED BY <1>3, <1>4, <3>1, <3>2
  <2>3. ASSUME NEW f \in DOMAIN v, NEW i \in DOMAIN v[f].recs
        PROVE  v[f].recs[i].no \in 1 .. was + n
    <3>1. CASE f # LastFile
      <4>1. v[f].recs = wal[f].recs /\ f \in DOMAIN wal
        BY <1>1, <3>1
      <4>2. v[f].recs[i].no \in 1 .. was
        BY <1>2, <4>1
      <4> QED BY <1>3, <1>4, <4>2
    <3>2. CASE f = LastFile
      <4>1. v[f].recs = old \o q
        BY <1>1, <3>2, Zenon DEF old
      <4>2. i \in 1 .. Len(old) + n
        BY <1>11, <4>1
      <4>3. CASE i <= Len(old)
        <5>1. v[f].recs[i] = old[i] /\ i \in DOMAIN old
          BY <1>7, <1>11, <4>1, <4>2, <4>3
        <5>2. old[i].no \in 1 .. was
          BY <1>2, <5>1 DEF old
        <5> QED BY <1>3, <1>4, <5>1, <5>2
      <4>4. CASE i > Len(old)
        <5>1. PICK j \in 1 .. n : i = Len(old) + j
          <6>1. i - Len(old) \in 1 .. n /\ i = Len(old) + (i - Len(old))
            BY <1>3, <1>11, <4>2, <4>4
          <6> QED BY <6>1
        <5>2. v[f].recs[i] = walBuf[j] /\ j \in DOMAIN walBuf
          BY <1>6, <1>11, <4>1, <5>1
        <5>3. walBuf[j].no = was + j
          BY <1>2, <5>2
        <5> QED BY <1>3, <1>4, <5>2, <5>3
      <4> QED BY <1>11, <4>2, <4>3, <4>4
    <3> QED BY <3>1, <3>2
  <2>4. \A i \in DOMAIN segs : segs[i].upto <= was + n
    <3>1. \A i \in DOMAIN segs : segs[i].upto \in Nat /\ segs[i].upto <= was
      BY <1>2 DEF Seg, Segment
    <3> QED BY <1>3, <1>4, <3>1
  <2>5. was + n # 0 => \/ \E i \in DOMAIN segs : segs[i].upto = was + n
                       \/ \E f \in DOMAIN v : \E i \in DOMAIN v[f].recs :
                            v[f].recs[i].no = was + n
    <3>1. CASE n > 0
      <4>1. n \in 1 .. n /\ n \in DOMAIN walBuf
        BY <1>3, <1>8, <3>1
      <4>2. v[LastFile].recs = old \o q /\ LastFile \in DOMAIN v
        BY <1>1, Zenon DEF old
      <4>3. Len(old) + n \in DOMAIN v[LastFile].recs
        BY <1>3, <1>11, <3>1, <4>2
      <4>4. v[LastFile].recs[Len(old) + n] = walBuf[n]
        BY <1>6, <1>11, <4>1, <4>2
      <4>5. walBuf[n].no = was + n
        BY <1>2, <4>1
      <4> QED BY <4>2, <4>3, <4>4, <4>5, Zenon
    <3>2. CASE n = 0
      <4>1. was + n = was
        BY <1>4, <3>2
      <4>2. ASSUME NEW f \in DOMAIN wal, NEW i \in DOMAIN wal[f].recs, wal[f].recs[i].no = was
            PROVE  f \in DOMAIN v /\ i \in DOMAIN v[f].recs /\ v[f].recs[i].no = was
        <5>1. CASE f = LastFile
          <6>0. v[f].recs = old \o q /\ wal[f].recs = old
            BY <1>1, <5>1, Zenon DEF old
          <6>1. i \in 1 .. Len(old)
            BY <1>7, <6>0
          <6>2. i \in DOMAIN v[f].recs /\ v[f].recs[i] = old[i]
            BY <1>3, <1>11, <6>0, <6>1
          <6> QED BY <1>1, <4>2, <6>0, <6>2
        <5>2. CASE f # LastFile
          BY <1>1, <4>2, <5>2
        <5> QED BY <5>1, <5>2
      <4>3. was # 0 => \/ \E i \in DOMAIN segs : segs[i].upto = was
                       \/ \E f \in DOMAIN v : \E i \in DOMAIN v[f].recs :
                            v[f].recs[i].no = was
        BY <1>2, <4>2, Zenon
      <4> QED BY <4>1, <4>3
    <3> QED BY <1>3, <3>1, <3>2
  <2> QED BY <1>10, <2>1, <2>2, <2>3, <2>4, <2>5 DEF Numbers
<1>13. ASSUME Begun(wal, walBuf) PROVE Begun(v, buf)
  <2>1. CASE /\ \A f \in DOMAIN wal : wal[f].recs = <<>>
             /\ walBuf # <<>> /\ OwnIds(walBuf[1])
    <3>1. old = <<>>
      BY <2>1, Zenon DEF old
    <3>2. CASE n = 0
      <4>1. old \o q = <<>>
        BY <1>11, <3>1, <3>2
      <4>2. \A f \in DOMAIN v : v[f].recs = <<>>
        BY <1>1, <2>1, <4>1, Zenon DEF old
      <4>3. Len(walBuf) > 0
        BY <2>1
      <4>4. buf # <<>> /\ buf[1] = walBuf[1]
        BY <1>3, <1>5, <3>2, <4>3
      <4> QED BY <2>1, <4>2, <4>4, Zenon DEF Begun
    <3>3. CASE n > 0
      <4>1. v[LastFile].recs = old \o q /\ LastFile \in DOMAIN v
        BY <1>1, Zenon DEF old
      <4>2. Len(old) = 0
        BY <3>1
      <4>3. 1 \in 1 .. n
        BY <1>3, <3>3
      <4>4. (old \o q)[0 + 1] = q[1] /\ Len(old \o q) > 0
        BY <1>3, <1>11, <3>3, <4>2, <4>3
      <4>5. v[LastFile].recs # <<>> /\ v[LastFile].recs[1] = walBuf[1]
        BY <1>6, <4>1, <4>3, <4>4
      <4>6. \A g \in DOMAIN v : g < LastFile => v[g].recs = <<>>
        <5>1. \A g \in DOMAIN v : g < LastFile => g # LastFile
          BY <1>1, <1>9
        <5> QED BY <1>1, <2>1, <5>1, Zenon
      <4> QED BY <2>1, <4>1, <4>5, <4>6, Zenon DEF Begun
    <3> QED BY <1>3, <3>2, <3>3
  <2>2. CASE \E f \in DOMAIN wal :
               /\ wal[f].recs # <<>> /\ OwnIds(wal[f].recs[1])
               /\ \A g \in DOMAIN wal : g < f => wal[g].recs = <<>>
    <3>1. PICK f \in DOMAIN wal :
               /\ wal[f].recs # <<>> /\ OwnIds(wal[f].recs[1])
               /\ \A g \in DOMAIN wal : g < f => wal[g].recs = <<>>
      BY <2>2
    <3>2. v[f].recs # <<>> /\ v[f].recs[1] = wal[f].recs[1]
      <4>1. CASE f = LastFile
        <5>1. v[f].recs = old \o q /\ old = wal[f].recs
          BY <1>1, <4>1, Zenon DEF old
        <5>2. Len(old) > 0
          BY <1>7, <3>1, <5>1
        <5>3. Len(old \o q) > 0 /\ (old \o q)[1] = old[1]
          BY <1>3, <1>11, <5>2
        <5> QED BY <5>1, <5>3
      <4>2. CASE f # LastFile
        BY <1>1, <3>1, <4>2, Zenon
      <4> QED BY <4>1, <4>2
    <3>3. ASSUME NEW g \in DOMAIN v, g < f PROVE v[g].recs = <<>>
      <4>1. g # LastFile
        BY <1>1, <1>9, <3>3
      <4> QED BY <1>1, <3>1, <3>3, <4>1, Zenon
    <3> QED BY <1>1, <3>1, <3>2, <3>3, Zenon DEF Begun
  <2> QED BY <1>13, <2>1, <2>2, Zenon DEF Begun
<1>14. LogKept(segs, v, buf, hist)
  BY <1>12, <1>13, Zenon DEF LogKept
<1> QED BY <1>10, <1>14 DEF buf, v, was

\* A stop that loses only what is in the buffer: the history ends there.
LEMMA SurvivorsAre ==
    ASSUME NEW k \in Nat, NEW sg \in Seq(Seg(k)), NEW w, Shape(w, k),
           NEW buf \in Seq(Rec(k)), NEW past \in Seq(Batches),
           LogKept(sg, w, buf, past)
    PROVE  LET n == Len(past) - Len(buf) IN
           /\ n \in Nat /\ n <= Len(past) /\ Survivors(sg, w) = n
           /\ LogKept(sg, w, <<>>, SubSeq(past, 1, n))
<1> DEFINE n == Len(past) - Len(buf)
<1> DEFINE nos == Nos(sg, w)
<1>1. /\ Len(buf) <= Len(past)
      /\ \A f \in DOMAIN w : \A i \in DOMAIN w[f].recs : w[f].recs[i].no \in 1 .. n
      /\ \A i \in DOMAIN sg : sg[i].upto <= n
      /\ n # 0 => \/ \E i \in DOMAIN sg : sg[i].upto = n
                  \/ \E f \in DOMAIN w : \E i \in DOMAIN w[f].recs : w[f].recs[i].no = n
  BY DEF LogKept, Numbers
<1>2. n \in Nat /\ n <= Len(past)
  BY <1>1
<1>3. nos \subseteq 0 .. n
  <2>1. \A i \in DOMAIN sg : sg[i].upto \in Nat /\ sg[i].upto <= n
    BY <1>1 DEF Seg, Segment
  <2> HIDE DEF n
  <2>2. \A x \in nos : x \in 0 .. n
    BY <1>1, <1>2, <2>1 DEF Nos
  <2> HIDE DEF nos
  <2> QED BY <2>2
<1>4. n \in nos \cup {0}
  <2> HIDE DEF n
  <2>1. (\E i \in DOMAIN sg : sg[i].upto = n) => n \in nos
    BY DEF Nos
  <2>2. (\E f \in DOMAIN w : \E i \in DOMAIN w[f].recs : w[f].recs[i].no = n) => n \in nos
    BY DEF Nos
  <2>3. n = 0 \/ n \in nos
    BY <1>1, <2>1, <2>2, Zenon DEF n
  <2> HIDE DEF nos
  <2> QED BY <2>3
<1>5. Survivors(sg, w) = CHOOSE x \in nos \cup {0} : \A j \in nos : j <= x
  BY DEF Survivors, Nos
<1> HIDE DEF n, nos
<1>6. Survivors(sg, w) = n
  <2>0. n \in Nat
    BY <1>2, Zenon DEF n
  <2>1. \A j \in nos : j <= n
    BY <2>0, <1>3
  <2>2. /\ Survivors(sg, w) \in nos \cup {0}
        /\ \A j \in nos : j <= Survivors(sg, w)
    BY <1>4, <1>5, <2>1, Zenon
  <2>3. Survivors(sg, w) \in 0 .. n
    <3>1. 0 \in 0 .. n
      BY <2>0
    <3> QED BY <1>3, <2>2, <3>1, Zenon
  <2>4. n = 0 \/ n <= Survivors(sg, w)
    BY <1>4, <2>2
  <2> QED BY <2>0, <2>3, <2>4
<1> DEFINE h == SubSeq(past, 1, n)
<1>7. Len(h) = n /\ Len(<<>>) = 0 /\ n - 0 = n /\ (n # 0 => past # <<>>)
  BY <1>2
<1> HIDE DEF h
<1>8. Numbers(sg, w, <<>>, h)
  BY <1>1, <1>2, <1>7 DEF Numbers
<1>9. ASSUME sg = <<>>, h # <<>> PROVE Begun(w, <<>>)
  <2>1. n # 0
    BY <1>2, <1>7, <1>9 DEF h
  <2>2. Begun(w, buf)
    BY <1>7, <1>9, <2>1 DEF LogKept
  <2>3. PICK f \in DOMAIN w : \E i \in DOMAIN w[f].recs : w[f].recs[i].no = n
    BY <1>1, <1>9, <2>1
  <2>4. w[f].recs # <<>>
    BY <2>3
  <2> QED BY <2>2, <2>4, Zenon DEF Begun
<1>10. LogKept(sg, w, <<>>, h)
  BY <1>8, <1>9, Zenon DEF LogKept
<1> QED BY <1>2, <1>6, <1>10 DEF h, n

-----------------------------------------------------------------------------
(* The log is replayed from its first record. *)

\* The first of the sequences that is not empty begins the flattened one.
LEMMA FlattenHead ==
    ASSUME NEW S, NEW qs \in Seq(Seq(S)), NEW f \in 1 .. Len(qs), qs[f] # <<>>,
           \A g \in 1 .. Len(qs) : g < f => qs[g] = <<>>
    PROVE  FlattenSeq(qs) # <<>> /\ FlattenSeq(qs)[1] = qs[f][1]
<1>1. PICK r \in [0 .. Len(qs) -> Seq(S)] :
               /\ r[0] = <<>> /\ r[Len(qs)] = FlattenSeq(qs)
               /\ \A i \in 1 .. Len(qs) : r[i] = r[i - 1] \o qs[i]
  BY FlattenRun
<1>2. Len(qs) \in Nat /\ f \in Nat /\ f # 0 /\ f <= Len(qs)
  OBVIOUS
<1>3. \A i \in 1 .. Len(qs) : qs[i] \in Seq(S)
  OBVIOUS
<1> DEFINE Starts(q) == q # <<>> /\ q[1] = qs[f][1]
<1> DEFINE G == {i \in 0 .. Len(qs) : IF i < f THEN r[i] = <<>> ELSE Starts(r[i])}
<1>4. 0 \in G
  BY <1>1, <1>2
<1>5. ASSUME NEW i \in 1 .. Len(qs), i - 1 \in G PROVE i \in G
  <2> DEFINE a == r[i - 1]
  <2> DEFINE b == qs[i]
  <2>1. i \in 0 .. Len(qs) /\ i - 1 \in 0 .. Len(qs) /\ i \in Nat
    BY <1>2
  <2>2. r[i] = a \o b
    BY <1>1
  <2>3. IF i - 1 < f THEN a = <<>> ELSE Starts(a)
    BY <1>5
  <2>4. a \in Seq(S) /\ b \in Seq(S)
    BY <1>1, <1>3, <2>1
  <2> HIDE DEF a, G
  <2>5. CASE i < f
    <3>1. b = <<>>
      BY <2>5
    <3>2. a = <<>>
      BY <1>2, <2>1, <2>3, <2>5
    <3>3. r[i] = <<>>
      BY <2>2, <3>1, <3>2
    <3> QED BY <2>1, <2>5, <3>3 DEF G
  <2>6. CASE i = f
    <3>1. a = <<>>
      BY <1>2, <2>1, <2>3, <2>6
    <3>2. r[i] = b
      BY <2>2, <2>4, <3>1
    <3>3. Starts(r[i])
      BY <2>6, <3>2
    <3> QED BY <1>2, <2>1, <2>6, <3>3 DEF G
  <2>7. CASE i > f
    <3>1. Starts(a)
      BY <1>2, <2>1, <2>3, <2>7
    <3> HIDE DEF b
    <3>2. Len(a) > 0 /\ Len(a) \in Nat /\ Len(b) \in Nat
      BY <2>4, <3>1
    <3>3. Len(a \o b) = Len(a) + Len(b) /\ 1 \in 1 .. Len(a) /\ (a \o b)[1] = a[1]
      BY <2>4, <3>2, JoinIs
    <3>4. Starts(r[i])
      BY <2>2, <3>1, <3>2, <3>3
    <3> QED BY <1>2, <2>1, <2>7, <3>4 DEF G
  <2> QED BY <1>2, <2>1, <2>5, <2>6, <2>7
<1> HIDE DEF G
<1>6. Len(qs) \in G
  BY <1>2, <1>4, <1>5, UpTo
<1>7. Starts(r[Len(qs)])
  BY <1>2, <1>6 DEF G
<1> QED BY <1>1, <1>7

\* The log begins with the first record of the first file that has one.
LEMMA LogHead ==
    ASSUME NEW k, Shape(wal, k), NEW f \in DOMAIN wal, wal[f].recs # <<>>,
           \A g \in DOMAIN wal : g < f => wal[g].recs = <<>>
    PROVE  LogRecords # <<>> /\ LogRecords[1] = wal[f].recs[1]
<1> DEFINE qs == [g \in 1 .. LastFile |-> IF g \in FileIds THEN wal[g].recs ELSE <<>>]
<1>1. LastFile \in Nat /\ f <= LastFile
  BY LastIs
<1>2. f \in 1 .. LastFile
  BY <1>1 DEF Shape
<1>3. ASSUME NEW g \in FileIds PROVE wal[g].recs \in Seq(LogRecord)
  <2>1. wal[g].recs \in Seq(Rec(k))
    BY DEF Shape, FileIds, LogFile
  <2> QED BY <2>1 DEF Rec
<1>4. qs \in [1 .. LastFile -> Seq(LogRecord)]
  BY <1>3
<1>5. LogRecords = FlattenSeq(qs)
  BY Zenon DEF LogRecords, FileIds
<1>6. qs[f] = wal[f].recs
  BY <1>2 DEF FileIds
<1>7. \A g \in 1 .. LastFile : g < f => qs[g] = <<>>
  BY DEF FileIds
<1> HIDE DEF qs
<1>8. qs \in Seq(Seq(LogRecord)) /\ Len(qs) = LastFile
  BY <1>1, <1>4, FunctionIsSeq
<1> QED BY <1>2, <1>5, <1>6, <1>7, <1>8, FlattenHead

\* Without segments, replay buffers a sample of a log that has begun.
LEMMA OpenCounts ==
    ASSUME NEW k, Shape(wal, k), segs = <<>>, Begun(wal, <<>>)
    PROVE  Replayed(Restored, LogRecords).buffered > 0
<1> DEFINE state == [m |-> Restored, ids |-> <<>>, pending |-> <<>>]
<1>1. PICK f \in DOMAIN wal :
         /\ wal[f].recs # <<>> /\ OwnIds(wal[f].recs[1])
         /\ \A g \in DOMAIN wal : g < f => wal[g].recs = <<>>
  BY DEF Begun
<1>2. LogRecords # <<>> /\ OwnIds(LogRecords[1]) /\ LogRecords \in Seq(LogRecord)
  BY <1>1, LogHead, LogRecordsType
<1>3. Restored = NoMemory
  <2>1. segs \in Seq(Segment) /\ Len(segs) = 0
    OBVIOUS
  <2>2. Restored = LoadedFrom(segs)
    BY <2>1, ChainedIs
  <2>3. LoadedFrom(segs) = NoMemory
    <3>1. PICK r \in [0 .. Len(segs) -> Memory] :
            r[0] = NoMemory /\ r[Len(segs)] = LoadedFrom(segs)
      BY <2>1, LoadedRun
    <3> QED BY <2>1, <3>1
  <2> QED BY <2>2, <2>3
<1>4. state \in Resolver
  <2>1. <<>> \in Partly(Labels) /\ <<>> \in Partly(Seq(Sample))
    <3>1. <<>> \in [{} -> Labels] /\ <<>> \in [{} -> Seq(Sample)] /\ {} \in SUBSET Nat
      OBVIOUS
    <3> QED BY <3>1, Partial
  <2> QED BY <1>3, <2>1, NoMemoryType DEF Resolver
<1>5. Fresh(state.m)
  BY <1>3 DEF Fresh, NoMemory
<1>6. Replayed(Restored, LogRecords) = RecordsApplied(state, LogRecords).m
  BY DEF Replayed, RecordsApplied
<1> HIDE DEF state
<1> QED BY <1>2, <1>4, <1>5, <1>6, ReplayFresh

-----------------------------------------------------------------------------
(* The first record of a generation defines the ids it uses. *)

\* Db::write has skipped the entries without samples, ...
LEMMA EntriesHold ==
    ASSUME NEW batch \in Seq(Entry)
    PROVE  \A i \in DOMAIN Entries(batch) : Entries(batch)[i].samples # <<>>
<1>1. PICK r \in [0 .. Len(batch) -> Seq(Entry)] :
               /\ r[0] = <<>> /\ r[Len(batch)] = Entries(batch)
               /\ \A i \in 1 .. Len(batch) :
                     r[i] = (IF batch[i].samples = <<>> THEN r[i - 1]
                             ELSE Append(r[i - 1], batch[i]))
  BY EntriesRun
<1> DEFINE Hold(q) == \A i \in DOMAIN q : q[i].samples # <<>>
<1> DEFINE G == {i \in 0 .. Len(batch) : Hold(r[i])}
<1>2. Len(batch) \in Nat
  OBVIOUS
<1>3. 0 \in G
  BY <1>1, <1>2
<1>4. ASSUME NEW i \in 1 .. Len(batch), i - 1 \in G PROVE i \in G
  <2> DEFINE q == r[i - 1]
  <2> DEFINE e == batch[i]
  <2>1. i \in 0 .. Len(batch) /\ i - 1 \in 0 .. Len(batch) /\ Hold(q)
    BY <1>2, <1>4
  <2>2. q \in Seq(Entry) /\ e \in Entry
    BY <1>1, <2>1
  <2>3. r[i] = IF e.samples = <<>> THEN q ELSE Append(q, e)
    BY <1>1
  <2> HIDE DEF q, e, G
  <2>4. ASSUME e.samples # <<>> PROVE Hold(Append(q, e))
    BY <2>1, <2>2, <2>4
  <2> HIDE DEF Hold
  <2>5. Hold(r[i])
    BY <2>1, <2>3, <2>4, Zenon DEF q
  <2> QED BY <2>1, <2>5 DEF G
<1> HIDE DEF G
<1>5. Len(batch) \in G
  BY <1>2, <1>3, <1>4, UpTo
<1> QED BY <1>1, <1>5 DEF G

\* ... and a new generation logs the series of the first one left.
LEMMA FirstIsNew ==
    ASSUME NEW es \in Seq(Entry), es # <<>>, logged = {}
    PROVE  es[1].labels \in Range(NewLabels(es))
<1>1. PICK r \in [0 .. Len(es) -> Seq(Labels)] :
               /\ r[0] = <<>> /\ r[Len(es)] = NewLabels(es)
               /\ \A i \in 1 .. Len(es) :
                     r[i] = (IF es[i].labels \in logged \cup Range(r[i - 1])
                               THEN r[i - 1] ELSE Append(r[i - 1], es[i].labels))
  BY NewLabelsRun
<1>2. Len(es) \in Nat /\ Len(es) > 0
  OBVIOUS
<1> DEFINE l == es[1].labels
<1> DEFINE G == {i \in 0 .. Len(es) : i > 0 => l \in Range(r[i])}
<1>3. 0 \in G
  BY <1>2
<1>4. ASSUME NEW i \in 1 .. Len(es), i - 1 \in G PROVE i \in G
  <2> DEFINE q == r[i - 1]
  <2> DEFINE x == es[i].labels
  <2>1. i \in 0 .. Len(es) /\ i - 1 \in 0 .. Len(es) /\ (i - 1 > 0 => l \in Range(q))
    BY <1>2, <1>4
  <2>2. q \in Seq(Labels) /\ x \in Labels
    <3>1. r[i - 1] \in Seq(Labels)
      BY <1>1, <2>1
    <3>2. es[i] \in Entry
      OBVIOUS
    <3> QED BY <3>1, <3>2 DEF Entry
  <2>3. r[i] = IF x \in logged \cup Range(q) THEN q ELSE Append(q, x)
    BY <1>1
  <2>4. i = 1 \/ i - 1 > 0
    OBVIOUS
  <2>5. i = 1 => x = l /\ q = <<>>
    BY <1>1
  <2> HIDE DEF q, x, G, l
  <2>6. Range(Append(q, x)) = Range(q) \cup {x}
    BY <2>2, RangeAppend
  <2>7. i = 1 => Range(q) = {}
    BY <2>5 DEF Range
  <2>8. CASE x \in logged \cup Range(q)
    <3>1. x \in Range(q)
      BY <2>8
    <3>2. l \in Range(q)
      BY <2>1, <2>4, <2>7, <3>1
    <3> QED BY <2>1, <2>3, <2>8, <3>2 DEF G
  <2>9. CASE x \notin logged \cup Range(q)
    <3>1. r[i] = Append(q, x)
      BY <2>3, <2>9
    <3>2. l \in Range(Append(q, x))
      BY <2>1, <2>4, <2>5, <2>6
    <3> QED BY <2>1, <3>1, <3>2 DEF G
  <2> QED BY <2>8, <2>9
<1> HIDE DEF G, l
<1>5. Len(es) \in G
  BY <1>2, <1>3, <1>4, UpTo
<1> QED BY <1>1, <1>2, <1>5 DEF G, l

\* So its first record has its first id.
LEMMA RecordOwn ==
    ASSUME NEW mem, NEW es \in Seq(Entry), es # <<>>, logged = {},
           \A i \in DOMAIN es : es[i].samples # <<>>, NEW no
    PROVE  OwnIds(Record(mem, es, no))
<1> DEFINE ls == NewLabels(es)
<1> DEFINE series == [i \in DOMAIN ls |-> [id |-> IdOf(mem, ls[i]), labels |-> ls[i]]]
<1> DEFINE stamped(i) == [j \in DOMAIN es[i].samples |-> <<es[i].samples[j], no>>]
<1> DEFINE samples == [i \in DOMAIN es |-> [id |-> IdOf(mem, es[i].labels),
                                            samples |-> stamped(i)]]
<1>1. Record(mem, es, no) = [no |-> no, series |-> series, samples |-> samples]
  BY Zenon DEF Record, NewLabels
<1>2. 1 \in DOMAIN es /\ es[1] \in Entry /\ es[1].samples # <<>>
  OBVIOUS
<1>3. samples # <<>> /\ samples[1].id = IdOf(mem, es[1].labels)
      /\ samples[1].samples = stamped(1)
  <2>1. DOMAIN samples # {} /\ DOMAIN <<>> = {}
    BY <1>2
  <2>2. samples[1] = [id |-> IdOf(mem, es[1].labels), samples |-> stamped(1)]
    BY <1>2, Zenon
  <2> HIDE DEF samples, stamped
  <2> QED BY <2>1, <2>2
<1>4. stamped(1) # <<>>
  <2>1. es[1].samples \in Seq(Nat \ {0})
    BY <1>2 DEF Entry
  <2> DEFINE s == es[1].samples
  <2>2. Len(s) \in Nat /\ Len(s) # 0 /\ DOMAIN s = 1 .. Len(s)
    BY <1>2, <2>1
  <2>3. 1 \in DOMAIN stamped(1)
    BY <2>2
  <2> DEFINE first == stamped(1)
  <2>4. 1 \in DOMAIN first
    BY <2>3
  <2> HIDE DEF first
  <2>5. first # <<>>
    BY <2>4
  <2> QED BY <2>5 DEF first
<1>5. \E i \in DOMAIN series : series[i].id = IdOf(mem, es[1].labels)
  <2>1. PICK i \in DOMAIN ls : ls[i] = es[1].labels
    BY FirstIsNew DEF Range
  <2> HIDE DEF ls
  <2> QED BY <2>1
<1> HIDE DEF series, samples, stamped
<1> QED BY <1>1, <1>3, <1>4, <1>5 DEF OwnIds

-----------------------------------------------------------------------------
(* The invariant. *)

\* From the cut until the log is removed the buffer is empty; what is removed is
\* in segments.
Removable ==
    /\ pc \in {"save", "renamed", "remove"} => walBuf = <<>>
    /\ pc \in {"renamed", "remove"} =>
          hist = <<>> \/ \E i \in DOMAIN segs : segs[i].upto = Len(hist)

\* Recovery is about to create a file after all others, and if there is history
\* and no segment, replay has counted what makes it save one.
Recovering ==
    pc = "create" =>
    /\ \A f \in DOMAIN wal : f <= doomed
    /\ segs = <<>> /\ hist # <<>> => m.buffered > 0

\* What was acknowledged has left the buffer. With SafeInv, the invariant.
KeepInv ==
    /\ LogKept(segs, wal, walBuf, hist)
    /\ hist = <<>> => logged = {}
    /\ acked <= Len(hist) - Len(walBuf)
    /\ Removable /\ Recovering

\* It holds at first.
LEMMA InitKept == Init => KeepInv
<1> SUFFICES ASSUME Init PROVE KeepInv
  OBVIOUS
<1>1. segs = <<>> /\ wal = <<>> /\ walBuf = <<>> /\ hist = <<>> /\ logged = {}
      /\ acked = 0 /\ pc = "down"
  BY DEF Init
<1>2. Len(<<>>) = 0 /\ DOMAIN <<>> = {}
  OBVIOUS
<1>3. LogKept(segs, wal, walBuf, hist)
  BY <1>1, <1>2 DEF LogKept, Numbers
<1> QED BY <1>1, <1>2, <1>3 DEF KeepInv, Removable, Recovering

\* The types the steps below use.
LEMMA KeepTypes ==
    ASSUME SafeInv
    PROVE  /\ Len(hist) \in Nat /\ hist \in Seq(Batches)
           /\ walBuf \in Seq(Rec(Len(hist))) /\ Len(walBuf) \in Nat
           /\ segs \in Seq(Seg(Len(hist))) /\ Shape(wal, Len(hist))
           /\ acked \in Nat /\ doomed \in Nat
<1>1. Types
  BY DEF SafeInv
<1>2. hist \in Seq(Batches) /\ walBuf \in Seq(Rec(Len(hist)))
  BY <1>1 DEF Types
<1>3. Len(hist) \in Nat /\ Len(walBuf) \in Nat
  BY <1>2
<1> QED BY <1>1, <1>2, <1>3 DEF Types

\* A step that takes no batch and ends no history.
LEMMA Keeps ==
    ASSUME SafeInv, KeepInv, UNCHANGED <<segs, hist, acked>>, pc' # "create",
           logged' \subseteq logged, LogKept(segs, wal', walBuf', hist),
           Len(walBuf') \in Nat, Len(walBuf') <= Len(walBuf),
           pc' \in {"save", "renamed", "remove"} => walBuf' = <<>>,
           pc' \in {"renamed", "remove"} =>
              hist = <<>> \/ \E i \in DOMAIN segs : segs[i].upto = Len(hist)
    PROVE  KeepInv'
<1>2. LogKept(segs', wal', walBuf', hist')
  OBVIOUS
<1>3. hist = <<>> => logged' = {}
  BY DEF KeepInv, Removable, Recovering
<1>4. acked <= Len(hist) - Len(walBuf')
  <2>1. Len(hist) \in Nat /\ Len(walBuf) \in Nat /\ acked \in Nat
    BY KeepTypes
  <2> QED BY <2>1 DEF KeepInv, Removable, Recovering
<1> QED BY <1>2, <1>3, <1>4 DEF KeepInv, Removable, Recovering

\* A stop that loses only what is in the buffer, or less.
LEMMA StopKept ==
    ASSUME SafeInv, KeepInv, Written, StopWith, segs' = segs, Shape(wal', Len(hist)),
           NEW buf \in Seq(Rec(Len(hist))), LogKept(segs, wal', buf, hist),
           Len(buf) <= Len(walBuf)
    PROVE  KeepInv'
<1> DEFINE k == Len(hist)
<1> DEFINE n == Len(hist) - Len(buf)
<1>1. /\ k \in Nat /\ hist \in Seq(Batches) /\ Len(walBuf) \in Nat
      /\ segs \in Seq(Seg(k)) /\ acked \in Nat
  BY KeepTypes
<1>2. /\ n \in Nat /\ n <= Len(hist) /\ Survivors(segs, wal') = n
      /\ LogKept(segs, wal', <<>>, SubSeq(hist, 1, n))
  BY <1>1, SurvivorsAre
<1>3. /\ walBuf' = <<>> /\ logged' = {} /\ pc' = "down"
      /\ hist' = SubSeq(hist, 1, n)
      /\ acked' = IF Ackable > acked THEN Ackable ELSE acked
  BY <1>2 DEF StopWith, Stopped
<1>4. Len(hist') = n /\ Len(walBuf') = 0
  BY <1>1, <1>2, <1>3
<1>5. acked' <= n
  <2>1. Ackable = Len(hist) - Len(walBuf)
    BY DEF Ackable
  <2>2. acked <= Len(hist) - Len(walBuf)
    BY DEF KeepInv, Removable, Recovering
  <2>3. Len(buf) \in Nat
    OBVIOUS
  <2> QED BY <1>1, <1>3, <2>1, <2>2, <2>3
<1> HIDE DEF n
<1>6. LogKept(segs', wal', walBuf', hist')
  BY <1>2, <1>3
<1>7. acked' <= Len(hist') - Len(walBuf')
  BY <1>2, <1>4, <1>5
<1> QED BY <1>3, <1>6, <1>7 DEF KeepInv, Removable, Recovering

-----------------------------------------------------------------------------
(* Each step keeps it. *)

\* Recovery, ...
LEMMA OpenKept == SafeInv /\ KeepInv /\ Open => KeepInv'
<1> SUFFICES ASSUME SafeInv, KeepInv, Open PROVE KeepInv'
  OBVIOUS
<1> USE DEF ghosts
<1>1. /\ m' = Replayed(Restored, LogRecords)
      /\ wal' = [f \in FileIds |-> IF wal[f].torn THEN Repaired(f) ELSE wal[f]]
      /\ doomed' = IF FileIds = {} THEN 0 ELSE LastFile
      /\ pc = "down" /\ pc' = "create"
      /\ UNCHANGED <<segs, walBuf, logged, hist, acked>>
  BY DEF Open
<1>2. Shape(wal, Len(hist))
  BY KeepTypes
<1>3. walBuf = <<>>
  BY <1>1 DEF SafeInv, Places
<1>4. SameRecs(wal', wal)
  <2>1. DOMAIN wal' = DOMAIN wal
    BY <1>1 DEF FileIds
  <2>2. ASSUME NEW f \in DOMAIN wal PROVE wal'[f].recs = wal[f].recs
    <3> DEFINE old == wal[f]
    <3>1. old \in LogFile(Len(hist))
      BY <1>2 DEF Shape
    <3>2. wal'[f] = IF old.torn
                      THEN [old EXCEPT !.torn = FALSE, !.synced = Len(old.recs)]
                      ELSE old
      BY <1>1, <2>1, Zenon DEF Repaired, FileIds
    <3> HIDE DEF old
    <3>3. [old EXCEPT !.torn = FALSE, !.synced = Len(old.recs)].recs = old.recs
      BY <3>1 DEF LogFile
    <3>4. wal'[f].recs = old.recs
      BY <3>2, <3>3, Zenon
    <3> QED BY <3>4 DEF old
  <2> QED BY <2>1, <2>2 DEF SameRecs
<1>5. LogKept(segs, wal, walBuf, hist)
  BY DEF KeepInv, Removable, Recovering
<1>6. LogKept(segs', wal', walBuf', hist')
  <2>1. LogKept(segs, wal', walBuf, hist)
    BY <1>4, <1>5, SameRecsKept
  <2> QED BY <1>1, <2>1
<1>7. \A f \in DOMAIN wal' : f <= doomed'
  <2>1. DOMAIN wal' = DOMAIN wal
    BY <1>1 DEF FileIds
  <2>2. DOMAIN wal # {} => doomed' = LastFile /\ \A f \in DOMAIN wal : f <= LastFile
    BY <1>1, <1>2, LastIs DEF FileIds
  <2> QED BY <2>1, <2>2
<1>8. segs = <<>> /\ hist # <<>> => m'.buffered > 0
  <2> SUFFICES ASSUME segs = <<>>, hist # <<>> PROVE m'.buffered > 0
    OBVIOUS
  <2>1. Begun(wal, <<>>)
    BY <1>3, <1>5 DEF LogKept
  <2>2. Replayed(Restored, LogRecords).buffered > 0
    BY <1>2, <2>1, OpenCounts
  <2> QED BY <1>1, <2>2
<1> QED BY <1>1, <1>6, <1>7, <1>8 DEF KeepInv, Removable, Recovering

LEMMA RefuseKept == SafeInv /\ KeepInv /\ Refuse => KeepInv'
<1> SUFFICES ASSUME SafeInv, KeepInv, Refuse PROVE KeepInv'
  OBVIOUS
<1>1. pc' = "refused" /\ UNCHANGED <<segs, wal, walBuf, logged, hist, acked>>
  BY DEF Refuse, ghosts, disk
<1>2. Len(walBuf) \in Nat /\ LogKept(segs, wal, walBuf, hist)
  BY KeepTypes DEF KeepInv, Removable, Recovering
<1> QED BY <1>1, <1>2, Keeps

LEMMA CreateFileKept == SafeInv /\ KeepInv /\ CreateFile => KeepInv'
<1> SUFFICES ASSUME SafeInv, KeepInv, CreateFile PROVE KeepInv'
  OBVIOUS
<1> USE DEF ghosts
<1>1. /\ pc = "create" /\ wal' = WithFile(wal, doomed + 1)
      /\ segs' = IF pc' = "remove" THEN NothingNew ELSE segs
      /\ UNCHANGED <<walBuf, m, logged, doomed, hist, acked>>
  BY DEF CreateFile
<1>2. /\ Shape(wal, Len(hist)) /\ doomed \in Nat /\ Len(hist) \in Nat
      /\ segs \in Seq(Seg(Len(hist))) /\ Len(walBuf) \in Nat
  BY KeepTypes
<1>3. m \in Memory /\ walBuf = <<>>
  BY <1>1 DEF SafeInv, Types, Places
<1>4. pc' \in {"idle", "remove", "cut"} /\ (pc' = "remove" => m.buffered = 0)
  BY <1>3 DEF CreateFile, Memory
<1>5. doomed + 1 \notin DOMAIN wal
  BY <1>1, <1>2 DEF KeepInv, Removable, Recovering, Shape
<1>6. SameRecs(wal', wal)
  BY <1>1, <1>5, WithFileSame
<1>7. LogKept(segs, wal', walBuf', hist)
  BY <1>1, <1>6, SameRecsKept DEF KeepInv, Removable, Recovering
<1>8. CASE pc' # "remove"
  BY <1>1, <1>2, <1>4, <1>7, <1>8, Keeps
<1>9. CASE pc' = "remove"
  <2>1. segs' = NothingNew /\ m.buffered = 0
    BY <1>1, <1>4, <1>9
  <2>2. CASE segs = <<>>
    <3>1. hist = <<>>
      BY <1>1, <2>1, <2>2 DEF KeepInv, Removable, Recovering
    <3>2. segs' = segs
      BY <2>1, <2>2 DEF NothingNew
    <3> QED BY <1>1, <1>2, <1>3, <1>4, <1>7, <1>9, <3>1, <3>2, Keeps
  <2>3. CASE segs # <<>>
    <3> DEFINE n == Len(hist)
    <3> DEFINE z == Len(segs)
    <3> DEFINE s == [segs[z] EXCEPT !.upto = n]
    <3>1. z \in DOMAIN segs /\ z \in Nat /\ segs[z] \in Segment
      BY <1>2, <2>3 DEF Seg
    <3>2. s.upto = n
      BY <3>1 DEF Segment
    <3>3. segs' = [segs EXCEPT ![z] = s]
      BY <2>1, <2>3 DEF NothingNew
    <3> HIDE DEF s, z
    <3>4. /\ DOMAIN segs' = DOMAIN segs
          /\ \A i \in DOMAIN segs' : segs'[i] = IF i = z THEN s ELSE segs[i]
      BY <1>2, <3>3
    <3>5. Numbers(segs, wal', <<>>, hist)
      BY <1>1, <1>3, <1>7 DEF LogKept
    <3>6. Len(<<>>) = 0 /\ n - 0 = n /\ n \in Nat
      BY <1>2
    <3>7. Numbers(segs', wal', <<>>, hist)
      <4>1. /\ Len(<<>>) <= Len(hist)
            /\ \A i \in DOMAIN <<>> : <<>>[i].no = n + i
            /\ \A f \in DOMAIN wal' : \A i \in DOMAIN wal'[f].recs :
                 wal'[f].recs[i].no \in 1 .. n
            /\ \A i \in DOMAIN segs : segs[i].upto <= n
        BY <3>5, <3>6 DEF Numbers
      <4>2. \A i \in DOMAIN segs' : segs'[i].upto <= n
        BY <3>2, <3>4, <3>6, <4>1
      <4>3. \E i \in DOMAIN segs' : segs'[i].upto = n
        BY <3>1, <3>2, <3>4
      <4> HIDE DEF n
      <4>4. n = Len(hist) - Len(<<>>)
        BY <3>6 DEF n
      <4> QED BY <4>1, <4>2, <4>3, <4>4, Zenon DEF Numbers
    <3>8. segs' # <<>>
      <4>1. z \in DOMAIN segs'
        BY <3>1, <3>4
      <4> QED BY <4>1
    <3>9. LogKept(segs', wal', walBuf', hist')
      BY <1>1, <1>3, <3>7, <3>8, Zenon DEF LogKept
    <3>10. \E i \in DOMAIN segs' : segs'[i].upto = Len(hist')
      BY <1>1, <3>1, <3>2, <3>4
    <3> QED BY <1>1, <1>3, <1>9, <3>9, <3>10 DEF KeepInv, Removable, Recovering
  <2> QED BY <2>2, <2>3
<1> QED BY <1>8, <1>9

\* ... requests, the save and the removal, ...
LEMMA WriteKept ==
    ASSUME NEW b \in Batches, SafeInv, KeepInv, Write(b)
    PROVE  KeepInv'
<1> USE DEF ghosts, disk
<1> DEFINE es == Entries(b)
<1> DEFINE mem == EncodeAll(m, es)
<1> DEFINE rec == Record(mem, es, Len(hist) + 1)
<1> DEFINE n == Len(hist) - Len(walBuf)
<1>1. /\ walBuf' = Append(walBuf, rec)
      /\ hist' = Append(hist, b)
      /\ pc' \in {"cut", "idle"}
      /\ es # <<>>
      /\ UNCHANGED <<segs, wal, acked>>
  BY DEF Write
<1>2. /\ Len(hist) \in Nat /\ hist \in Seq(Batches) /\ Len(walBuf) \in Nat
      /\ walBuf \in Seq(Rec(Len(hist)))
  BY KeepTypes
<1>3. /\ Len(walBuf) <= Len(hist)
      /\ \A i \in DOMAIN walBuf : walBuf[i].no = n + i
      /\ \A f \in DOMAIN wal : \A i \in DOMAIN wal[f].recs : wal[f].recs[i].no \in 1 .. n
      /\ \A i \in DOMAIN segs : segs[i].upto <= n
      /\ n # 0 => \/ \E i \in DOMAIN segs : segs[i].upto = n
                  \/ \E f \in DOMAIN wal : \E i \in DOMAIN wal[f].recs :
                       wal[f].recs[i].no = n
      /\ acked <= n
  BY DEF KeepInv, Removable, Recovering, LogKept, Numbers
<1>4. es \in Seq(Entry) /\ \A i \in DOMAIN es : es[i].samples # <<>>
  BY BatchType, EntriesHold, DbAssumption DEF Entry
<1>5. ASSUME hist = <<>> PROVE OwnIds(rec)
  <2>1. logged = {}
    BY <1>5 DEF KeepInv, Removable, Recovering
  <2> HIDE DEF es, mem
  <2> QED BY <1>1, <1>4, <2>1, RecordOwn
<1>6. rec.no = Len(hist) + 1
  BY Zenon DEF Record
<1> HIDE DEF es, mem, rec
<1>7. /\ Len(hist') = Len(hist) + 1 /\ Len(walBuf') = Len(walBuf) + 1
      /\ DOMAIN walBuf' = 1 .. Len(walBuf) + 1
      /\ \A i \in 1 .. Len(walBuf) : walBuf'[i] = walBuf[i]
      /\ walBuf'[Len(walBuf) + 1] = rec /\ hist' # <<>> /\ walBuf' # <<>>
      /\ DOMAIN walBuf = 1 .. Len(walBuf)
  BY <1>1, <1>2
<1>8. Len(hist') - Len(walBuf') = n
  BY <1>2, <1>7
<1>9. n \in Nat /\ n + (Len(walBuf) + 1) = Len(hist) + 1
  BY <1>2, <1>3
<1>10. \A i \in DOMAIN walBuf' : walBuf'[i].no = n + i
  <2> SUFFICES ASSUME NEW i \in 1 .. Len(walBuf) + 1 PROVE walBuf'[i].no = n + i
    BY <1>7
  <2> HIDE DEF n
  <2>1. CASE i = Len(walBuf) + 1
    BY <1>6, <1>7, <1>9, <2>1
  <2>2. CASE i # Len(walBuf) + 1
    <3>1. i \in 1 .. Len(walBuf)
      BY <1>2, <2>2
    <3> QED BY <1>3, <1>7, <3>1
  <2> QED BY <2>1, <2>2
<1>11. Numbers(segs', wal', walBuf', hist')
  <2> HIDE DEF n
  <2>1. Len(walBuf') <= Len(hist')
    BY <1>2, <1>3, <1>7
  <2>2. segs' = segs /\ wal' = wal
    BY <1>1
  <2> QED BY <1>3, <1>8, <1>10, <2>1, <2>2, Zenon DEF Numbers
<1>12. Begun(wal, walBuf) /\ walBuf # <<>> => Begun(wal, walBuf')
  <2>1. walBuf # <<>> => walBuf'[1] = walBuf[1]
    BY <1>2, <1>7
  <2> QED BY <1>7, <2>1, Zenon DEF Begun
<1>13. Begun(wal, <<>>) => Begun(wal, walBuf')
  BY Zenon DEF Begun
<1>14. ASSUME segs = <<>> PROVE Begun(wal, walBuf')
  <2>1. CASE hist # <<>>
    <3>1. Begun(wal, walBuf)
      BY <1>14, <2>1 DEF KeepInv, Removable, Recovering, LogKept
    <3> QED BY <1>12, <1>13, <3>1, Zenon
  <2>2. CASE hist = <<>>
    <3>1. Len(hist) = 0 /\ Len(walBuf) = 0 /\ n = 0
      BY <1>2, <1>3, <2>2
    <3>2. \A f \in DOMAIN wal : wal[f].recs = <<>>
      <4> SUFFICES ASSUME NEW f \in DOMAIN wal, wal[f].recs # <<>> PROVE FALSE
        OBVIOUS
      <4>1. Shape(wal, Len(hist))
        BY KeepTypes
      <4>2. wal[f].recs \in Seq(Rec(Len(hist)))
        BY <4>1 DEF Shape, LogFile
      <4>3. 1 \in DOMAIN wal[f].recs
        BY <4>2
      <4>4. wal[f].recs[1].no \in 1 .. n
        BY <1>3, <4>3
      <4> HIDE DEF n
      <4> QED BY <3>1, <4>4
    <3>3. OwnIds(walBuf'[1])
      BY <1>5, <1>7, <2>2, <3>1
    <3> QED BY <1>7, <3>2, <3>3, Zenon DEF Begun
  <2> QED BY <2>1, <2>2
<1>15. LogKept(segs', wal', walBuf', hist')
  <2>1. segs' = segs /\ wal' = wal
    BY <1>1
  <2> QED BY <1>11, <1>14, <2>1, Zenon DEF LogKept
<1>16. acked' <= Len(hist') - Len(walBuf')
  BY <1>1, <1>3, <1>8
<1> QED BY <1>1, <1>7, <1>15, <1>16 DEF KeepInv, Removable, Recovering

\* Steps that leave the log and the segments alone.
LEMMA SameLogKept ==
    ASSUME SafeInv, KeepInv, UNCHANGED <<segs, wal, walBuf, hist, acked>>,
           pc' # "create", logged' \subseteq logged,
           pc' \in {"save", "renamed", "remove"} => walBuf = <<>>,
           pc' \in {"renamed", "remove"} =>
              hist = <<>> \/ \E i \in DOMAIN segs : segs[i].upto = Len(hist)
    PROVE  KeepInv'
<1>1. Len(walBuf) \in Nat /\ LogKept(segs, wal, walBuf, hist)
  BY KeepTypes DEF KeepInv, Removable, Recovering
<1> QED BY <1>1, Keeps

LEMMA WriteTooLargeKept ==
    ASSUME NEW b \in Batches, SafeInv, KeepInv, WriteTooLarge(b)
    PROVE  KeepInv'
<1>1. pc = "idle" /\ UNCHANGED <<segs, wal, walBuf, hist, acked, logged, pc>>
  BY DEF WriteTooLarge, ghosts, disk
<1> QED BY <1>1, SameLogKept

LEMMA FlushKept == SafeInv /\ KeepInv /\ Flush => KeepInv'
<1> SUFFICES ASSUME SafeInv, KeepInv, Flush PROVE KeepInv'
  OBVIOUS
<1>1. pc' = "cut" /\ UNCHANGED <<segs, wal, walBuf, hist, acked, logged>>
  BY DEF Flush, ghosts, disk
<1> QED BY <1>1, SameLogKept

LEMMA SaveDoneKept == SafeInv /\ KeepInv /\ SaveDone => KeepInv'
<1> SUFFICES ASSUME SafeInv, KeepInv, SaveDone PROVE KeepInv'
  OBVIOUS
<1>1. pc = "renamed" /\ pc' = "remove" /\ logged' = {}
      /\ UNCHANGED <<segs, wal, walBuf, hist, acked>>
  BY DEF SaveDone, ghosts
<1>2. walBuf = <<>>
      /\ (hist = <<>> \/ \E i \in DOMAIN segs : segs[i].upto = Len(hist))
  BY <1>1 DEF KeepInv, Removable, Recovering
<1> QED BY <1>1, <1>2, SameLogKept

LEMMA RemoveDoneKept == SafeInv /\ KeepInv /\ RemoveDone => KeepInv'
<1> SUFFICES ASSUME SafeInv, KeepInv, RemoveDone PROVE KeepInv'
  OBVIOUS
<1>1. pc' = "idle" /\ UNCHANGED <<segs, wal, walBuf, hist, acked, logged>>
  BY DEF RemoveDone, ghosts, disk
<1> QED BY <1>1, SameLogKept

\* An opening Db gives up before it has logged anything.
LEMMA OpenFailsKept ==
    ASSUME SafeInv, KeepInv, walBuf = <<>>, OpenFails, UNCHANGED <<disk, hist, acked>>
    PROVE  KeepInv'
<1>1. walBuf' = <<>> /\ logged' = {} /\ pc' = "down" /\ UNCHANGED <<segs, wal, hist, acked>>
  BY DEF OpenFails, Stopped, disk
<1> QED BY <1>1, SameLogKept

LEMMA SaveFailsKept == SafeInv /\ KeepInv /\ SaveFails => KeepInv'
<1> SUFFICES ASSUME SafeInv, KeepInv, SaveFails PROVE KeepInv'
  OBVIOUS
<1>1. pc \in {"save", "renamed"} /\ UNCHANGED <<disk, hist, acked>>
  BY DEF SaveFails
<1>2. walBuf = <<>>
  BY <1>1 DEF KeepInv, Removable, Recovering
<1>3. CASE by = "open"
  BY <1>1, <1>2, <1>3, OpenFailsKept DEF SaveFails
<1>4. CASE by # "open"
  <2>1. pc' = "idle" /\ UNCHANGED <<segs, wal, walBuf, hist, acked, logged>>
    BY <1>1, <1>4 DEF SaveFails, disk
  <2> QED BY <2>1, SameLogKept
<1> QED BY <1>3, <1>4

LEMMA RemoveFailsKept == SafeInv /\ KeepInv /\ RemoveFails => KeepInv'
<1> SUFFICES ASSUME SafeInv, KeepInv, RemoveFails PROVE KeepInv'
  OBVIOUS
<1>1. pc = "remove" /\ UNCHANGED <<disk, hist, acked>>
  BY DEF RemoveFails
<1>2. walBuf = <<>>
  BY <1>1 DEF KeepInv, Removable, Recovering
<1>3. CASE by = "open"
  BY <1>1, <1>2, <1>3, OpenFailsKept DEF RemoveFails
<1>4. CASE by # "open"
  <2>1. pc' = "idle" /\ UNCHANGED <<segs, wal, walBuf, hist, acked, logged>>
    BY <1>1, <1>4 DEF RemoveFails, disk
  <2> QED BY <2>1, SameLogKept
<1> QED BY <1>3, <1>4

LEMMA SaveKept == SafeInv /\ KeepInv /\ Save => KeepInv'
<1> SUFFICES ASSUME SafeInv, KeepInv, Save PROVE KeepInv'
  OBVIOUS
<1> DEFINE n == Len(hist)
<1> DEFINE s == [data  |-> m.samples,
                 order |-> FoldLeft(LAMBDA acc, l : IF m.samples[l] = <<>> THEN acc
                                                    ELSE Append(acc, l),
                                    <<>>, m.index),
                 upto  |-> n]
<1>1. /\ pc = "save" /\ pc' = "renamed" /\ UNCHANGED <<wal, walBuf, logged, hist, acked>>
      /\ segs' = Append(segs, s)
  BY Zenon DEF Save, ghosts
<1>2. s.upto = n
  BY Zenon
<1> HIDE DEF s
<1>3. walBuf = <<>> /\ n \in Nat /\ segs \in Seq(Seg(n))
  BY <1>1, KeepTypes DEF KeepInv, Removable, Recovering
<1>4. Len(<<>>) = 0 /\ n - 0 = n
  BY <1>3
<1>5. /\ Len(<<>>) <= Len(hist)
      /\ \A i \in DOMAIN <<>> : <<>>[i].no = n + i
      /\ \A f \in DOMAIN wal : \A i \in DOMAIN wal[f].recs : wal[f].recs[i].no \in 1 .. n
      /\ \A i \in DOMAIN segs : segs[i].upto <= n
  BY <1>3, <1>4 DEF KeepInv, Removable, Recovering, LogKept, Numbers
<1>6. /\ DOMAIN segs' = 1 .. Len(segs) + 1 /\ Len(segs) \in Nat
      /\ DOMAIN segs = 1 .. Len(segs)
      /\ \A i \in 1 .. Len(segs) : segs'[i] = segs[i]
      /\ segs'[Len(segs) + 1] = s /\ segs' # <<>>
  BY <1>1, <1>3
<1> HIDE DEF n
<1>7. \E i \in DOMAIN segs' : segs'[i].upto = n
  <2>1. Len(segs) + 1 \in DOMAIN segs'
    BY <1>6
  <2> QED BY <1>2, <1>6, <2>1, Zenon
<1>8. \A i \in DOMAIN segs' : segs'[i].upto <= n
  <2> SUFFICES ASSUME NEW i \in 1 .. Len(segs) + 1 PROVE segs'[i].upto <= n
    BY <1>6
  <2>1. CASE i = Len(segs) + 1
    BY <1>2, <1>3, <1>6, <2>1
  <2>2. CASE i # Len(segs) + 1
    <3>1. i \in 1 .. Len(segs)
      BY <1>6, <2>2
    <3> QED BY <1>5, <1>6, <3>1
  <2> QED BY <2>1, <2>2
<1>9. n = Len(hist) - Len(<<>>)
  BY <1>4 DEF n
<1>10. Numbers(segs', wal, <<>>, hist)
  BY <1>5, <1>7, <1>8, <1>9, Zenon DEF Numbers
<1>11. LogKept(segs', wal', walBuf', hist')
  BY <1>1, <1>3, <1>6, <1>10 DEF LogKept
<1> QED BY <1>1, <1>3, <1>7, <1>11 DEF KeepInv, Removable, Recovering, n

LEMMA RemoveFileKept == SafeInv /\ KeepInv /\ RemoveFile => KeepInv'
<1> SUFFICES ASSUME SafeInv, KeepInv, RemoveFile PROVE KeepInv'
  OBVIOUS
<1>1. pc = "remove" /\ UNCHANGED <<segs, walBuf, logged, pc, hist, acked>>
  BY DEF RemoveFile, ghosts
<1>2. PICK f \in FileIds : wal' = [g \in FileIds \ {f} |-> wal[g]]
  BY DEF RemoveFile
<1>3. DOMAIN wal' \subseteq DOMAIN wal /\ \A g \in DOMAIN wal' : wal'[g] = wal[g]
  BY <1>2 DEF FileIds
<1>4. /\ walBuf = <<>> /\ Len(hist) \in Nat /\ Len(<<>>) = 0
      /\ hist = <<>> \/ \E i \in DOMAIN segs : segs[i].upto = Len(hist)
  BY <1>1, KeepTypes DEF KeepInv, Removable, Recovering
<1> DEFINE n == Len(hist) - Len(walBuf)
<1>5. /\ Len(walBuf) <= Len(hist)
      /\ \A i \in DOMAIN walBuf : walBuf[i].no = n + i
      /\ \A g \in DOMAIN wal : \A i \in DOMAIN wal[g].recs : wal[g].recs[i].no \in 1 .. n
      /\ \A i \in DOMAIN segs : segs[i].upto <= n
  BY DEF KeepInv, Removable, Recovering, LogKept, Numbers
<1>6. n = Len(hist)
  BY <1>4
<1>7. n # 0 => \E i \in DOMAIN segs : segs[i].upto = n
  <2>1. hist = <<>> => n = 0
    BY <1>6
  <2> QED BY <1>4, <1>6, <2>1
<1>8. \A g \in DOMAIN wal' : \A i \in DOMAIN wal'[g].recs : wal'[g].recs[i].no \in 1 .. n
  <2> HIDE DEF n
  <2> QED BY <1>3, <1>5
<1>9. Numbers(segs, wal', walBuf, hist)
  BY <1>5, <1>7, <1>8, Zenon DEF Numbers
<1>10. ~(segs = <<>> /\ hist # <<>>)
  BY <1>4
<1>11. LogKept(segs, wal', walBuf', hist)
  BY <1>1, <1>9, <1>10, Zenon DEF LogKept
<1>12. Len(walBuf') \in Nat /\ Len(walBuf') <= Len(walBuf)
  BY <1>1, <1>4
<1> QED BY <1>1, <1>4, <1>11, <1>12, Keeps

\* ... the threads of the log and the cut, ...
LEMMA LogStepKept ==
    ASSUME SafeInv, KeepInv, Up, UNCHANGED <<segs, logged, pc, hist, acked>>,
           LogKept(segs, wal', walBuf', hist), walBuf' \in Seq(Rec(Len(hist))),
           Len(walBuf') <= Len(walBuf)
    PROVE  KeepInv'
<1>1. Len(walBuf) \in Nat /\ Len(walBuf') \in Nat
  BY KeepTypes
<1>2. walBuf = <<>> => walBuf' = <<>>
  BY <1>1
<1>3. pc' # "create"
  BY DEF Up
<1> QED BY <1>1, <1>2, <1>3, Keeps DEF KeepInv, Removable, Recovering

\* The buffer's records in the last file, as many as n.
LEMMA DrainedNow ==
    ASSUME SafeInv, KeepInv, Up, NEW n \in 0 .. Len(walBuf)
    PROVE  LET buf == SubSeq(walBuf, n + 1, Len(walBuf)) IN
           /\ LogKept(segs, Drained(n), buf, hist)
           /\ buf \in Seq(Rec(Len(hist))) /\ Len(buf) = Len(walBuf) - n
           /\ Shape(Drained(n), Len(hist)) /\ DOMAIN Drained(n) = DOMAIN wal
           /\ LastFile \in DOMAIN wal
<1> DEFINE buf == SubSeq(walBuf, n + 1, Len(walBuf))
<1>1. /\ Len(hist) \in Nat /\ hist \in Seq(Batches)
      /\ walBuf \in Seq(Rec(Len(hist))) /\ Len(walBuf) \in Nat
      /\ segs \in Seq(Seg(Len(hist))) /\ Shape(wal, Len(hist))
  BY KeepTypes
<1>2. LastFile \in DOMAIN wal /\ \A g \in DOMAIN wal : g <= LastFile
  BY UpLast DEF SafeInv
<1>3. LogKept(segs, wal, walBuf, hist)
  BY DEF KeepInv, Removable, Recovering
<1>4. LogKept(segs, Drained(n), buf, hist)
  BY <1>1, <1>2, <1>3, DrainedKept
<1>5. Shape(Drained(n), Len(hist)) /\ DOMAIN Drained(n) = DOMAIN wal
  BY <1>1, <1>2, DrainedShape
<1>6. buf \in Seq(Rec(Len(hist))) /\ Len(buf) = Len(walBuf) - n
  BY <1>1
<1> QED BY <1>2, <1>4, <1>5, <1>6

LEMMA LogWriteKept == SafeInv /\ KeepInv /\ LogWrite => KeepInv'
<1> SUFFICES ASSUME SafeInv, KeepInv, LogWrite PROVE KeepInv'
  OBVIOUS
<1>1. Up /\ UNCHANGED <<segs, logged, pc, hist, acked>>
  BY DEF LogWrite, ghosts
<1>2. PICK n \in 1 .. Len(walBuf) :
        wal' = Drained(n) /\ walBuf' = SubSeq(walBuf, n + 1, Len(walBuf))
  BY DEF LogWrite
<1>3. n \in 0 .. Len(walBuf) /\ n \in Nat /\ Len(walBuf) \in Nat
  BY <1>2, KeepTypes
<1>4. /\ LogKept(segs, wal', walBuf', hist) /\ walBuf' \in Seq(Rec(Len(hist)))
      /\ Len(walBuf') = Len(walBuf) - n
  BY <1>1, <1>2, <1>3, DrainedNow
<1>5. Len(walBuf') <= Len(walBuf)
  BY <1>3, <1>4
<1> QED BY <1>1, <1>4, <1>5, LogStepKept

LEMMA LogSyncKept == SafeInv /\ KeepInv /\ LogSync => KeepInv'
<1> SUFFICES ASSUME SafeInv, KeepInv, LogSync PROVE KeepInv'
  OBVIOUS
<1>1. Up /\ wal' = Synced(wal) /\ UNCHANGED <<segs, walBuf, logged, pc, hist, acked>>
  BY DEF LogSync, ghosts
<1>2. /\ walBuf \in Seq(Rec(Len(hist))) /\ Len(walBuf) \in Nat
      /\ Shape(wal, Len(hist))
  BY KeepTypes
<1>3. LastFile \in DOMAIN wal
  BY <1>1, UpLast DEF SafeInv
<1>4. SameRecs(wal', wal)
  BY <1>1, <1>2, <1>3, SyncedSame
<1>5. LogKept(segs, wal', walBuf', hist)
  BY <1>1, <1>4, SameRecsKept DEF KeepInv, Removable, Recovering
<1> QED BY <1>1, <1>2, <1>5, LogStepKept

\* A new file after the last.
LEMMA NextFileSame ==
    ASSUME SafeInv, Up, NEW w, Shape(w, Len(hist)), DOMAIN w = DOMAIN wal
    PROVE  SameRecs(WithFile(Synced(w), LastFile + 1), w)
<1>1. /\ LastFile \in DOMAIN wal /\ LastFile \in Nat
      /\ \A g \in DOMAIN wal : g <= LastFile
  BY UpLast DEF SafeInv
<1> DEFINE v == Synced(w)
<1>2. SameRecs(v, w) /\ DOMAIN v = DOMAIN w
  BY <1>1, SyncedSame, SyncedShape
<1> HIDE DEF v
<1>3. LastFile + 1 \notin DOMAIN v
  BY <1>1, <1>2
<1>4. SameRecs(WithFile(v, LastFile + 1), v)
  BY <1>3, WithFileSame
<1>5. SameRecs(WithFile(v, LastFile + 1), w)
  BY <1>2, <1>4, SameRecsTransitive
<1> QED BY <1>5 DEF v

LEMMA LogRotateKept == SafeInv /\ KeepInv /\ LogRotate => KeepInv'
<1> SUFFICES ASSUME SafeInv, KeepInv, LogRotate PROVE KeepInv'
  OBVIOUS
<1>1. /\ Up /\ wal' = WithFile(Synced(wal), LastFile + 1)
      /\ UNCHANGED <<segs, walBuf, logged, pc, hist, acked>>
  BY DEF LogRotate, ghosts
<1>2. /\ walBuf \in Seq(Rec(Len(hist))) /\ Len(walBuf) \in Nat
      /\ Shape(wal, Len(hist))
  BY KeepTypes
<1>3. SameRecs(wal', wal)
  BY <1>1, <1>2, NextFileSame
<1>4. LogKept(segs, wal', walBuf', hist)
  BY <1>1, <1>3, SameRecsKept DEF KeepInv, Removable, Recovering
<1> QED BY <1>1, <1>2, <1>4, LogStepKept

\* All of them.
LEMMA AllDrained ==
    ASSUME SafeInv, KeepInv, Up
    PROVE  LET v == Drained(Len(walBuf)) IN
           /\ LogKept(segs, v, <<>>, hist) /\ Shape(v, Len(hist))
           /\ DOMAIN v = DOMAIN wal /\ LastFile \in DOMAIN wal
<1> DEFINE n == Len(walBuf)
<1> DEFINE buf == SubSeq(walBuf, n + 1, n)
<1>1. n \in 0 .. Len(walBuf) /\ n \in Nat
  BY KeepTypes
<1>2. buf = <<>>
  BY <1>1
<1> HIDE DEF buf
<1>3. /\ LogKept(segs, Drained(n), buf, hist) /\ Shape(Drained(n), Len(hist))
      /\ DOMAIN Drained(n) = DOMAIN wal /\ LastFile \in DOMAIN wal
  BY <1>1, DrainedNow DEF buf
<1> QED BY <1>2, <1>3

LEMMA CutKept == SafeInv /\ KeepInv /\ Cut => KeepInv'
<1> SUFFICES ASSUME SafeInv, KeepInv, Cut PROVE KeepInv'
  OBVIOUS
<1> DEFINE v == Drained(Len(walBuf))
<1>1. /\ Up /\ wal' = WithFile(Synced(v), LastFile + 1) /\ walBuf' = <<>>
      /\ pc' = "save" /\ UNCHANGED <<segs, logged, hist, acked>>
  BY DEF Cut, ghosts, Up
<1>2. LogKept(segs, v, <<>>, hist) /\ Shape(v, Len(hist)) /\ DOMAIN v = DOMAIN wal
  BY <1>1, AllDrained
<1> HIDE DEF v
<1>3. SameRecs(wal', v)
  BY <1>1, <1>2, NextFileSame
<1>4. LogKept(segs, wal', <<>>, hist)
  BY <1>2, <1>3, SameRecsKept
<1>5. Len(walBuf') \in Nat /\ Len(walBuf') <= Len(walBuf)
  BY <1>1, KeepTypes
<1> QED BY <1>1, <1>4, <1>5, Keeps

\* ... and a stop without a loss of power.
LEMMA DropKept == Written /\ SafeInv /\ KeepInv /\ Drop => KeepInv'
<1> SUFFICES ASSUME Written, SafeInv, KeepInv, Drop PROVE KeepInv'
  OBVIOUS
<1> DEFINE v == Drained(Len(walBuf))
<1>1. Up /\ wal' = Synced(v) /\ segs' = segs /\ StopWith
  BY DEF Drop, Up
<1>2. /\ LogKept(segs, v, <<>>, hist) /\ Shape(v, Len(hist))
      /\ DOMAIN v = DOMAIN wal /\ LastFile \in DOMAIN wal
  BY <1>1, AllDrained
<1> HIDE DEF v
<1>3. Shape(wal', Len(hist)) /\ SameRecs(wal', v)
  BY <1>1, <1>2, SyncedShape, SyncedSame
<1>4. LogKept(segs, wal', <<>>, hist)
  BY <1>2, <1>3, SameRecsKept
<1>5. <<>> \in Seq(Rec(Len(hist))) /\ Len(<<>>) <= Len(walBuf)
  BY KeepTypes
<1> QED BY <1>1, <1>3, <1>4, <1>5, StopKept

LEMMA KillKept == Written /\ SafeInv /\ KeepInv /\ Kill => KeepInv'
<1> SUFFICES ASSUME Written, SafeInv, KeepInv, Kill PROVE KeepInv'
  OBVIOUS
<1>1. pc \notin {"down", "refused"} /\ segs' = segs /\ StopWith
  BY DEF Kill
<1>2. /\ Shape(wal, Len(hist)) /\ walBuf \in Seq(Rec(Len(hist)))
      /\ Len(walBuf) \in Nat
  BY KeepTypes
<1>3. PICK n \in 0 .. Len(walBuf), cut \in BOOLEAN :
         wal' = IF walBuf = <<>> THEN wal
                ELSE [Drained(n) EXCEPT ![LastFile].torn = cut]
  BY DEF Kill
<1>4. CASE walBuf = <<>>
  <2>1. wal' = wal
    BY <1>3, <1>4
  <2>2. LogKept(segs, wal', walBuf, hist)
    BY <2>1 DEF KeepInv, Removable, Recovering
  <2> QED BY <1>1, <1>2, <2>1, <2>2, StopKept
<1>5. CASE walBuf # <<>>
  <2>1. Up
    BY <1>1, <1>5 DEF SafeInv, Places, Up
  <2> DEFINE v == Drained(n)
  <2> DEFINE buf == SubSeq(walBuf, n + 1, Len(walBuf))
  <2>2. /\ LogKept(segs, v, buf, hist) /\ Shape(v, Len(hist))
        /\ buf \in Seq(Rec(Len(hist))) /\ Len(buf) = Len(walBuf) - n
        /\ DOMAIN v = DOMAIN wal /\ LastFile \in DOMAIN wal
    BY <2>1, DrainedNow
  <2>3. wal' = [v EXCEPT ![LastFile].torn = cut]
    BY <1>3, <1>5
  <2> HIDE DEF v, buf
  <2> DEFINE old == v[LastFile]
  <2> DEFINE new == [old EXCEPT !.torn = cut]
  <2>4. old \in LogFile(Len(hist)) /\ old.synced <= Len(old.recs)
    BY <2>2 DEF Shape
  <2>5. wal' = [v EXCEPT ![LastFile] = new]
    BY <2>3
  <2> HIDE DEF old
  <2>6. /\ new \in LogFile(Len(hist)) /\ new.synced <= Len(new.recs)
        /\ new.recs = old.recs
    BY <2>4 DEF LogFile
  <2> HIDE DEF new
  <2>7. /\ DOMAIN wal' = DOMAIN v /\ wal' = [f \in DOMAIN wal' |-> wal'[f]]
        /\ \A f \in DOMAIN wal' : wal'[f] = IF f = LastFile THEN new ELSE v[f]
    BY <2>2, <2>5 DEF Shape
  <2>8. Shape(wal', Len(hist))
    <3>1. \A f \in DOMAIN wal' : wal'[f] \in LogFile(Len(hist))
                                 /\ wal'[f].synced <= Len(wal'[f].recs)
      BY <2>2, <2>6, <2>7 DEF Shape
    <3> QED BY <2>2, <2>7, <3>1, InPlace
  <2>9. SameRecs(wal', v)
    BY <2>6, <2>7 DEF SameRecs, old
  <2>10. LogKept(segs, wal', buf, hist)
    BY <2>2, <2>9, SameRecsKept
  <2>11. Len(buf) <= Len(walBuf)
    BY <1>2, <2>2
  <2> QED BY <1>1, <2>2, <2>8, <2>10, <2>11, StopKept
<1> QED BY <1>4, <1>5

LEMMA StutterKept == SafeInv /\ KeepInv /\ UNCHANGED vars => KeepInv'
BY DEF vars, KeepInv, Removable, Recovering

\* With no loss of power the invariants together are inductive.
LEMMA NextKept ==
    ASSUME Written, PowerLoss = {}, SafeInv, KeepInv, [Next]_vars
    PROVE  KeepInv'
<1>1. CASE Open
  BY <1>1, OpenKept
<1>2. CASE Refuse
  BY <1>2, RefuseKept
<1>3. CASE CreateFile
  BY <1>3, CreateFileKept
<1>4. ASSUME NEW b \in Batches, Write(b) PROVE KeepInv'
  BY <1>4, WriteKept
<1>5. ASSUME NEW b \in Batches, WriteTooLarge(b) PROVE KeepInv'
  BY <1>5, WriteTooLargeKept
<1>6. CASE Flush
  BY <1>6, FlushKept
<1>7. CASE Cut
  BY <1>7, CutKept
<1>8. CASE Save
  BY <1>8, SaveKept
<1>9. CASE SaveDone
  BY <1>9, SaveDoneKept
<1>10. CASE SaveFails
  BY <1>10, SaveFailsKept
<1>11. CASE RemoveFile
  BY <1>11, RemoveFileKept
<1>12. CASE RemoveDone
  BY <1>12, RemoveDoneKept
<1>13. CASE RemoveFails
  BY <1>13, RemoveFailsKept
<1>14. CASE LogWrite
  BY <1>14, LogWriteKept
<1>15. CASE LogSync
  BY <1>15, LogSyncKept
<1>16. CASE LogRotate
  BY <1>16, LogRotateKept
<1>17. CASE Drop
  BY <1>17, DropKept
<1>18. CASE Kill
  BY <1>18, KillKept
<1>19. CASE LosePower
  BY <1>19 DEF LosePower
<1>20. CASE Idle \/ UNCHANGED vars
  BY <1>20, StutterKept DEF Idle
<1> QED BY <1>1, <1>2, <1>3, <1>4, <1>5, <1>6, <1>7, <1>8, <1>9, <1>10, <1>11, <1>12,
           <1>13, <1>14, <1>15, <1>16, <1>17, <1>18, <1>19, <1>20, Zenon DEF Next

\* A write that waited for its record to leave the buffer of the log is never
\* undone: not by a kill at any step of a write, a flush or a recovery, not by a
\* failed flush or removal, not by a recovery that is itself killed (db.rs:43,
\* db.rs:159, wal/replay.rs).
THEOREM AckedIsKept ==
    ASSUME Written, PowerLoss = {}
    PROVE  Spec => []AckedKept
<1>1. Init => SafeInv /\ KeepInv
  BY InitSafe, InitKept
<1>2. SafeInv /\ KeepInv /\ [Next]_vars => SafeInv' /\ KeepInv'
  BY NextSafe, NextKept
<1>3. SafeInv /\ KeepInv => AckedKept
  <2> SUFFICES ASSUME SafeInv, KeepInv PROVE AckedKept
    OBVIOUS
  <2>1. acked <= Len(hist) - Len(walBuf)
    BY DEF KeepInv, Removable, Recovering
  <2>2. acked \in Nat /\ Len(hist) \in Nat /\ Len(walBuf) \in Nat
    BY KeepTypes
  <2> QED BY <2>1, <2>2 DEF AckedKept
<1> QED BY <1>1, <1>2, <1>3, PTL DEF Spec

-----------------------------------------------------------------------------
(***************************************************************************)
(* Part 2: memory, after replay has gone through the records of the log,   *)
(* shows of every series what the history of written batches answers. A    *)
(* view of a series is what its segments hold followed by what memory      *)
(* holds; lemmas follow it sample by sample, entry by entry and record by  *)
(* record.                                                                 *)
(***************************************************************************)

-----------------------------------------------------------------------------
(* What counts of new samples: the fold of module Tsdb, from any view on. *)

\* A sample counts if it is newer than the last that counted
\* (SeriesState::append).
Kept(v, s) == IF v # <<>> /\ s[1] <= Last(v)[1] THEN v ELSE Append(v, s)

Newest(v, ss) ==
    FoldLeft(LAMBDA acc, s :
               IF acc # <<>> /\ s[1] <= Last(acc)[1] THEN acc ELSE Append(acc, s),
             v, ss)

\* Newest sample by sample.
LEMMA NewestRun ==
    ASSUME NEW v \in Seq(Sample), NEW ss \in Seq(Sample)
    PROVE  \E r \in [0 .. Len(ss) -> Seq(Sample)] :
               /\ r[0] = v /\ r[Len(ss)] = Newest(v, ss)
               /\ \A i \in 1 .. Len(ss) : r[i] = Kept(r[i - 1], ss[i])
<1> DEFINE T == Seq(Sample)
<1> DEFINE F == [p \in T \X Sample |-> Kept(p[1], p[2])]
<1> DEFINE Step(g, s) ==
      IF g[s \ {Max(s)}] # <<>> /\ ss[Max(s)][1] <= Last(g[s \ {Max(s)}])[1]
        THEN g[s \ {Max(s)}] ELSE Append(g[s \ {Max(s)}], ss[Max(s)])
<1> DEFINE Eq(g) == g = [s \in SUBSET DOMAIN ss |-> IF s = {} THEN v ELSE Step(g, s)]
<1> DEFINE it == CHOOSE g : Eq(g)
<1>1. F \in [T \X Sample -> T]
  BY DEF Kept
<1>2. \A a \in T, b \in Sample : F[<<a, b>>] = Kept(a, b)
  OBVIOUS
<1> HIDE DEF F
<1>3. Foldable(T, Sample, v, F, ss)
  BY <1>1, Zenon DEF Foldable
<1>4. Eq(it)
  <2>1. PICK g : Values(g, T, Sample, v, F, ss)
    BY <1>3, Iterates
  <2>2. \A s \in SUBSET DOMAIN ss : g[s] = IF s = {} THEN v ELSE Step(g, s)
    BY <1>2, <2>1 DEF Values, Kept
  <2>3. Eq(g)
    BY <2>1, <2>2, Zenon DEF Values
  <2> QED BY <2>3, Zenon
<1>5. Newest(v, ss) = it[DOMAIN ss]
  BY Zenon DEF Newest, FoldLeft, MapThenFoldSet
<1> HIDE DEF it
<1>6. \A s \in SUBSET DOMAIN ss : it[s] = IF s = {} THEN v ELSE Step(it, s)
  BY <1>4
<1>7. Iteration(it, T, Sample, v, F, ss)
  BY <1>2, <1>6 DEF Iteration, Kept
<1>8. PICK r : Run(r, T, Sample, v, F, ss) /\ r[Len(ss)] = it[DOMAIN ss]
  BY <1>3, <1>7, Unrolled
<1>9. ASSUME NEW i \in 1 .. Len(ss) PROVE r[i] = Kept(r[i - 1], ss[i])
  <2>1. r[i - 1] \in T /\ ss[i] \in Sample /\ r[i] = F[<<r[i - 1], ss[i]>>]
    BY <1>8 DEF Run
  <2> QED BY <1>2, <2>1, Zenon
<1> QED BY <1>5, <1>8, <1>9, Zenon DEF Run

LEMMA NewestType ==
    ASSUME NEW v \in Seq(Sample), NEW ss \in Seq(Sample)
    PROVE  Newest(v, ss) \in Seq(Sample)
<1>1. Len(ss) \in 0 .. Len(ss)
  OBVIOUS
<1>2. PICK r \in [0 .. Len(ss) -> Seq(Sample)] : r[Len(ss)] = Newest(v, ss)
  BY NewestRun
<1> QED BY <1>1, <1>2

LEMMA NewestNone ==
    ASSUME NEW v \in Seq(Sample)
    PROVE  Newest(v, <<>>) = v
<1>1. <<>> \in Seq(Sample) /\ Len(<<>>) = 0
  OBVIOUS
<1>2. PICK r : r[0] = v /\ r[Len(<<>>)] = Newest(v, <<>>)
  BY <1>1, NewestRun
<1> QED BY <1>1, <1>2

\* One more sample.
LEMMA NewestMore ==
    ASSUME NEW v \in Seq(Sample), NEW a \in Seq(Sample), NEW s \in Sample
    PROVE  Newest(v, Append(a, s)) = Kept(Newest(v, a), s)
<1> DEFINE b == Append(a, s)
<1>1. /\ Len(a) \in Nat /\ b \in Seq(Sample) /\ Len(b) = Len(a) + 1
      /\ b[Len(a) + 1] = s /\ \A i \in 1 .. Len(a) : b[i] = a[i]
  OBVIOUS
<1> HIDE DEF b
<1>2. PICK r \in [0 .. Len(a) -> Seq(Sample)] :
               /\ r[0] = v /\ r[Len(a)] = Newest(v, a)
               /\ \A i \in 1 .. Len(a) : r[i] = Kept(r[i - 1], a[i])
  BY NewestRun
<1>3. PICK t \in [0 .. Len(b) -> Seq(Sample)] :
               /\ t[0] = v /\ t[Len(b)] = Newest(v, b)
               /\ \A i \in 1 .. Len(b) : t[i] = Kept(t[i - 1], b[i])
  BY <1>1, NewestRun
<1> DEFINE G == {i \in 0 .. Len(a) : t[i] = r[i]}
<1>4. 0 \in G
  BY <1>1, <1>2, <1>3
<1>5. ASSUME NEW i \in 1 .. Len(a), i - 1 \in G PROVE i \in G
  <2>1. t[i - 1] = r[i - 1] /\ i \in 1 .. Len(b) /\ i \in 0 .. Len(a)
    BY <1>1, <1>5
  <2> QED BY <1>1, <1>2, <1>3, <2>1
<1> HIDE DEF G
<1>6. Len(a) \in G
  BY <1>1, <1>4, <1>5, UpTo
<1>7. t[Len(a)] = Newest(v, a)
  BY <1>2, <1>6 DEF G
<1>8. t[Len(a) + 1] = Kept(t[Len(a) + 1 - 1], b[Len(a) + 1])
  BY <1>1, <1>3
<1>9. Len(a) + 1 - 1 = Len(a)
  <2>1. Len(a) \in Nat
    OBVIOUS
  <2> QED BY <2>1
<1>10. Newest(v, b) = Kept(Newest(v, a), s)
  BY <1>1, <1>3, <1>7, <1>8, <1>9, Zenon
<1> QED BY <1>10 DEF b

\* One sequence of samples after another.
LEMMA NewestJoin ==
    ASSUME NEW v \in Seq(Sample), NEW a \in Seq(Sample), NEW b \in Seq(Sample)
    PROVE  Newest(v, a \o b) = Newest(Newest(v, a), b)
<1> DEFINE G == {i \in 0 .. Len(b) :
      Newest(v, a \o SubSeq(b, 1, i)) = Newest(Newest(v, a), SubSeq(b, 1, i))}
<1>1. Len(b) \in Nat /\ Newest(v, a) \in Seq(Sample)
  BY NewestType
<1>2. 0 \in G
  <2>1. SubSeq(b, 1, 0) = <<>>
    OBVIOUS
  <2>2. a \o <<>> = a
    BY JoinNone
  <2>3. Newest(v, a) = Newest(Newest(v, a), <<>>)
    BY <1>1, NewestNone
  <2>4. 0 \in 0 .. Len(b)
    BY <1>1
  <2> QED BY <2>1, <2>2, <2>3, <2>4
<1>3. ASSUME NEW i \in 1 .. Len(b), i - 1 \in G PROVE i \in G
  <2> DEFINE c == SubSeq(b, 1, i - 1)
  <2>1. /\ c \in Seq(Sample) /\ b[i] \in Sample /\ SubSeq(b, 1, i) = Append(c, b[i])
        /\ i \in 0 .. Len(b) /\ a \o c \in Seq(Sample)
    BY <1>1, BeginMore
  <2>2. Newest(v, a \o c) = Newest(Newest(v, a), c)
    BY <1>3
  <2> HIDE DEF c
  <2>3. a \o Append(c, b[i]) = Append(a \o c, b[i])
    BY <2>1, JoinMore
  <2>4. Newest(v, a \o Append(c, b[i])) = Kept(Newest(v, a \o c), b[i])
    <3>1. Newest(v, Append(a \o c, b[i])) = Kept(Newest(v, a \o c), b[i])
      BY <2>1, NewestMore
    <3> QED BY <2>3, <3>1, Zenon
  <2>5. Newest(Newest(v, a), Append(c, b[i])) = Kept(Newest(Newest(v, a), c), b[i])
    BY <1>1, <2>1, NewestMore
  <2> QED BY <2>1, <2>2, <2>4, <2>5
<1> HIDE DEF G
<1>4. Len(b) \in G
  BY <1>1, <1>2, <1>3, UpTo
<1>5. SubSeq(b, 1, Len(b)) = b
  OBVIOUS
<1> QED BY <1>4, <1>5 DEF G

\* Samples that are not newer than a view.
Old(v, ss) == \A j \in DOMAIN ss : v # <<>> /\ ss[j][1] <= Last(v)[1]

\* w ends no earlier than v.
Grows(v, w) == v # <<>> => w # <<>> /\ Last(v)[1] <= Last(w)[1]

LEMMA GrowsOn ==
    ASSUME NEW u \in Seq(Sample), NEW v \in Seq(Sample), NEW w \in Seq(Sample),
           Grows(u, v), Grows(v, w)
    PROVE  Grows(u, w)
<1>1. ASSUME NEW x \in Seq(Sample), x # <<>> PROVE Last(x)[1] \in Nat
  BY <1>1 DEF Last, Sample
<1> QED BY <1>1 DEF Grows

LEMMA OldGrows ==
    ASSUME NEW v \in Seq(Sample), NEW w \in Seq(Sample), NEW ss \in Seq(Sample),
           Grows(v, w), Old(v, ss)
    PROVE  Old(w, ss)
<1>1. ASSUME NEW x \in Seq(Sample), x # <<>> PROVE Last(x)[1] \in Nat
  BY <1>1 DEF Last, Sample
<1>2. ASSUME NEW j \in DOMAIN ss PROVE w # <<>> /\ ss[j][1] <= Last(w)[1]
  <2>1. ss[j][1] \in Nat /\ v # <<>> /\ ss[j][1] <= Last(v)[1]
    BY DEF Sample, Old
  <2> QED BY <1>1, <2>1 DEF Grows
<1> QED BY <1>2 DEF Old

\* One sample more leaves it no newer than the result.
LEMMA KeptGrows ==
    ASSUME NEW v \in Seq(Sample), NEW s \in Sample
    PROVE  LET w == Kept(v, s) IN
           w \in Seq(Sample) /\ w # <<>> /\ Grows(v, w) /\ s[1] <= Last(w)[1]
<1>1. s[1] \in Nat
  BY DEF Sample
<1>2. ASSUME v # <<>> PROVE Last(v)[1] \in Nat
  BY <1>2 DEF Last, Sample
<1>3. Append(v, s) # <<>> /\ Last(Append(v, s)) = s /\ Append(v, s) \in Seq(Sample)
  BY DEF Last
<1>4. CASE v # <<>> /\ s[1] <= Last(v)[1]
  BY <1>2, <1>4 DEF Kept, Grows
<1>5. CASE ~(v # <<>> /\ s[1] <= Last(v)[1])
  <2>1. Kept(v, s) = Append(v, s)
    BY <1>5 DEF Kept
  <2>2. v # <<>> => Last(v)[1] <= s[1]
    BY <1>1, <1>2, <1>5
  <2> QED BY <1>1, <1>3, <2>1, <2>2 DEF Grows
<1> QED BY <1>4, <1>5

LEMMA NewestGrows ==
    ASSUME NEW v \in Seq(Sample), NEW ss \in Seq(Sample)
    PROVE  LET w == Newest(v, ss) IN
           w \in Seq(Sample) /\ Grows(v, w) /\ Old(w, ss)
<1>1. Len(ss) \in Nat /\ DOMAIN ss = 1 .. Len(ss)
  OBVIOUS
<1>2. PICK r \in [0 .. Len(ss) -> Seq(Sample)] :
               /\ r[0] = v /\ r[Len(ss)] = Newest(v, ss)
               /\ \A i \in 1 .. Len(ss) : r[i] = Kept(r[i - 1], ss[i])
  BY NewestRun
<1> DEFINE G == {i \in 0 .. Len(ss) :
      Grows(v, r[i]) /\ \A j \in 1 .. i : r[i] # <<>> /\ ss[j][1] <= Last(r[i])[1]}
<1>0. ASSUME NEW x \in Seq(Sample), x # <<>> PROVE Last(x)[1] \in Nat
  BY <1>0 DEF Last, Sample
<1>3. 0 \in G
  <2>1. Grows(v, v)
    BY <1>0 DEF Grows
  <2> QED BY <1>1, <1>2, <2>1
<1>4. ASSUME NEW i \in 1 .. Len(ss), i - 1 \in G PROVE i \in G
  <2>1. /\ i - 1 \in 0 .. Len(ss) /\ i \in 0 .. Len(ss)
        /\ r[i - 1] \in Seq(Sample) /\ ss[i] \in Sample /\ Grows(v, r[i - 1])
        /\ \A j \in 1 .. i - 1 : r[i - 1] # <<>> /\ ss[j][1] <= Last(r[i - 1])[1]
    BY <1>1, <1>4
  <2>2. r[i] \in Seq(Sample) /\ r[i] # <<>> /\ Grows(r[i - 1], r[i])
        /\ ss[i][1] <= Last(r[i])[1]
    BY <1>2, <2>1, KeptGrows
  <2>3. Grows(v, r[i])
    BY <2>1, <2>2, GrowsOn
  <2>4. ASSUME NEW j \in 1 .. i PROVE ss[j][1] <= Last(r[i])[1]
    <3>1. CASE j = i
      BY <2>2, <3>1
    <3>2. CASE j # i
      <4>1. j \in 1 .. i - 1 /\ j \in 1 .. Len(ss)
        BY <1>1, <3>2
      <4>2. ss[j][1] \in Nat
        BY <4>1, SMTT(20) DEF Sample
      <4>3. r[i - 1] # <<>> /\ ss[j][1] <= Last(r[i - 1])[1]
        BY <2>1, <4>1
      <4>4. Last(r[i - 1])[1] <= Last(r[i])[1]
        BY <2>2, <4>3 DEF Grows
      <4>5. Last(r[i - 1])[1] \in Nat /\ Last(r[i])[1] \in Nat
        BY <1>0, <2>1, <2>2, <4>3
      <4> QED BY <4>2, <4>3, <4>4, <4>5
    <3> QED BY <3>1, <3>2
  <2> QED BY <2>1, <2>2, <2>3, <2>4
<1> HIDE DEF G
<1>5. Len(ss) \in G
  BY <1>1, <1>3, <1>4, UpTo
<1> QED BY <1>1, <1>2, <1>5 DEF G, Old

\* Old samples change nothing.
LEMMA NewestOld ==
    ASSUME NEW v \in Seq(Sample), NEW ss \in Seq(Sample), Old(v, ss)
    PROVE  Newest(v, ss) = v
<1>1. Len(ss) \in Nat /\ DOMAIN ss = 1 .. Len(ss)
  OBVIOUS
<1>2. PICK r \in [0 .. Len(ss) -> Seq(Sample)] :
               /\ r[0] = v /\ r[Len(ss)] = Newest(v, ss)
               /\ \A i \in 1 .. Len(ss) : r[i] = Kept(r[i - 1], ss[i])
  BY NewestRun
<1> DEFINE G == {i \in 0 .. Len(ss) : r[i] = v}
<1>3. 0 \in G
  BY <1>1, <1>2
<1>4. ASSUME NEW i \in 1 .. Len(ss), i - 1 \in G PROVE i \in G
  <2>1. r[i - 1] = v /\ i \in 0 .. Len(ss) /\ i \in DOMAIN ss
    BY <1>1, <1>4
  <2> QED BY <1>2, <2>1 DEF Old, Kept
<1> HIDE DEF G
<1>5. Len(ss) \in G
  BY <1>1, <1>3, <1>4, UpTo
<1> QED BY <1>2, <1>5 DEF G

-----------------------------------------------------------------------------
(* Memory beside a view of every series. *)

\* The time a view ends with; before the first sample it is 0.
Time(v) == IF v = <<>> THEN 0 ELSE Last(v)[1]

\* Of each series v is what is stored (st), then what memory holds; newest is the
\* time it ends with.
Tracks(mem, st, v) ==
    /\ mem \in Memory
    /\ st \in [Labels -> Seq(Sample)] /\ v \in [Labels -> Seq(Sample)]
    /\ \A l \in Labels : v[l] = st[l] \o mem.samples[l] /\ mem.newest[l] = Time(v[l])

\* A view of all series with samples more of one.
Plus(v, l, ss) == [v EXCEPT ![l] = Newest(v[l], ss)]

\* A sample, ...
LEMMA AppendSampleTracks ==
    ASSUME NEW mem, NEW st, NEW v, Tracks(mem, st, v), NEW l \in Labels, NEW s \in Sample
    PROVE  Tracks(AppendSample(mem, l, s), st, [v EXCEPT ![l] = Kept(v[l], s)])
<1> DEFINE new == AppendSample(mem, l, s)
<1> DEFINE w == [v EXCEPT ![l] = Kept(v[l], s)]
<1>1. /\ mem \in Memory /\ st \in [Labels -> Seq(Sample)] /\ v \in [Labels -> Seq(Sample)]
      /\ \A k \in Labels : v[k] = st[k] \o mem.samples[k] /\ mem.newest[k] = Time(v[k])
  BY DEF Tracks
<1>2. mem.samples \in [Labels -> Seq(Sample)] /\ mem.newest \in [Labels -> Nat]
  BY <1>1, MemoryHas
<1>3. s[1] \in Nat \ {0}
  BY DEF Sample
<1>4. v[l] # <<>> => Last(v[l])[1] \in Nat
  <2>1. v[l] \in Seq(Sample)
    BY <1>1
  <2> QED BY <2>1 DEF Last, Sample
<1>5. new \in Memory
  BY <1>1, AppendSampleType
<1>6. Kept(v[l], s) \in Seq(Sample)
  BY <1>1, KeptGrows
<1>7. w \in [Labels -> Seq(Sample)] /\ w[l] = Kept(v[l], s)
      /\ \A k \in Labels : k # l => w[k] = v[k]
  BY <1>1, <1>6
<1>8. CASE s[1] > mem.newest[l]
  <2>1. new = [mem EXCEPT !.samples = [mem.samples EXCEPT ![l] = Append(mem.samples[l], s)],
                          !.newest = [mem.newest EXCEPT ![l] = s[1]],
                          !.buffered = mem.buffered + 1]
    BY <1>8 DEF AppendSample
  <2>2. /\ new.samples = [mem.samples EXCEPT ![l] = Append(mem.samples[l], s)]
        /\ new.newest = [mem.newest EXCEPT ![l] = s[1]]
    BY <1>1, <2>1 DEF Memory
  <2>3. mem.newest[l] = Time(v[l]) /\ mem.newest[l] \in Nat
    BY <1>1, <1>2
  <2>4. ~(v[l] # <<>> /\ s[1] <= Last(v[l])[1])
    BY <1>3, <1>4, <1>8, <2>3 DEF Time
  <2>5. w[l] = Append(v[l], s)
    BY <1>7, <2>4 DEF Kept
  <2>6. Append(v[l], s) = st[l] \o Append(mem.samples[l], s)
    <3> DEFINE a == st[l]
    <3> DEFINE b == mem.samples[l]
    <3>1. a \in Seq(Sample) /\ b \in Seq(Sample) /\ v[l] = a \o b
      BY <1>1, <1>2
    <3> HIDE DEF a, b
    <3>2. a \o Append(b, s) = Append(a \o b, s)
      BY <3>1, JoinMore
    <3> QED BY <3>1, <3>2 DEF a, b
  <2>7. Time(w[l]) = s[1]
    <3>1. v[l] \in Seq(Sample)
      BY <1>1
    <3>2. Append(v[l], s) # <<>> /\ Last(Append(v[l], s)) = s
      BY <3>1 DEF Last
    <3> QED BY <2>5, <3>2 DEF Time
  <2> HIDE DEF new, w
  <2>8. ASSUME NEW k \in Labels
        PROVE  w[k] = st[k] \o new.samples[k] /\ new.newest[k] = Time(w[k])
    <3>1. CASE k = l
      <4>1. new.samples[l] = Append(mem.samples[l], s) /\ new.newest[l] = s[1]
        BY <1>2, <2>2
      <4> QED BY <2>5, <2>6, <2>7, <3>1, <4>1
    <3>2. CASE k # l
      <4>1. new.samples[k] = mem.samples[k] /\ new.newest[k] = mem.newest[k]
        BY <1>2, <2>2, <3>2
      <4> QED BY <1>1, <1>7, <3>2, <4>1
    <3> QED BY <3>1, <3>2
  <2>9. Tracks(new, st, w)
    BY <1>1, <1>5, <1>7, <2>8 DEF Tracks
  <2> QED BY <2>9 DEF new, w
<1>9. CASE ~(s[1] > mem.newest[l])
  <2>1. new = mem
    BY <1>9 DEF AppendSample
  <2>2. mem.newest[l] = Time(v[l]) /\ mem.newest[l] \in Nat
    BY <1>1, <1>2
  <2>3. v[l] # <<>> /\ s[1] <= Last(v[l])[1]
    BY <1>3, <1>4, <1>9, <2>2 DEF Time
  <2>4. w = v
    BY <1>1, <2>3 DEF Kept
  <2> QED BY <2>1, <2>4
<1> QED BY <1>8, <1>9

\* ... many, ...
LEMMA AppendSamplesTracks ==
    ASSUME NEW mem, NEW st, NEW v, Tracks(mem, st, v), NEW l \in Labels,
           NEW ss \in Seq(Sample)
    PROVE  Tracks(AppendSamples(mem, l, ss), st, [v EXCEPT ![l] = Newest(v[l], ss)])
<1>1. mem \in Memory /\ v \in [Labels -> Seq(Sample)] /\ v[l] \in Seq(Sample)
  BY DEF Tracks
<1>2. Len(ss) \in Nat
  OBVIOUS
<1>3. PICK r \in [0 .. Len(ss) -> Memory] :
               /\ r[0] = mem /\ r[Len(ss)] = AppendSamples(mem, l, ss)
               /\ \A i \in 1 .. Len(ss) : r[i] = AppendSample(r[i - 1], l, ss[i])
  BY <1>1, AppendSamplesRun
<1>4. PICK t \in [0 .. Len(ss) -> Seq(Sample)] :
               /\ t[0] = v[l] /\ t[Len(ss)] = Newest(v[l], ss)
               /\ \A i \in 1 .. Len(ss) : t[i] = Kept(t[i - 1], ss[i])
  BY <1>1, NewestRun
<1> DEFINE G == {i \in 0 .. Len(ss) : Tracks(r[i], st, [v EXCEPT ![l] = t[i]])}
<1>5. 0 \in G
  <2>1. [v EXCEPT ![l] = t[0]] = v
    BY <1>1, <1>4
  <2> QED BY <1>2, <1>3, <2>1
<1>6. ASSUME NEW i \in 1 .. Len(ss), i - 1 \in G PROVE i \in G
  <2> DEFINE u == [v EXCEPT ![l] = t[i - 1]]
  <2>1. Tracks(r[i - 1], st, u) /\ ss[i] \in Sample /\ i \in 0 .. Len(ss)
    BY <1>2, <1>6
  <2>2. u[l] = t[i - 1] /\ [u EXCEPT ![l] = Kept(u[l], ss[i])] = [v EXCEPT ![l] = t[i]]
    BY <1>1, <1>4
  <2> HIDE DEF u
  <2>3. Tracks(AppendSample(r[i - 1], l, ss[i]), st, [u EXCEPT ![l] = Kept(u[l], ss[i])])
    BY <2>1, AppendSampleTracks
  <2> QED BY <1>3, <2>1, <2>2, <2>3
<1> HIDE DEF G
<1>7. Len(ss) \in G
  BY <1>2, <1>5, <1>6, UpTo
<1> QED BY <1>3, <1>4, <1>7 DEF G

\* ... none that counts.
LEMMA AppendOldTracks ==
    ASSUME NEW mem, NEW st, NEW v, Tracks(mem, st, v), NEW l \in Labels,
           NEW ss \in Seq(Sample), Old(v[l], ss)
    PROVE  Tracks(AppendSamples(mem, l, ss), st, v)
<1>1. v \in [Labels -> Seq(Sample)] /\ v[l] \in Seq(Sample)
  BY DEF Tracks
<1>2. Newest(v[l], ss) = v[l]
  BY <1>1, NewestOld
<1>3. [v EXCEPT ![l] = Newest(v[l], ss)] = v
  BY <1>1, <1>2
<1>4. Tracks(AppendSamples(mem, l, ss), st, [v EXCEPT ![l] = Newest(v[l], ss)])
  BY AppendSamplesTracks
<1> QED BY <1>3, <1>4

\* A new id shows nothing.
LEMMA EncodeTracks ==
    ASSUME NEW mem, NEW st, NEW v, Tracks(mem, st, v), NEW l \in Labels
    PROVE  Tracks(Encode(mem, l), st, v)
<1>1. mem \in Memory
  BY DEF Tracks
<1>2. LET new == Encode(mem, l) IN
      new \in Memory /\ new.samples = mem.samples /\ new.newest = mem.newest
  BY <1>1, EncodeIs
<1> QED BY <1>2 DEF Tracks

-----------------------------------------------------------------------------
(* The samples of a batch. *)

\* The times ss of batch number no.
Stamped(ss, no) == [j \in DOMAIN ss |-> <<ss[j], no>>]

\* What an entry, and a batch, add to a series.
Of(e, l, no) == IF e.labels = l THEN Stamped(e.samples, no) ELSE <<>>

BatchOf(b, l, no) == FlattenSeq([i \in DOMAIN b |-> Of(b[i], l, no)])

\* A view of all series with a batch more.
After(v, b, no) == [l \in Labels |-> Newest(v[l], BatchOf(b, l, no))]

LEMMA StampedType ==
    ASSUME NEW ss \in Seq(Nat \ {0}), NEW no \in Nat
    PROVE  Stamped(ss, no) \in Seq(Sample) /\ (ss = <<>> => Stamped(ss, no) = <<>>)
<1>1. DOMAIN ss = 1 .. Len(ss) /\ Len(ss) \in Nat
  OBVIOUS
<1>2. Stamped(ss, no) \in [1 .. Len(ss) -> Sample]
  BY <1>1 DEF Stamped, Sample
<1>3. Stamped(ss, no) \in Seq(Sample)
  BY <1>1, <1>2, FunctionIsSeq
<1>4. ASSUME ss = <<>> PROVE Stamped(ss, no) = <<>>
  <2>1. DOMAIN Stamped(ss, no) = {}
    BY <1>4 DEF Stamped
  <2>2. Len(Stamped(ss, no)) = 0
    BY <1>3, <2>1
  <2> QED BY <1>3, <2>2
<1> QED BY <1>3, <1>4

LEMMA OfType ==
    ASSUME NEW e \in Entry, NEW l, NEW no \in Nat
    PROVE  Of(e, l, no) \in Seq(Sample)
<1>1. e.samples \in Seq(Nat \ {0})
  BY DEF Entry
<1>2. Stamped(e.samples, no) \in Seq(Sample) /\ <<>> \in Seq(Sample)
  BY <1>1, StampedType
<1> QED BY <1>2 DEF Of

LEMMA OfAll ==
    ASSUME NEW b \in Seq(Entry), NEW l, NEW no \in Nat
    PROVE  LET q == [i \in DOMAIN b |-> Of(b[i], l, no)] IN
           q \in Seq(Seq(Sample)) /\ Len(q) = Len(b)
<1> DEFINE q == [i \in DOMAIN b |-> Of(b[i], l, no)]
<1>1. Len(b) \in Nat /\ DOMAIN b = 1 .. Len(b) /\ \A i \in 1 .. Len(b) : b[i] \in Entry
  OBVIOUS
<1>2. q \in [1 .. Len(b) -> Seq(Sample)]
  BY <1>1, OfType
<1> HIDE DEF q
<1>3. q \in Seq(Seq(Sample)) /\ Len(q) = Len(b)
  BY <1>1, <1>2, FunctionIsSeq, SMTT(20)
<1> QED BY <1>3 DEF q

LEMMA BatchSamples ==
    ASSUME NEW b \in Seq(Entry), NEW l, NEW no \in Nat
    PROVE  BatchOf(b, l, no) \in Seq(Sample)
<1> DEFINE q == [i \in DOMAIN b |-> Of(b[i], l, no)]
<1>1. q \in Seq(Seq(Sample))
  BY OfAll
<1> HIDE DEF q
<1>2. FlattenSeq(q) \in Seq(Sample)
  BY <1>1, FlattenType
<1> QED BY <1>2 DEF BatchOf, q

LEMMA BatchNone ==
    ASSUME NEW l, NEW no \in Nat
    PROVE  BatchOf(<<>>, l, no) = <<>>
<1> DEFINE q == [i \in DOMAIN <<>> |-> Of(<<>>[i], l, no)]
<1>1. q = <<>>
  OBVIOUS
<1> QED BY <1>1, FlattenNone DEF BatchOf

\* An entry more.
LEMMA BatchMore ==
    ASSUME NEW b \in Seq(Entry), NEW e \in Entry, NEW l, NEW no \in Nat
    PROVE  BatchOf(Append(b, e), l, no) = BatchOf(b, l, no) \o Of(e, l, no)
<1> DEFINE c == Append(b, e)
<1> DEFINE q == [i \in DOMAIN b |-> Of(b[i], l, no)]
<1> DEFINE p == [i \in DOMAIN c |-> Of(c[i], l, no)]
<1>1. /\ Len(b) \in Nat /\ DOMAIN b = 1 .. Len(b)
      /\ c \in Seq(Entry) /\ Len(c) = Len(b) + 1 /\ DOMAIN c = 1 .. Len(b) + 1
      /\ c[Len(b) + 1] = e /\ \A i \in 1 .. Len(b) : c[i] = b[i]
  OBVIOUS
<1>2. Of(e, l, no) \in Seq(Sample)
  BY OfType
<1>3. q \in Seq(Seq(Sample)) /\ Len(q) = Len(b)
  BY OfAll
<1>4. p \in Seq(Seq(Sample)) /\ Len(p) = Len(b) + 1
  BY <1>1, OfAll, ZenonT(40)
<1>5. \A i \in 1 .. Len(b) : q[i] = Of(b[i], l, no)
  BY <1>1
<1>6. \A i \in 1 .. Len(b) + 1 : p[i] = Of(c[i], l, no)
  BY <1>1
<1> HIDE DEF p, q, c
<1> DEFINE x == Append(q, Of(e, l, no))
<1>7. /\ x \in Seq(Seq(Sample)) /\ Len(x) = Len(b) + 1
      /\ \A i \in 1 .. Len(b) + 1 : x[i] = IF i = Len(b) + 1 THEN Of(e, l, no) ELSE q[i]
  <2> DEFINE y == Of(e, l, no)
  <2>1. y \in Seq(Sample)
    BY <1>2
  <2> HIDE DEF y
  <2>2. /\ Append(q, y) \in Seq(Seq(Sample)) /\ Len(Append(q, y)) = Len(q) + 1
        /\ \A i \in 1 .. Len(q) + 1 : Append(q, y)[i] = IF i = Len(q) + 1 THEN y ELSE q[i]
    BY <1>3, <2>1
  <2> QED BY <1>3, <2>2, Zenon DEF x, y
<1> HIDE DEF x
<1>8. ASSUME NEW i \in 1 .. Len(b) + 1 PROVE p[i] = x[i]
  <2>1. CASE i = Len(b) + 1
    <3>1. x[i] = Of(e, l, no) /\ p[i] = Of(c[i], l, no) /\ c[i] = e
      BY <1>1, <1>6, <1>7, <2>1
    <3> QED BY <3>1
  <2>2. CASE i # Len(b) + 1
    <3>1. i \in 1 .. Len(b)
      BY <1>1, <2>2
    <3>2. p[i] = Of(c[i], l, no) /\ c[i] = b[i] /\ q[i] = Of(b[i], l, no)
      BY <1>1, <1>5, <1>6, <3>1
    <3>3. x[i] = q[i]
      BY <1>7, <2>2
    <3> QED BY <3>2, <3>3
  <2> QED BY <2>1, <2>2
<1>9. Len(p) = Len(x) /\ \A i \in 1 .. Len(p) : p[i] = x[i]
  BY <1>4, <1>7, <1>8
<1>10. p = x
  <2> DEFINE S == Seq(Sample)
  <2>1. p \in Seq(S) /\ x \in Seq(S)
    BY <1>4, <1>7
  <2> HIDE DEF S
  <2> QED BY <1>9, <2>1, SameSeq
<1>11. FlattenSeq(x) = FlattenSeq(q) \o Of(e, l, no)
  BY <1>2, <1>3, FlattenMore DEF x
<1> QED BY <1>10, <1>11, Zenon DEF BatchOf, p, q, c

\* Entries without samples add nothing.
LEMMA EntriesOf ==
    ASSUME NEW b \in Seq(Entry), NEW l, NEW no \in Nat
    PROVE  BatchOf(Entries(b), l, no) = BatchOf(b, l, no)
<1>1. Len(b) \in Nat
  OBVIOUS
<1>2. PICK r \in [0 .. Len(b) -> Seq(Entry)] :
               /\ r[0] = <<>> /\ r[Len(b)] = Entries(b)
               /\ \A i \in 1 .. Len(b) :
                     r[i] = (IF b[i].samples = <<>> THEN r[i - 1]
                             ELSE Append(r[i - 1], b[i]))
  BY EntriesRun
<1> DEFINE G == {i \in 0 .. Len(b) : BatchOf(r[i], l, no) = BatchOf(SubSeq(b, 1, i), l, no)}
<1>3. 0 \in G
  <2>1. SubSeq(b, 1, 0) = <<>> /\ 0 \in 0 .. Len(b)
    BY <1>1
  <2>2. BatchOf(r[0], l, no) = BatchOf(SubSeq(b, 1, 0), l, no)
    BY <1>2, <2>1, Zenon
  <2> QED BY <2>1, <2>2
<1>4. ASSUME NEW i \in 1 .. Len(b), i - 1 \in G PROVE i \in G
  <2> DEFINE c == SubSeq(b, 1, i - 1)
  <2>1. c \in Seq(Entry) /\ SubSeq(b, 1, i) = Append(c, b[i])
    BY BeginMore
  <2>2. i \in 0 .. Len(b) /\ i - 1 \in 0 .. Len(b) /\ b[i] \in Entry
        /\ BatchOf(r[i - 1], l, no) = BatchOf(c, l, no)
    BY <1>1, <1>4
  <2> HIDE DEF c
  <2>3. BatchOf(Append(c, b[i]), l, no) = BatchOf(c, l, no) \o Of(b[i], l, no)
    BY <2>1, <2>2, BatchMore
  <2>4. r[i - 1] \in Seq(Entry) /\ BatchOf(c, l, no) \in Seq(Sample)
    BY <1>2, <2>1, <2>2, BatchSamples
  <2>5. CASE b[i].samples = <<>>
    <3>1. b[i].samples \in Seq(Nat \ {0})
      BY <2>2 DEF Entry
    <3>2. Of(b[i], l, no) = <<>>
      BY <2>5, <3>1, StampedType DEF Of
    <3>3. BatchOf(c, l, no) \o <<>> = BatchOf(c, l, no)
      BY <2>4, JoinNone
    <3>4. BatchOf(Append(c, b[i]), l, no) = BatchOf(c, l, no)
      BY <2>3, <3>2, <3>3
    <3>5. r[i] = r[i - 1]
      BY <1>2, <2>5
    <3> QED BY <2>1, <2>2, <3>4, <3>5
  <2>6. CASE b[i].samples # <<>>
    <3>1. r[i] = Append(r[i - 1], b[i])
      BY <1>2, <2>6
    <3>2. BatchOf(Append(r[i - 1], b[i]), l, no) = BatchOf(r[i - 1], l, no) \o Of(b[i], l, no)
      BY <2>2, <2>4, BatchMore
    <3>3. BatchOf(r[i], l, no) = BatchOf(Append(c, b[i]), l, no)
      BY <2>2, <2>3, <3>1, <3>2
    <3> QED BY <2>1, <2>2, <3>3
  <2> QED BY <2>5, <2>6
<1> HIDE DEF G
<1>5. Len(b) \in G
  BY <1>1, <1>3, <1>4, UpTo
<1>6. SubSeq(b, 1, Len(b)) = b
  OBVIOUS
<1> QED BY <1>2, <1>5, <1>6 DEF G

LEMMA AfterType ==
    ASSUME NEW v \in [Labels -> Seq(Sample)], NEW b \in Seq(Entry), NEW no \in Nat
    PROVE  After(v, b, no) \in [Labels -> Seq(Sample)]
<1>1. \A l \in Labels : Newest(v[l], BatchOf(b, l, no)) \in Seq(Sample)
  BY BatchSamples, NewestType
<1> QED BY <1>1 DEF After

LEMMA AfterNone ==
    ASSUME NEW v \in [Labels -> Seq(Sample)], NEW no \in Nat
    PROVE  After(v, <<>>, no) = v
<1>1. ASSUME NEW l \in Labels PROVE Newest(v[l], BatchOf(<<>>, l, no)) = v[l]
  <2>1. v[l] \in Seq(Sample)
    OBVIOUS
  <2> QED BY <2>1, BatchNone, NewestNone
<1> QED BY <1>1 DEF After

\* An entry more is more for its series.
LEMMA AfterMore ==
    ASSUME NEW v \in [Labels -> Seq(Sample)], NEW b \in Seq(Entry), NEW e \in Entry,
           NEW no \in Nat
    PROVE  After(v, Append(b, e), no)
             = Plus(After(v, b, no), e.labels, Stamped(e.samples, no))
<1> DEFINE w == After(v, b, no)
<1> DEFINE x == After(v, Append(b, e), no)
<1> DEFINE y == [w EXCEPT ![e.labels] = Newest(w[e.labels], Stamped(e.samples, no))]
<1>1. e.labels \in Labels
  BY DEF Entry
<1>2. w \in [Labels -> Seq(Sample)] /\ \A l \in Labels : w[l] = Newest(v[l], BatchOf(b, l, no))
  BY AfterType DEF After
<1>3. Append(b, e) \in Seq(Entry)
  OBVIOUS
<1>4. x \in [Labels -> Seq(Sample)]
      /\ \A l \in Labels : x[l] = Newest(v[l], BatchOf(Append(b, e), l, no))
  BY <1>3, AfterType DEF After
<1> HIDE DEF w, x
<1>5. ASSUME NEW l \in Labels PROVE x[l] = y[l]
  <2>1. /\ BatchOf(b, l, no) \in Seq(Sample) /\ Of(e, l, no) \in Seq(Sample)
        /\ BatchOf(Append(b, e), l, no) = BatchOf(b, l, no) \o Of(e, l, no)
        /\ v[l] \in Seq(Sample) /\ w[l] \in Seq(Sample)
    BY <1>2, BatchSamples, OfType, BatchMore
  <2>2. Newest(v[l], BatchOf(b, l, no) \o Of(e, l, no)) = Newest(w[l], Of(e, l, no))
    BY <1>2, <2>1, NewestJoin
  <2>3. x[l] = Newest(w[l], Of(e, l, no))
    BY <1>4, <2>1, <2>2
  <2>4. CASE l = e.labels
    BY <1>1, <1>2, <2>3, <2>4 DEF Of
  <2>5. CASE l # e.labels
    <3>1. Of(e, l, no) = <<>>
      BY <2>5 DEF Of
    <3>2. x[l] = w[l]
      BY <2>1, <2>3, <3>1, NewestNone
    <3> QED BY <1>2, <2>5, <3>2
  <2> QED BY <2>4, <2>5
<1>6. DOMAIN y = Labels /\ y = [l \in Labels |-> y[l]]
  BY <1>2
<1> HIDE DEF y
<1>7. x = y
  BY <1>4, <1>5, <1>6
<1> QED BY <1>7 DEF w, x, y, Plus

\* Samples that are in a batch are old once it has been shown.
LEMMA AfterGrows ==
    ASSUME NEW v \in [Labels -> Seq(Sample)], NEW b \in Seq(Entry), NEW no \in Nat,
           NEW l \in Labels
    PROVE  /\ Grows(v[l], After(v, b, no)[l])
           /\ Old(After(v, b, no)[l], BatchOf(b, l, no))
<1>1. BatchOf(b, l, no) \in Seq(Sample) /\ v[l] \in Seq(Sample)
  BY BatchSamples
<1>2. After(v, b, no)[l] = Newest(v[l], BatchOf(b, l, no))
  BY DEF After
<1> QED BY <1>1, <1>2, NewestGrows

LEMMA BatchIs ==
    ASSUME NEW b \in Batches
    PROVE  b \in Seq(Entry)
BY DbAssumption DEF Entry

\* The samples that history h has submitted for a series.
Samples(h, l) == FlattenSeq([n \in DOMAIN h |-> BatchOf(h[n], l, n)])

\* Tsdb answers with the samples of the whole history that count.
LEMMA AnswerIs ==
    ASSUME NEW h
    PROVE  Promise!Answer(h) = [l \in Labels |-> Newest(<<>>, Samples(h, l))]
<1>1. ASSUME NEW ss PROVE Promise!Newer(ss) = Newest(<<>>, ss)
  BY Zenon DEF Promise!Newer, Newest, Promise!FoldLeft, FoldLeft,
       Promise!MapThenFoldSet, MapThenFoldSet, Promise!Last, Last, Promise!Max, Max
<1>2. ASSUME NEW ss PROVE Promise!FlattenSeq(ss) = FlattenSeq(ss)
  BY Zenon DEF Promise!FlattenSeq, FlattenSeq
<1>3. ASSUME NEW l PROVE Promise!Submitted(h, l) = Samples(h, l)
  BY <1>2, Zenon DEF Promise!Submitted, Samples, BatchOf, Of, Stamped
<1> QED BY <1>1, <1>3, Zenon DEF Promise!Answer

LEMMA SamplesAll ==
    ASSUME NEW h \in Seq(Batches), NEW l
    PROVE  LET q == [n \in DOMAIN h |-> BatchOf(h[n], l, n)] IN
           q \in Seq(Seq(Sample)) /\ Len(q) = Len(h)
<1> DEFINE q == [n \in DOMAIN h |-> BatchOf(h[n], l, n)]
<1>1. Len(h) \in Nat /\ DOMAIN h = 1 .. Len(h)
  OBVIOUS
<1>2. ASSUME NEW n \in 1 .. Len(h) PROVE BatchOf(h[n], l, n) \in Seq(Sample)
  <2>1. h[n] \in Seq(Entry) /\ n \in Nat
    BY BatchIs
  <2> QED BY <2>1, BatchSamples
<1>3. q \in [1 .. Len(h) -> Seq(Sample)]
  BY <1>1, <1>2
<1> HIDE DEF q
<1>4. q \in Seq(Seq(Sample)) /\ Len(q) = Len(h)
  BY <1>1, <1>3, FunctionIsSeq
<1> QED BY <1>4 DEF q

LEMMA SamplesType ==
    ASSUME NEW h \in Seq(Batches), NEW l
    PROVE  Samples(h, l) \in Seq(Sample)
<1> DEFINE q == [n \in DOMAIN h |-> BatchOf(h[n], l, n)]
<1>1. q \in Seq(Seq(Sample))
  BY SamplesAll
<1> HIDE DEF q
<1>2. FlattenSeq(q) \in Seq(Sample)
  BY <1>1, FlattenType
<1> QED BY <1>2 DEF Samples, q

LEMMA AnswerType ==
    ASSUME NEW h \in Seq(Batches)
    PROVE  Promise!Answer(h) \in [Labels -> Seq(Sample)]
<1>1. ASSUME NEW l \in Labels PROVE Newest(<<>>, Samples(h, l)) \in Seq(Sample)
  <2>1. <<>> \in Seq(Sample)
    OBVIOUS
  <2> QED BY <2>1, SamplesType, NewestType
<1> QED BY <1>1, AnswerIs

LEMMA AnswerNone ==
    Promise!Answer(<<>>) = [l \in Labels |-> <<>>]
<1>1. ASSUME NEW l \in Labels PROVE Newest(<<>>, Samples(<<>>, l)) = <<>>
  <2> DEFINE q == [n \in DOMAIN <<>> |-> BatchOf(<<>>[n], l, n)]
  <2>1. q = <<>> /\ <<>> \in Seq(Sample)
    OBVIOUS
  <2>2. Samples(<<>>, l) = <<>>
    BY <2>1, FlattenNone DEF Samples
  <2> QED BY <2>1, <2>2, NewestNone
<1> QED BY <1>1, AnswerIs

\* A batch more.
LEMMA SamplesMore ==
    ASSUME NEW h \in Seq(Batches), NEW b \in Batches, NEW l
    PROVE  Samples(Append(h, b), l) = Samples(h, l) \o BatchOf(b, l, Len(h) + 1)
<1> DEFINE c == Append(h, b)
<1> DEFINE k == Len(h) + 1
<1> DEFINE q == [n \in DOMAIN h |-> BatchOf(h[n], l, n)]
<1> DEFINE p == [n \in DOMAIN c |-> BatchOf(c[n], l, n)]
<1>1. /\ Len(h) \in Nat /\ DOMAIN h = 1 .. Len(h) /\ k = Len(h) + 1 /\ k \in Nat
      /\ c \in Seq(Batches) /\ Len(c) = k /\ DOMAIN c = 1 .. k
      /\ c[k] = b /\ \A i \in 1 .. Len(h) : c[i] = h[i]
  OBVIOUS
<1> HIDE DEF c, k
<1> DEFINE y == BatchOf(b, l, k)
<1>2. y \in Seq(Sample)
  BY <1>1, BatchIs, BatchSamples
<1>3. q \in Seq(Seq(Sample)) /\ Len(q) = Len(h)
  BY SamplesAll
<1>4. p \in Seq(Seq(Sample)) /\ Len(p) = k
  BY <1>1, SamplesAll
<1>5. \A i \in 1 .. Len(h) : q[i] = BatchOf(h[i], l, i)
  BY <1>1
<1>6. \A i \in 1 .. k : p[i] = BatchOf(c[i], l, i)
  BY <1>1
<1> HIDE DEF p, q, y
<1> DEFINE x == Append(q, y)
<1>7. /\ x \in Seq(Seq(Sample)) /\ Len(x) = k
      /\ \A i \in 1 .. k : x[i] = IF i = k THEN y ELSE q[i]
  BY <1>1, <1>2, <1>3
<1> HIDE DEF x
<1>8. ASSUME NEW i \in 1 .. k PROVE p[i] = x[i]
  <2>1. CASE i = k
    <3>1. x[i] = y /\ p[i] = BatchOf(c[i], l, i) /\ c[i] = b
      BY <1>1, <1>6, <1>7, <2>1
    <3> QED BY <2>1, <3>1 DEF y
  <2>2. CASE i # k
    <3>1. i \in 1 .. Len(h)
      BY <1>1, <2>2
    <3>2. p[i] = BatchOf(c[i], l, i) /\ c[i] = h[i] /\ q[i] = BatchOf(h[i], l, i)
      BY <1>1, <1>5, <1>6, <3>1
    <3>3. x[i] = q[i]
      BY <1>7, <2>2
    <3> QED BY <3>2, <3>3
  <2> QED BY <2>1, <2>2
<1>9. p = x
  <2> DEFINE S == Seq(Sample)
  <2>1. p \in Seq(S) /\ x \in Seq(S)
    BY <1>4, <1>7
  <2> HIDE DEF S
  <2>2. Len(p) = Len(x) /\ \A i \in 1 .. Len(p) : p[i] = x[i]
    BY <1>4, <1>7, <1>8
  <2> QED BY <2>1, <2>2, SameSeq
<1>10. FlattenSeq(x) = FlattenSeq(q) \o y
  BY <1>2, <1>3, FlattenMore DEF x
<1> QED BY <1>9, <1>10, Zenon DEF Samples, p, q, c, y, k

LEMMA AnswerMore ==
    ASSUME NEW h \in Seq(Batches), NEW b \in Batches
    PROVE  Promise!Answer(Append(h, b)) = After(Promise!Answer(h), b, Len(h) + 1)
<1> DEFINE k == Len(h) + 1
<1> DEFINE v == Promise!Answer(h)
<1>1. k \in Nat /\ b \in Seq(Entry)
  BY BatchIs
<1>2. v = [l \in Labels |-> Newest(<<>>, Samples(h, l))]
  BY AnswerIs
<1> HIDE DEF v, k
<1>3. ASSUME NEW l \in Labels
      PROVE  Newest(<<>>, Samples(h, l) \o BatchOf(b, l, k))
               = Newest(v[l], BatchOf(b, l, k))
  <2>1. /\ <<>> \in Seq(Sample) /\ Samples(h, l) \in Seq(Sample)
        /\ BatchOf(b, l, k) \in Seq(Sample)
    BY <1>1, SamplesType, BatchSamples
  <2>2. v[l] = Newest(<<>>, Samples(h, l))
    BY <1>2
  <2> DEFINE e == <<>>
  <2> DEFINE a == Samples(h, l)
  <2> DEFINE c == BatchOf(b, l, k)
  <2>3. e \in Seq(Sample) /\ a \in Seq(Sample) /\ c \in Seq(Sample)
    BY <2>1
  <2> HIDE DEF e, a, c
  <2>4. Newest(e, a \o c) = Newest(Newest(e, a), c)
    BY <2>3, NewestJoin
  <2> QED BY <2>2, <2>4, Zenon DEF e, a, c
<1>4. ASSUME NEW l \in Labels
      PROVE  Samples(Append(h, b), l) = Samples(h, l) \o BatchOf(b, l, k)
  BY SamplesMore DEF k
<1>5. Promise!Answer(Append(h, b)) = [l \in Labels |-> Newest(<<>>, Samples(Append(h, b), l))]
  BY AnswerIs
<1>6. ASSUME NEW l \in Labels
      PROVE  Newest(<<>>, Samples(Append(h, b), l)) = Newest(v[l], BatchOf(b, l, k))
  BY <1>3, <1>4
<1> QED BY <1>5, <1>6, Zenon DEF After, v, k

\* What has been shown is not new again.
LEMMA AnswerOld ==
    ASSUME NEW h \in Seq(Batches), NEW n \in DOMAIN h, NEW l \in Labels
    PROVE  Old(Promise!Answer(h)[l], BatchOf(h[n], l, n))
<1> DEFINE q == [i \in DOMAIN h |-> BatchOf(h[i], l, i)]
<1> DEFINE w == Promise!Answer(h)[l]
<1> DEFINE ss == Samples(h, l)
<1>1. q \in Seq(Seq(Sample)) /\ Len(q) = Len(h)
  BY SamplesAll
<1>2. q[n] = BatchOf(h[n], l, n) /\ ss = FlattenSeq(q) /\ n \in 1 .. Len(h)
  BY DEF Samples
<1>3. ss \in Seq(Sample) /\ <<>> \in Seq(Sample)
  BY SamplesType
<1>4. w = Newest(<<>>, ss)
  BY AnswerIs
<1> HIDE DEF q, w, ss
<1>5. Old(w, ss)
  BY <1>3, <1>4, NewestGrows
<1>6. ASSUME NEW j \in DOMAIN q[n] PROVE w # <<>> /\ q[n][j][1] <= Last(w)[1]
  <2>1. q[n] \in Seq(Sample) /\ n \in 1 .. Len(q)
    BY <1>1, <1>2
  <2>2. j \in 1 .. Len(q[n])
    BY <2>1
  <2>3. PICK k \in 1 .. Len(FlattenSeq(q)) : FlattenSeq(q)[k] = q[n][j]
    BY <1>1, <2>1, <2>2, FlattenParts
  <2>4. k \in DOMAIN ss /\ ss[k] = q[n][j]
    BY <1>2, <1>3, <2>3
  <2> QED BY <1>5, <2>4 DEF Old
<1>7. Old(w, q[n])
  BY <1>6 DEF Old
<1> QED BY <1>2, <1>7 DEF w

\* So with every entry of a batch.
LEMMA EntryOld ==
    ASSUME NEW b \in Seq(Entry), NEW no \in Nat, NEW i \in DOMAIN b, NEW v,
           Old(v, BatchOf(b, b[i].labels, no))
    PROVE  Old(v, Stamped(b[i].samples, no))
<1> DEFINE l == b[i].labels
<1> DEFINE q == [n \in DOMAIN b |-> Of(b[n], l, no)]
<1> DEFINE ss == BatchOf(b, l, no)
<1>1. q \in Seq(Seq(Sample)) /\ Len(q) = Len(b)
  BY OfAll
<1>2. q[i] = Stamped(b[i].samples, no) /\ ss = FlattenSeq(q) /\ i \in 1 .. Len(b)
  BY DEF Of, BatchOf
<1>3. ss \in Seq(Sample)
  BY BatchSamples
<1>4. Old(v, ss)
  OBVIOUS
<1> HIDE DEF q, ss
<1>5. ASSUME NEW j \in DOMAIN q[i] PROVE v # <<>> /\ q[i][j][1] <= Last(v)[1]
  <2>1. q[i] \in Seq(Sample) /\ i \in 1 .. Len(q)
    BY <1>1, <1>2
  <2>2. j \in 1 .. Len(q[i])
    BY <2>1
  <2>3. PICK k \in 1 .. Len(FlattenSeq(q)) : FlattenSeq(q)[k] = q[i][j]
    BY <1>1, <2>1, <2>2, FlattenParts
  <2>4. k \in DOMAIN ss /\ ss[k] = q[i][j]
    BY <1>2, <1>3, <2>3
  <2> QED BY <1>4, <2>4 DEF Old
<1>6. Old(v, q[i])
  BY <1>5 DEF Old
<1> QED BY <1>2, <1>6

-----------------------------------------------------------------------------
(* Replay. *)

\* Samples leave the index alone.
LEMMA AppendSamplesIndex ==
    ASSUME NEW mem \in Memory, NEW l \in Labels, NEW ss \in Seq(Sample)
    PROVE  AppendSamples(mem, l, ss).index = mem.index
<1>1. Len(ss) \in Nat
  OBVIOUS
<1>2. PICK r \in [0 .. Len(ss) -> Memory] :
               /\ r[0] = mem /\ r[Len(ss)] = AppendSamples(mem, l, ss)
               /\ \A i \in 1 .. Len(ss) : r[i] = AppendSample(r[i - 1], l, ss[i])
  BY AppendSamplesRun
<1> DEFINE G == {i \in 0 .. Len(ss) : r[i].index = mem.index}
<1>3. 0 \in G
  BY <1>1, <1>2
<1>4. ASSUME NEW i \in 1 .. Len(ss), i - 1 \in G PROVE i \in G
  <2>1. /\ r[i - 1].index = mem.index /\ i \in 0 .. Len(ss) /\ i - 1 \in 0 .. Len(ss)
        /\ r[i] = AppendSample(r[i - 1], l, ss[i])
    BY <1>1, <1>2, <1>4
  <2> DEFINE a == r[i - 1]
  <2>2. a \in Memory /\ a.index = mem.index /\ r[i] = AppendSample(a, l, ss[i])
    BY <1>2, <2>1
  <2> HIDE DEF a
  <2>3. AppendSample(a, l, ss[i]).index = a.index
    BY <2>2 DEF AppendSample, Memory
  <2> QED BY <2>1, <2>2, <2>3
<1> HIDE DEF G
<1>5. Len(ss) \in G
  BY <1>1, <1>3, <1>4, UpTo
<1> QED BY <1>2, <1>5 DEF G

\* While the log is replayed: st is what segments hold, v what has been kept of
\* each series, idx the meaning of the log's ids. Samples that wait for their id
\* are in the segments already.
Aware(state, st, v, idx) ==
    /\ state \in Resolver /\ Tracks(state.m, st, v) /\ idx \in Seq(Labels)
    /\ \A i \in DOMAIN state.ids : i \in DOMAIN idx /\ state.ids[i] = idx[i]
    /\ \A i \in DOMAIN state.pending :
          i \in DOMAIN idx /\ Old(st[idx[i]], state.pending[i])
    /\ \A l \in Labels : Grows(st[l], v[l])
    /\ \A l \in Labels : st[l] # <<>> => l \in Range(state.m.index)

\* A series releases samples that change nothing, ...
LEMMA ApplySeriesAware ==
    ASSUME NEW state, NEW st, NEW v, NEW idx, Aware(state, st, v, idx),
           NEW e \in IdSeries, e.id \in DOMAIN idx, idx[e.id] = e.labels
    PROVE  /\ Aware(ApplySeries(state, e), st, v, idx)
           /\ DOMAIN ApplySeries(state, e).ids = DOMAIN state.ids \cup {e.id}
<1> DEFINE parked == IF e.id \in DOMAIN state.pending THEN state.pending[e.id] ELSE <<>>
<1> DEFINE mem == Encode(state.m, e.labels)
<1> DEFINE new == ApplySeries(state, e)
<1>1. /\ state \in Resolver /\ Tracks(state.m, st, v) /\ e.labels \in Labels
      /\ idx \in Seq(Labels) /\ state.m \in Memory
      /\ st \in [Labels -> Seq(Sample)] /\ v \in [Labels -> Seq(Sample)]
  BY DEF Aware, IdSeries, Tracks
<1>2. /\ \A i \in DOMAIN state.ids : i \in DOMAIN idx /\ state.ids[i] = idx[i]
      /\ \A i \in DOMAIN state.pending :
            i \in DOMAIN idx /\ Old(st[idx[i]], state.pending[i])
      /\ \A l \in Labels : Grows(st[l], v[l])
      /\ \A l \in Labels : st[l] # <<>> => l \in Range(state.m.index)
  BY DEF Aware
<1>3. parked \in Seq(Sample)
  <2>1. state.pending \in [DOMAIN state.pending -> Seq(Sample)]
    BY <1>1, PartialIs DEF Resolver
  <2> QED BY <2>1
<1>4. Old(v[e.labels], parked)
  <2>1. CASE e.id \in DOMAIN state.pending
    <3>1. Old(st[e.labels], parked)
      BY <1>2, <2>1
    <3>2. /\ st[e.labels] \in Seq(Sample) /\ v[e.labels] \in Seq(Sample)
          /\ Grows(st[e.labels], v[e.labels])
      BY <1>1, <1>2
    <3> HIDE DEF parked
    <3> QED BY <1>3, <3>1, <3>2, OldGrows
  <2>2. CASE e.id \notin DOMAIN state.pending
    BY <2>2 DEF Old
  <2> QED BY <2>1, <2>2
<1>5. /\ mem \in Memory /\ Range(mem.index) = Range(state.m.index) \cup {e.labels}
      /\ Tracks(mem, st, v)
  BY <1>1, EncodeIs, EncodeTracks, ZenonT(40)
<1>6. new \in Resolver
  BY <1>1, ApplySeriesType
<1>7. /\ new.m = AppendSamples(mem, e.labels, parked)
      /\ new.ids = [i \in DOMAIN state.ids \cup {e.id} |->
                      IF i = e.id THEN e.labels ELSE state.ids[i]]
      /\ new.pending = [i \in DOMAIN state.pending \ {e.id} |-> state.pending[i]]
  BY DEF ApplySeries
<1> HIDE DEF parked, mem, new
<1>8. Tracks(new.m, st, v) /\ new.m.index = mem.index
  BY <1>1, <1>3, <1>4, <1>5, <1>7, AppendOldTracks, AppendSamplesIndex
<1>9. \A i \in DOMAIN new.ids : i \in DOMAIN idx /\ new.ids[i] = idx[i]
  BY <1>2, <1>7
<1>10. \A i \in DOMAIN new.pending : i \in DOMAIN idx /\ Old(st[idx[i]], new.pending[i])
  BY <1>2, <1>7
<1>11. Aware(new, st, v, idx)
  BY <1>1, <1>2, <1>5, <1>6, <1>8, <1>9, <1>10 DEF Aware
<1>12. DOMAIN new.ids = DOMAIN state.ids \cup {e.id}
  BY <1>7
<1> QED BY <1>11, <1>12 DEF new

\* ... samples the segments hold change nothing, whether their id is known or
\* they wait for it, ...
LEMMA ApplyOldAware ==
    ASSUME NEW state, NEW st, NEW v, NEW idx, Aware(state, st, v, idx),
           NEW e \in IdEntry, e.id \in DOMAIN idx, Old(st[idx[e.id]], e.samples)
    PROVE  /\ Aware(ApplySamples(state, e), st, v, idx)
           /\ ApplySamples(state, e).ids = state.ids
<1> DEFINE new == ApplySamples(state, e)
<1>1. /\ state \in Resolver /\ Tracks(state.m, st, v) /\ e.samples \in Seq(Sample)
      /\ idx \in Seq(Labels) /\ state.m \in Memory /\ idx[e.id] \in Labels
      /\ st \in [Labels -> Seq(Sample)] /\ v \in [Labels -> Seq(Sample)]
  BY DEF Aware, IdEntry, Tracks
<1>2. /\ \A i \in DOMAIN state.ids : i \in DOMAIN idx /\ state.ids[i] = idx[i]
      /\ \A i \in DOMAIN state.pending :
            i \in DOMAIN idx /\ Old(st[idx[i]], state.pending[i])
      /\ \A l \in Labels : Grows(st[l], v[l])
      /\ \A l \in Labels : st[l] # <<>> => l \in Range(state.m.index)
  BY DEF Aware
<1>3. new \in Resolver
  BY <1>1, ApplySamplesType
<1>4. CASE e.id \in DOMAIN state.ids
  <2> DEFINE l == idx[e.id]
  <2> DEFINE mem == AppendSamples(state.m, l, e.samples)
  <2>1. new.m = mem /\ new.ids = state.ids /\ new.pending = state.pending
    BY <1>1, <1>2, <1>4 DEF ApplySamples, Resolver
  <2>2. l \in Labels /\ Old(st[l], e.samples)
    BY <1>1
  <2> HIDE DEF l
  <2>3. Old(v[l], e.samples)
    <3>1. st[l] \in Seq(Sample) /\ v[l] \in Seq(Sample) /\ Grows(st[l], v[l])
      BY <1>1, <1>2, <2>2
    <3> QED BY <1>1, <2>2, <3>1, OldGrows
  <2>4. Tracks(mem, st, v) /\ mem.index = state.m.index
    BY <1>1, <2>2, <2>3, AppendOldTracks, AppendSamplesIndex
  <2> HIDE DEF mem, new
  <2>5. Aware(new, st, v, idx)
    BY <1>1, <1>2, <1>3, <2>1, <2>4 DEF Aware
  <2> QED BY <2>1, <2>5 DEF new
<1>5. CASE e.id \notin DOMAIN state.ids
  <2>1. /\ new.m = state.m /\ new.ids = state.ids
        /\ new.pending = [i \in DOMAIN state.pending \cup {e.id} |->
              (IF i \in DOMAIN state.pending THEN state.pending[i] ELSE <<>>)
              \o (IF i = e.id THEN e.samples ELSE <<>>)]
    BY <1>1, <1>5 DEF ApplySamples, Resolver
  <2>2. state.pending \in [DOMAIN state.pending -> Seq(Sample)]
    BY <1>1, PartialIs DEF Resolver
  <2> HIDE DEF new
  <2>3. ASSUME NEW i \in DOMAIN new.pending
        PROVE  i \in DOMAIN idx /\ Old(st[idx[i]], new.pending[i])
    <3> DEFINE a == IF i \in DOMAIN state.pending THEN state.pending[i] ELSE <<>>
    <3> DEFINE b == IF i = e.id THEN e.samples ELSE <<>>
    <3>1. a \in Seq(Sample) /\ b \in Seq(Sample)
      BY <1>1, <2>2
    <3>2. i \in DOMAIN idx
      BY <1>2, <2>1
    <3>3. Old(st[idx[i]], a)
      BY <1>2 DEF Old
    <3>4. Old(st[idx[i]], b)
      BY DEF Old
    <3>5. new.pending[i] = a \o b
      BY <2>1
    <3> HIDE DEF a, b
    <3> DEFINE w == st[idx[i]]
    <3> HIDE DEF w
    <3>6. ASSUME Old(w, a), Old(w, b) PROVE Old(w, a \o b)
      <4>1. ASSUME NEW j \in DOMAIN (a \o b) PROVE w # <<>> /\ (a \o b)[j][1] <= Last(w)[1]
        <5>1. Len(a) \in Nat /\ Len(b) \in Nat /\ DOMAIN a = 1 .. Len(a) /\ DOMAIN b = 1 .. Len(b)
          BY <3>1
        <5>2. /\ DOMAIN (a \o b) = 1 .. Len(a) + Len(b)
              /\ \A k \in 1 .. Len(a) : (a \o b)[k] = a[k]
              /\ \A k \in 1 .. Len(b) : (a \o b)[Len(a) + k] = b[k]
          BY <3>1, JoinIs
        <5>3. CASE j <= Len(a)
          <6>1. j \in DOMAIN a /\ (a \o b)[j] = a[j]
            BY <5>1, <5>2, <5>3
          <6> QED BY <3>6, <6>1 DEF Old
        <5>4. CASE j > Len(a)
          <6> DEFINE k == j - Len(a)
          <6>1. k \in DOMAIN b /\ j = Len(a) + k
            BY <5>1, <5>2, <5>4
          <6> HIDE DEF k
          <6>2. (a \o b)[j] = b[k]
            BY <5>1, <5>2, <6>1
          <6> QED BY <3>6, <6>1, <6>2 DEF Old
        <5> QED BY <5>1, <5>2, <5>3, <5>4
      <4> QED BY <4>1 DEF Old
    <3> QED BY <3>2, <3>3, <3>4, <3>5, <3>6 DEF w
  <2>4. Aware(new, st, v, idx)
    BY <1>1, <1>2, <1>3, <2>1, <2>3 DEF Aware
  <2> QED BY <2>1, <2>4 DEF new
<1> QED BY <1>4, <1>5

\* ... and samples whose id is known are added.
LEMMA ApplyNewAware ==
    ASSUME NEW state, NEW st, NEW v, NEW idx, Aware(state, st, v, idx),
           NEW e \in IdEntry, e.id \in DOMAIN state.ids
    PROVE  LET l == idx[e.id] IN
           /\ l \in Labels
           /\ Aware(ApplySamples(state, e), st, Plus(v, l, e.samples), idx)
           /\ ApplySamples(state, e).ids = state.ids
<1> DEFINE new == ApplySamples(state, e)
<1> DEFINE l == idx[e.id]
<1> DEFINE w == [v EXCEPT ![l] = Newest(v[l], e.samples)]
<1>1. /\ state \in Resolver /\ Tracks(state.m, st, v) /\ e.samples \in Seq(Sample)
      /\ idx \in Seq(Labels) /\ state.m \in Memory
      /\ st \in [Labels -> Seq(Sample)] /\ v \in [Labels -> Seq(Sample)]
  BY DEF Aware, IdEntry, Tracks
<1>2. /\ \A i \in DOMAIN state.ids : i \in DOMAIN idx /\ state.ids[i] = idx[i]
      /\ \A i \in DOMAIN state.pending :
            i \in DOMAIN idx /\ Old(st[idx[i]], state.pending[i])
      /\ \A k \in Labels : Grows(st[k], v[k])
      /\ \A k \in Labels : st[k] # <<>> => k \in Range(state.m.index)
  BY DEF Aware
<1>3. new \in Resolver
  BY <1>1, ApplySamplesType
<1> DEFINE mem == AppendSamples(state.m, l, e.samples)
<1>4. new.m = mem /\ new.ids = state.ids /\ new.pending = state.pending
  BY <1>1, <1>2 DEF ApplySamples, Resolver
<1>5. l \in Labels
  BY <1>1, <1>2
<1> HIDE DEF l, new
<1>6. Tracks(mem, st, w) /\ mem.index = state.m.index
  BY <1>1, <1>5, AppendSamplesTracks, AppendSamplesIndex
<1>7. Grows(v[l], Newest(v[l], e.samples)) /\ Newest(v[l], e.samples) \in Seq(Sample)
  BY <1>1, <1>5, NewestGrows
<1>8. ASSUME NEW k \in Labels PROVE Grows(st[k], w[k])
  <2>1. CASE k = l
    <3>1. /\ st[l] \in Seq(Sample) /\ v[l] \in Seq(Sample) /\ Grows(st[l], v[l])
          /\ w[l] = Newest(v[l], e.samples)
      BY <1>1, <1>2, <1>5
    <3> HIDE DEF w
    <3> QED BY <1>7, <2>1, <3>1, GrowsOn
  <2>2. CASE k # l
    <3>1. w[k] = v[k]
      BY <1>1, <2>2
    <3> QED BY <1>2, <3>1
  <2> QED BY <2>1, <2>2
<1> HIDE DEF mem, w
<1>9. Aware(new, st, w, idx)
  BY <1>1, <1>2, <1>3, <1>4, <1>6, <1>8 DEF Aware
<1> QED BY <1>4, <1>5, <1>9 DEF new, w, l, Plus

\* q has the samples of the entries es of batch number no, by the ids of idx.
Carries(q, es, idx, no) ==
    /\ DOMAIN q = DOMAIN es
    /\ \A i \in DOMAIN es :
          /\ q[i].id \in DOMAIN idx /\ idx[q[i].id] = es[i].labels
          /\ q[i].samples = Stamped(es[i].samples, no)

\* All the series of a record, ...
LEMMA SeriesAware ==
    ASSUME NEW state, NEW st, NEW v, NEW idx, Aware(state, st, v, idx),
           NEW q \in Seq(IdSeries),
           \A k \in DOMAIN q : q[k].id \in DOMAIN idx /\ idx[q[k].id] = q[k].labels
    PROVE  LET new == SeriesApplied(state, q) IN
           /\ Aware(new, st, v, idx)
           /\ DOMAIN state.ids \subseteq DOMAIN new.ids
           /\ \A k \in DOMAIN q : q[k].id \in DOMAIN new.ids
<1> DEFINE new == SeriesApplied(state, q)
<1>1. state \in Resolver /\ Len(q) \in Nat
  BY DEF Aware
<1>2. PICK r \in [0 .. Len(q) -> Resolver] :
               /\ r[0] = state /\ r[Len(q)] = SeriesApplied(state, q)
               /\ \A i \in 1 .. Len(q) : r[i] = ApplySeries(r[i - 1], q[i])
  BY <1>1, ApplySeriesRun
<1> DEFINE G == {i \in 0 .. Len(q) : Aware(r[i], st, v, idx)
                                     /\ DOMAIN state.ids \subseteq DOMAIN r[i].ids}
<1>3. 0 \in G
  BY <1>1, <1>2
<1>4. ASSUME NEW i \in 1 .. Len(q), i - 1 \in G PROVE i \in G
  <2>1. /\ Aware(r[i - 1], st, v, idx) /\ DOMAIN state.ids \subseteq DOMAIN r[i - 1].ids
        /\ i \in 0 .. Len(q) /\ q[i] \in IdSeries /\ i \in DOMAIN q
    BY <1>1, <1>4
  <2>2. r[i] = ApplySeries(r[i - 1], q[i])
    BY <1>2
  <2>3. Aware(ApplySeries(r[i - 1], q[i]), st, v, idx)
        /\ DOMAIN ApplySeries(r[i - 1], q[i]).ids = DOMAIN r[i - 1].ids \cup {q[i].id}
    BY <2>1, ApplySeriesAware
  <2> QED BY <2>1, <2>2, <2>3
<1> HIDE DEF G
<1>5. Len(q) \in G
  BY <1>1, <1>3, <1>4, UpTo
<1>6. Aware(new, st, v, idx) /\ DOMAIN state.ids \subseteq DOMAIN new.ids
  BY <1>2, <1>5 DEF G
<1>7. \A k \in DOMAIN q : q[k].id \in DOMAIN new.ids
  BY <1>1, SeriesFresh
<1> QED BY <1>6, <1>7

\* ... all its samples when the segments hold them, ...
LEMMA SamplesOldAware ==
    ASSUME NEW state, NEW st, NEW v, NEW idx, Aware(state, st, v, idx),
           NEW q \in Seq(IdEntry),
           \A i \in DOMAIN q : q[i].id \in DOMAIN idx /\ Old(st[idx[q[i].id]], q[i].samples)
    PROVE  LET new == SamplesApplied(state, q) IN
           Aware(new, st, v, idx) /\ new.ids = state.ids
<1> DEFINE new == SamplesApplied(state, q)
<1>1. state \in Resolver /\ Len(q) \in Nat
  BY DEF Aware
<1>2. PICK r \in [0 .. Len(q) -> Resolver] :
               /\ r[0] = state /\ r[Len(q)] = SamplesApplied(state, q)
               /\ \A i \in 1 .. Len(q) : r[i] = ApplySamples(r[i - 1], q[i])
  BY <1>1, ApplySamplesRun
<1> DEFINE G == {i \in 0 .. Len(q) : Aware(r[i], st, v, idx) /\ r[i].ids = state.ids}
<1>3. 0 \in G
  BY <1>1, <1>2
<1>4. ASSUME NEW i \in 1 .. Len(q), i - 1 \in G PROVE i \in G
  <2>1. /\ Aware(r[i - 1], st, v, idx) /\ r[i - 1].ids = state.ids
        /\ i \in 0 .. Len(q) /\ q[i] \in IdEntry /\ i \in DOMAIN q
    BY <1>1, <1>4
  <2>2. r[i] = ApplySamples(r[i - 1], q[i])
    BY <1>2
  <2>3. Aware(ApplySamples(r[i - 1], q[i]), st, v, idx)
        /\ ApplySamples(r[i - 1], q[i]).ids = r[i - 1].ids
    BY <2>1, ApplyOldAware
  <2> QED BY <2>1, <2>2, <2>3
<1> HIDE DEF G
<1>5. Len(q) \in G
  BY <1>1, <1>3, <1>4, UpTo
<1> QED BY <1>2, <1>5 DEF G

\* ... all of them when their ids are known, ...
LEMMA SamplesNewAware ==
    ASSUME NEW state, NEW st, NEW v, NEW idx, Aware(state, st, v, idx),
           NEW q \in Seq(IdEntry), NEW es \in Seq(Entry), NEW no \in Nat,
           Carries(q, es, idx, no), \A i \in DOMAIN q : q[i].id \in DOMAIN state.ids
    PROVE  LET new == SamplesApplied(state, q) IN
           Aware(new, st, After(v, es, no), idx) /\ new.ids = state.ids
<1> DEFINE new == SamplesApplied(state, q)
<1> DEFINE part(i) == SubSeq(es, 1, i)
<1>1. state \in Resolver /\ Len(q) \in Nat /\ v \in [Labels -> Seq(Sample)]
  BY DEF Aware, Tracks
<1>2. PICK r \in [0 .. Len(q) -> Resolver] :
               /\ r[0] = state /\ r[Len(q)] = SamplesApplied(state, q)
               /\ \A i \in 1 .. Len(q) : r[i] = ApplySamples(r[i - 1], q[i])
  BY <1>1, ApplySamplesRun
<1> DEFINE G == {i \in 0 .. Len(q) :
                   Aware(r[i], st, After(v, part(i), no), idx) /\ r[i].ids = state.ids}
<1>3. 0 \in G
  <2>1. part(0) = <<>>
    OBVIOUS
  <2>2. After(v, part(0), no) = v
    BY <1>1, <2>1, AfterNone
  <2> HIDE DEF part
  <2> QED BY <1>1, <1>2, <2>2
<1>4. ASSUME NEW i \in 1 .. Len(q), i - 1 \in G PROVE i \in G
  <2> DEFINE w == After(v, part(i - 1), no)
  <2>1. /\ Aware(r[i - 1], st, w, idx) /\ r[i - 1].ids = state.ids
        /\ i \in 0 .. Len(q) /\ q[i] \in IdEntry /\ i \in DOMAIN q /\ i \in DOMAIN es
    BY <1>1, <1>4 DEF Carries
  <2>2. r[i] = ApplySamples(r[i - 1], q[i])
    BY <1>2
  <2>3. /\ part(i - 1) \in Seq(Entry) /\ part(i) = Append(part(i - 1), es[i])
        /\ es[i] \in Entry
    BY <2>1, BeginMore
  <2> HIDE DEF part, w, G
  <2> DEFINE l == idx[q[i].id]
  <2>4. /\ Aware(ApplySamples(r[i - 1], q[i]), st,
                 Plus(w, l, q[i].samples), idx)
        /\ ApplySamples(r[i - 1], q[i]).ids = r[i - 1].ids
    BY <2>1, ApplyNewAware
  <2>5. l = es[i].labels /\ q[i].samples = Stamped(es[i].samples, no)
    BY <2>1 DEF Carries
  <2> HIDE DEF l
  <2>6. After(v, part(i), no)
          = Plus(w, es[i].labels, Stamped(es[i].samples, no))
    <3> DEFINE b == part(i - 1)
    <3> DEFINE e == es[i]
    <3>1. part(i) = Append(b, e) /\ w = After(v, b, no)
      BY <2>3 DEF w
    <3>2. b \in Seq(Entry) /\ e \in Entry /\ v \in [Labels -> Seq(Sample)]
      BY <1>1, <2>3
    <3> HIDE DEF b, e
    <3>3. After(v, Append(b, e), no)
            = Plus(After(v, b, no), e.labels, Stamped(e.samples, no))
      BY <3>2, AfterMore
    <3> QED BY <3>1, <3>3, Zenon DEF e
  <2>7. After(v, part(i), no) = Plus(w, l, q[i].samples)
    BY <2>5, <2>6, Zenon
  <2>8. /\ Aware(r[i], st, After(v, part(i), no), idx) /\ r[i].ids = state.ids
    BY <2>1, <2>2, <2>4, <2>7, Zenon
  <2> QED BY <2>1, <2>8, Zenon DEF G
<1> HIDE DEF G, part
<1>5. Len(q) \in G
  BY <1>1, <1>3, <1>4, UpTo
<1>6. part(Len(q)) = es
  <2>1. Len(q) = Len(es)
    BY <1>1 DEF Carries
  <2> QED BY <2>1 DEF part
<1> QED BY <1>2, <1>5, <1>6 DEF G

\* What rec of the log of history h means, through the ids of idx.
Means(rec, h, idx) ==
    /\ rec.no \in DOMAIN h
    /\ Carries(rec.samples, Entries(h[rec.no]), idx, rec.no)
    /\ \A k \in DOMAIN rec.series :
          rec.series[k].id \in DOMAIN idx /\ idx[rec.series[k].id] = rec.series[k].labels

\* Entries without samples are not logged, and they are not missed.
LEMMA EntriesNow ==
    ASSUME NEW h \in Seq(Batches), NEW n \in DOMAIN h
    PROVE  /\ Entries(h[n]) \in Seq(Entry) /\ h[n] \in Seq(Entry) /\ n \in Nat
           /\ \A l : BatchOf(Entries(h[n]), l, n) = BatchOf(h[n], l, n)
<1>1. h[n] \in Seq(Entry) /\ n \in Nat
  BY BatchIs
<1> QED BY <1>1, EntriesType, EntriesOf

\* ... a record of which everything is in the segments, ...
LEMMA RecordOldAware ==
    ASSUME NEW state, NEW st, NEW v, NEW idx, Aware(state, st, v, idx),
           NEW h \in Seq(Batches), NEW rec \in LogRecord, Means(rec, h, idx),
           \A l \in Labels : Old(st[l], BatchOf(h[rec.no], l, rec.no))
    PROVE  LET new == ApplyRecord(state, rec) IN
           /\ Aware(new, st, v, idx)
           /\ DOMAIN state.ids \subseteq DOMAIN new.ids
           /\ \A k \in DOMAIN rec.series : rec.series[k].id \in DOMAIN new.ids
<1> DEFINE mid == SeriesApplied(state, rec.series)
<1> DEFINE es == Entries(h[rec.no])
<1>1. rec.series \in Seq(IdSeries) /\ rec.samples \in Seq(IdEntry)
  BY DEF LogRecord
<1>2. ApplyRecord(state, rec) = SamplesApplied(mid, rec.samples)
  BY DEF ApplyRecord, SeriesApplied, SamplesApplied
<1>3. /\ Aware(mid, st, v, idx) /\ DOMAIN state.ids \subseteq DOMAIN mid.ids
      /\ \A k \in DOMAIN rec.series : rec.series[k].id \in DOMAIN mid.ids
  BY <1>1, SeriesAware DEF Means
<1>4. /\ es \in Seq(Entry) /\ rec.no \in Nat
      /\ \A l : BatchOf(es, l, rec.no) = BatchOf(h[rec.no], l, rec.no)
  BY EntriesNow DEF Means
<1>5. DOMAIN rec.samples = DOMAIN es
      /\ \A i \in DOMAIN es :
            /\ rec.samples[i].id \in DOMAIN idx
            /\ idx[rec.samples[i].id] = es[i].labels
            /\ rec.samples[i].samples = Stamped(es[i].samples, rec.no)
  BY Zenon DEF Means, Carries
<1> HIDE DEF mid, es
<1>6. ASSUME NEW i \in DOMAIN rec.samples
      PROVE  /\ rec.samples[i].id \in DOMAIN idx
             /\ Old(st[idx[rec.samples[i].id]], rec.samples[i].samples)
  <2> DEFINE l == es[i].labels
  <2>0. i \in DOMAIN es /\ es[i] \in Entry
    BY <1>4, <1>5
  <2>1. i \in DOMAIN es /\ l \in Labels
    BY <2>0 DEF Entry
  <2>2. BatchOf(es, l, rec.no) = BatchOf(h[rec.no], l, rec.no)
    BY <1>4
  <2>3. Old(st[l], BatchOf(es, l, rec.no))
    BY <2>1, <2>2
  <2>4. Old(st[l], Stamped(es[i].samples, rec.no))
    BY <1>4, <2>1, <2>3, EntryOld
  <2> QED BY <1>5, <2>1, <2>4
<1>7. /\ Aware(SamplesApplied(mid, rec.samples), st, v, idx)
      /\ SamplesApplied(mid, rec.samples).ids = mid.ids
  BY <1>1, <1>3, <1>6, SamplesOldAware
<1> QED BY <1>2, <1>3, <1>7

\* ... and one that adds its batch.
LEMMA RecordNewAware ==
    ASSUME NEW state, NEW st, NEW v, NEW idx, Aware(state, st, v, idx),
           NEW h \in Seq(Batches), NEW rec \in LogRecord, Means(rec, h, idx),
           \A i \in DOMAIN rec.samples :
              \/ rec.samples[i].id \in DOMAIN state.ids
              \/ \E k \in DOMAIN rec.series : rec.series[k].id = rec.samples[i].id
    PROVE  LET new == ApplyRecord(state, rec) IN
           /\ Aware(new, st, After(v, h[rec.no], rec.no), idx)
           /\ DOMAIN state.ids \subseteq DOMAIN new.ids
           /\ \A k \in DOMAIN rec.series : rec.series[k].id \in DOMAIN new.ids
<1> DEFINE mid == SeriesApplied(state, rec.series)
<1> DEFINE es == Entries(h[rec.no])
<1>1. rec.series \in Seq(IdSeries) /\ rec.samples \in Seq(IdEntry)
  BY DEF LogRecord
<1>2. ApplyRecord(state, rec) = SamplesApplied(mid, rec.samples)
  BY DEF ApplyRecord, SeriesApplied, SamplesApplied
<1>3. /\ Aware(mid, st, v, idx) /\ DOMAIN state.ids \subseteq DOMAIN mid.ids
      /\ \A k \in DOMAIN rec.series : rec.series[k].id \in DOMAIN mid.ids
  BY <1>1, SeriesAware DEF Means
<1>4. /\ es \in Seq(Entry) /\ rec.no \in Nat
      /\ \A l : BatchOf(es, l, rec.no) = BatchOf(h[rec.no], l, rec.no)
  BY EntriesNow DEF Means
<1>5. DOMAIN rec.samples = DOMAIN es
      /\ \A i \in DOMAIN es :
            /\ rec.samples[i].id \in DOMAIN idx
            /\ idx[rec.samples[i].id] = es[i].labels
            /\ rec.samples[i].samples = Stamped(es[i].samples, rec.no)
  BY Zenon DEF Means, Carries
<1>6. After(v, es, rec.no) = After(v, h[rec.no], rec.no)
  BY <1>4 DEF After
<1> HIDE DEF mid, es
<1>7. \A i \in DOMAIN rec.samples : rec.samples[i].id \in DOMAIN mid.ids
  BY <1>3
<1>8. Carries(rec.samples, es, idx, rec.no)
  BY <1>5, Zenon DEF Carries
<1>9. /\ Aware(SamplesApplied(mid, rec.samples), st, After(v, es, rec.no), idx)
      /\ SamplesApplied(mid, rec.samples).ids = mid.ids
  BY <1>1, <1>3, <1>4, <1>7, <1>8, SamplesNewAware
<1> QED BY <1>2, <1>3, <1>6, <1>9

\* The records of q come with ascending numbers.
Ascending(q) == \A i, j \in DOMAIN q : i < j => q[i].no < q[j].no

\* Everything but records that ascend in each sequence and from one to the next.
LEMMA FlattenAscends ==
    ASSUME NEW qs \in Seq(Seq(LogRecord)), \A f \in 1 .. Len(qs) : Ascending(qs[f]),
           \A f, g \in 1 .. Len(qs) : f < g =>
              \A i \in DOMAIN qs[f], j \in DOMAIN qs[g] : qs[f][i].no < qs[g][j].no
    PROVE  LET all == FlattenSeq(qs) IN
           /\ Ascending(all)
           /\ \A i \in DOMAIN all : \E f \in 1 .. Len(qs) :
                 \E j \in DOMAIN qs[f] : all[i] = qs[f][j]
<1> DEFINE From(x, n) == \E f \in 1 .. n : \E j \in DOMAIN qs[f] : x = qs[f][j]
<1>1. Len(qs) \in Nat /\ \A i \in 1 .. Len(qs) : qs[i] \in Seq(LogRecord)
  OBVIOUS
<1>2. PICK r \in [0 .. Len(qs) -> Seq(LogRecord)] :
               /\ r[0] = <<>> /\ r[Len(qs)] = FlattenSeq(qs)
               /\ \A i \in 1 .. Len(qs) : r[i] = r[i - 1] \o qs[i]
  BY FlattenRun
<1> DEFINE G == {i \in 0 .. Len(qs) :
                   Ascending(r[i]) /\ \A k \in DOMAIN r[i] : From(r[i][k], i)}
<1>3. 0 \in G
  BY <1>1, <1>2 DEF Ascending
<1>4. ASSUME NEW n \in 1 .. Len(qs), n - 1 \in G PROVE n \in G
  <2> DEFINE a == r[n - 1]
  <2> DEFINE b == qs[n]
  <2>1. n \in 0 .. Len(qs) /\ n - 1 \in 0 .. Len(qs) /\ n \in Nat
    BY <1>1
  <2>2. Ascending(a) /\ \A k \in DOMAIN a : From(a[k], n - 1)
    <3> HIDE DEF From
    <3> QED BY <1>4
  <2>3. a \in Seq(LogRecord) /\ b \in Seq(LogRecord) /\ r[n] = a \o b /\ Ascending(b)
    BY <1>1, <1>2, <2>1
  <2>4. ASSUME NEW k \in DOMAIN a PROVE From(a[k], n)
    <3>1. PICK f \in 1 .. n - 1 : \E j \in DOMAIN qs[f] : a[k] = qs[f][j]
      BY <2>2
    <3>2. f \in 1 .. n
      BY <2>1
    <3> QED BY <3>1, <3>2
  <2>5. ASSUME NEW k \in DOMAIN b PROVE From(b[k], n)
    <3>1. n \in 1 .. n
      BY <2>1
    <3> QED BY <3>1
  <2>6. ASSUME NEW i \in DOMAIN a, NEW j \in DOMAIN b PROVE a[i].no < b[j].no
    <3>1. PICK f \in 1 .. n - 1 : \E k \in DOMAIN qs[f] : a[i] = qs[f][k]
      BY <2>2
    <3>2. PICK k \in DOMAIN qs[f] : a[i] = qs[f][k]
      BY <3>1
    <3>3. f \in 1 .. Len(qs) /\ f < n
      BY <1>1, <2>1
    <3> QED BY <3>2, <3>3
  <2> HIDE DEF a, b, From
  <2>7. /\ Len(a) \in Nat /\ Len(b) \in Nat /\ DOMAIN a = 1 .. Len(a) /\ DOMAIN b = 1 .. Len(b)
        /\ DOMAIN r[n] = 1 .. Len(a) + Len(b)
        /\ \A k \in 1 .. Len(a) : r[n][k] = a[k]
        /\ \A k \in 1 .. Len(b) : r[n][Len(a) + k] = b[k]
    BY <2>3, JoinIs
  <2>8. ASSUME NEW i \in DOMAIN r[n], i > Len(a)
        PROVE  \E k \in DOMAIN b : i = Len(a) + k /\ r[n][i] = b[k]
    <3>1. i - Len(a) \in DOMAIN b /\ i = Len(a) + (i - Len(a))
      BY <2>7, <2>8
    <3> QED BY <2>7, <3>1
  <2>9. ASSUME NEW i \in DOMAIN r[n] PROVE From(r[n][i], n)
    <3>1. CASE i <= Len(a)
      <4>1. i \in DOMAIN a /\ r[n][i] = a[i]
        BY <2>7, <3>1
      <4> QED BY <2>4, <4>1
    <3>2. CASE i > Len(a)
      BY <2>5, <2>8, <3>2
    <3> QED BY <2>7, <3>1, <3>2
  <2>10. ASSUME NEW i \in DOMAIN r[n], NEW j \in DOMAIN r[n], i < j
         PROVE  r[n][i].no < r[n][j].no
    <3>1. CASE j <= Len(a)
      <4>1. i \in DOMAIN a /\ r[n][i] = a[i] /\ j \in DOMAIN a /\ r[n][j] = a[j]
        BY <2>7, <2>10, <3>1
      <4> QED BY <2>2, <2>10, <4>1 DEF Ascending
    <3>2. CASE i <= Len(a) /\ j > Len(a)
      <4>1. i \in DOMAIN a /\ r[n][i] = a[i]
        BY <2>7, <3>2
      <4>2. PICK k \in DOMAIN b : r[n][j] = b[k]
        BY <2>8, <3>2
      <4> QED BY <2>6, <4>1, <4>2
    <3>3. CASE i > Len(a)
      <4>1. PICK p \in DOMAIN b : i = Len(a) + p /\ r[n][i] = b[p]
        BY <2>8, <3>3
      <4>2. j > Len(a)
        BY <2>7, <2>10, <3>3
      <4>3. PICK q \in DOMAIN b : j = Len(a) + q /\ r[n][j] = b[q]
        BY <2>8, <4>2
      <4>4. p < q
        BY <2>7, <2>10, <4>1, <4>3
      <4> QED BY <2>3, <4>1, <4>3, <4>4 DEF Ascending
    <3> QED BY <2>7, <3>1, <3>2, <3>3
  <2>11. Ascending(r[n])
    BY <2>10 DEF Ascending
  <2> QED BY <2>1, <2>9, <2>11
<1> HIDE DEF G
<1>5. Len(qs) \in G
  BY <1>1, <1>3, <1>4, UpTo
<1>6. Ascending(r[Len(qs)]) /\ \A k \in DOMAIN r[Len(qs)] : From(r[Len(qs)][k], Len(qs))
  <2> HIDE DEF From
  <2> QED BY <1>5, Zenon DEF G
<1>7. /\ Ascending(FlattenSeq(qs))
      /\ \A k \in DOMAIN FlattenSeq(qs) : From(FlattenSeq(qs)[k], Len(qs))
  <2> HIDE DEF From
  <2> QED BY <1>2, <1>6, Zenon
<1> QED BY <1>7, Zenon

\* The records in the files of w, ...
Filed(w) == UNION {{w[f].recs[i] : i \in DOMAIN w[f].recs} : f \in DOMAIN w}

\* ... whose numbers ascend within each file and from one to the next.
InSequence(w) ==
    /\ \A f \in DOMAIN w : Ascending(w[f].recs)
    /\ \A f, g \in DOMAIN w : f < g =>
         \A i \in DOMAIN w[f].recs, j \in DOMAIN w[g].recs :
            w[f].recs[i].no < w[g].recs[j].no

\* Open reads exactly those, in the order of their numbers.
LEMMA LogRecordsAre ==
    ASSUME NEW k, Shape(wal, k), InSequence(wal)
    PROVE  /\ LogRecords \in Seq(LogRecord) /\ Ascending(LogRecords)
           /\ Filed(wal) = {LogRecords[i] : i \in DOMAIN LogRecords}
<1>0. LogRecords \in Seq(LogRecord) /\ (FileIds = {} => LogRecords = <<>>)
  BY LogRecordsType
<1>1. CASE FileIds = {}
  <2>1. DOMAIN LogRecords = {}
    BY <1>0, <1>1
  <2>2. Filed(wal) = {}
    BY <1>1 DEF Filed, FileIds
  <2> QED BY <1>0, <2>1, <2>2 DEF Ascending
<1>2. CASE FileIds # {}
  <2> DEFINE qs == [f \in 1 .. LastFile |-> IF f \in FileIds THEN wal[f].recs ELSE <<>>]
  <2>1. LastFile \in Nat /\ \A g \in FileIds : g <= LastFile
    BY <1>2, LastIs DEF FileIds
  <2>2. ASSUME NEW f \in FileIds PROVE wal[f].recs \in Seq(LogRecord) /\ f \in 1 .. LastFile
    <3>1. wal[f].recs \in Seq(Rec(k)) /\ f \in Nat \ {0}
      BY DEF Shape, FileIds, LogFile
    <3> QED BY <2>1, <3>1 DEF Rec
  <2>3. qs \in [1 .. LastFile -> Seq(LogRecord)]
    BY <2>2
  <2>4. LogRecords = FlattenSeq(qs)
    BY <1>2, Zenon DEF LogRecords
  <2>5. \A f \in 1 .. LastFile : qs[f] = IF f \in FileIds THEN wal[f].recs ELSE <<>>
    OBVIOUS
  <2> HIDE DEF qs
  <2>6. qs \in Seq(Seq(LogRecord)) /\ Len(qs) = LastFile
    BY <2>1, <2>3, FunctionIsSeq
  <2>7. ASSUME NEW f \in 1 .. Len(qs), DOMAIN qs[f] # {}
        PROVE  f \in DOMAIN wal /\ qs[f] = wal[f].recs
    BY <2>5, <2>6, <2>7, SMTT(20) DEF FileIds
  <2>8. ASSUME NEW f \in 1 .. Len(qs) PROVE Ascending(qs[f])
    <3>1. CASE DOMAIN qs[f] = {}
      BY <3>1 DEF Ascending
    <3>2. CASE DOMAIN qs[f] # {}
      BY <2>7, <3>2 DEF InSequence
    <3> QED BY <3>1, <3>2
  <2>9. ASSUME NEW f \in 1 .. Len(qs), NEW g \in 1 .. Len(qs), f < g,
               NEW i \in DOMAIN qs[f], NEW j \in DOMAIN qs[g]
        PROVE  qs[f][i].no < qs[g][j].no
    <3>1. f \in DOMAIN wal /\ qs[f] = wal[f].recs /\ g \in DOMAIN wal /\ qs[g] = wal[g].recs
      BY <2>7
    <3> QED BY <2>9, <3>1 DEF InSequence
  <2> DEFINE all == FlattenSeq(qs)
  <2>10. /\ Ascending(all)
         /\ \A i \in DOMAIN all : \E f \in 1 .. Len(qs) :
                 \E j \in DOMAIN qs[f] : all[i] = qs[f][j]
    BY <2>6, <2>8, <2>9, FlattenAscends
  <2>11. ASSUME NEW i \in DOMAIN all PROVE all[i] \in Filed(wal)
    <3>1. PICK f \in 1 .. Len(qs) : \E j \in DOMAIN qs[f] : all[i] = qs[f][j]
      BY <2>10
    <3>2. PICK j \in DOMAIN qs[f] : all[i] = qs[f][j]
      BY <3>1
    <3>3. f \in DOMAIN wal /\ qs[f] = wal[f].recs
      BY <2>7, <3>2
    <3> HIDE DEF all
    <3> QED BY <3>2, <3>3 DEF Filed
  <2>12. ASSUME NEW x \in Filed(wal) PROVE \E i \in DOMAIN all : all[i] = x
    <3>1. PICK f \in DOMAIN wal : \E j \in DOMAIN wal[f].recs : x = wal[f].recs[j]
      BY DEF Filed
    <3>2. PICK j \in DOMAIN wal[f].recs : x = wal[f].recs[j]
      BY <3>1
    <3>3. f \in 1 .. Len(qs) /\ qs[f] = wal[f].recs /\ qs[f] \in Seq(LogRecord)
      BY <2>2, <2>5, <2>6 DEF FileIds
    <3>4. j \in 1 .. Len(qs[f]) /\ x = qs[f][j]
      BY <3>2, <3>3
    <3>5. \E i \in 1 .. Len(all) : all[i] = qs[f][j]
      BY <2>6, <3>3, <3>4, FlattenParts
    <3>6. DOMAIN all = 1 .. Len(all)
      BY <1>0, <2>4
    <3> HIDE DEF all
    <3> QED BY <3>4, <3>5, <3>6
  <2> HIDE DEF all
  <2>13. Filed(wal) = {all[i] : i \in DOMAIN all}
    BY <2>11, <2>12
  <2> QED BY <1>0, <2>4, <2>10, <2>13 DEF all
<1> QED BY <1>1, <1>2

\* The last of ascending numbers is the largest.
LEMMA LastNumber ==
    ASSUME NEW q \in Seq(LogRecord), Ascending(q), NEW n \in Nat,
           \A i \in 1 .. Len(q) : q[i].no \in 1 .. n,
           NEW j \in DOMAIN q, q[j].no = n
    PROVE  Len(q) # 0 /\ q[Len(q)].no = n
<1>1. Len(q) \in Nat /\ DOMAIN q = 1 .. Len(q)
  OBVIOUS
<1>2. j \in 1 .. Len(q) /\ Len(q) \in 1 .. Len(q)
  BY <1>1
<1>3. q[Len(q)].no \in 1 .. n
  BY <1>2
<1>4. CASE j = Len(q)
  BY <1>1, <1>2, <1>4
<1>5. CASE j # Len(q)
  <2>1. j < Len(q)
    BY <1>1, <1>2, <1>5
  <2>2. q[j].no < q[Len(q)].no
    BY <1>1, <1>2, <2>1 DEF Ascending
  <2> QED BY <1>3, <2>2
<1> QED BY <1>4, <1>5

\* The log of h is replayed onto the segments, which have its first u batches.
LEMMA ReplayAware ==
    ASSUME NEW h \in Seq(Batches), NEW u \in 0 .. Len(h), NEW st,
           st = Promise!Answer(SubSeq(h, 1, u)),
           NEW state, NEW idx, Aware(state, st, st, idx),
           NEW q \in Seq(LogRecord), Ascending(q), \A i \in DOMAIN q : Means(q[i], h, idx),
           \A k \in u + 1 .. Len(h) : \E i \in DOMAIN q : q[i].no = k,
           \A i \in DOMAIN q : q[i].no > u =>
              \A s \in DOMAIN q[i].samples : \E j \in DOMAIN q : j <= i /\
                 \E k \in DOMAIN q[j].series : q[j].series[k].id = q[i].samples[s].id
    PROVE  Aware(RecordsApplied(state, q), st, Promise!Answer(h), idx)
<1> DEFINE c(i) == IF i = 0 THEN u ELSE IF q[i].no > u THEN q[i].no ELSE u
<1> DEFINE w(n) == Promise!Answer(SubSeq(h, 1, n))
<1>1. /\ state \in Resolver /\ Len(q) \in Nat /\ DOMAIN q = 1 .. Len(q)
      /\ Len(h) \in Nat /\ DOMAIN h = 1 .. Len(h) /\ u \in Nat /\ u <= Len(h)
  BY DEF Aware
<1>2. PICK r \in [0 .. Len(q) -> Resolver] :
               /\ r[0] = state /\ r[Len(q)] = RecordsApplied(state, q)
               /\ \A i \in 1 .. Len(q) : r[i] = ApplyRecord(r[i - 1], q[i])
  BY <1>1, ReplayedRun
<1>3. \A i \in 1 .. Len(q) : q[i] \in LogRecord /\ q[i].no \in 1 .. Len(h)
  BY <1>1 DEF Means
<1>4. \A i \in 0 .. Len(q) : c(i) \in u .. Len(h)
  BY <1>1, <1>3
<1> DEFINE Ids(i) == \A j \in 1 .. i :
                        \A k \in DOMAIN q[j].series : q[j].series[k].id \in DOMAIN r[i].ids
<1> DEFINE G == {i \in 0 .. Len(q) : Aware(r[i], st, w(c(i)), idx) /\ Ids(i)}
<1>5. 0 \in G
  <2>1. c(0) = u /\ w(c(0)) = st /\ 0 \in 0 .. Len(q)
    BY <1>1
  <2>2. Ids(0)
    OBVIOUS
  <2> HIDE DEF c, w, Ids
  <2> QED BY <1>2, <2>1, <2>2
<1>6. ASSUME NEW i \in 1 .. Len(q), i - 1 \in G PROVE i \in G
  <2> DEFINE no == q[i].no
  <2> DEFINE v == w(c(i - 1))
  <2>1. /\ i \in 0 .. Len(q) /\ i - 1 \in 0 .. Len(q) /\ i \in Nat /\ i \in DOMAIN q
        /\ q[i] \in LogRecord /\ no \in 1 .. Len(h) /\ no \in DOMAIN h
    BY <1>1, <1>3
  <2>2. Aware(r[i - 1], st, v, idx) /\ Ids(i - 1)
    <3> HIDE DEF Ids, w, c
    <3> QED BY <1>6
  <2>3. r[i] = ApplyRecord(r[i - 1], q[i]) /\ Means(q[i], h, idx)
    BY <1>2, <2>1
  <2>4. i - 1 > 0 => i - 1 \in DOMAIN q /\ q[i - 1].no < no /\ q[i - 1].no \in Nat
    <3>1. ASSUME i - 1 > 0
          PROVE  i - 1 \in DOMAIN q /\ q[i - 1].no < no /\ q[i - 1].no \in Nat
      <4>1. i - 1 \in 1 .. Len(q) /\ i - 1 < i
        BY <1>1, <2>1, <3>1
      <4>2. q[i - 1].no < q[i].no
        BY <1>1, <2>1, <4>1 DEF Ascending
      <4> QED BY <1>1, <1>3, <4>1, <4>2
    <3> QED BY <3>1
  <2>5. ASSUME NEW new, new = ApplyRecord(r[i - 1], q[i]),
               DOMAIN r[i - 1].ids \subseteq DOMAIN new.ids,
               \A k \in DOMAIN q[i].series : q[i].series[k].id \in DOMAIN new.ids
        PROVE  Ids(i)
    <3>1. r[i] = new
      BY <2>3, <2>5
    <3>2. ASSUME NEW j \in 1 .. i, NEW k \in DOMAIN q[j].series
          PROVE  q[j].series[k].id \in DOMAIN r[i].ids
      <4>1. CASE j = i
        BY <2>5, <3>1, <4>1
      <4>2. CASE j # i
        <5>1. j \in 1 .. i - 1
          BY <2>1, <4>2
        <5>2. q[j].series[k].id \in DOMAIN r[i - 1].ids
          BY <2>2, <5>1
        <5> QED BY <2>5, <3>1, <5>2
      <4> QED BY <4>1, <4>2
    <3> QED BY <3>2
  <2>6. CASE no <= u
    <3>1. c(i) = u /\ c(i - 1) = u
      <4>1. c(i) = u
        BY <1>1, <2>1, <2>6
      <4>2. CASE i - 1 = 0
        BY <4>1, <4>2
      <4>3. CASE i - 1 > 0
        <5>1. ~(q[i - 1].no > u)
          BY <1>1, <2>1, <2>4, <2>6, <4>3
        <5> QED BY <4>1, <4>3, <5>1
      <4> QED BY <2>1, <4>1, <4>2, <4>3
    <3>2. ASSUME NEW l \in Labels PROVE Old(st[l], BatchOf(h[no], l, no))
      <4> DEFINE p == SubSeq(h, 1, u)
      <4>1. p \in Seq(Batches) /\ Len(p) = u /\ no \in DOMAIN p /\ p[no] = h[no]
        BY <1>1, <2>1, <2>6
      <4> HIDE DEF p, no
      <4>2. Old(Promise!Answer(p)[l], BatchOf(p[no], l, no))
        BY <4>1, AnswerOld
      <4>3. st = Promise!Answer(p)
        BY DEF p
      <4> QED BY <4>1, <4>2, <4>3
    <3> DEFINE new == ApplyRecord(r[i - 1], q[i])
    <3>3. /\ Aware(new, st, v, idx)
          /\ DOMAIN r[i - 1].ids \subseteq DOMAIN new.ids
          /\ \A k \in DOMAIN q[i].series : q[i].series[k].id \in DOMAIN new.ids
      <4> HIDE DEF v, Ids, c, w
      <4> QED BY <2>1, <2>2, <2>3, <3>2, RecordOldAware
    <3> HIDE DEF c, w, Ids, new
    <3>4. Ids(i)
      BY <2>5, <3>3 DEF new
    <3>5. Aware(r[i], st, w(c(i)), idx)
      BY <2>3, <3>1, <3>3 DEF new
    <3> QED BY <2>1, <3>4, <3>5
  <2>7. CASE no > u
    <3>1. c(i) = no /\ c(i - 1) = no - 1
      <4>1. c(i) = no
        BY <2>1, <2>7
      <4>2. c(i - 1) < no /\ c(i - 1) \in u .. Len(h)
        <5>1. c(i - 1) \in u .. Len(h)
          BY <1>4, <2>1
        <5>2. CASE i - 1 = 0
          BY <2>7, <5>1, <5>2
        <5>3. CASE i - 1 > 0
          BY <2>4, <2>7, <5>1, <5>3
        <5> QED BY <2>1, <5>1, <5>2, <5>3
      <4>3. ASSUME c(i - 1) + 1 < no PROVE FALSE
        <5> DEFINE n == c(i - 1) + 1
        <5>1. n \in u + 1 .. Len(h) /\ n < no
          BY <1>1, <2>1, <4>2, <4>3, SMTT(20)
        <5>2. i - 1 > 0 => q[i - 1].no < n
          BY <1>1, <2>1, <2>4, <4>2
        <5> HIDE DEF n
        <5>3. PICK j \in DOMAIN q : q[j].no = n
          BY <5>1
        <5>4. CASE j >= i
          <6>1. j = i \/ no < q[j].no
            BY <1>1, <2>1, <5>4, SMTT(20) DEF Ascending
          <6> QED BY <1>3, <2>1, <5>1, <5>3, <6>1
        <5>5. CASE j < i
          <6>1. i - 1 > 0 /\ i - 1 \in DOMAIN q
            BY <1>1, <2>1, <5>5
          <6>2. j = i - 1 \/ q[j].no < q[i - 1].no
            BY <1>1, <2>1, <5>5, <6>1, SMTT(20) DEF Ascending
          <6>3. q[j].no \in Nat /\ q[i - 1].no \in Nat
            BY <1>1, <1>3, <6>1
          <6> DEFINE x == q[i - 1].no
          <6>4. x < n /\ x \in Nat /\ n \in Nat
            BY <5>1, <5>2, <6>1, <6>3
          <6>5. n = x \/ n < x
            BY <5>3, <6>2
          <6> HIDE DEF x
          <6> QED BY <6>4, <6>5
        <5> QED BY <1>1, <2>1, <5>4, <5>5
      <4>4. c(i - 1) \in Nat /\ no \in Nat
        BY <1>1, <2>1, <4>2
      <4> HIDE DEF c, no, w
      <4>5. c(i - 1) = no - 1
        BY <4>2, <4>3, <4>4
      <4> QED BY <4>1, <4>5
    <3>2. w(no) = After(v, h[no], no)
      <4> DEFINE p == SubSeq(h, 1, no - 1)
      <4>1. p \in Seq(Batches) /\ Len(p) = no - 1 /\ SubSeq(h, 1, no) = Append(p, h[no])
            /\ h[no] \in Batches
        <5> HIDE DEF no, c, w
        <5>1. no \in 1 .. Len(h) /\ h \in Seq(Batches)
          BY <2>1
        <5>2. p \in Seq(Batches) /\ SubSeq(h, 1, no) = Append(p, h[no])
          BY <5>1, BeginMore
        <5>3. Len(p) = no - 1 /\ h[no] \in Batches
          BY <1>1, <5>1
        <5> QED BY <5>2, <5>3
      <4>2. v = Promise!Answer(p)
        BY <3>1
      <4> HIDE DEF p, no, v
      <4>3. Promise!Answer(Append(p, h[no])) = After(Promise!Answer(p), h[no], Len(p) + 1)
        BY <4>1, AnswerMore
      <4>4. Len(p) + 1 = no
        BY <2>1, <4>1
      <4> QED BY <4>1, <4>2, <4>3, <4>4
    <3>3. ASSUME NEW s \in DOMAIN q[i].samples
          PROVE  \/ q[i].samples[s].id \in DOMAIN r[i - 1].ids
                 \/ \E k \in DOMAIN q[i].series : q[i].series[k].id = q[i].samples[s].id
      <4>1. PICK j \in DOMAIN q : j <= i /\
               \E k \in DOMAIN q[j].series : q[j].series[k].id = q[i].samples[s].id
        BY <2>1, <2>7
      <4>2. PICK k \in DOMAIN q[j].series : q[j].series[k].id = q[i].samples[s].id
        BY <4>1
      <4>3. CASE j = i
        BY <4>2, <4>3
      <4>4. CASE j # i
        <5>1. j \in 1 .. i - 1
          BY <1>1, <2>1, <4>1, <4>4
        <5>2. q[j].series[k].id \in DOMAIN r[i - 1].ids
          BY <2>2, <5>1
        <5> QED BY <4>2, <5>2
      <4> QED BY <4>3, <4>4
    <3> DEFINE new == ApplyRecord(r[i - 1], q[i])
    <3>4. /\ Aware(new, st, After(v, h[no], no), idx)
          /\ DOMAIN r[i - 1].ids \subseteq DOMAIN new.ids
          /\ \A k \in DOMAIN q[i].series : q[i].series[k].id \in DOMAIN new.ids
      <4> HIDE DEF v, Ids, c, w
      <4> QED BY <2>1, <2>2, <2>3, <3>3, RecordNewAware
    <3> HIDE DEF c, w, Ids, new, v
    <3>5. Ids(i)
      BY <2>5, <3>4 DEF new
    <3>6. Aware(r[i], st, w(c(i)), idx)
      BY <2>3, <3>1, <3>2, <3>4 DEF new
    <3> QED BY <2>1, <3>5, <3>6
  <2> QED BY <1>1, <2>1, <2>6, <2>7
<1>7. Len(q) \in G
  <2> HIDE DEF G
  <2> QED BY <1>1, <1>5, <1>6, UpTo
<1>8. c(Len(q)) = Len(h)
  <2>1. c(Len(q)) \in u .. Len(h)
    BY <1>1, <1>4
  <2>2. CASE u = Len(h)
    BY <1>1, <2>1, <2>2
  <2>3. CASE u < Len(h)
    <3>1. PICK j \in DOMAIN q : q[j].no = Len(h)
      BY <1>1, <2>3
    <3>3. Len(q) # 0 /\ q[Len(q)].no = Len(h)
      BY <1>1, <1>3, <3>1, LastNumber
    <3>4. c(Len(q)) = IF q[Len(q)].no > u THEN q[Len(q)].no ELSE u
      BY <3>3, Zenon
    <3>5. c(Len(q)) = IF Len(h) > u THEN Len(h) ELSE u
      <4> HIDE DEF c
      <4> QED BY <3>3, <3>4, Zenon
    <3> HIDE DEF c
    <3> QED BY <2>3, <3>5, Zenon
  <2>4. u = Len(h) \/ u < Len(h)
    BY <1>1, AtMost, Zenon
  <2> HIDE DEF c
  <2> QED BY <2>2, <2>3, <2>4, Zenon
<1>9. SubSeq(h, 1, Len(h)) = h
  OBVIOUS
<1>10. Aware(r[Len(q)], st, w(c(Len(q))), idx)
  <2> HIDE DEF w, c, Ids
  <2> QED BY <1>7
<1>11. w(c(Len(q))) = Promise!Answer(h)
  <2> HIDE DEF c
  <2> QED BY <1>8, <1>9
<1> HIDE DEF c, w, Ids, G
<1>12. Aware(r[Len(q)], st, Promise!Answer(h), idx)
  BY <1>10, <1>11, Zenon
<1> QED BY <1>2, <1>12, Zenon

-----------------------------------------------------------------------------
(* The segments. *)

\* What segments sg hold of each series.
Stored(sg) == [l \in Labels |-> FlattenSeq([i \in DOMAIN sg |-> sg[i].data[l]])]

\* The number of the last batch they hold.
Upto(sg) == IF sg = <<>> THEN 0 ELSE sg[Len(sg)].upto

\* Each lists every label it has samples of.
Listed(sg) == \A i \in DOMAIN sg : Held(sg[i]) \subseteq Range(sg[i].order)

LEMMA StoredAll ==
    ASSUME NEW sg \in Seq(Segment), NEW l \in Labels
    PROVE  LET q == [i \in DOMAIN sg |-> sg[i].data[l]] IN
           q \in Seq(Seq(Sample)) /\ Len(q) = Len(sg)
<1> DEFINE q == [i \in DOMAIN sg |-> sg[i].data[l]]
<1>1. DOMAIN sg = 1 .. Len(sg) /\ Len(sg) \in Nat
  OBVIOUS
<1>2. ASSUME NEW i \in DOMAIN sg PROVE sg[i].data[l] \in Seq(Sample)
  <2>1. sg[i] \in Segment
    OBVIOUS
  <2> QED BY <2>1 DEF Segment
<1>3. q \in [1 .. Len(sg) -> Seq(Sample)] /\ DOMAIN q = 1 .. Len(sg)
  BY <1>1, <1>2
<1> HIDE DEF q
<1>4. q \in Seq(Seq(Sample))
  BY <1>1, <1>3, FunctionIsSeq
<1>5. Len(q) = Len(sg)
  BY <1>1, <1>3, <1>4
<1> QED BY <1>4, <1>5 DEF q

LEMMA StoredType ==
    ASSUME NEW sg \in Seq(Segment)
    PROVE  Stored(sg) \in [Labels -> Seq(Sample)]
<1>1. ASSUME NEW l \in Labels
      PROVE  FlattenSeq([i \in DOMAIN sg |-> sg[i].data[l]]) \in Seq(Sample)
  BY StoredAll, FlattenType
<1> QED BY <1>1 DEF Stored

LEMMA StoredNone == Stored(<<>>) = [l \in Labels |-> <<>>]
<1>1. ASSUME NEW l \in Labels
      PROVE  FlattenSeq([i \in DOMAIN <<>> |-> <<>>[i].data[l]]) = <<>>
  <2>1. [i \in DOMAIN <<>> |-> <<>>[i].data[l]] = <<>>
    OBVIOUS
  <2> QED BY <2>1, FlattenNone
<1> QED BY <1>1 DEF Stored

\* One segment more.
LEMMA StoredMore ==
    ASSUME NEW sg \in Seq(Segment), NEW s \in Segment, NEW l \in Labels
    PROVE  /\ Stored(Append(sg, s))[l] = Stored(sg)[l] \o s.data[l]
           /\ s.data[l] \in Seq(Sample) /\ Stored(sg)[l] \in Seq(Sample)
<1> DEFINE p == Append(sg, s)
<1> DEFINE q == [i \in DOMAIN sg |-> sg[i].data[l]]
<1> DEFINE r == [i \in DOMAIN p |-> p[i].data[l]]
<1>1. /\ p \in Seq(Segment) /\ Len(p) = Len(sg) + 1 /\ Len(sg) \in Nat
      /\ p[Len(sg) + 1] = s /\ \A i \in 1 .. Len(sg) : p[i] = sg[i]
      /\ DOMAIN p = 1 .. Len(p) /\ DOMAIN sg = 1 .. Len(sg)
  OBVIOUS
<1>2. s.data[l] \in Seq(Sample)
  BY DEF Segment
<1>3. q \in Seq(Seq(Sample)) /\ Len(q) = Len(sg)
  BY StoredAll
<1> HIDE DEF p
<1>4. r \in Seq(Seq(Sample)) /\ Len(r) = Len(p)
  BY <1>1, StoredAll
<1>5. /\ \A i \in 1 .. Len(sg) : q[i] = sg[i].data[l]
      /\ \A i \in 1 .. Len(p) : r[i] = p[i].data[l]
  BY <1>1
<1> HIDE DEF q, r
<1>6. r = Append(q, s.data[l])
  <2> DEFINE x == s.data[l]
  <2> DEFINE t == Append(q, x)
  <2>1. x \in Seq(Sample)
    BY <1>2
  <2>2. r[Len(sg) + 1] = x
    BY <1>1, <1>5
  <2> HIDE DEF x
  <2>3. t \in Seq(Seq(Sample)) /\ Len(t) = Len(sg) + 1 /\ t[Len(sg) + 1] = x
        /\ \A i \in 1 .. Len(sg) : t[i] = q[i]
    BY <1>3, <2>1
  <2> HIDE DEF t
  <2>4. ASSUME NEW i \in 1 .. Len(r) PROVE r[i] = t[i]
    <3>1. CASE i = Len(sg) + 1
      BY <2>2, <2>3, <3>1
    <3>2. CASE i # Len(sg) + 1
      <4>1. i \in 1 .. Len(sg) /\ i \in 1 .. Len(p)
        BY <1>1, <1>4, <3>2
      <4> QED BY <1>1, <1>5, <2>3, <4>1
    <3> QED BY <3>1, <3>2
  <2>5. r = t
    BY <1>1, <1>4, <2>3, <2>4, SameSeq
  <2> QED BY <2>5 DEF t, x
<1>7. FlattenSeq(r) = FlattenSeq(q) \o s.data[l]
  BY <1>2, <1>3, <1>6, FlattenMore
<1>8. Stored(p)[l] = FlattenSeq(r) /\ Stored(sg)[l] = FlattenSeq(q)
  BY Zenon DEF Stored, q, r
<1>9. FlattenSeq(q) \in Seq(Sample)
  BY <1>3, FlattenType
<1> QED BY <1>2, <1>7, <1>8, <1>9, Zenon DEF p

\* Only the samples matter.
LEMMA StoredSame ==
    ASSUME NEW p \in Seq(Segment), NEW q \in Seq(Segment), Len(p) = Len(q),
           \A i \in 1 .. Len(p) : p[i].data = q[i].data
    PROVE  Stored(p) = Stored(q)
<1>1. DOMAIN p = 1 .. Len(p) /\ DOMAIN q = 1 .. Len(p)
  OBVIOUS
<1>2. ASSUME NEW l \in Labels
      PROVE  [i \in DOMAIN p |-> p[i].data[l]] = [i \in DOMAIN q |-> q[i].data[l]]
  BY <1>1
<1> QED BY <1>2 DEF Stored

\* A segment brings its labels into the index.
LEMMA LoadSegmentIndex ==
    ASSUME NEW mem \in Memory, NEW seg \in Segment
    PROVE  Range(mem.index) \cup Range(seg.order) \subseteq Range(LoadSegment(mem, seg).index)
<1> DEFINE q == seg.order
<1>1. q \in Seq(Labels) /\ Len(q) \in Nat /\ seg.data \in [Labels -> Seq(Sample)]
      /\ \A i \in 1 .. Len(q) : seg.data[q[i]] # <<>>
  BY DEF Segment
<1>2. PICK r \in [0 .. Len(q) -> Memory] :
               /\ r[0] = mem /\ r[Len(q)] = LoadSegment(mem, seg)
               /\ \A i \in 1 .. Len(q) :
                     r[i] = [Encode(r[i - 1], q[i]) EXCEPT
                               !.newest[q[i]] = Last(seg.data[q[i]])[1]]
  BY LoadSegmentRun, Zenon
<1> HIDE DEF q
<1> DEFINE Some(i) == {q[k] : k \in 1 .. i}
<1> DEFINE G == {i \in 0 .. Len(q) : Range(mem.index) \cup Some(i) \subseteq Range(r[i].index)}
<1>3. 0 \in G
  BY <1>1, <1>2
<1>4. ASSUME NEW i \in 1 .. Len(q), i - 1 \in G PROVE i \in G
  <2>1. Range(mem.index) \cup Some(i - 1) \subseteq Range(r[i - 1].index)
    BY <1>4
  <2> HIDE DEF G
  <2> DEFINE a == r[i - 1]
  <2> DEFINE b == Encode(a, q[i])
  <2>2. i \in 0 .. Len(q) /\ i - 1 \in 0 .. Len(q) /\ q[i] \in Labels
    BY <1>1
  <2>3. a \in Memory
    BY <1>2, <2>2
  <2>4. r[i] = [b EXCEPT !.newest[q[i]] = Last(seg.data[q[i]])[1]]
    BY <1>2
  <2> HIDE DEF a
  <2>5. b \in Memory /\ Range(b.index) = Range(a.index) \cup {q[i]}
    BY <2>2, <2>3, EncodeIs, ZenonT(40)
  <2> HIDE DEF b
  <2>6. r[i].index = b.index
    BY <2>4, <2>5 DEF Memory
  <2>7. Some(i) = Some(i - 1) \cup {q[i]}
    <3>1. 1 .. i = 1 .. i - 1 \cup {i}
      BY <1>1
    <3> QED BY <3>1
  <2> HIDE DEF Some
  <2>8. Range(mem.index) \cup Some(i) \subseteq Range(r[i].index)
    BY <2>1, <2>5, <2>6, <2>7 DEF a
  <2> QED BY <2>2, <2>8 DEF G
<1> HIDE DEF G
<1>5. Len(q) \in G
  BY <1>1, <1>3, <1>4, UpTo
<1>6. Range(q) = Some(Len(q))
  BY <1>1, RangeIs
<1> HIDE DEF Some
<1>7. Range(mem.index) \cup Some(Len(q)) \subseteq Range(r[Len(q)].index)
  BY <1>5 DEF G
<1> QED BY <1>2, <1>6, <1>7 DEF q

LEMMA TimeJoin ==
    ASSUME NEW a \in Seq(Sample), NEW b \in Seq(Sample)
    PROVE  /\ Time(a \o b) = IF b = <<>> THEN Time(a) ELSE Last(b)[1]
           /\ (a \o b # <<>>) <=> (a # <<>> \/ b # <<>>)
<1>1. CASE b = <<>>
  BY <1>1, JoinNone
<1>2. CASE b # <<>>
  <2>1. /\ Len(a) \in Nat /\ Len(b) \in Nat /\ Len(b) # 0
    BY <1>2
  <2>2. /\ a \o b \in Seq(Sample) /\ Len(a \o b) = Len(a) + Len(b)
        /\ (a \o b)[Len(a) + Len(b)] = b[Len(b)]
    BY <2>1, JoinIs
  <2>3. a \o b # <<>>
    BY <2>1, <2>2
  <2> QED BY <1>2, <2>2, <2>3 DEF Time, Last
<1> QED BY <1>1, <1>2

\* The segments that open loads tell the newest time of each series they hold.
LEMMA StoredNewest ==
    ASSUME NEW q \in Seq(Segment), Listed(q)
    PROVE  /\ \A l \in Labels : LoadedFrom(q).newest[l] = Time(Stored(q)[l])
           /\ \A l \in Labels : Stored(q)[l] # <<>> => l \in Range(LoadedFrom(q).index)
<1>1. PICK r \in [0 .. Len(q) -> Memory] :
               /\ r[0] = NoMemory /\ r[Len(q)] = LoadedFrom(q)
               /\ \A i \in 1 .. Len(q) : r[i] = LoadSegment(r[i - 1], q[i])
  BY LoadedRun
<1>2. Len(q) \in Nat /\ DOMAIN q = 1 .. Len(q)
  OBVIOUS
<1> DEFINE P(i) == SubSeq(q, 1, i)
<1> DEFINE Tells(mem, s) ==
      /\ Bare(mem) /\ \A l \in Labels : mem.newest[l] = Time(s[l])
      /\ \A l \in Labels : s[l] # <<>> => l \in Range(mem.index)
<1> DEFINE G == {i \in 0 .. Len(q) : Tells(r[i], Stored(P(i)))}
<1>3. 0 \in G
  <2>1. P(0) = <<>>
    OBVIOUS
  <2>2. Tells(NoMemory, [l \in Labels |-> <<>>])
    BY NoMemoryBare DEF NoMemory, Time
  <2> HIDE DEF P, Tells
  <2>3. Tells(r[0], Stored(P(0)))
    BY <1>1, <2>1, <2>2, StoredNone
  <2> QED BY <1>2, <2>3
<1>4. ASSUME NEW i \in 1 .. Len(q), i - 1 \in G PROVE i \in G
  <2>1. Tells(r[i - 1], Stored(P(i - 1)))
    <3> HIDE DEF Tells, P
    <3> QED BY <1>4
  <2> HIDE DEF G
  <2> DEFINE a == r[i - 1]
  <2> DEFINE s == q[i]
  <2> DEFINE c == P(i - 1)
  <2>2. i \in 0 .. Len(q) /\ i - 1 \in 0 .. Len(q) /\ s \in Segment
    BY <1>2
  <2>3. c \in Seq(Segment) /\ P(i) = Append(c, s)
    BY BeginMore
  <2>4. r[i] = LoadSegment(a, s)
    BY <1>1
  <2>5. Held(s) \subseteq Range(s.order)
    BY <1>2 DEF Listed
  <2>6. \A l \in Range(s.order) : s.data[l] # <<>>
    BY <2>2 DEF Segment, Range
  <2>7. /\ Bare(a) /\ a \in Memory /\ \A l \in Labels : a.newest[l] = Time(Stored(c)[l])
        /\ \A l \in Labels : Stored(c)[l] # <<>> => l \in Range(a.index)
    BY <2>1 DEF Bare
  <2> HIDE DEF a, s, c, P
  <2> DEFINE new == LoadSegment(a, s)
  <2>8. /\ Bare(new)
        /\ \A l \in Labels : new.newest[l] =
                IF l \in Range(s.order) THEN Last(s.data[l])[1] ELSE a.newest[l]
    BY <2>2, <2>7, LoadSegmentBare
  <2>9. Range(a.index) \cup Range(s.order) \subseteq Range(new.index)
    BY <2>2, <2>7, LoadSegmentIndex
  <2> HIDE DEF new
  <2>10. ASSUME NEW l \in Labels
         PROVE  /\ new.newest[l] = Time(Stored(Append(c, s))[l])
                /\ Stored(Append(c, s))[l] # <<>> => l \in Range(new.index)
    <3> DEFINE x == Stored(c)[l]
    <3> DEFINE y == s.data[l]
    <3>1. /\ Stored(Append(c, s))[l] = x \o y /\ x \in Seq(Sample) /\ y \in Seq(Sample)
      BY <2>2, <2>3, StoredMore
    <3>2. l \in Range(s.order) <=> y # <<>>
      BY <2>5, <2>6 DEF Held
    <3>3. a.newest[l] = Time(x) /\ (x # <<>> => l \in Range(a.index))
      BY <2>7
    <3>4. new.newest[l] = IF y # <<>> THEN Last(y)[1] ELSE a.newest[l]
      BY <2>8, <3>2
    <3> HIDE DEF x, y
    <3>5. /\ Time(x \o y) = IF y = <<>> THEN Time(x) ELSE Last(y)[1]
          /\ (x \o y # <<>>) <=> (x # <<>> \/ y # <<>>)
      BY <3>1, TimeJoin
    <3> QED BY <2>9, <3>1, <3>2, <3>3, <3>4, <3>5
  <2>11. Tells(new, Stored(Append(c, s)))
    BY <2>8, <2>10
  <2> HIDE DEF Tells
  <2>12. Tells(r[i], Stored(P(i)))
    BY <2>3, <2>4, <2>11 DEF new
  <2> QED BY <2>2, <2>12 DEF G
<1> HIDE DEF G
<1>5. Len(q) \in G
  BY <1>2, <1>3, <1>4, UpTo
<1>6. P(Len(q)) = q
  OBVIOUS
<1> HIDE DEF P
<1>7. Tells(r[Len(q)], Stored(P(Len(q))))
  <2> HIDE DEF Tells
  <2> QED BY <1>5 DEF G
<1> QED BY <1>1, <1>6, <1>7

-----------------------------------------------------------------------------
(* What the log, the segments and memory have to do with the history. *)

\* The records in the files and in the buffer.
InLog(w, buf) == Filed(w) \cup {buf[i] : i \in DOMAIN buf}

\* Record d gives id to a series.
Defines(d, id) == \E k \in DOMAIN d.series : d.series[k].id = id

\* Through the ids of idx the records mean batches of h, and the ids of those
\* after batch u are defined among them in time.
Meant(recs, u, h, idx) ==
    /\ idx \in Seq(Labels)
    /\ \A r \in recs : Means(r, h, idx)
    /\ \A r \in recs : r.no > u =>
          \A i \in DOMAIN r.samples :
             \E d \in recs : u < d.no /\ d.no <= r.no /\ Defines(d, r.samples[i].id)

\* The records in files end where the buffer begins, and none is missing after
\* those that segments sg make unnecessary.
Numbered(sg, w, buf, h) ==
    LET n == Len(h) - Len(buf)
    IN  /\ Upto(sg) \in 0 .. n
        /\ \A i \in DOMAIN sg : sg[i].upto <= Upto(sg)
        /\ \A i \in DOMAIN buf : buf[i].no = n + i
        /\ \A r \in Filed(w) : r.no <= n
        /\ \A k \in Upto(sg) + 1 .. n : \E r \in Filed(w) : r.no = k

\* Memory and the segments show the history.
Shows(mem, sg, h) ==
    /\ Tracks(mem, Stored(sg), Promise!Answer(h))
    /\ \A l \in Labels : Stored(sg)[l] # <<>> => l \in Range(mem.index)

\* So they do when open has replayed the log (Db::open_with), if the
\* segments hold the first batches and the log all the others.
LEMMA OpenShows ==
    ASSUME NEW k, Shape(wal, k), segs \in Seq(Segment), Listed(segs),
           hist \in Seq(Batches), InSequence(wal), Upto(segs) \in 0 .. Len(hist),
           Stored(segs) = Promise!Answer(SubSeq(hist, 1, Upto(segs))),
           NEW idx, Meant(Filed(wal), Upto(segs), hist, idx),
           \A n \in Upto(segs) + 1 .. Len(hist) : \E r \in Filed(wal) : r.no = n
    PROVE  Shows(Replayed(Restored, LogRecords), segs, hist)
<1> DEFINE st == Stored(segs)
<1> DEFINE u == Upto(segs)
<1> DEFINE q == LogRecords
<1> DEFINE state == [m |-> Restored, ids |-> <<>>, pending |-> <<>>]
<1>1. /\ q \in Seq(LogRecord) /\ Ascending(q) /\ Filed(wal) = {q[i] : i \in DOMAIN q}
  BY LogRecordsAre
<1>2. /\ Bare(Restored) /\ Restored \in Memory
      /\ \A l \in Labels : Restored.newest[l] = Time(st[l])
      /\ \A l \in Labels : st[l] # <<>> => l \in Range(Restored.index)
  <2>1. Restored = LoadedFrom(segs)
    BY ChainedIs
  <2>2. Bare(Restored)
    BY <2>1, LoadedBare
  <2> QED BY <2>1, <2>2, StoredNewest DEF Bare
<1>3. st \in [Labels -> Seq(Sample)] /\ idx \in Seq(Labels)
  BY StoredType DEF Meant
<1>4. state \in Resolver
  <2>1. <<>> \in Partly(Labels) /\ <<>> \in Partly(Seq(Sample))
    <3>1. {} \in SUBSET Nat /\ <<>> \in [{} -> Labels] /\ <<>> \in [{} -> Seq(Sample)]
      OBVIOUS
    <3> QED BY <3>1, Partial
  <2> QED BY <1>2, <2>1 DEF Resolver
<1> HIDE DEF st, u, q
<1>5. Tracks(Restored, st, st)
  <2>1. ASSUME NEW l \in Labels PROVE st[l] = st[l] \o Restored.samples[l]
    <3>1. Restored.samples[l] = <<>> /\ st[l] \in Seq(Sample)
      BY <1>2, <1>3 DEF Bare
    <3> QED BY <3>1, JoinNone
  <2> QED BY <1>2, <1>3, <2>1 DEF Tracks
<1>6. Aware(state, st, st, idx)
  <2>1. state.m = Restored /\ DOMAIN state.ids = {} /\ DOMAIN state.pending = {}
    OBVIOUS
  <2>2. \A l \in Labels : Grows(st[l], st[l])
    <3>1. ASSUME NEW l \in Labels, st[l] # <<>> PROVE Last(st[l])[1] <= Last(st[l])[1]
      <4>1. st[l] \in Seq(Sample)
        BY <1>3
      <4> QED BY <3>1, <4>1 DEF Last, Sample
    <3> QED BY <3>1 DEF Grows
  <2> HIDE DEF state
  <2> QED BY <1>2, <1>3, <1>4, <1>5, <2>1, <2>2 DEF Aware
<1>7. \A i \in DOMAIN q : Means(q[i], hist, idx)
  BY <1>1 DEF Meant
<1>8. \A n \in u + 1 .. Len(hist) : \E i \in DOMAIN q : q[i].no = n
  <2>1. \A n \in u + 1 .. Len(hist) : \E r \in Filed(wal) : r.no = n
    BY DEF u
  <2> QED BY <1>1, <2>1
<1>9. ASSUME NEW i \in DOMAIN q, q[i].no > u, NEW s \in DOMAIN q[i].samples
      PROVE  \E j \in DOMAIN q : j <= i /\
                 \E x \in DOMAIN q[j].series : q[j].series[x].id = q[i].samples[s].id
  <2>1. PICK d \in Filed(wal) : d.no <= q[i].no /\ Defines(d, q[i].samples[s].id)
    BY <1>1, <1>9 DEF Meant, u
  <2>2. PICK j \in DOMAIN q : d = q[j]
    BY <1>1
  <2>3. i \in Nat /\ j \in Nat /\ q[i].no \in Nat /\ q[j].no \in Nat
    <3>1. q \in Seq(LogRecord)
      BY <1>1
    <3>2. i \in Nat /\ j \in Nat /\ q[i] \in LogRecord /\ q[j] \in LogRecord
      BY <3>1
    <3> QED BY <3>2 DEF LogRecord
  <2>4. j <= i
    <3>1. ASSUME i < j PROVE FALSE
      <4>1. q[i].no < q[j].no
        BY <1>1, <3>1 DEF Ascending
      <4> QED BY <2>1, <2>2, <2>3, <4>1
    <3> QED BY <2>3, <3>1
  <2> QED BY <2>1, <2>2, <2>4 DEF Defines
<1>10. st = Promise!Answer(SubSeq(hist, 1, u)) /\ u \in 0 .. Len(hist)
  BY DEF st, u
<1> HIDE DEF state
<1>11. Aware(RecordsApplied(state, q), st, Promise!Answer(hist), idx)
  BY <1>1, <1>6, <1>7, <1>8, <1>9, <1>10, ReplayAware
<1>12. Replayed(Restored, LogRecords) = RecordsApplied(state, q).m
  BY Zenon DEF Replayed, RecordsApplied, state, q
<1> QED BY <1>11, <1>12 DEF Aware, Shows, st

-----------------------------------------------------------------------------
(* Records that move. *)

\* Files that hold the same records.
LEMMA SameFiled ==
    ASSUME NEW v, NEW w, SameRecs(v, w)
    PROVE  Filed(v) = Filed(w) /\ (InSequence(w) => InSequence(v))
<1>1. ASSUME NEW f \in DOMAIN v, NEW i \in DOMAIN v[f].recs
      PROVE  f \in DOMAIN w /\ v[f].recs = w[f].recs
  BY DEF SameRecs
<1>2. \A f \in DOMAIN w : f \in DOMAIN v /\ v[f].recs = w[f].recs
  BY DEF SameRecs
<1>3. Filed(v) = Filed(w)
  BY <1>1, <1>2 DEF Filed
<1>4. ASSUME InSequence(w) PROVE InSequence(v)
  <2>1. ASSUME NEW f \in DOMAIN v PROVE Ascending(v[f].recs)
    <3>1. CASE DOMAIN v[f].recs = {}
      BY <3>1 DEF Ascending
    <3>2. CASE DOMAIN v[f].recs # {}
      BY <1>1, <1>4, <3>2 DEF InSequence
    <3> QED BY <3>1, <3>2
  <2>2. ASSUME NEW f \in DOMAIN v, NEW g \in DOMAIN v, f < g,
               NEW i \in DOMAIN v[f].recs, NEW j \in DOMAIN v[g].recs
        PROVE  v[f].recs[i].no < v[g].recs[j].no
    BY <1>1, <1>4, <2>2 DEF InSequence
  <2> QED BY <2>1, <2>2 DEF InSequence
<1> QED BY <1>3, <1>4
===============================================================================
