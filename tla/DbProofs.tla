------------------------------- MODULE DbProofs -------------------------------
(***************************************************************************)
(* Proofs about module Db, for any labels, any batches and any bounds:     *)
(* memory is what it counts, the segments are in order, and without a loss *)
(* of unsynced ends a database opens again wherever it stopped. First the  *)
(* folds of Db, element by element: each lemma ...Run gives the values a   *)
(* fold goes through.                                                      *)
(***************************************************************************)
EXTENDS Db, FoldFacts

-----------------------------------------------------------------------------
\* A sample's timestamp is at least 1; memory, batches, records and segments as
\* the modules of the program build them.
Sample == (Nat \ {0}) \X Nat

Memory == [index : Seq(Labels), samples : [Labels -> Seq(Sample)],
           newest : [Labels -> Nat], buffered : Nat]

Entry == [labels : Labels, samples : Seq(Nat \ {0})]

IdSeries == [id : Nat \ {0}, labels : Labels]

IdEntry == [id : Nat \ {0}, samples : Seq(Sample)]

Known(mem) == [id : DOMAIN mem.index, samples : Seq(Sample)]

LogRecord == [no : Nat, series : Seq(IdSeries), samples : Seq(IdEntry)]

\* The labels of which a segment has samples.
Held(seg) == {l \in Labels : seg.data[l] # <<>>}

Segment ==
    {s \in [data : [Labels -> Seq(Sample)], order : Seq(Labels), upto : Nat] :
        \A i \in DOMAIN s.order : s.data[s.order[i]] # <<>>}

\* The functions from some numbers to S.
Partly(S) == UNION {[D -> S] : D \in SUBSET Nat}

Resolver == [m : Memory, ids : Partly(Labels),
             pending : Partly(Seq(Sample))]

\* The folds that have no name in Db.
Ordered(samples, q) ==
    FoldLeft(LAMBDA acc, l : IF samples[l] = <<>> THEN acc ELSE Append(acc, l), <<>>, q)

NewLabels(es) ==
    FoldLeft(LAMBDA acc, e : IF e.labels \in logged \cup Range(acc) THEN acc
                                                     ELSE Append(acc, e.labels),
             <<>>, es)

LoadedFrom(q) == FoldLeft(LoadSegment, NoMemory, q)

SeriesApplied(state, q) == FoldLeft(ApplySeries, state, q)

SamplesApplied(state, q) == FoldLeft(ApplySamples, state, q)

RecordsApplied(state, q) == FoldLeft(ApplyRecord, state, q)

Total(samples, q) == FoldLeft(LAMBDA acc, l : acc + Len(samples[l]), 0, q)

\* The steps of every fold stay within these sets.
LEMMA AppendSampleType ==
    ASSUME NEW mem \in Memory, NEW l \in Labels, NEW s \in Sample
    PROVE  AppendSample(mem, l, s) \in Memory
<1>1. s[1] \in Nat /\ mem.samples[l] \in Seq(Sample) /\ mem.buffered \in Nat
  BY DEF Memory, Sample
<1>2. Append(mem.samples[l], s) \in Seq(Sample) /\ mem.buffered + 1 \in Nat
  BY <1>1
<1>3. [mem EXCEPT !.samples[l] = Append(@, s), !.newest[l] = s[1], !.buffered = @ + 1]
        = [mem EXCEPT !.samples = [mem.samples EXCEPT ![l] = Append(mem.samples[l], s)],
                      !.newest = [mem.newest EXCEPT ![l] = s[1]],
                      !.buffered = mem.buffered + 1]
  BY DEF Memory
<1>4. [mem EXCEPT !.samples = [mem.samples EXCEPT ![l] = Append(mem.samples[l], s)],
                  !.newest = [mem.newest EXCEPT ![l] = s[1]],
                  !.buffered = mem.buffered + 1] \in Memory
  BY <1>1, <1>2 DEF Memory
<1> QED BY <1>3, <1>4 DEF AppendSample

\* AppendSamples sample by sample.
LEMMA AppendSamplesRun ==
    ASSUME NEW mem \in Memory, NEW l \in Labels, NEW ss \in Seq(Sample)
    PROVE  \E r \in [0 .. Len(ss) -> Memory] :
               /\ r[0] = mem /\ r[Len(ss)] = AppendSamples(mem, l, ss)
               /\ \A i \in 1 .. Len(ss) :
                     r[i] = AppendSample(r[i - 1], l, ss[i])
<1> DEFINE F == [p \in Memory \X Sample |-> AppendSample(p[1], l, p[2])]
<1> DEFINE Step(g, s) == AppendSample(g[s \ {Max(s)}], l, ss[Max(s)])
<1> DEFINE Eq(g) == g = [s \in SUBSET DOMAIN ss |-> IF s = {} THEN mem ELSE Step(g, s)]
<1> DEFINE it == CHOOSE g : Eq(g)
<1>1. F \in [Memory \X Sample -> Memory]
  BY AppendSampleType
<1>b. mem \in Memory
  OBVIOUS
<1>2. \A a \in Memory, b \in Sample : F[<<a, b>>] = AppendSample(a, l, b)
  OBVIOUS
<1> HIDE DEF F
<1>3. Foldable(Memory, Sample, mem, F, ss)
  BY <1>1, <1>b, Zenon DEF Foldable
<1>4. Eq(it)
  <2>1. PICK g : Values(g, Memory, Sample, mem, F, ss)
    BY <1>3, Iterates
  <2>2. \A s \in SUBSET DOMAIN ss : g[s] = IF s = {} THEN mem ELSE Step(g, s)
    BY <1>2, <2>1 DEF Values
  <2>3. Eq(g)
    BY <2>1, <2>2, Zenon DEF Values
  <2> QED BY <2>3, Zenon
<1>5. AppendSamples(mem, l, ss) = it[DOMAIN ss]
  BY Zenon DEF AppendSamples, FoldLeft, MapThenFoldSet
<1> HIDE DEF it
<1>6. \A s \in SUBSET DOMAIN ss : it[s] = IF s = {} THEN mem ELSE Step(it, s)
  BY <1>4
<1>7. Iteration(it, Memory, Sample, mem, F, ss)
  BY <1>2, <1>6 DEF Iteration
<1>8. PICK r : Run(r, Memory, Sample, mem, F, ss) /\ r[Len(ss)] = it[DOMAIN ss]
  BY <1>3, <1>7, Unrolled
<1>9. ASSUME NEW i \in 1 .. Len(ss) PROVE r[i] = AppendSample(r[i - 1], l, ss[i])
  <2>1. r[i - 1] \in Memory /\ ss[i] \in Sample /\ r[i] = F[<<r[i - 1], ss[i]>>]
    BY <1>8 DEF Run
  <2> QED BY <1>2, <2>1, Zenon
<1> QED BY <1>5, <1>8, <1>9, Zenon DEF Run

LEMMA AppendSamplesType ==
    ASSUME NEW mem \in Memory, NEW l \in Labels, NEW ss \in Seq(Sample)
    PROVE  AppendSamples(mem, l, ss) \in Memory
<1>1. Len(ss) \in 0 .. Len(ss)
  OBVIOUS
<1> QED BY <1>1, AppendSamplesRun

LEMMA EncodeType ==
    ASSUME NEW mem \in Memory, NEW l \in Labels
    PROVE  Encode(mem, l) \in Memory
<1>1. Append(mem.index, l) \in Seq(Labels)
  BY DEF Memory
<1>2. [mem EXCEPT !.index = Append(mem.index, l)] \in Memory
  BY <1>1 DEF Memory
<1> QED BY <1>2 DEF Encode

\* EncodeAll entry by entry.
LEMMA EncodeAllRun ==
    ASSUME NEW mem \in Memory, NEW es \in Seq(Entry)
    PROVE  \E r \in [0 .. Len(es) -> Memory] :
               /\ r[0] = mem /\ r[Len(es)] = EncodeAll(mem, es)
               /\ \A i \in 1 .. Len(es) :
                     r[i] = Encode(r[i - 1], es[i].labels)
<1> DEFINE F == [p \in Memory \X Entry |-> Encode(p[1], p[2].labels)]
<1> DEFINE Step(g, s) == Encode(g[s \ {Max(s)}], es[Max(s)].labels)
<1> DEFINE Eq(g) == g = [s \in SUBSET DOMAIN es |-> IF s = {} THEN mem ELSE Step(g, s)]
<1> DEFINE it == CHOOSE g : Eq(g)
<1>1. F \in [Memory \X Entry -> Memory]
  BY EncodeType DEF Entry
<1>b. mem \in Memory
  OBVIOUS
<1>2. \A a \in Memory, b \in Entry : F[<<a, b>>] = Encode(a, b.labels)
  OBVIOUS
<1> HIDE DEF F
<1>3. Foldable(Memory, Entry, mem, F, es)
  BY <1>1, <1>b, Zenon DEF Foldable
<1>4. Eq(it)
  <2>1. PICK g : Values(g, Memory, Entry, mem, F, es)
    BY <1>3, Iterates
  <2>2. \A s \in SUBSET DOMAIN es : g[s] = IF s = {} THEN mem ELSE Step(g, s)
    BY <1>2, <2>1 DEF Values
  <2>3. Eq(g)
    BY <2>1, <2>2, Zenon DEF Values
  <2> QED BY <2>3, Zenon
<1>5. EncodeAll(mem, es) = it[DOMAIN es]
  BY Zenon DEF EncodeAll, FoldLeft, MapThenFoldSet
<1> HIDE DEF it
<1>6. \A s \in SUBSET DOMAIN es : it[s] = IF s = {} THEN mem ELSE Step(it, s)
  BY <1>4
<1>7. Iteration(it, Memory, Entry, mem, F, es)
  BY <1>2, <1>6 DEF Iteration
<1>8. PICK r : Run(r, Memory, Entry, mem, F, es) /\ r[Len(es)] = it[DOMAIN es]
  BY <1>3, <1>7, Unrolled
<1>9. ASSUME NEW i \in 1 .. Len(es) PROVE r[i] = Encode(r[i - 1], es[i].labels)
  <2>1. r[i - 1] \in Memory /\ es[i] \in Entry /\ r[i] = F[<<r[i - 1], es[i]>>]
    BY <1>8 DEF Run
  <2> QED BY <1>2, <2>1, Zenon
<1> QED BY <1>5, <1>8, <1>9, Zenon DEF Run

\* Entries entry by entry.
LEMMA EntriesRun ==
    ASSUME NEW batch \in Seq(Entry)
    PROVE  \E r \in [0 .. Len(batch) -> Seq(Entry)] :
               /\ r[0] = <<>> /\ r[Len(batch)] = Entries(batch)
               /\ \A i \in 1 .. Len(batch) :
                     r[i] = (IF batch[i].samples = <<>> THEN r[i - 1]
                             ELSE Append(r[i - 1], batch[i]))
<1> DEFINE F == [p \in Seq(Entry) \X Entry |->
                      (IF p[2].samples = <<>> THEN p[1] ELSE Append(p[1], p[2]))]
<1> DEFINE Step(g, s) == (IF batch[Max(s)].samples = <<>>
                                   THEN g[s \ {Max(s)}]
                                   ELSE Append(g[s \ {Max(s)}], batch[Max(s)]))
<1> DEFINE Eq(g) == g = [s \in SUBSET DOMAIN batch |-> IF s = {} THEN <<>>
    ELSE Step(g, s)]
<1> DEFINE it == CHOOSE g : Eq(g)
<1>1. F \in [Seq(Entry) \X Entry -> Seq(Entry)]
  OBVIOUS
<1>b. <<>> \in Seq(Entry)
  OBVIOUS
<1>2. \A a \in Seq(Entry), b \in Entry :
        F[<<a, b>>] = (IF b.samples = <<>> THEN a ELSE Append(a, b))
  OBVIOUS
<1> HIDE DEF F
<1>3. Foldable(Seq(Entry), Entry, <<>>, F, batch)
  BY <1>1, <1>b, Zenon DEF Foldable
<1>4. Eq(it)
  <2>1. PICK g : Values(g, Seq(Entry), Entry, <<>>, F, batch)
    BY <1>3, Iterates
  <2>2. \A s \in SUBSET DOMAIN batch : g[s] = IF s = {} THEN <<>> ELSE Step(g, s)
    BY <1>2, <2>1 DEF Values
  <2>3. Eq(g)
    BY <2>1, <2>2, Zenon DEF Values
  <2> QED BY <2>3, Zenon
<1>5. Entries(batch) = it[DOMAIN batch]
  BY Zenon DEF Entries, FoldLeft, MapThenFoldSet
<1> HIDE DEF it
<1>6. \A s \in SUBSET DOMAIN batch : it[s] = IF s = {} THEN <<>> ELSE Step(it, s)
  BY <1>4
<1>7. Iteration(it, Seq(Entry), Entry, <<>>, F, batch)
  BY <1>2, <1>6 DEF Iteration
<1>8. PICK r : Run(r, Seq(Entry), Entry, <<>>, F, batch) /\ r[Len(batch)]
    = it[DOMAIN batch]
  BY <1>3, <1>7, Unrolled
<1>9. ASSUME NEW i \in 1 .. Len(batch) PROVE r[i] = (IF batch[i].samples
    = <<>> THEN r[i - 1]
                             ELSE Append(r[i - 1], batch[i]))
  <2>1. r[i - 1] \in Seq(Entry) /\ batch[i] \in Entry /\ r[i]
      = F[<<r[i - 1], batch[i]>>]
    BY <1>8 DEF Run
  <2> QED BY <1>2, <2>1, Zenon
<1> QED BY <1>5, <1>8, <1>9, Zenon DEF Run

\* The labels of a segment, in the order of their ids.
LEMMA OrderRun ==
    ASSUME NEW samples \in [Labels -> Seq(Sample)], NEW q \in Seq(Labels)
    PROVE  \E r \in [0 .. Len(q) -> Seq(Labels)] :
               /\ r[0] = <<>> /\ r[Len(q)] = Ordered(samples, q)
               /\ \A i \in 1 .. Len(q) :
                     r[i] = (IF samples[q[i]] = <<>> THEN r[i - 1]
                             ELSE Append(r[i - 1], q[i]))
<1> DEFINE F == [p \in Seq(Labels) \X Labels |->
                      (IF samples[p[2]] = <<>> THEN p[1] ELSE Append(p[1], p[2]))]
<1> DEFINE Step(g, s) == (IF samples[q[Max(s)]] = <<>>
                                   THEN g[s \ {Max(s)}]
                                   ELSE Append(g[s \ {Max(s)}], q[Max(s)]))
<1> DEFINE Eq(g) == g = [s \in SUBSET DOMAIN q |-> IF s = {} THEN <<>> ELSE Step(g, s)]
<1> DEFINE it == CHOOSE g : Eq(g)
<1>1. F \in [Seq(Labels) \X Labels -> Seq(Labels)]
  OBVIOUS
<1>b. <<>> \in Seq(Labels)
  OBVIOUS
<1>2. \A a \in Seq(Labels), b \in Labels :
        F[<<a, b>>] = (IF samples[b] = <<>> THEN a ELSE Append(a, b))
  OBVIOUS
<1> HIDE DEF F
<1>3. Foldable(Seq(Labels), Labels, <<>>, F, q)
  BY <1>1, <1>b, Zenon DEF Foldable
<1>4. Eq(it)
  <2>1. PICK g : Values(g, Seq(Labels), Labels, <<>>, F, q)
    BY <1>3, Iterates
  <2>2. \A s \in SUBSET DOMAIN q : g[s] = IF s = {} THEN <<>> ELSE Step(g, s)
    BY <1>2, <2>1 DEF Values
  <2>3. Eq(g)
    BY <2>1, <2>2, Zenon DEF Values
  <2> QED BY <2>3, Zenon
<1>5. Ordered(samples, q) = it[DOMAIN q]
  BY Zenon DEF Ordered, FoldLeft, MapThenFoldSet
<1> HIDE DEF it
<1>6. \A s \in SUBSET DOMAIN q : it[s] = IF s = {} THEN <<>> ELSE Step(it, s)
  BY <1>4
<1>7. Iteration(it, Seq(Labels), Labels, <<>>, F, q)
  BY <1>2, <1>6 DEF Iteration
<1>8. PICK r : Run(r, Seq(Labels), Labels, <<>>, F, q) /\ r[Len(q)] = it[DOMAIN q]
  BY <1>3, <1>7, Unrolled
<1>9. ASSUME NEW i \in 1 .. Len(q) PROVE r[i] = (IF samples[q[i]] = <<>> THEN r[i - 1]
                             ELSE Append(r[i - 1], q[i]))
  <2>1. r[i - 1] \in Seq(Labels) /\ q[i] \in Labels /\ r[i] = F[<<r[i - 1], q[i]>>]
    BY <1>8 DEF Run
  <2> QED BY <1>2, <2>1, Zenon
<1> QED BY <1>5, <1>8, <1>9, Zenon DEF Run

\* The labels a record defines.
LEMMA NewLabelsRun ==
    ASSUME NEW es \in Seq(Entry)
    PROVE  \E r \in [0 .. Len(es) -> Seq(Labels)] :
               /\ r[0] = <<>> /\ r[Len(es)] = NewLabels(es)
               /\ \A i \in 1 .. Len(es) :
                     r[i] = (IF es[i].labels \in logged \cup Range(r[i - 1])
                               THEN r[i - 1] ELSE Append(r[i - 1], es[i].labels))
<1> DEFINE F == [p \in Seq(Labels) \X Entry |->
                      (IF p[2].labels \in logged \cup Range(p[1]) THEN p[1]
                       ELSE Append(p[1], p[2].labels))]
<1> DEFINE Step(g, s) == (IF es[Max(s)].labels
                                      \in logged \cup Range(g[s \ {Max(s)}])
                                   THEN g[s \ {Max(s)}]
                                   ELSE Append(g[s \ {Max(s)}], es[Max(s)].labels))
<1> DEFINE Eq(g) == g = [s \in SUBSET DOMAIN es |-> IF s = {} THEN <<>> ELSE Step(g, s)]
<1> DEFINE it == CHOOSE g : Eq(g)
<1>1. F \in [Seq(Labels) \X Entry -> Seq(Labels)]
  BY DEF Entry
<1>b. <<>> \in Seq(Labels)
  OBVIOUS
<1>2. \A a \in Seq(Labels), b \in Entry :
        F[<<a, b>>] = (IF b.labels \in logged \cup Range(a) THEN a
                       ELSE Append(a, b.labels))
  OBVIOUS
<1> HIDE DEF F
<1>3. Foldable(Seq(Labels), Entry, <<>>, F, es)
  BY <1>1, <1>b, Zenon DEF Foldable
<1>4. Eq(it)
  <2>1. PICK g : Values(g, Seq(Labels), Entry, <<>>, F, es)
    BY <1>3, Iterates
  <2>2. \A s \in SUBSET DOMAIN es : g[s] = IF s = {} THEN <<>> ELSE Step(g, s)
    BY <1>2, <2>1 DEF Values
  <2>3. Eq(g)
    BY <2>1, <2>2, Zenon DEF Values
  <2> QED BY <2>3, Zenon
<1>5. NewLabels(es) = it[DOMAIN es]
  BY Zenon DEF NewLabels, FoldLeft, MapThenFoldSet
<1> HIDE DEF it
<1>6. \A s \in SUBSET DOMAIN es : it[s] = IF s = {} THEN <<>> ELSE Step(it, s)
  BY <1>4
<1>7. Iteration(it, Seq(Labels), Entry, <<>>, F, es)
  BY <1>2, <1>6 DEF Iteration
<1>8. PICK r : Run(r, Seq(Labels), Entry, <<>>, F, es) /\ r[Len(es)] = it[DOMAIN es]
  BY <1>3, <1>7, Unrolled
<1>9. ASSUME NEW i \in 1 .. Len(es) PROVE r[i]
    = (IF es[i].labels \in logged \cup Range(r[i - 1])
                               THEN r[i - 1] ELSE Append(r[i - 1], es[i].labels))
  <2>1. r[i - 1] \in Seq(Labels) /\ es[i] \in Entry /\ r[i] = F[<<r[i - 1], es[i]>>]
    BY <1>8 DEF Run
  <2> QED BY <1>2, <2>1, Zenon
<1> QED BY <1>5, <1>8, <1>9, Zenon DEF Run

\* AppendAll entry by entry.
LEMMA AppendAllRun ==
    ASSUME NEW mem \in Memory, NEW rec, rec.samples \in Seq(Known(mem))
    PROVE  \E r \in [0 .. Len(rec.samples) -> Memory] :
               /\ r[0] = mem /\ r[Len(rec.samples)] = AppendAll(mem, rec)
               /\ \A i \in 1 .. Len(rec.samples) :
                     r[i] = AppendSamples(r[i - 1], mem.index[rec.samples[i].id],
                                          rec.samples[i].samples)
<1> DEFINE F == [p \in Memory \X Known(mem) |->
                      AppendSamples(p[1], mem.index[p[2].id], p[2].samples)]
<1> DEFINE Step(g, s) == AppendSamples(g[s \ {Max(s)}],
                                              mem.index[rec.samples[Max(s)].id],
                                              rec.samples[Max(s)].samples)
<1> DEFINE Eq(g) == g = [s \in SUBSET DOMAIN rec.samples |-> IF s = {} THEN mem
    ELSE Step(g, s)]
<1> DEFINE it == CHOOSE g : Eq(g)
<1>1. F \in [Memory \X Known(mem) -> Memory]
  <2>1. \A id \in DOMAIN mem.index : mem.index[id] \in Labels
    BY DEF Memory
  <2> QED BY <2>1, AppendSamplesType DEF Known
<1>b. mem \in Memory
  OBVIOUS
<1>2. \A a \in Memory, b \in Known(mem) :
        F[<<a, b>>] = AppendSamples(a, mem.index[b.id], b.samples)
  OBVIOUS
<1> HIDE DEF F
<1>3. Foldable(Memory, Known(mem), mem, F, rec.samples)
  BY <1>1, <1>b, Zenon DEF Foldable
<1>4. Eq(it)
  <2>1. PICK g : Values(g, Memory, Known(mem), mem, F, rec.samples)
    BY <1>3, Iterates
  <2>2. \A s \in SUBSET DOMAIN rec.samples : g[s] = IF s = {} THEN mem ELSE Step(g, s)
    BY <1>2, <2>1 DEF Values
  <2>3. Eq(g)
    BY <2>1, <2>2, Zenon DEF Values
  <2> QED BY <2>3, Zenon
<1>5. AppendAll(mem, rec) = it[DOMAIN rec.samples]
  BY Zenon DEF AppendAll, FoldLeft, MapThenFoldSet
<1> HIDE DEF it
<1>6. \A s \in SUBSET DOMAIN rec.samples : it[s] = IF s = {} THEN mem ELSE Step(it, s)
  BY <1>4
<1>7. Iteration(it, Memory, Known(mem), mem, F, rec.samples)
  BY <1>2, <1>6 DEF Iteration
<1>8. PICK r : Run(r, Memory, Known(mem), mem, F, rec.samples) /\ r[Len(rec.samples)]
    = it[DOMAIN rec.samples]
  BY <1>3, <1>7, Unrolled
<1>9. ASSUME NEW i \in 1 .. Len(rec.samples) PROVE r[i]
    = AppendSamples(r[i - 1], mem.index[rec.samples[i].id],
                                          rec.samples[i].samples)
  <2>1. r[i - 1] \in Memory /\ rec.samples[i] \in Known(mem) /\ r[i]
      = F[<<r[i - 1], rec.samples[i]>>]
    BY <1>8 DEF Run
  <2> QED BY <1>2, <2>1, Zenon
<1> QED BY <1>5, <1>8, <1>9, Zenon DEF Run

LEMMA LoadOneType ==
    ASSUME NEW mem \in Memory, NEW l \in Labels, NEW t \in Nat
    PROVE  [Encode(mem, l) EXCEPT !.newest[l] = t] \in Memory
<1>1. Encode(mem, l) \in Memory
  BY EncodeType
<1> QED BY <1>1 DEF Memory

\* LoadSegment series by series.
LEMMA LoadSegmentRun ==
    ASSUME NEW mem \in Memory, NEW seg \in Segment
    PROVE  \E r \in [0 .. Len(seg.order) -> Memory] :
               /\ r[0] = mem /\ r[Len(seg.order)] = LoadSegment(mem, seg)
               /\ \A i \in 1 .. Len(seg.order) :
                     r[i] = [Encode(r[i - 1], seg.order[i]) EXCEPT
                               !.newest[seg.order[i]] = Last(seg.data[seg.order[i]])[1]]
<1>s. seg.order \in Seq(Held(seg))
  BY DEF Segment, Held
<1> DEFINE F == [p \in Memory \X Held(seg) |->
                      [Encode(p[1], p[2])
                          EXCEPT !.newest[p[2]] = Last(seg.data[p[2]])[1]]]
<1> DEFINE Step(g, s) == [Encode(g[s \ {Max(s)}], seg.order[Max(s)])
                               EXCEPT !.newest[seg.order[Max(s)]]
                                   = Last(seg.data[seg.order[Max(s)]])[1]]
<1> DEFINE Eq(g) == g = [s \in SUBSET DOMAIN seg.order |-> IF s = {} THEN mem
    ELSE Step(g, s)]
<1> DEFINE it == CHOOSE g : Eq(g)
<1>1. F \in [Memory \X Held(seg) -> Memory]
  <2>1. ASSUME NEW l \in Labels, seg.data[l] # <<>> PROVE Last(seg.data[l])[1] \in Nat
    <3>1. seg.data[l] \in Seq(Sample)
      BY DEF Segment
    <3>2. Last(seg.data[l]) \in Sample
      BY <2>1, <3>1 DEF Last
    <3> QED BY <3>2 DEF Sample
  <2> QED BY <1>s, <2>1, LoadOneType DEF Held
<1>b. mem \in Memory /\ seg.order \in Seq(Held(seg))
  BY <1>s
<1>2. \A a \in Memory, b \in Held(seg) :
        F[<<a, b>>] = [Encode(a, b) EXCEPT !.newest[b] = Last(seg.data[b])[1]]
  OBVIOUS
<1> HIDE DEF F
<1>3. Foldable(Memory, Held(seg), mem, F, seg.order)
  BY <1>1, <1>b, Zenon DEF Foldable
<1>4. Eq(it)
  <2>1. PICK g : Values(g, Memory, Held(seg), mem, F, seg.order)
    BY <1>3, Iterates
  <2>2. \A s \in SUBSET DOMAIN seg.order : g[s] = IF s = {} THEN mem ELSE Step(g, s)
    BY <1>2, <2>1, Zenon DEF Values
  <2>3. Eq(g)
    BY <2>1, <2>2, Zenon DEF Values
  <2> QED BY <2>3, Zenon
<1>5. LoadSegment(mem, seg) = it[DOMAIN seg.order]
  BY Zenon DEF LoadSegment, FoldLeft, MapThenFoldSet
<1> HIDE DEF it
<1>6. \A s \in SUBSET DOMAIN seg.order : it[s] = IF s = {} THEN mem ELSE Step(it, s)
  BY <1>4, Zenon
<1>7. Iteration(it, Memory, Held(seg), mem, F, seg.order)
  BY <1>2, <1>6 DEF Iteration
<1>8. PICK r : Run(r, Memory, Held(seg), mem, F, seg.order) /\ r[Len(seg.order)]
    = it[DOMAIN seg.order]
  BY <1>3, <1>7, Unrolled
<1>9. ASSUME NEW i \in 1 .. Len(seg.order) PROVE r[i]
    = [Encode(r[i - 1], seg.order[i]) EXCEPT
                               !.newest[seg.order[i]] = Last(seg.data[seg.order[i]])[1]]
  <2>1. r[i - 1] \in Memory /\ seg.order[i] \in Held(seg) /\ r[i]
      = F[<<r[i - 1], seg.order[i]>>]
    BY <1>8 DEF Run
  <2> QED BY <1>2, <2>1, Zenon
<1> QED BY <1>5, <1>8, <1>9, Zenon DEF Run

\* A set of the functions from some numbers to S.
LEMMA Partial ==
    ASSUME NEW S, NEW D \in SUBSET Nat, NEW f \in [D -> S]
    PROVE  f \in Partly(S)
BY DEF Partly

\* What one segment adds to a series.
LEMMA PartialIs ==
    ASSUME NEW S, NEW f \in Partly(S)
    PROVE  DOMAIN f \in SUBSET Nat /\ f \in [DOMAIN f -> S]
BY DEF Partly

LEMMA LoadSegmentType ==
    ASSUME NEW mem \in Memory, NEW seg \in Segment
    PROVE  LoadSegment(mem, seg) \in Memory
<1>1. Len(seg.order) \in 0 .. Len(seg.order)
  BY DEF Segment
<1> QED BY <1>1, LoadSegmentRun

LEMMA NoMemoryType == NoMemory \in Memory
BY DEF NoMemory, Memory

\* Loaded segment by segment.
LEMMA LoadedRun ==
    ASSUME NEW q \in Seq(Segment)
    PROVE  \E r \in [0 .. Len(q) -> Memory] :
               /\ r[0] = NoMemory /\ r[Len(q)] = LoadedFrom(q)
               /\ \A i \in 1 .. Len(q) :
                     r[i] = LoadSegment(r[i - 1], q[i])
<1> DEFINE F == [p \in Memory \X Segment |-> LoadSegment(p[1], p[2])]
<1> DEFINE Step(g, s) == LoadSegment(g[s \ {Max(s)}], q[Max(s)])
<1> DEFINE Eq(g) == g = [s \in SUBSET DOMAIN q |-> IF s = {} THEN NoMemory
    ELSE Step(g, s)]
<1> DEFINE it == CHOOSE g : Eq(g)
<1>1. F \in [Memory \X Segment -> Memory]
  BY LoadSegmentType
<1>b. NoMemory \in Memory
  BY NoMemoryType
<1>2. \A a \in Memory, b \in Segment : F[<<a, b>>] = LoadSegment(a, b)
  OBVIOUS
<1> HIDE DEF F
<1>3. Foldable(Memory, Segment, NoMemory, F, q)
  BY <1>1, <1>b, Zenon DEF Foldable
<1>4. Eq(it)
  <2>1. PICK g : Values(g, Memory, Segment, NoMemory, F, q)
    BY <1>3, Iterates
  <2>2. \A s \in SUBSET DOMAIN q : g[s] = IF s = {} THEN NoMemory ELSE Step(g, s)
    BY <1>2, <2>1 DEF Values
  <2>3. Eq(g)
    BY <2>1, <2>2, Zenon DEF Values
  <2> QED BY <2>3, Zenon
<1>5. LoadedFrom(q) = it[DOMAIN q]
  BY Zenon DEF LoadedFrom, FoldLeft, MapThenFoldSet
<1> HIDE DEF it
<1>6. \A s \in SUBSET DOMAIN q : it[s] = IF s = {} THEN NoMemory ELSE Step(it, s)
  BY <1>4
<1>7. Iteration(it, Memory, Segment, NoMemory, F, q)
  BY <1>2, <1>6 DEF Iteration
<1>8. PICK r : Run(r, Memory, Segment, NoMemory, F, q) /\ r[Len(q)] = it[DOMAIN q]
  BY <1>3, <1>7, Unrolled
<1>9. ASSUME NEW i \in 1 .. Len(q) PROVE r[i] = LoadSegment(r[i - 1], q[i])
  <2>1. r[i - 1] \in Memory /\ q[i] \in Segment /\ r[i] = F[<<r[i - 1], q[i]>>]
    BY <1>8 DEF Run
  <2> QED BY <1>2, <2>1, Zenon
<1> QED BY <1>5, <1>8, <1>9, Zenon DEF Run

LEMMA ApplySeriesType ==
    ASSUME NEW state \in Resolver, NEW e \in IdSeries
    PROVE  ApplySeries(state, e) \in Resolver
<1>1. /\ state.m \in Memory
      /\ DOMAIN state.ids \in SUBSET Nat /\ state.ids \in [DOMAIN state.ids -> Labels]
      /\ DOMAIN state.pending \in SUBSET Nat
      /\ state.pending \in [DOMAIN state.pending -> Seq(Sample)]
  BY PartialIs DEF Resolver
<1>2. e.id \in Nat /\ e.labels \in Labels
  BY DEF IdSeries
<1> DEFINE parked == IF e.id \in DOMAIN state.pending THEN state.pending[e.id] ELSE <<>>
<1> DEFINE ids == [i \in DOMAIN state.ids \cup {e.id} |->
                     IF i = e.id THEN e.labels ELSE state.ids[i]]
<1> DEFINE pending == [i \in DOMAIN state.pending \ {e.id} |-> state.pending[i]]
<1>3. parked \in Seq(Sample)
  BY <1>1
<1>4. AppendSamples(Encode(state.m, e.labels), e.labels, parked) \in Memory
  BY <1>1, <1>2, <1>3, EncodeType, AppendSamplesType
<1>5. ids \in [DOMAIN state.ids \cup {e.id} -> Labels]
      /\ DOMAIN state.ids \cup {e.id} \in SUBSET Nat
  BY <1>1, <1>2
<1>6. pending \in [DOMAIN state.pending \ {e.id} -> Seq(Sample)]
      /\ DOMAIN state.pending \ {e.id} \in SUBSET Nat
  BY <1>1
<1>7. /\ ids \in Partly(Labels)
      /\ pending \in Partly(Seq(Sample))
  BY <1>5, <1>6, Partial
<1> QED BY <1>4, <1>7 DEF ApplySeries, Resolver

LEMMA ApplySamplesType ==
    ASSUME NEW state \in Resolver, NEW e \in IdEntry
    PROVE  ApplySamples(state, e) \in Resolver
<1>1. /\ state.m \in Memory
      /\ DOMAIN state.ids \in SUBSET Nat /\ state.ids \in [DOMAIN state.ids -> Labels]
      /\ DOMAIN state.pending \in SUBSET Nat
      /\ state.pending \in [DOMAIN state.pending -> Seq(Sample)]
  BY PartialIs DEF Resolver
<1>2. e.id \in Nat /\ e.samples \in Seq(Sample)
  BY DEF IdEntry
<1>3. CASE e.id \in DOMAIN state.ids
  <2>1. AppendSamples(state.m, state.ids[e.id], e.samples) \in Memory
    BY <1>1, <1>2, <1>3, AppendSamplesType
  <2>2. [state
      EXCEPT !.m = AppendSamples(state.m, state.ids[e.id], e.samples)] \in Resolver
    BY <2>1 DEF Resolver
  <2> QED BY <1>3, <2>2 DEF ApplySamples
<1>4. CASE e.id \notin DOMAIN state.ids
  <2> DEFINE pending == [i \in DOMAIN state.pending \cup {e.id} |->
                 (IF i \in DOMAIN state.pending THEN state.pending[i] ELSE <<>>)
                 \o (IF i = e.id THEN e.samples ELSE <<>>)]
  <2>1. pending \in [DOMAIN state.pending \cup {e.id} -> Seq(Sample)]
        /\ DOMAIN state.pending \cup {e.id} \in SUBSET Nat
    BY <1>1, <1>2
  <2>2. pending \in Partly(Seq(Sample))
    BY <2>1, Partial
  <2>3. [state EXCEPT !.pending = pending] \in Resolver
    BY <2>2 DEF Resolver
  <2> QED BY <1>4, <2>3 DEF ApplySamples
<1> QED BY <1>3, <1>4

\* The series of a record, one by one.
LEMMA ApplySeriesRun ==
    ASSUME NEW state \in Resolver, NEW q \in Seq(IdSeries)
    PROVE  \E r \in [0 .. Len(q) -> Resolver] :
               /\ r[0] = state /\ r[Len(q)] = SeriesApplied(state, q)
               /\ \A i \in 1 .. Len(q) :
                     r[i] = ApplySeries(r[i - 1], q[i])
<1> DEFINE F == [p \in Resolver \X IdSeries |-> ApplySeries(p[1], p[2])]
<1> DEFINE Step(g, s) == ApplySeries(g[s \ {Max(s)}], q[Max(s)])
<1> DEFINE Eq(g) == g = [s \in SUBSET DOMAIN q |-> IF s = {} THEN state ELSE Step(g, s)]
<1> DEFINE it == CHOOSE g : Eq(g)
<1>1. F \in [Resolver \X IdSeries -> Resolver]
  BY ApplySeriesType
<1>b. state \in Resolver
  OBVIOUS
<1>2. \A a \in Resolver, b \in IdSeries : F[<<a, b>>] = ApplySeries(a, b)
  OBVIOUS
<1> HIDE DEF F
<1>3. Foldable(Resolver, IdSeries, state, F, q)
  BY <1>1, <1>b, Zenon DEF Foldable
<1>4. Eq(it)
  <2>1. PICK g : Values(g, Resolver, IdSeries, state, F, q)
    BY <1>3, Iterates
  <2>2. \A s \in SUBSET DOMAIN q : g[s] = IF s = {} THEN state ELSE Step(g, s)
    BY <1>2, <2>1 DEF Values
  <2>3. Eq(g)
    BY <2>1, <2>2, Zenon DEF Values
  <2> QED BY <2>3, Zenon
<1>5. SeriesApplied(state, q) = it[DOMAIN q]
  BY Zenon DEF SeriesApplied, FoldLeft, MapThenFoldSet
<1> HIDE DEF it
<1>6. \A s \in SUBSET DOMAIN q : it[s] = IF s = {} THEN state ELSE Step(it, s)
  BY <1>4
<1>7. Iteration(it, Resolver, IdSeries, state, F, q)
  BY <1>2, <1>6 DEF Iteration
<1>8. PICK r : Run(r, Resolver, IdSeries, state, F, q) /\ r[Len(q)] = it[DOMAIN q]
  BY <1>3, <1>7, Unrolled
<1>9. ASSUME NEW i \in 1 .. Len(q) PROVE r[i] = ApplySeries(r[i - 1], q[i])
  <2>1. r[i - 1] \in Resolver /\ q[i] \in IdSeries /\ r[i] = F[<<r[i - 1], q[i]>>]
    BY <1>8 DEF Run
  <2> QED BY <1>2, <2>1, Zenon
<1> QED BY <1>5, <1>8, <1>9, Zenon DEF Run

\* The samples of a record, entry by entry.
LEMMA ApplySamplesRun ==
    ASSUME NEW state \in Resolver, NEW q \in Seq(IdEntry)
    PROVE  \E r \in [0 .. Len(q) -> Resolver] :
               /\ r[0] = state /\ r[Len(q)] = SamplesApplied(state, q)
               /\ \A i \in 1 .. Len(q) :
                     r[i] = ApplySamples(r[i - 1], q[i])
<1> DEFINE F == [p \in Resolver \X IdEntry |-> ApplySamples(p[1], p[2])]
<1> DEFINE Step(g, s) == ApplySamples(g[s \ {Max(s)}], q[Max(s)])
<1> DEFINE Eq(g) == g = [s \in SUBSET DOMAIN q |-> IF s = {} THEN state ELSE Step(g, s)]
<1> DEFINE it == CHOOSE g : Eq(g)
<1>1. F \in [Resolver \X IdEntry -> Resolver]
  BY ApplySamplesType
<1>b. state \in Resolver
  OBVIOUS
<1>2. \A a \in Resolver, b \in IdEntry : F[<<a, b>>] = ApplySamples(a, b)
  OBVIOUS
<1> HIDE DEF F
<1>3. Foldable(Resolver, IdEntry, state, F, q)
  BY <1>1, <1>b, Zenon DEF Foldable
<1>4. Eq(it)
  <2>1. PICK g : Values(g, Resolver, IdEntry, state, F, q)
    BY <1>3, Iterates
  <2>2. \A s \in SUBSET DOMAIN q : g[s] = IF s = {} THEN state ELSE Step(g, s)
    BY <1>2, <2>1 DEF Values
  <2>3. Eq(g)
    BY <2>1, <2>2, Zenon DEF Values
  <2> QED BY <2>3, Zenon
<1>5. SamplesApplied(state, q) = it[DOMAIN q]
  BY Zenon DEF SamplesApplied, FoldLeft, MapThenFoldSet
<1> HIDE DEF it
<1>6. \A s \in SUBSET DOMAIN q : it[s] = IF s = {} THEN state ELSE Step(it, s)
  BY <1>4
<1>7. Iteration(it, Resolver, IdEntry, state, F, q)
  BY <1>2, <1>6 DEF Iteration
<1>8. PICK r : Run(r, Resolver, IdEntry, state, F, q) /\ r[Len(q)] = it[DOMAIN q]
  BY <1>3, <1>7, Unrolled
<1>9. ASSUME NEW i \in 1 .. Len(q) PROVE r[i] = ApplySamples(r[i - 1], q[i])
  <2>1. r[i - 1] \in Resolver /\ q[i] \in IdEntry /\ r[i] = F[<<r[i - 1], q[i]>>]
    BY <1>8 DEF Run
  <2> QED BY <1>2, <2>1, Zenon
<1> QED BY <1>5, <1>8, <1>9, Zenon DEF Run

LEMMA ApplyRecordType ==
    ASSUME NEW state \in Resolver, NEW rec \in LogRecord
    PROVE  ApplyRecord(state, rec) \in Resolver
<1>1. rec.series \in Seq(IdSeries) /\ rec.samples \in Seq(IdEntry)
  BY DEF LogRecord
<1>2. Len(rec.series) \in 0 .. Len(rec.series)
    /\ Len(rec.samples) \in 0 .. Len(rec.samples)
  BY <1>1
<1>3. SeriesApplied(state, rec.series) \in Resolver
  BY <1>1, <1>2, ApplySeriesRun
<1>4. SamplesApplied(SeriesApplied(state, rec.series), rec.samples) \in Resolver
  BY <1>1, <1>2, <1>3, ApplySamplesRun
<1> QED BY <1>4 DEF ApplyRecord, SeriesApplied, SamplesApplied

\* A replay record by record.
LEMMA ReplayedRun ==
    ASSUME NEW state \in Resolver, NEW recs \in Seq(LogRecord)
    PROVE  \E r \in [0 .. Len(recs) -> Resolver] :
               /\ r[0] = state /\ r[Len(recs)] = RecordsApplied(state, recs)
               /\ \A i \in 1 .. Len(recs) :
                     r[i] = ApplyRecord(r[i - 1], recs[i])
<1> DEFINE F == [p \in Resolver \X LogRecord |-> ApplyRecord(p[1], p[2])]
<1> DEFINE Step(g, s) == ApplyRecord(g[s \ {Max(s)}], recs[Max(s)])
<1> DEFINE Eq(g) == g = [s \in SUBSET DOMAIN recs |-> IF s = {} THEN state
    ELSE Step(g, s)]
<1> DEFINE it == CHOOSE g : Eq(g)
<1>1. F \in [Resolver \X LogRecord -> Resolver]
  BY ApplyRecordType
<1>b. state \in Resolver
  OBVIOUS
<1>2. \A a \in Resolver, b \in LogRecord : F[<<a, b>>] = ApplyRecord(a, b)
  OBVIOUS
<1> HIDE DEF F
<1>3. Foldable(Resolver, LogRecord, state, F, recs)
  BY <1>1, <1>b, Zenon DEF Foldable
<1>4. Eq(it)
  <2>1. PICK g : Values(g, Resolver, LogRecord, state, F, recs)
    BY <1>3, Iterates
  <2>2. \A s \in SUBSET DOMAIN recs : g[s] = IF s = {} THEN state ELSE Step(g, s)
    BY <1>2, <2>1 DEF Values
  <2>3. Eq(g)
    BY <2>1, <2>2, Zenon DEF Values
  <2> QED BY <2>3, Zenon
<1>5. RecordsApplied(state, recs) = it[DOMAIN recs]
  BY Zenon DEF RecordsApplied, FoldLeft, MapThenFoldSet
<1> HIDE DEF it
<1>6. \A s \in SUBSET DOMAIN recs : it[s] = IF s = {} THEN state ELSE Step(it, s)
  BY <1>4
<1>7. Iteration(it, Resolver, LogRecord, state, F, recs)
  BY <1>2, <1>6 DEF Iteration
<1>8. PICK r : Run(r, Resolver, LogRecord, state, F, recs) /\ r[Len(recs)]
    = it[DOMAIN recs]
  BY <1>3, <1>7, Unrolled
<1>9. ASSUME NEW i \in 1 .. Len(recs) PROVE r[i] = ApplyRecord(r[i - 1], recs[i])
  <2>1. r[i - 1] \in Resolver /\ recs[i] \in LogRecord /\ r[i]
      = F[<<r[i - 1], recs[i]>>]
    BY <1>8 DEF Run
  <2> QED BY <1>2, <2>1, Zenon
<1> QED BY <1>5, <1>8, <1>9, Zenon DEF Run

\* The sum BufferedExact is about.
LEMMA SumRun ==
    ASSUME NEW samples \in [Labels -> Seq(Sample)], NEW q \in Seq(Labels)
    PROVE  \E r \in [0 .. Len(q) -> Nat] :
               /\ r[0] = 0 /\ r[Len(q)] = Total(samples, q)
               /\ \A i \in 1 .. Len(q) :
                     r[i] = r[i - 1] + Len(samples[q[i]])
<1> DEFINE F == [p \in Nat \X Labels |-> p[1] + Len(samples[p[2]])]
<1> DEFINE Step(g, s) == g[s \ {Max(s)}] + Len(samples[q[Max(s)]])
<1> DEFINE Eq(g) == g = [s \in SUBSET DOMAIN q |-> IF s = {} THEN 0 ELSE Step(g, s)]
<1> DEFINE it == CHOOSE g : Eq(g)
<1>1. F \in [Nat \X Labels -> Nat]
  OBVIOUS
<1>b. 0 \in Nat
  OBVIOUS
<1>2. \A a \in Nat, b \in Labels : F[<<a, b>>] = a + Len(samples[b])
  OBVIOUS
<1> HIDE DEF F
<1>3. Foldable(Nat, Labels, 0, F, q)
  BY <1>1, <1>b, Zenon DEF Foldable
<1>4. Eq(it)
  <2>1. PICK g : Values(g, Nat, Labels, 0, F, q)
    BY <1>3, Iterates
  <2>2. \A s \in SUBSET DOMAIN q : g[s] = IF s = {} THEN 0 ELSE Step(g, s)
    BY <1>2, <2>1 DEF Values
  <2>3. Eq(g)
    BY <2>1, <2>2, Zenon DEF Values
  <2> QED BY <2>3, Zenon
<1>5. Total(samples, q) = it[DOMAIN q]
  BY Zenon DEF Total, FoldLeft, MapThenFoldSet
<1> HIDE DEF it
<1>6. \A s \in SUBSET DOMAIN q : it[s] = IF s = {} THEN 0 ELSE Step(it, s)
  BY <1>4
<1>7. Iteration(it, Nat, Labels, 0, F, q)
  BY <1>2, <1>6 DEF Iteration
<1>8. PICK r : Run(r, Nat, Labels, 0, F, q) /\ r[Len(q)] = it[DOMAIN q]
  BY <1>3, <1>7, Unrolled
<1>9. ASSUME NEW i \in 1 .. Len(q) PROVE r[i] = r[i - 1] + Len(samples[q[i]])
  <2>1. r[i - 1] \in Nat /\ q[i] \in Labels /\ r[i] = F[<<r[i - 1], q[i]>>]
    BY <1>8 DEF Run
  <2> QED BY <1>2, <2>1, Zenon
<1> QED BY <1>5, <1>8, <1>9, Zenon DEF Run

-----------------------------------------------------------------------------
(* Memory. *)

\* The index lists no series twice, and no samples are kept outside it.
Indexed(mem) ==
    /\ \A i, j \in DOMAIN mem.index : mem.index[i] = mem.index[j] => i = j
    /\ \A l \in Labels : mem.samples[l] # <<>> => l \in Range(mem.index)

\* What Db::write counts in buffered_samples: the samples of every series.
Counted(mem) == mem.buffered = Total(mem.samples, mem.index)

\* The samples of each series rise from the last one in the segments (base),
\* and last_timestamp is the newest of them.
GoesOn(mem, base) ==
    \A l \in Labels : LET ss == mem.samples[l] IN
        /\ \A i \in 1 .. Len(ss) - 1 : ss[i][1] < ss[i + 1][1]
        /\ ss # <<>> => ss[1][1] > base[l]
        /\ mem.newest[l] = IF ss = <<>> THEN base[l] ELSE Last(ss)[1]

\* All of it.
Sound(mem, base) ==
    /\ mem \in Memory /\ Indexed(mem) /\ Counted(mem) /\ GoesOn(mem, base)

\* Ranges of sequences.
LEMMA RangeIs ==
    ASSUME NEW S, NEW q \in Seq(S)
    PROVE  /\ Range(q) = {q[i] : i \in 1 .. Len(q)} /\ Range(q) \subseteq S
BY DEF Range

LEMMA RangeAppend ==
    ASSUME NEW S, NEW q \in Seq(S), NEW x \in S
    PROVE  Range(Append(q, x)) = Range(q) \cup {x}
<1>1. Range(q) = {q[i] : i \in 1 .. Len(q)}
      /\ Range(Append(q, x)) = {Append(q, x)[i] : i \in 1 .. Len(q) + 1}
  BY DEF Range
<1>2. ASSUME NEW i \in 1 .. Len(q) + 1
      PROVE  Append(q, x)[i] = IF i = Len(q) + 1 THEN x ELSE q[i]
  OBVIOUS
<1>3. \A i \in 1 .. Len(q) : i \in 1 .. Len(q) + 1 /\ i # Len(q) + 1
  OBVIOUS
<1>4. Len(q) + 1 \in 1 .. Len(q) + 1 /\ \A i \in 1 .. Len(q) + 1 : i # Len(q) + 1
      => i \in 1 .. Len(q)
  OBVIOUS
<1> QED BY <1>1, <1>2, <1>3, <1>4

\* The sum over a longer index, ...
LEMMA TotalAppend ==
    ASSUME NEW samples \in [Labels -> Seq(Sample)], NEW q \in Seq(Labels),
           NEW l \in Labels
    PROVE  Total(samples, Append(q, l)) = Total(samples, q) + Len(samples[l])
<1> DEFINE p == Append(q, l)
<1>1. Len(q) \in Nat /\ p \in Seq(Labels) /\ Len(p) = Len(q) + 1 /\ p[Len(q) + 1] = l
      /\ \A i \in 1 .. Len(q) : p[i] = q[i]
  OBVIOUS
<1>2. PICK r \in [0 .. Len(q) -> Nat] :
               /\ r[0] = 0 /\ r[Len(q)] = Total(samples, q)
               /\ \A i \in 1 .. Len(q) : r[i] = r[i - 1] + Len(samples[q[i]])
  BY SumRun
<1> HIDE DEF p
<1>3. PICK t \in [0 .. Len(p) -> Nat] :
               /\ t[0] = 0 /\ t[Len(p)] = Total(samples, p)
               /\ \A i \in 1 .. Len(p) : t[i] = t[i - 1] + Len(samples[p[i]])
  BY <1>1, SumRun
<1> DEFINE G == {k \in 0 .. Len(q) : r[k] = t[k]}
<1>4. 0 \in G
  BY <1>1, <1>2, <1>3
<1>5. ASSUME NEW i \in 1 .. Len(q), i - 1 \in G PROVE i \in G
  <2>1. /\ r[i] = r[i - 1] + Len(samples[q[i]])
        /\ t[i] = t[i - 1] + Len(samples[p[i]]) /\ p[i] = q[i]
    <3>1. i \in 1 .. Len(p)
      BY <1>1
    <3>2. p[i] = q[i]
      BY <1>1
    <3> QED BY <1>2, <1>3, <3>1, <3>2, Zenon
  <2> QED BY <1>5, <2>1
<1> HIDE DEF G
<1>6. Len(q) \in G
  BY <1>5, UpTo, <1>4
<1>7. t[Len(q) + 1] = t[Len(q)] + Len(samples[p[Len(q) + 1]])
  <2>1. Len(q) + 1 \in 1 .. Len(p) /\ (Len(q) + 1) - 1 = Len(q)
    BY <1>1
  <2> QED BY <1>3, <2>1
<1>8. r[Len(q)] = t[Len(q)]
  BY <1>6 DEF G
<1>9. Total(samples, p) = t[Len(q) + 1]
  BY <1>1, <1>3
<1> QED BY <1>1, <1>2, <1>7, <1>8, <1>9 DEF p

\* r has the sums of x.
Sums(r, x, n) == \A i \in 1 .. n : r[i] = r[i - 1] + x[i]

\* Sums of which one term is larger by 1.
LEMMA SumsDiffer ==
    ASSUME NEW n \in Nat, NEW k \in 1 .. n,
           NEW r \in [0 .. n -> Nat], NEW t \in [0 .. n -> Nat], r[0] = t[0],
           NEW x \in [1 .. n -> Nat], NEW y \in [1 .. n -> Nat],
           y[k] = x[k] + 1, \A i \in 1 .. n : i # k => y[i] = x[i],
           Sums(r, x, n), Sums(t, y, n)
    PROVE  t[n] = r[n] + 1
<1> DEFINE G == {i \in 0 .. n : t[i] = r[i] + (IF i >= k THEN 1 ELSE 0)}
<1>1. 0 \in G
  OBVIOUS
<1>2. ASSUME NEW i \in 1 .. n, i - 1 \in G PROVE i \in G
  <2>1. i - 1 \in 0 .. n /\ i \in 0 .. n
    OBVIOUS
  <2>2. t[i - 1] = r[i - 1] + (IF i - 1 >= k THEN 1 ELSE 0) /\ r[i - 1] \in Nat
    BY <1>2, <2>1
  <2>3. y[i] = x[i] + (IF i = k THEN 1 ELSE 0) /\ x[i] \in Nat
    OBVIOUS
  <2>4. r[i] = r[i - 1] + x[i] /\ t[i] = t[i - 1] + y[i]
    BY DEF Sums
  <2>5. i \in Nat /\ k \in Nat /\ (i - 1 >= k <=> i > k)
    OBVIOUS
  <2>9. r[i - 1] \in Nat /\ x[i] \in Nat
    BY <2>2, <2>3
  <2> HIDE DEF G
  <2>6. CASE i = k
    <3>1. t[i - 1] = r[i - 1] /\ y[i] = x[i] + 1
      BY <2>2, <2>3, <2>5, <2>6
    <3>2. \A a, b \in Nat : a + (b + 1) = (a + b) + 1
      OBVIOUS
    <3>3. t[i] = r[i] + 1
      BY <2>4, <2>9, <3>1, <3>2, Zenon
    <3> QED BY <2>1, <2>5, <2>6, <3>3 DEF G
  <2>7. CASE i > k
    <3>1. t[i - 1] = r[i - 1] + 1 /\ y[i] = x[i]
      BY <2>2, <2>3, <2>5, <2>7
    <3>2. t[i] = r[i] + 1
      BY <2>4, <2>9, <3>1
    <3> QED BY <2>1, <2>5, <2>7, <3>2 DEF G
  <2>8. CASE i < k
    <3>1. t[i - 1] = r[i - 1] /\ y[i] = x[i]
      BY <2>2, <2>3, <2>5, <2>8
    <3>2. t[i] = r[i]
      BY <2>4, <3>1
    <3> QED BY <2>1, <2>5, <2>8, <3>2 DEF G
  <2> QED BY <2>5, <2>6, <2>7, <2>8
<1> HIDE DEF G
<1>3. n \in G
  BY <1>1, <1>2, UpTo
<1> QED BY <1>3 DEF G

\* ... with one more sample of a label that the index has once, ...
LEMMA TotalMore ==
    ASSUME NEW samples \in [Labels -> Seq(Sample)], NEW q \in Seq(Labels),
           NEW k \in DOMAIN q, \A i \in DOMAIN q : q[i] = q[k] => i = k,
           NEW s \in Sample
    PROVE  Total([samples EXCEPT ![q[k]] = Append(@, s)], q) = Total(samples, q) + 1
<1> DEFINE more == [samples EXCEPT ![q[k]] = Append(@, s)]
<1>1. /\ Len(q) \in Nat /\ k \in 1 .. Len(q) /\ q[k] \in Labels
      /\ more \in [Labels -> Seq(Sample)]
  OBVIOUS
<1>2. \A i \in 1 .. Len(q) : Len(samples[q[i]]) \in Nat /\ (i # k => q[i] # q[k])
  OBVIOUS
<1>3. Len(more[q[k]]) = Len(samples[q[k]]) + 1
  <2>1. more[q[k]] = Append(samples[q[k]], s) /\ samples[q[k]] \in Seq(Sample)
    BY <1>1
  <2> QED BY <2>1
<1>4. \A i \in 1 .. Len(q) : i # k => more[q[i]] = samples[q[i]]
  BY <1>1, <1>2
<1>5. PICK r \in [0 .. Len(q) -> Nat] :
               /\ r[0] = 0 /\ r[Len(q)] = Total(samples, q)
               /\ \A i \in 1 .. Len(q) : r[i] = r[i - 1] + Len(samples[q[i]])
  BY SumRun
<1> HIDE DEF more
<1>6. PICK t \in [0 .. Len(q) -> Nat] :
               /\ t[0] = 0 /\ t[Len(q)] = Total(more, q)
               /\ \A i \in 1 .. Len(q) : t[i] = t[i - 1] + Len(more[q[i]])
  BY <1>1, SumRun
<1> DEFINE x == [i \in 1 .. Len(q) |-> Len(samples[q[i]])]
<1> DEFINE y == [i \in 1 .. Len(q) |-> Len(more[q[i]])]
<1>7. x \in [1 .. Len(q) -> Nat] /\ y \in [1 .. Len(q) -> Nat]
  BY <1>1, <1>2, <1>3, <1>4, SMTT(30)
<1>8. y[k] = x[k] + 1 /\ \A i \in 1 .. Len(q) : i # k => y[i] = x[i]
  BY <1>1, <1>3, <1>4
<1>9. Sums(r, x, Len(q)) /\ Sums(t, y, Len(q))
  BY <1>5, <1>6 DEF Sums
<1> HIDE DEF x, y
<1>10. t[Len(q)] = r[Len(q)] + 1
  <2>1. r[0] = t[0]
    BY <1>5, <1>6
  <2> QED BY <2>1, <1>1, <1>7, <1>8, <1>9, SumsDiffer
<1> QED BY <1>5, <1>6, <1>10 DEF more

\* ... and with no samples.
LEMMA TotalNone ==
    ASSUME NEW samples \in [Labels -> Seq(Sample)], NEW q \in Seq(Labels),
           \A l \in Labels : samples[l] = <<>>
    PROVE  Total(samples, q) = 0
<1>1. PICK r \in [0 .. Len(q) -> Nat] :
               /\ r[0] = 0 /\ r[Len(q)] = Total(samples, q)
               /\ \A i \in 1 .. Len(q) : r[i] = r[i - 1] + Len(samples[q[i]])
  BY SumRun
<1> DEFINE G == {i \in 0 .. Len(q) : r[i] = 0}
<1>2. 0 \in G /\ Len(q) \in Nat
  BY <1>1
<1>3. \A i \in 1 .. Len(q) : i - 1 \in G => i \in G
  <2> SUFFICES ASSUME NEW i \in 1 .. Len(q), i - 1 \in G PROVE i \in G
    OBVIOUS
  <2>1. q[i] \in Labels /\ Len(samples[q[i]]) = 0
    OBVIOUS
  <2> QED BY <1>1, <2>1
<1> HIDE DEF G
<1>4. Len(q) \in G
  BY <1>2, <1>3, UpTo
<1> QED BY <1>1, <1>4 DEF G

\* The parts of memory.
LEMMA MemoryHas ==
    ASSUME NEW mem \in Memory
    PROVE  /\ mem.index \in Seq(Labels) /\ mem.samples \in [Labels -> Seq(Sample)]
           /\ mem.newest \in [Labels -> Nat] /\ mem.buffered \in Nat
           /\ Range(mem.index) = {mem.index[i] : i \in 1 .. Len(mem.index)}
           /\ Range(mem.index) \subseteq Labels
BY RangeIs DEF Memory

\* Encode touches the index only, ...
LEMMA EncodeIs ==
    ASSUME NEW mem \in Memory, NEW l \in Labels
    PROVE  LET new == Encode(mem, l) IN
           /\ new \in Memory /\ Range(new.index) = Range(mem.index) \cup {l}
           /\ new.index
                 = IF l \in Range(mem.index) THEN mem.index ELSE Append(mem.index, l)
           /\ new.samples = mem.samples /\ new.newest = mem.newest
           /\ new.buffered = mem.buffered
<1>1. CASE l \in Range(mem.index)
  BY <1>1 DEF Encode
<1>2. CASE l \notin Range(mem.index)
  <2>1. Encode(mem, l) = [mem EXCEPT !.index = Append(mem.index, l)]
    BY <1>2 DEF Encode
  <2>2. [mem EXCEPT !.index = Append(mem.index, l)].index = Append(mem.index, l)
    BY DEF Memory
  <2>3. mem.index \in Seq(Labels)
    BY MemoryHas
  <2>4. Range(Append(mem.index, l)) = Range(mem.index) \cup {l}
    BY <2>3, RangeAppend
  <2>5. Encode(mem, l) \in Memory
    BY EncodeType
  <2>6. LET new == [mem EXCEPT !.index = Append(mem.index, l)] IN
        new.samples = mem.samples /\ new.newest = mem.newest
              /\ new.buffered = mem.buffered
    BY DEF Memory
  <2> QED BY <1>2, <2>1, <2>2, <2>4, <2>5, <2>6
<1> QED BY <1>1, <1>2

\* ... and leaves memory in order.
LEMMA EncodeSound ==
    ASSUME NEW base, NEW mem, Sound(mem, base), NEW l \in Labels
    PROVE  Sound(Encode(mem, l), base)
<1>1. mem \in Memory /\ Indexed(mem) /\ Counted(mem) /\ GoesOn(mem, base)
  BY DEF Sound
<1> DEFINE new == Encode(mem, l)
<1>2. /\ new \in Memory /\ Range(new.index) = Range(mem.index) \cup {l}
      /\ new.index = IF l \in Range(mem.index) THEN mem.index ELSE Append(mem.index, l)
      /\ new.samples = mem.samples /\ new.newest = mem.newest
      /\ new.buffered = mem.buffered
  BY <1>1, EncodeIs
<1> HIDE DEF new
<1>3. GoesOn(new, base)
  BY <1>1, <1>2 DEF GoesOn
<1>4. CASE l \in Range(mem.index)
  <2>1. new.index = mem.index
    BY <1>2, <1>4
  <2> QED BY <1>1, <1>2, <1>3, <2>1 DEF Sound, Indexed, Counted, new
<1>5. CASE l \notin Range(mem.index)
  <2>1. /\ mem.index \in Seq(Labels) /\ mem.samples \in [Labels -> Seq(Sample)]
        /\ mem.buffered \in Nat
        /\ Range(mem.index) = {mem.index[i] : i \in 1 .. Len(mem.index)}
    BY <1>1, MemoryHas
  <2>2. new.index = Append(mem.index, l)
    BY <1>2, <1>5
  <2>3. mem.samples[l] = <<>>
    BY <1>1, <1>5 DEF Indexed
  <2>4. Total(new.samples, new.index)
        = Total(mem.samples, mem.index) + Len(mem.samples[l])
    BY <1>2, <2>1, <2>2, TotalAppend
  <2>5. Counted(new)
    BY <1>1, <1>2, <2>1, <2>3, <2>4 DEF Counted
  <2>6. ASSUME NEW i \in DOMAIN new.index, NEW j \in DOMAIN new.index,
               new.index[i] = new.index[j]
        PROVE  i = j
    <3> DEFINE n == Len(mem.index)
    <3>1. n \in Nat /\ i \in 1 .. n + 1 /\ j \in 1 .. n + 1
      BY <2>1, <2>2
    <3>2. \A k \in 1 .. n + 1 : new.index[k] = IF k = n + 1 THEN l ELSE mem.index[k]
      BY <2>1, <2>2
    <3>3. \A k \in 1 .. n : mem.index[k] # l
      BY <1>5, <2>1
    <3>4. CASE i = n + 1
      <4>1. new.index[i] = l
        BY <3>1, <3>2, <3>4
      <4>2. j # n + 1 => j \in 1 .. n
        BY <3>1
      <4>3. j = n + 1
        BY <2>6, <3>1, <3>2, <3>3, <4>1, <4>2, Zenon
      <4> QED BY <3>4, <4>3
    <3>5. CASE j = n + 1
      <4>1. new.index[j] = l
        BY <3>1, <3>2, <3>5
      <4>2. i # n + 1 => i \in 1 .. n
        BY <3>1
      <4>3. i = n + 1
        BY <2>6, <3>1, <3>2, <3>3, <4>1, <4>2, Zenon
      <4> QED BY <3>5, <4>3
    <3>6. CASE i # n + 1 /\ j # n + 1
      <4>1. i \in DOMAIN mem.index /\ j \in DOMAIN mem.index
        BY <2>1, <3>1, <3>6
      <4>2. mem.index[i] = mem.index[j]
        BY <2>6, <3>1, <3>2, <3>6, Zenon
      <4> QED BY <1>1, <4>1, <4>2, Zenon DEF Indexed
    <3> QED BY <3>4, <3>5, <3>6
  <2>7. Indexed(new)
    BY <1>1, <1>2, <2>6 DEF Indexed
  <2> QED BY <1>2, <1>3, <2>5, <2>7 DEF Sound, new
<1> QED BY <1>4, <1>5

\* Appending a sample to a series that has an id leaves memory in order.
LEMMA AppendSampleSound ==
    ASSUME NEW base \in [Labels -> Nat], NEW mem, Sound(mem, base),
           NEW l \in Range(mem.index), NEW s \in Sample
    PROVE  Sound(AppendSample(mem, l, s), base)
          /\ AppendSample(mem, l, s).index = mem.index
<1>1. mem \in Memory /\ Indexed(mem) /\ Counted(mem) /\ GoesOn(mem, base)
  BY DEF Sound
<1>2. /\ mem.index \in Seq(Labels) /\ mem.samples \in [Labels -> Seq(Sample)]
      /\ mem.newest \in [Labels -> Nat] /\ mem.buffered \in Nat
      /\ Range(mem.index) = {mem.index[i] : i \in 1 .. Len(mem.index)}
      /\ l \in Labels /\ s[1] \in Nat
  BY <1>1, MemoryHas DEF Sample
<1>3. CASE ~(s[1] > mem.newest[l])
  <2>1. AppendSample(mem, l, s) = mem
    BY <1>3 DEF AppendSample
  <2> QED BY <2>1
<1>4. CASE s[1] > mem.newest[l]
  <2> DEFINE new == AppendSample(mem, l, s)
  <2>1. new \in Memory
    BY <1>1, <1>2, AppendSampleType
  <2>2. /\ new.index = mem.index /\ new.buffered = mem.buffered + 1
        /\ new.samples = [mem.samples EXCEPT ![l] = Append(mem.samples[l], s)]
        /\ new.newest = [mem.newest EXCEPT ![l] = s[1]]
    BY <1>1, <1>4 DEF AppendSample, Memory
  <2> HIDE DEF new
  <2>3. Indexed(new)
    <3>1. ASSUME NEW k \in Labels, new.samples[k] # <<>> PROVE k \in Range(new.index)
      <4>1. CASE k = l
        BY <2>2, <4>1
      <4>2. CASE k # l
        <5>1. new.samples[k] = mem.samples[k]
          BY <1>2, <2>2, <4>2
        <5> QED BY <1>1, <2>2, <3>1, <5>1 DEF Indexed
      <4> QED BY <4>1, <4>2
    <3> QED BY <1>1, <2>2, <3>1 DEF Indexed
  <2>4. Counted(new)
    <3>1. PICK k \in 1 .. Len(mem.index) : mem.index[k] = l
      BY <1>2
    <3>2. k \in DOMAIN mem.index /\ \A i \in DOMAIN mem.index :
            mem.index[i] = mem.index[k] => i = k
      BY <1>1, <1>2, <3>1 DEF Indexed
    <3>3. Total([mem.samples EXCEPT ![mem.index[k]] = Append(@, s)], mem.index)
            = Total(mem.samples, mem.index) + 1
      BY <1>2, <3>2, TotalMore
    <3> QED BY <1>1, <2>2, <3>1, <3>3 DEF Counted
  <2>5. ASSUME NEW k \in Labels
        PROVE  LET ss == new.samples[k] IN
               /\ \A i \in 1 .. Len(ss) - 1 : ss[i][1] < ss[i + 1][1]
               /\ ss # <<>> => ss[1][1] > base[k]
               /\ new.newest[k] = IF ss = <<>> THEN base[k] ELSE Last(ss)[1]
    <3>0. LET ss == mem.samples[k] IN
               /\ \A i \in 1 .. Len(ss) - 1 : ss[i][1] < ss[i + 1][1]
               /\ ss # <<>> => ss[1][1] > base[k]
               /\ mem.newest[k] = IF ss = <<>> THEN base[k] ELSE Last(ss)[1]
      BY <1>1 DEF GoesOn
    <3>1. CASE k # l
      <4>1. new.samples[k] = mem.samples[k] /\ new.newest[k] = mem.newest[k]
        BY <1>2, <2>2, <3>1
      <4> QED BY <3>0, <4>1
    <3>2. CASE k = l
      <4> DEFINE old == mem.samples[l]
      <4> DEFINE ss == new.samples[l]
      <4>1. old \in Seq(Sample) /\ ss = Append(old, s) /\ new.newest[l] = s[1]
        BY <1>2, <2>2
      <4>2. /\ \A i \in 1 .. Len(old) - 1 : old[i][1] < old[i + 1][1]
            /\ old # <<>> => old[1][1] > base[l]
            /\ s[1] > IF old = <<>> THEN base[l] ELSE Last(old)[1]
        BY <1>4, <3>0, <3>2
      <4> HIDE DEF old, ss
      <4>3. Len(ss) = Len(old) + 1 /\ ss[Len(old) + 1] = s /\ ss # <<>> /\ Last(ss) = s
        BY <4>1 DEF Last
      <4>4. \A i \in 1 .. Len(old) : ss[i] = old[i]
        BY <4>1
      <4>5. old # <<>> => 1 \in 1 .. Len(old) /\ Last(old) = old[Len(old)]
        BY <4>1 DEF Last
      <4>6. old = <<>> => ss[1] = s
        BY <4>1
      <4>7. ss[1][1] > base[l]
        BY <4>2, <4>4, <4>5, <4>6
      <4>8. ASSUME NEW i \in 1 .. Len(ss) - 1 PROVE ss[i][1] < ss[i + 1][1]
        <5>1. Len(old) \in Nat /\ i \in 1 .. Len(old) /\ ss[i] = old[i]
          BY <4>1, <4>3, <4>4
        <5>2. CASE i = Len(old)
          <6>1. old # <<>> /\ ss[i] = Last(old) /\ ss[i + 1] = s
            BY <4>1, <4>3, <4>5, <5>1, <5>2
          <6>2. Last(old)[1] \in Nat
            <7>1. Last(old) \in Sample
              BY <4>1, <4>5, <5>1, <5>2, <6>1
            <7> QED BY <7>1 DEF Sample
          <6> QED BY <1>2, <4>2, <6>1, <6>2
        <5>3. CASE i # Len(old)
          <6>1. i \in 1 .. Len(old) - 1 /\ i + 1 \in 1 .. Len(old)
            BY <5>1, <5>3
          <6>2. ss[i + 1] = old[i + 1]
            BY <4>4, <6>1
          <6> QED BY <4>2, <5>1, <6>1, <6>2
        <5> QED BY <5>2, <5>3
      <4>9. new.newest[l] = Last(ss)[1]
        BY <4>1, <4>3
      <4> QED BY <3>2, <4>3, <4>7, <4>8, <4>9 DEF ss
    <3> QED BY <3>1, <3>2
  <2>6. GoesOn(new, base)
    BY <2>5 DEF GoesOn
  <2> QED BY <2>1, <2>2, <2>3, <2>4, <2>6 DEF Sound, new
<1> QED BY <1>3, <1>4

\* So do any number of samples.
LEMMA AppendSamplesSound ==
    ASSUME NEW base \in [Labels -> Nat], NEW mem, Sound(mem, base),
           NEW l \in Range(mem.index), NEW ss \in Seq(Sample)
    PROVE  /\ Sound(AppendSamples(mem, l, ss), base)
           /\ AppendSamples(mem, l, ss).index = mem.index
<1>1. mem \in Memory
  BY DEF Sound
<1>2. l \in Labels /\ Len(ss) \in Nat
  BY <1>1, MemoryHas
<1>3. PICK r \in [0 .. Len(ss) -> Memory] :
               /\ r[0] = mem /\ r[Len(ss)] = AppendSamples(mem, l, ss)
               /\ \A i \in 1 .. Len(ss) : r[i] = AppendSample(r[i - 1], l, ss[i])
  BY <1>1, <1>2, AppendSamplesRun
<1> DEFINE G == {i \in 0 .. Len(ss) : Sound(r[i], base) /\ r[i].index = mem.index}
<1>4. 0 \in G
  BY <1>2, <1>3
<1>5. ASSUME NEW i \in 1 .. Len(ss), i - 1 \in G PROVE i \in G
  <2>1. Sound(r[i - 1], base) /\ r[i - 1].index = mem.index
    BY <1>5
  <2>2. ss[i] \in Sample /\ i \in 0 .. Len(ss) /\ l \in Range(r[i - 1].index)
    BY <1>2, <2>1
  <2>3. /\ Sound(AppendSample(r[i - 1], l, ss[i]), base)
        /\ AppendSample(r[i - 1], l, ss[i]).index = r[i - 1].index
    BY <2>1, <2>2, AppendSampleSound
  <2> QED BY <1>3, <2>1, <2>2, <2>3
<1> HIDE DEF G
<1>6. Len(ss) \in G
  BY <1>2, <1>4, <1>5, UpTo
<1> QED BY <1>3, <1>6 DEF G

\* The labels that entries use.
Used(es) == {es[i].labels : i \in DOMAIN es}

\* Label sets get ids, and nothing else changes.
LEMMA EncodeAllSound ==
    ASSUME NEW mem \in Memory, NEW es \in Seq(Entry)
    PROVE  LET new == EncodeAll(mem, es) IN
           /\ new \in Memory /\ Range(new.index) = Range(mem.index) \cup Used(es)
           /\ new.samples = mem.samples /\ new.buffered = mem.buffered
           /\ \A base : Sound(mem, base) => Sound(new, base)
<1>1. Len(es) \in Nat /\ DOMAIN es = 1 .. Len(es)
  OBVIOUS
<1>2. PICK r \in [0 .. Len(es) -> Memory] :
               /\ r[0] = mem /\ r[Len(es)] = EncodeAll(mem, es)
               /\ \A i \in 1 .. Len(es) : r[i] = Encode(r[i - 1], es[i].labels)
  BY EncodeAllRun
<1> DEFINE P(i) ==
      /\ Range(r[i].index) = Range(mem.index) \cup {es[k].labels : k \in 1 .. i}
                   /\ r[i].samples = mem.samples /\ r[i].buffered = mem.buffered
                   /\ \A base : Sound(mem, base) => Sound(r[i], base)
<1> DEFINE G == {i \in 0 .. Len(es) : P(i)}
<1>3. 0 \in G
  BY <1>1, <1>2
<1>4. ASSUME NEW i \in 1 .. Len(es), i - 1 \in G PROVE i \in G
  <2>0. P(i - 1)
    BY <1>4
  <2> HIDE DEF G
  <2>1. i \in 0 .. Len(es) /\ i - 1 \in 0 .. Len(es) /\ es[i] \in Entry
    BY <1>1
  <2>2. r[i - 1] \in Memory /\ es[i].labels \in Labels
    BY <1>2, <2>1 DEF Entry
  <2>3. r[i] = Encode(r[i - 1], es[i].labels)
    BY <1>2
  <2>4. /\ Range(r[i].index) = Range(r[i - 1].index) \cup {es[i].labels}
        /\ r[i].samples = r[i - 1].samples /\ r[i].buffered = r[i - 1].buffered
    <3> DEFINE a == r[i - 1]
    <3> DEFINE b == es[i].labels
    <3>1. a \in Memory /\ b \in Labels /\ r[i] = Encode(a, b)
      BY <2>2, <2>3
    <3> HIDE DEF a, b
    <3>2. /\ Range(Encode(a, b).index) = Range(a.index) \cup {b}
          /\ Encode(a, b).samples = a.samples /\ Encode(a, b).buffered = a.buffered
      BY <3>1, EncodeIs
    <3> QED BY <3>1, <3>2, Zenon DEF a, b
  <2>5. ASSUME NEW base, Sound(r[i - 1], base) PROVE Sound(r[i], base)
    BY <2>2, <2>3, <2>5, EncodeSound, Zenon
  <2>6. 1 .. i = 1 .. i - 1 \cup {i}
    BY <1>1
  <2>7. {es[k].labels : k \in 1 .. i}
        = {es[k].labels : k \in 1 .. i - 1} \cup {es[i].labels}
    BY <2>6
  <2>8. P(i)
    <3>1. /\ Range(r[i].index) = Range(mem.index) \cup {es[k].labels : k \in 1 .. i}
          /\ r[i].samples = mem.samples /\ r[i].buffered = mem.buffered
      BY <2>0, <2>4, <2>7
    <3>2. \A base : Sound(mem, base) => Sound(r[i], base)
      BY <2>0, <2>5, Zenon
    <3> QED BY <3>1, <3>2, Zenon
  <2> QED BY <2>1, <2>8 DEF G
<1> HIDE DEF G
<1>5. Len(es) \in G
  BY <1>1, <1>3, <1>4, UpTo
<1>6. P(Len(es)) /\ Len(es) \in 0 .. Len(es)
  BY <1>5 DEF G
<1>7. EncodeAll(mem, es) \in Memory /\ P(Len(es)) /\ EncodeAll(mem, es) = r[Len(es)]
  BY <1>2, <1>6
<1> QED BY <1>1, <1>7 DEF Used

\* The samples of a record whose ids are known.
LEMMA AppendAllSound ==
    ASSUME NEW base \in [Labels -> Nat], NEW mem, Sound(mem, base),
           NEW rec, rec.samples \in Seq(Known(mem))
    PROVE  Sound(AppendAll(mem, rec), base) /\ AppendAll(mem, rec).index = mem.index
<1>1. mem \in Memory
  BY DEF Sound
<1> DEFINE es == rec.samples
<1>2. Len(es) \in Nat /\ \A i \in 1 .. Len(es) : es[i] \in Known(mem)
  OBVIOUS
<1>3. PICK r \in [0 .. Len(es) -> Memory] :
               /\ r[0] = mem /\ r[Len(es)] = AppendAll(mem, rec)
               /\ \A i \in 1 .. Len(es) :
                     r[i] = AppendSamples(r[i - 1], mem.index[es[i].id], es[i].samples)
  BY <1>1, AppendAllRun
<1> DEFINE G == {i \in 0 .. Len(es) : Sound(r[i], base) /\ r[i].index = mem.index}
<1>4. 0 \in G
  BY <1>2, <1>3
<1>5. ASSUME NEW i \in 1 .. Len(es), i - 1 \in G PROVE i \in G
  <2>1. Sound(r[i - 1], base) /\ r[i - 1].index = mem.index
    BY <1>5
  <2> HIDE DEF G
  <2>2. es[i].id \in DOMAIN mem.index /\ es[i].samples \in Seq(Sample)
        /\ i \in 0 .. Len(es)
    BY <1>2 DEF Known
  <2>3. mem.index[es[i].id] \in Range(r[i - 1].index)
    BY <2>1, <2>2 DEF Range
  <2>4. LET new == AppendSamples(r[i - 1], mem.index[es[i].id], es[i].samples) IN
        Sound(new, base) /\ new.index = r[i - 1].index
    BY <2>1, <2>2, <2>3, AppendSamplesSound
  <2> QED BY <1>3, <2>1, <2>2, <2>4 DEF G
<1> HIDE DEF G
<1>6. Len(es) \in G
  BY <1>2, <1>4, <1>5, UpTo
<1> QED BY <1>3, <1>6 DEF G

-----------------------------------------------------------------------------
(* Replay: every id the resolver knows names a series that memory has.       *)

\* What replay keeps between two records.
Resolving(state, base) ==
    /\ state \in Resolver /\ Sound(state.m, base)
    /\ \A i \in DOMAIN state.ids : state.ids[i] \in Range(state.m.index)

\* A series record names an id, and what waited for it is appended.
LEMMA ApplySeriesSound ==
    ASSUME NEW base \in [Labels -> Nat], NEW state, Resolving(state, base),
           NEW e \in IdSeries
    PROVE  Resolving(ApplySeries(state, e), base)
<1>1. /\ state \in Resolver /\ Sound(state.m, base) /\ e.labels \in Labels
      /\ \A i \in DOMAIN state.ids : state.ids[i] \in Range(state.m.index)
      /\ state.m \in Memory
  BY DEF Resolving, IdSeries, Sound
<1> DEFINE parked == IF e.id \in DOMAIN state.pending THEN state.pending[e.id] ELSE <<>>
<1> DEFINE mem == Encode(state.m, e.labels)
<1> DEFINE new == AppendSamples(mem, e.labels, parked)
<1>2. parked \in Seq(Sample)
  <2>1. state.pending \in [DOMAIN state.pending -> Seq(Sample)]
    BY <1>1, PartialIs DEF Resolver
  <2> QED BY <2>1
<1>3. Sound(mem, base) /\ Range(mem.index) = Range(state.m.index) \cup {e.labels}
  BY <1>1, EncodeSound, EncodeIs
<1>4. Sound(new, base) /\ new.index = mem.index
  <2> HIDE DEF mem, parked
  <2> QED BY <1>2, <1>3, AppendSamplesSound
<1>5. ApplySeries(state, e) \in Resolver
  BY <1>1, ApplySeriesType
<1>6. /\ ApplySeries(state, e).m = new
      /\ ApplySeries(state, e).ids = [i \in DOMAIN state.ids \cup {e.id} |->
                                        IF i = e.id THEN e.labels ELSE state.ids[i]]
  BY DEF ApplySeries
<1> HIDE DEF new, mem
<1>7. \A i \in DOMAIN ApplySeries(state, e).ids :
         ApplySeries(state, e).ids[i] \in Range(new.index)
  BY <1>1, <1>3, <1>4, <1>6
<1> QED BY <1>4, <1>5, <1>6, <1>7 DEF Resolving

\* Samples go to the series of their id, or wait for it.
LEMMA ApplySamplesSound ==
    ASSUME NEW base \in [Labels -> Nat], NEW state, Resolving(state, base),
           NEW e \in IdEntry
    PROVE  Resolving(ApplySamples(state, e), base)
<1>1. /\ state \in Resolver /\ Sound(state.m, base) /\ e.samples \in Seq(Sample)
      /\ \A i \in DOMAIN state.ids : state.ids[i] \in Range(state.m.index)
  BY DEF Resolving, IdEntry
<1>2. ApplySamples(state, e) \in Resolver
  BY <1>1, ApplySamplesType
<1>3. CASE e.id \in DOMAIN state.ids
  <2>1. LET new == AppendSamples(state.m, state.ids[e.id], e.samples) IN
        Sound(new, base) /\ new.index = state.m.index
    BY <1>1, <1>3, AppendSamplesSound
  <2>2. /\ ApplySamples(state, e).m = AppendSamples(state.m, state.ids[e.id], e.samples)
        /\ ApplySamples(state, e).ids = state.ids
    BY <1>1, <1>3 DEF ApplySamples, Resolver
  <2> QED BY <1>1, <1>2, <2>1, <2>2 DEF Resolving
<1>4. CASE e.id \notin DOMAIN state.ids
  <2>1. ApplySamples(state, e).m = state.m /\ ApplySamples(state, e).ids = state.ids
    BY <1>1, <1>4 DEF ApplySamples, Resolver
  <2> QED BY <1>1, <1>2, <2>1 DEF Resolving
<1> QED BY <1>3, <1>4

\* All the series of a record, ...
LEMMA SeriesSound ==
    ASSUME NEW base \in [Labels -> Nat], NEW state, Resolving(state, base),
           NEW q \in Seq(IdSeries)
    PROVE  Resolving(SeriesApplied(state, q), base)
<1>1. PICK r \in [0 .. Len(q) -> Resolver] :
               /\ r[0] = state /\ r[Len(q)] = SeriesApplied(state, q)
               /\ \A i \in 1 .. Len(q) : r[i] = ApplySeries(r[i - 1], q[i])
  BY ApplySeriesRun DEF Resolving
<1> DEFINE G == {i \in 0 .. Len(q) : Resolving(r[i], base)}
<1>2. Len(q) \in Nat /\ 0 \in G
  BY <1>1
<1>3. ASSUME NEW i \in 1 .. Len(q), i - 1 \in G PROVE i \in G
  <2>1. Resolving(r[i - 1], base) /\ q[i] \in IdSeries /\ i \in 0 .. Len(q)
    BY <1>2, <1>3
  <2> QED BY <1>1, <2>1, ApplySeriesSound
<1> HIDE DEF G
<1>4. Len(q) \in G
  BY <1>2, <1>3, UpTo
<1> QED BY <1>1, <1>4 DEF G

\* ... all its samples, ...
LEMMA SamplesSound ==
    ASSUME NEW base \in [Labels -> Nat], NEW state, Resolving(state, base),
           NEW q \in Seq(IdEntry)
    PROVE  Resolving(SamplesApplied(state, q), base)
<1>1. PICK r \in [0 .. Len(q) -> Resolver] :
               /\ r[0] = state /\ r[Len(q)] = SamplesApplied(state, q)
               /\ \A i \in 1 .. Len(q) : r[i] = ApplySamples(r[i - 1], q[i])
  BY ApplySamplesRun DEF Resolving
<1> DEFINE G == {i \in 0 .. Len(q) : Resolving(r[i], base)}
<1>2. Len(q) \in Nat /\ 0 \in G
  BY <1>1
<1>3. ASSUME NEW i \in 1 .. Len(q), i - 1 \in G PROVE i \in G
  <2>1. Resolving(r[i - 1], base) /\ q[i] \in IdEntry /\ i \in 0 .. Len(q)
    BY <1>2, <1>3
  <2> QED BY <1>1, <2>1, ApplySamplesSound
<1> HIDE DEF G
<1>4. Len(q) \in G
  BY <1>2, <1>3, UpTo
<1> QED BY <1>1, <1>4 DEF G

\* ... and all the records of a log.
LEMMA RecordsSound ==
    ASSUME NEW base \in [Labels -> Nat], NEW state, Resolving(state, base),
           NEW recs \in Seq(LogRecord)
    PROVE  Resolving(RecordsApplied(state, recs), base)
<1>1. PICK r \in [0 .. Len(recs) -> Resolver] :
               /\ r[0] = state /\ r[Len(recs)] = RecordsApplied(state, recs)
               /\ \A i \in 1 .. Len(recs) : r[i] = ApplyRecord(r[i - 1], recs[i])
  BY ReplayedRun DEF Resolving
<1> DEFINE G == {i \in 0 .. Len(recs) : Resolving(r[i], base)}
<1>2. Len(recs) \in Nat /\ 0 \in G
  BY <1>1
<1>3. ASSUME NEW i \in 1 .. Len(recs), i - 1 \in G PROVE i \in G
  <2>1. Resolving(r[i - 1], base) /\ recs[i] \in LogRecord /\ i \in 0 .. Len(recs)
    BY <1>2, <1>3
  <2>2. recs[i].series \in Seq(IdSeries) /\ recs[i].samples \in Seq(IdEntry)
    BY <2>1 DEF LogRecord
  <2>3. Resolving(SeriesApplied(r[i - 1], recs[i].series), base)
    BY <2>1, <2>2, SeriesSound
  <2>4. Resolving(SamplesApplied(SeriesApplied(r[i - 1], recs[i].series),
                                 recs[i].samples), base)
    BY <2>2, <2>3, SamplesSound
  <2>5. r[i] = SamplesApplied(SeriesApplied(r[i - 1], recs[i].series), recs[i].samples)
    BY <1>1 DEF ApplyRecord, SeriesApplied, SamplesApplied
  <2> QED BY <2>1, <2>4, <2>5
<1> HIDE DEF G
<1>4. Len(recs) \in G
  BY <1>2, <1>3, UpTo
<1> QED BY <1>1, <1>4 DEF G

-----------------------------------------------------------------------------
(* What the segments leave in memory. *)

\* Memory that has series and no samples, as after the segments are read.
Bare(mem) ==
    /\ mem \in Memory /\ Indexed(mem) /\ mem.buffered = 0
    /\ \A l \in Labels : mem.samples[l] = <<>>

LEMMA BareSound ==
    ASSUME NEW mem, Bare(mem)
    PROVE  mem.newest \in [Labels -> Nat] /\ Sound(mem, mem.newest)
<1>1. /\ mem \in Memory /\ Indexed(mem) /\ mem.buffered = 0
      /\ \A l \in Labels : mem.samples[l] = <<>>
  BY DEF Bare
<1>2. mem.index \in Seq(Labels) /\ mem.samples \in [Labels -> Seq(Sample)]
      /\ mem.newest \in [Labels -> Nat]
  BY <1>1, MemoryHas
<1>3. Total(mem.samples, mem.index) = 0
  BY <1>1, <1>2, TotalNone
<1>4. GoesOn(mem, mem.newest)
  BY <1>1 DEF GoesOn
<1> QED BY <1>1, <1>2, <1>3, <1>4 DEF Sound, Counted

\* Loading one series of a segment, ...
LEMMA LoadOneBare ==
    ASSUME NEW mem, Bare(mem), NEW l \in Labels, NEW t \in Nat
    PROVE  LET new == [Encode(mem, l) EXCEPT !.newest[l] = t] IN
           Bare(new) /\ new.newest = [mem.newest EXCEPT ![l] = t]
<1> DEFINE enc == Encode(mem, l)
<1> DEFINE new == [enc EXCEPT !.newest[l] = t]
<1>1. mem \in Memory /\ mem.buffered = 0 /\ \A k \in Labels : mem.samples[k] = <<>>
  BY DEF Bare
<1>2. /\ enc \in Memory /\ enc.samples = mem.samples /\ enc.newest = mem.newest
      /\ enc.buffered = mem.buffered
  BY <1>1, EncodeIs
<1>3. Indexed(enc)
  BY BareSound, EncodeSound DEF Sound
<1>4. new \in Memory
  BY <1>1, LoadOneType
<1> HIDE DEF enc
<1>5. /\ new.index = enc.index /\ new.samples = enc.samples
      /\ new.buffered = enc.buffered /\ new.newest = [enc.newest EXCEPT ![l] = t]
  BY <1>2 DEF Memory
<1> HIDE DEF new
<1>6. Indexed(new)
  BY <1>3, <1>5 DEF Indexed
<1>7. Bare(new) /\ new.newest = [mem.newest EXCEPT ![l] = t]
  BY <1>1, <1>2, <1>4, <1>5, <1>6 DEF Bare
<1> QED BY <1>7 DEF new, enc

\* ... and all of them: newest is the last time in the segment.
LEMMA LoadSegmentBare ==
    ASSUME NEW mem, Bare(mem), NEW seg \in Segment
    PROVE  LET new == LoadSegment(mem, seg) IN
           /\ Bare(new)
           /\ \A l \in Labels : new.newest[l] =
                IF l \in Range(seg.order) THEN Last(seg.data[l])[1] ELSE mem.newest[l]
<1> DEFINE q == seg.order
<1>1. mem \in Memory
  BY DEF Bare
<1>2. /\ q \in Seq(Labels) /\ seg.data \in [Labels -> Seq(Sample)]
      /\ \A i \in DOMAIN q : seg.data[q[i]] # <<>>
  BY DEF Segment
<1>3. PICK r \in [0 .. Len(q) -> Memory] :
               /\ r[0] = mem /\ r[Len(q)] = LoadSegment(mem, seg)
               /\ \A i \in 1 .. Len(q) :
                     r[i] = [Encode(r[i - 1], q[i]) EXCEPT !.newest[q[i]] =
                                Last(seg.data[q[i]])[1]]
  BY <1>1, LoadSegmentRun
<1> HIDE DEF q
<1> DEFINE Seen(i) == {q[k] : k \in 1 .. i}
<1> DEFINE P(i) == /\ Bare(r[i])
                   /\ \A l \in Labels : r[i].newest[l] =
                        IF l \in Seen(i) THEN Last(seg.data[l])[1] ELSE mem.newest[l]
<1> DEFINE G == {i \in 0 .. Len(q) : P(i)}
<1>4. Len(q) \in Nat /\ DOMAIN q = 1 .. Len(q)
  BY <1>2
<1>5. 0 \in G
  <2>1. Seen(0) = {}
    OBVIOUS
  <2>2. P(0)
    BY <1>3, <2>1
  <2> HIDE DEF P
  <2> QED BY <1>4, <2>2
<1>6. ASSUME NEW i \in 1 .. Len(q), i - 1 \in G PROVE i \in G
  <2>0. P(i - 1)
    BY <1>6
  <2> HIDE DEF G
  <2> DEFINE t == Last(seg.data[q[i]])[1]
  <2>1. i \in 0 .. Len(q) /\ i - 1 \in 0 .. Len(q) /\ q[i] \in Labels
    BY <1>2, <1>4
  <2>2. t \in Nat
    <3>1. seg.data[q[i]] \in Seq(Sample) /\ seg.data[q[i]] # <<>>
      BY <1>2, <1>4, <2>1
    <3>2. Last(seg.data[q[i]]) \in Sample
      BY <3>1 DEF Last
    <3> QED BY <3>2 DEF Sample
  <2>3. r[i] = [Encode(r[i - 1], q[i]) EXCEPT !.newest[q[i]] = t]
    BY <1>3
  <2>4. Bare(r[i - 1]) /\ r[i - 1].newest \in [Labels -> Nat]
    BY <2>0, BareSound
  <2>t. t = Last(seg.data[q[i]])[1]
    OBVIOUS
  <2> HIDE DEF t
  <2>5. Bare(r[i]) /\ r[i].newest = [r[i - 1].newest EXCEPT ![q[i]] = t]
    <3> DEFINE a == r[i - 1]
    <3> DEFINE b == q[i]
    <3>1. Bare(a) /\ b \in Labels /\ r[i] = [Encode(a, b) EXCEPT !.newest[b] = t]
      BY <2>1, <2>3, <2>4
    <3> HIDE DEF a, b
    <3>2. /\ Bare([Encode(a, b) EXCEPT !.newest[b] = t])
          /\ [Encode(a, b) EXCEPT !.newest[b] = t].newest = [a.newest EXCEPT ![b] = t]
      BY <2>2, <3>1, LoadOneBare
    <3>3. Bare(r[i]) /\ r[i].newest = [a.newest EXCEPT ![b] = t]
      BY <3>1, <3>2, Zenon
    <3> QED BY <3>3 DEF a, b
  <2>6. Seen(i) = Seen(i - 1) \cup {q[i]}
    <3>1. 1 .. i = 1 .. i - 1 \cup {i}
      BY <1>4
    <3> QED BY <3>1
  <2> HIDE DEF Seen
  <2>7. ASSUME NEW l \in Labels
        PROVE  r[i].newest[l] =
                 IF l \in Seen(i) THEN Last(seg.data[l])[1] ELSE mem.newest[l]
    <3>1. CASE l = q[i]
      BY <2>1, <2>4, <2>5, <2>6, <2>t, <3>1
    <3>2. CASE l # q[i]
      <4>1. r[i].newest[l] = r[i - 1].newest[l] /\ (l \in Seen(i) <=> l \in Seen(i - 1))
        BY <2>4, <2>5, <2>6, <3>2
      <4> QED BY <2>0, <4>1
    <3> QED BY <3>1, <3>2
  <2>8. P(i)
    BY <2>5, <2>7
  <2> HIDE DEF P
  <2> QED BY <2>1, <2>8 DEF G
<1> HIDE DEF G
<1>7. Len(q) \in G
  BY <1>4, <1>5, <1>6, UpTo
<1>8. P(Len(q))
  BY <1>7 DEF G
<1>9. Seen(Len(q)) = Range(q)
  BY <1>4 DEF Range
<1> QED BY <1>3, <1>8, <1>9 DEF q

LEMMA NoMemoryBare == Bare(NoMemory)
<1>1. NoMemory \in Memory
  BY NoMemoryType
<1>2. NoMemory.buffered = 0 /\ NoMemory.index = <<>>
      /\ \A l \in Labels : NoMemory.samples[l] = <<>>
  BY DEF NoMemory
<1>3. DOMAIN NoMemory.index = {}
  BY <1>2
<1> QED BY <1>1, <1>2, <1>3 DEF Bare, Indexed

\* Two segments with the same series load the same.
LEMMA LoadSame ==
    ASSUME NEW mem \in Memory, NEW a \in Segment, NEW b \in Segment,
           a.data = b.data, a.order = b.order
    PROVE  LoadSegment(mem, a) = LoadSegment(mem, b)
<1> DEFINE q == a.order
<1>1. q \in Seq(Labels) /\ Len(q) \in Nat
  BY DEF Segment
<1>2. PICK r \in [0 .. Len(q) -> Memory] :
               /\ r[0] = mem /\ r[Len(q)] = LoadSegment(mem, a)
               /\ \A i \in 1 .. Len(q) :
                     r[i] = [Encode(r[i - 1], q[i]) EXCEPT !.newest[q[i]] =
                                Last(a.data[q[i]])[1]]
  BY LoadSegmentRun
<1>3. PICK t \in [0 .. Len(b.order) -> Memory] :
               /\ t[0] = mem /\ t[Len(b.order)] = LoadSegment(mem, b)
               /\ \A i \in 1 .. Len(b.order) :
                     t[i] = [Encode(t[i - 1], b.order[i]) EXCEPT !.newest[b.order[i]] =
                                Last(b.data[b.order[i]])[1]]
  BY LoadSegmentRun
<1>b. b.order = q /\ b.data = a.data
  OBVIOUS
<1> HIDE DEF q
<1> DEFINE G == {i \in 0 .. Len(q) : r[i] = t[i]}
<1>4. 0 \in G
  BY <1>1, <1>2, <1>3, <1>b
<1>5. ASSUME NEW i \in 1 .. Len(q), i - 1 \in G PROVE i \in G
  <2>1. i \in 0 .. Len(q) /\ r[i - 1] = t[i - 1]
    BY <1>1, <1>5
  <2> HIDE DEF G
  <2>2. t[i] = [Encode(t[i - 1], b.order[i]) EXCEPT !.newest[b.order[i]] =
                    Last(b.data[b.order[i]])[1]]
    BY <1>3, <1>b
  <2>3. r[i] = [Encode(r[i - 1], q[i]) EXCEPT !.newest[q[i]] = Last(a.data[q[i]])[1]]
    BY <1>2
  <2>4. r[i] = t[i]
    BY <1>b, <2>1, <2>2, <2>3, Zenon
  <2> QED BY <2>1, <2>4 DEF G
<1> HIDE DEF G
<1>6. Len(q) \in G
  BY <1>1, <1>4, <1>5, UpTo
<1> QED BY <1>2, <1>3, <1>6, <1>b DEF G

\* The load of a sequence goes through those of its prefixes; upto plays no part.
LEMMA LoadedPrefix ==
    ASSUME NEW q \in Seq(Segment), NEW p \in Seq(Segment), Len(p) <= Len(q),
           \A i \in 1 .. Len(p) : p[i].data = q[i].data /\ p[i].order = q[i].order,
           NEW r \in [0 .. Len(q) -> Memory], r[0] = NoMemory,
           \A i \in 1 .. Len(q) : r[i] = LoadSegment(r[i - 1], q[i])
    PROVE  LoadedFrom(p) = r[Len(p)]
<1>1. PICK t \in [0 .. Len(p) -> Memory] :
               /\ t[0] = NoMemory /\ t[Len(p)] = LoadedFrom(p)
               /\ \A i \in 1 .. Len(p) : t[i] = LoadSegment(t[i - 1], p[i])
  BY LoadedRun
<1>2. Len(p) \in Nat /\ Len(q) \in Nat
  OBVIOUS
<1> DEFINE G == {i \in 0 .. Len(p) : t[i] = r[i]}
<1>3. 0 \in G
  BY <1>1, <1>2
<1>4. ASSUME NEW i \in 1 .. Len(p), i - 1 \in G PROVE i \in G
  <2>1. i \in 1 .. Len(q) /\ i \in 0 .. Len(p) /\ i - 1 \in 0 .. Len(q)
    BY <1>2
  <2>2. t[i - 1] = r[i - 1]
    BY <1>4
  <2> HIDE DEF G
  <2>3. t[i] = LoadSegment(t[i - 1], p[i]) /\ r[i] = LoadSegment(r[i - 1], q[i])
    BY <1>1, <2>1
  <2>4. p[i] \in Segment /\ q[i] \in Segment
        /\ p[i].data = q[i].data /\ p[i].order = q[i].order
    BY <2>1
  <2>5. LoadSegment(r[i - 1], p[i]) = LoadSegment(r[i - 1], q[i])
    BY <2>1, <2>4, LoadSame
  <2> QED BY <2>1, <2>2, <2>3, <2>5 DEF G
<1> HIDE DEF G
<1>5. Len(p) \in G
  BY <1>2, <1>3, <1>4, UpTo
<1> QED BY <1>1, <1>5 DEF G

\* The segments of q are in order.
Chained(q) == \A n \in DOMAIN q : SegmentInOrder(q[n], LoadedFrom(SubSeq(q, 1, n - 1)))

\* The code loads the segments once, and checks each as it does.
LEMMA ChainedIs ==
    ASSUME segs \in Seq(Segment)
    PROVE  Restored = LoadedFrom(segs) /\ (SegmentsInOrder <=> Chained(segs))
<1>1. SubSeq(segs, 1, Len(segs)) = segs
  OBVIOUS
<1>2. Restored = LoadedFrom(segs)
  BY <1>1, Zenon DEF Restored, Loaded, LoadedFrom
<1>3. \A n : Loaded(n) = LoadedFrom(SubSeq(segs, 1, n))
  BY DEF Loaded, LoadedFrom
<1>4. SegmentsInOrder <=> Chained(segs)
  BY <1>3, Zenon DEF SegmentsInOrder, Chained
<1> QED BY <1>2, <1>4

\* Reading the segments, one after the other.
LEMMA LoadedBare ==
    ASSUME NEW q \in Seq(Segment)
    PROVE  Bare(LoadedFrom(q))
<1>1. PICK r \in [0 .. Len(q) -> Memory] :
               /\ r[0] = NoMemory /\ r[Len(q)] = LoadedFrom(q)
               /\ \A i \in 1 .. Len(q) : r[i] = LoadSegment(r[i - 1], q[i])
  BY LoadedRun
<1> DEFINE G == {i \in 0 .. Len(q) : Bare(r[i])}
<1>2. Len(q) \in Nat /\ 0 \in G
  BY <1>1, NoMemoryBare
<1>3. ASSUME NEW i \in 1 .. Len(q), i - 1 \in G PROVE i \in G
  <2>1. Bare(r[i - 1]) /\ q[i] \in Segment /\ i \in 0 .. Len(q)
    BY <1>2, <1>3
  <2>2. Bare(LoadSegment(r[i - 1], q[i]))
    BY <2>1, LoadSegmentBare
  <2> QED BY <1>1, <2>1, <2>2
<1> HIDE DEF G
<1>4. Len(q) \in G
  BY <1>2, <1>3, UpTo
<1> QED BY <1>1, <1>4 DEF G

\* Segments are loaded one after the other.
LEMMA LoadedAppend ==
    ASSUME NEW q \in Seq(Segment), NEW s \in Segment
    PROVE  LoadedFrom(Append(q, s)) = LoadSegment(LoadedFrom(q), s)
<1> DEFINE p == Append(q, s)
<1>1. /\ p \in Seq(Segment) /\ Len(p) = Len(q) + 1 /\ Len(q) \in Nat
      /\ p[Len(q) + 1] = s /\ \A i \in 1 .. Len(q) : p[i] = q[i]
  OBVIOUS
<1> HIDE DEF p
<1>2. PICK r \in [0 .. Len(p) -> Memory] :
               /\ r[0] = NoMemory /\ r[Len(p)] = LoadedFrom(p)
               /\ \A i \in 1 .. Len(p) : r[i] = LoadSegment(r[i - 1], p[i])
  BY <1>1, LoadedRun
<1>3. Len(q) <= Len(p)
  BY <1>1
<1>4. LoadedFrom(q) = r[Len(q)]
  BY <1>1, <1>2, <1>3, LoadedPrefix
<1>5. Len(q) + 1 \in 1 .. Len(p) /\ (Len(q) + 1) - 1 = Len(q)
  BY <1>1
<1>6. r[Len(q) + 1] = LoadSegment(r[Len(q)], s)
  BY <1>1, <1>2, <1>5
<1> QED BY <1>1, <1>2, <1>4, <1>6 DEF p

\* Which batches a segment is said to cover plays no part.
LEMMA LoadedSame ==
    ASSUME NEW q \in Seq(Segment), NEW p \in Seq(Segment), Len(p) = Len(q),
           \A i \in 1 .. Len(p) : p[i].data = q[i].data /\ p[i].order = q[i].order
    PROVE  LoadedFrom(p) = LoadedFrom(q)
<1>1. PICK r \in [0 .. Len(q) -> Memory] :
               /\ r[0] = NoMemory /\ r[Len(q)] = LoadedFrom(q)
               /\ \A i \in 1 .. Len(q) : r[i] = LoadSegment(r[i - 1], q[i])
  BY LoadedRun
<1>2. Len(p) <= Len(q)
  OBVIOUS
<1>3. LoadedFrom(p) = r[Len(p)]
  BY <1>1, <1>2, LoadedPrefix
<1> QED BY <1>1, <1>3

LEMMA ChainedSame ==
    ASSUME NEW q \in Seq(Segment), NEW p \in Seq(Segment), Len(p) <= Len(q), Chained(q),
           \A i \in 1 .. Len(p) : p[i].data = q[i].data /\ p[i].order = q[i].order
    PROVE  Chained(p)
<1>1. ASSUME NEW n \in 1 .. Len(p)
      PROVE  SegmentInOrder(p[n], LoadedFrom(SubSeq(p, 1, n - 1)))
  <2> DEFINE a == SubSeq(p, 1, n - 1)
  <2> DEFINE b == SubSeq(q, 1, n - 1)
  <2>1. /\ a \in Seq(Segment) /\ b \in Seq(Segment) /\ Len(a) = n - 1 /\ Len(b) = n - 1
        /\ n - 1 \in Nat /\ n \in 1 .. Len(q)
    OBVIOUS
  <2>2. \A i \in 1 .. n - 1 : a[i] = p[i] /\ b[i] = q[i] /\ i \in 1 .. Len(p)
    OBVIOUS
  <2> HIDE DEF a, b
  <2>3. LoadedFrom(a) = LoadedFrom(b)
    BY <2>1, <2>2, LoadedSame
  <2>4. SegmentInOrder(q[n], LoadedFrom(b))
    BY <2>1 DEF Chained, b
  <2>5. p[n].data = q[n].data
    OBVIOUS
  <2> QED BY <2>3, <2>4, <2>5 DEF SegmentInOrder, a
<1> QED BY <1>1 DEF Chained

LEMMA ChainedPrefix ==
    ASSUME NEW q \in Seq(Segment), Chained(q), NEW n \in 0 .. Len(q)
    PROVE  SubSeq(q, 1, n) \in Seq(Segment) /\ Chained(SubSeq(q, 1, n))
<1> DEFINE p == SubSeq(q, 1, n)
<1>1. /\ p \in Seq(Segment) /\ Len(p) = n /\ Len(p) <= Len(q)
      /\ \A i \in 1 .. Len(p) : p[i] = q[i]
  OBVIOUS
<1> HIDE DEF p
<1>2. Chained(p)
  BY <1>1, ChainedSame
<1> QED BY <1>1, <1>2 DEF p

LEMMA ChainedAppend ==
    ASSUME NEW q \in Seq(Segment), Chained(q), NEW s \in Segment,
           SegmentInOrder(s, LoadedFrom(q))
    PROVE  Chained(Append(q, s))
<1> DEFINE p == Append(q, s)
<1>1. /\ p \in Seq(Segment) /\ Len(p) = Len(q) + 1 /\ Len(q) \in Nat
      /\ p[Len(q) + 1] = s /\ \A i \in 1 .. Len(q) : p[i] = q[i]
  OBVIOUS
<1> HIDE DEF p
<1>2. ASSUME NEW i \in 0 .. Len(q) PROVE SubSeq(p, 1, i) = SubSeq(q, 1, i)
  <2> DEFINE a == SubSeq(p, 1, i)
  <2> DEFINE b == SubSeq(q, 1, i)
  <2>1. a \in Seq(Segment) /\ b \in Seq(Segment) /\ Len(a) = i /\ Len(b) = i
    BY <1>1
  <2>2. \A k \in 1 .. i : a[k] = p[k] /\ b[k] = q[k] /\ p[k] = q[k]
    BY <1>1
  <2> HIDE DEF a, b
  <2>3. a = b
    BY <2>1, <2>2
  <2> QED BY <2>3 DEF a, b
<1>3. SubSeq(q, 1, Len(q)) = q
  OBVIOUS
<1>4. ASSUME NEW n \in 1 .. Len(p)
      PROVE  SegmentInOrder(p[n], LoadedFrom(SubSeq(p, 1, n - 1)))
  <2>1. CASE n = Len(q) + 1
    <3>1. n - 1 = Len(q) /\ n - 1 \in 0 .. Len(q)
      BY <1>1, <2>1
    <3>2. SubSeq(p, 1, n - 1) = q /\ p[n] = s
      BY <1>1, <1>2, <1>3, <2>1, <3>1
    <3> QED BY <3>2
  <2>2. CASE n # Len(q) + 1
    <3>1. n \in 1 .. Len(q) /\ n \in DOMAIN q /\ n - 1 \in 0 .. Len(q)
      BY <1>1, <2>2
    <3>2. SubSeq(p, 1, n - 1) = SubSeq(q, 1, n - 1) /\ p[n] = q[n]
      BY <1>1, <1>2, <3>1
    <3>3. SegmentInOrder(q[n], LoadedFrom(SubSeq(q, 1, n - 1)))
      BY <3>1, Zenon DEF Chained
    <3> QED BY <3>2, <3>3
  <2> QED BY <2>1, <2>2
<1> QED BY <1>1, <1>4 DEF Chained, p

\* A segment lists the labels that have samples.
LEMMA OrderedIs ==
    ASSUME NEW samples \in [Labels -> Seq(Sample)], NEW q \in Seq(Labels)
    PROVE  /\ Ordered(samples, q) \in Seq(Labels)
           /\ Range(Ordered(samples, q)) = {l \in Range(q) : samples[l] # <<>>}
<1>1. PICK r \in [0 .. Len(q) -> Seq(Labels)] :
               /\ r[0] = <<>> /\ r[Len(q)] = Ordered(samples, q)
               /\ \A i \in 1 .. Len(q) :
                     r[i] = (IF samples[q[i]] = <<>> THEN r[i - 1]
                                                     ELSE Append(r[i - 1], q[i]))
  BY OrderRun
<1> DEFINE Some(i) == {l \in {q[k] : k \in 1 .. i} : samples[l] # <<>>}
<1> DEFINE G == {i \in 0 .. Len(q) : Range(r[i]) = Some(i)}
<1>2. Len(q) \in Nat /\ DOMAIN q = 1 .. Len(q)
  OBVIOUS
<1>3. 0 \in G
  <2>1. Range(r[0]) = {}
    BY <1>1 DEF Range
  <2>2. Some(0) = {}
    OBVIOUS
  <2> QED BY <1>2, <2>1, <2>2
<1>4. ASSUME NEW i \in 1 .. Len(q), i - 1 \in G PROVE i \in G
  <2>1. Range(r[i - 1]) = Some(i - 1)
    BY <1>4
  <2>2. i \in 0 .. Len(q) /\ i - 1 \in 0 .. Len(q) /\ q[i] \in Labels
    BY <1>2
  <2>3. r[i - 1] \in Seq(Labels)
    BY <1>1, <2>2
  <2>4. r[i] = IF samples[q[i]] = <<>> THEN r[i - 1] ELSE Append(r[i - 1], q[i])
    BY <1>1
  <2>5. Some(i) = Some(i - 1) \cup (IF samples[q[i]] = <<>> THEN {} ELSE {q[i]})
    <3>1. 1 .. i = 1 .. i - 1 \cup {i}
      BY <1>2
    <3>2. {q[k] : k \in 1 .. i} = {q[k] : k \in 1 .. i - 1} \cup {q[i]}
      BY <3>1
    <3> QED BY <3>2
  <2> HIDE DEF Some, G
  <2>6. Range(r[i]) = Some(i)
    <3>1. CASE samples[q[i]] = <<>>
      BY <2>1, <2>4, <2>5, <3>1
    <3>2. CASE samples[q[i]] # <<>>
      <4>1. Range(Append(r[i - 1], q[i])) = Range(r[i - 1]) \cup {q[i]}
        BY <2>2, <2>3, RangeAppend
      <4> QED BY <2>1, <2>4, <2>5, <3>2, <4>1
    <3> QED BY <3>1, <3>2
  <2> QED BY <2>2, <2>6 DEF G
<1> HIDE DEF G
<1>5. Len(q) \in G
  BY <1>2, <1>3, <1>4, UpTo
<1>6. Range(q) = {q[k] : k \in 1 .. Len(q)}
  BY <1>2 DEF Range
<1> QED BY <1>1, <1>2, <1>5, <1>6 DEF G

\* The segment that Save writes.
NewSegment(mem, n) ==
    [data |-> mem.samples, order |-> Ordered(mem.samples, mem.index), upto |-> n]

\* What is saved goes on after the segments, and the newest times stay known.
LEMMA SavedInOrder ==
    ASSUME NEW q \in Seq(Segment), NEW mem \in Memory, Indexed(mem),
           GoesOn(mem, LoadedFrom(q).newest), NEW n \in Nat
    PROVE  LET seg == NewSegment(mem, n) IN
           /\ seg \in Segment /\ SegmentInOrder(seg, LoadedFrom(q))
           /\ \A l \in Labels : LoadedFrom(Append(q, seg)).newest[l] = mem.newest[l]
<1> DEFINE order == Ordered(mem.samples, mem.index)
<1> DEFINE seg == NewSegment(mem, n)
<1>1. mem.index \in Seq(Labels) /\ mem.samples \in [Labels -> Seq(Sample)]
  BY MemoryHas
<1>2. /\ order \in Seq(Labels)
      /\ Range(order) = {l \in Range(mem.index) : mem.samples[l] # <<>>}
  BY <1>1, OrderedIs
<1>3. seg.data = mem.samples /\ seg.order = order
  BY DEF NewSegment
<1>4. seg \in Segment
  <2> HIDE DEF order
  <2>1. \A i \in DOMAIN order : mem.samples[order[i]] # <<>>
    <3>1. \A i \in DOMAIN order : order[i] \in Range(order)
      BY DEF Range
    <3> QED BY <1>2, <3>1
  <2>2. seg = [data |-> mem.samples, order |-> order, upto |-> n]
    BY DEF NewSegment, order
  <2> HIDE DEF seg
  <2> QED BY <1>1, <1>2, <2>1, <2>2 DEF Segment
<1> HIDE DEF seg, order
<1>5. SegmentInOrder(seg, LoadedFrom(q))
  BY <1>3 DEF SegmentInOrder, GoesOn
<1>6. ASSUME NEW l \in Labels
      PROVE  LoadedFrom(Append(q, seg)).newest[l] = mem.newest[l]
  <2>1. Bare(LoadedFrom(q))
    BY LoadedBare
  <2>2. LoadedFrom(Append(q, seg)) = LoadSegment(LoadedFrom(q), seg)
    BY <1>4, LoadedAppend
  <2>3. LoadSegment(LoadedFrom(q), seg).newest[l] =
           IF l \in Range(seg.order) THEN Last(seg.data[l])[1] ELSE LoadedFrom(q).newest[l]
    BY <1>4, <2>1, LoadSegmentBare
  <2>4. mem.newest[l] = IF mem.samples[l] = <<>> THEN LoadedFrom(q).newest[l]
                                                ELSE Last(mem.samples[l])[1]
    BY DEF GoesOn
  <2>5. l \in Range(seg.order) <=> mem.samples[l] # <<>>
    BY <1>2, <1>3 DEF Indexed
  <2> QED BY <1>3, <2>2, <2>3, <2>4, <2>5, Zenon
<1> QED BY <1>4, <1>5, <1>6 DEF seg

\* A batch without its empty entries.
LEMMA EntriesType ==
    ASSUME NEW batch \in Seq(Entry)
    PROVE  Entries(batch) \in Seq(Entry)
<1>1. Len(batch) \in 0 .. Len(batch)
  OBVIOUS
<1> QED BY <1>1, EntriesRun

\* A record defines labels of its own entries only.
LEMMA NewLabelsIs ==
    ASSUME NEW es \in Seq(Entry)
    PROVE  NewLabels(es) \in Seq(Labels) /\ Range(NewLabels(es)) \subseteq Used(es)
<1>1. PICK r \in [0 .. Len(es) -> Seq(Labels)] :
               /\ r[0] = <<>> /\ r[Len(es)] = NewLabels(es)
               /\ \A i \in 1 .. Len(es) :
                     r[i] = (IF es[i].labels \in logged \cup Range(r[i - 1])
                               THEN r[i - 1] ELSE Append(r[i - 1], es[i].labels))
  BY NewLabelsRun
<1>2. Len(es) \in Nat /\ DOMAIN es = 1 .. Len(es)
  OBVIOUS
<1> DEFINE G == {i \in 0 .. Len(es) : Range(r[i]) \subseteq Used(es)}
<1>3. 0 \in G
  <2>1. Range(r[0]) = {}
    BY <1>1 DEF Range
  <2> QED BY <1>2, <2>1
<1>4. ASSUME NEW i \in 1 .. Len(es), i - 1 \in G PROVE i \in G
  <2>1. Range(r[i - 1]) \subseteq Used(es)
    BY <1>4
  <2> HIDE DEF G
  <2>2. i \in 0 .. Len(es) /\ i - 1 \in 0 .. Len(es) /\ es[i] \in Entry
    BY <1>2
  <2>3. r[i - 1] \in Seq(Labels) /\ es[i].labels \in Labels /\ es[i].labels \in Used(es)
    BY <1>1, <1>2, <2>2 DEF Entry, Used
  <2>4. Range(Append(r[i - 1], es[i].labels)) = Range(r[i - 1]) \cup {es[i].labels}
    BY <2>3, RangeAppend
  <2>5. r[i] = r[i - 1] \/ r[i] = Append(r[i - 1], es[i].labels)
    BY <1>1, Zenon
  <2>6. Range(r[i]) \subseteq Used(es)
    <3>1. CASE r[i] = r[i - 1]
      BY <2>1, <3>1, Zenon
    <3>2. CASE r[i] = Append(r[i - 1], es[i].labels)
      <4>1. Range(r[i]) = Range(r[i - 1]) \cup {es[i].labels}
        BY <2>4, <3>2, Zenon
      <4> QED BY <2>1, <2>3, <4>1, Zenon
    <3> QED BY <2>5, <3>1, <3>2
  <2> QED BY <2>2, <2>6 DEF G
<1> HIDE DEF G
<1>5. Len(es) \in G
  BY <1>2, <1>3, <1>4, UpTo
<1> QED BY <1>1, <1>2, <1>5 DEF G

LEMMA IdOfIs ==
    ASSUME NEW mem \in Memory, NEW l \in Range(mem.index)
    PROVE  /\ IdOf(mem, l) \in DOMAIN mem.index /\ IdOf(mem, l) \in Nat \ {0}
           /\ mem.index[IdOf(mem, l)] = l
<1>1. mem.index \in Seq(Labels) /\ \E i \in DOMAIN mem.index : mem.index[i] = l
  BY MemoryHas DEF Range
<1>2. IdOf(mem, l) \in DOMAIN mem.index /\ mem.index[IdOf(mem, l)] = l
  BY <1>1 DEF IdOf
<1> QED BY <1>1, <1>2

\* A record is made of ids that memory knows.
LEMMA RecordType ==
    ASSUME NEW mem \in Memory, NEW es \in Seq(Entry),
          Used(es) \subseteq Range(mem.index),
           NEW no \in Nat
    PROVE  LET rec == Record(mem, es, no) IN
           rec \in LogRecord /\ rec.samples \in Seq(Known(mem)) /\ rec.no = no
<1> DEFINE ls == NewLabels(es)
<1> DEFINE series == [i \in DOMAIN ls |-> [id |-> IdOf(mem, ls[i]), labels |-> ls[i]]]
<1> DEFINE stamped(i) == [j \in DOMAIN es[i].samples |-> <<es[i].samples[j], no>>]
<1> DEFINE samples == [i \in DOMAIN es |-> [id |-> IdOf(mem, es[i].labels),
                                            samples |-> stamped(i)]]
<1>1. Record(mem, es, no) = [no |-> no, series |-> series, samples |-> samples]
  BY Zenon DEF Record, NewLabels
<1>2. ls \in Seq(Labels) /\ Range(ls) \subseteq Range(mem.index)
  BY NewLabelsIs
<1>3. series \in Seq(IdSeries)
  <2> HIDE DEF ls
  <2>1. DOMAIN ls = 1 .. Len(ls) /\ Len(ls) \in Nat
    BY <1>2
  <2>2. ASSUME NEW i \in DOMAIN ls PROVE series[i] \in IdSeries
    <3>1. ls[i] \in Range(ls) /\ ls[i] \in Labels
      BY <1>2, <2>1 DEF Range
    <3>3. ls[i] \in Range(mem.index)
      BY <1>2, <3>1
    <3>2. IdOf(mem, ls[i]) \in Nat \ {0}
      BY <3>3, IdOfIs
    <3> QED BY <3>1, <3>2 DEF IdSeries
  <2>3. series \in [1 .. Len(ls) -> IdSeries]
    BY <2>1, <2>2
  <2> HIDE DEF series
  <2> QED BY <2>1, <2>3, FunctionIsSeq
<1>4. ASSUME NEW i \in DOMAIN es
      PROVE  samples[i] \in Known(mem) /\ samples[i] \in IdEntry
  <2>1. es[i].labels \in Range(mem.index) /\ es[i].samples \in Seq(Nat \ {0})
    <3>1. es[i] \in Entry
      OBVIOUS
    <3>2. es[i].labels \in Used(es)
      BY Zenon DEF Used
    <3> QED BY <3>1, <3>2 DEF Entry
  <2>2. IdOf(mem, es[i].labels) \in DOMAIN mem.index
        /\ IdOf(mem, es[i].labels) \in Nat \ {0}
    BY <2>1, IdOfIs
  <2>3. stamped(i) \in Seq(Sample)
    <3> DEFINE s == es[i].samples
    <3>1. s \in Seq(Nat \ {0})
      BY <2>1
    <3> HIDE DEF s
    <3>2. \A j \in 1 .. Len(s) : <<s[j], no>> \in Sample
      BY <3>1 DEF Sample
    <3>3. [j \in 1 .. Len(s) |-> <<s[j], no>>] \in [1 .. Len(s) -> Sample]
      BY <3>2
    <3>4. Len(s) \in Nat /\ DOMAIN s = 1 .. Len(s)
      BY <3>1
    <3>5. [j \in 1 .. Len(s) |-> <<s[j], no>>] \in Seq(Sample)
      BY <3>3, <3>4, FunctionIsSeq
    <3> QED BY <3>4, <3>5, Zenon DEF s
  <2> HIDE DEF stamped
  <2> QED BY <2>2, <2>3 DEF Known, IdEntry
<1>5. DOMAIN es = 1 .. Len(es) /\ Len(es) \in Nat
  OBVIOUS
<1>6. samples \in Seq(Known(mem)) /\ samples \in Seq(IdEntry)
  <2>1. samples \in [1 .. Len(es) -> Known(mem)]
        /\ samples \in [1 .. Len(es) -> IdEntry]
    BY <1>4, <1>5
  <2> HIDE DEF samples
  <2> QED BY <1>5, <2>1, FunctionIsSeq
<1> HIDE DEF series, samples
<1> QED BY <1>1, <1>3, <1>6 DEF LogRecord

-----------------------------------------------------------------------------
(* Files of the log. Numbers are at most k. *)

\* What a history of k batches can have put on disk.
Rec(k) == {r \in LogRecord : r.no <= k}

Seg(k) == {s \in Segment : s.upto <= k}

LogFile(k) == [recs : Seq(Rec(k)), synced : Nat, torn : BOOLEAN]

\* The files of a log.
Shape(w, k) ==
    /\ w \in [DOMAIN w -> LogFile(k)] /\ DOMAIN w \subseteq Nat \ {0}
    /\ \E b \in Nat : \A f \in DOMAIN w : f <= b
    /\ \A f \in DOMAIN w : w[f].synced <= Len(w[f].recs)

\* A step that damages no file.
SameTorn(v, w) == \A f \in DOMAIN v : v[f].torn => f \in DOMAIN w /\ w[f].torn

\* A bounded set of numbers that is not empty has a greatest.
LEMMA Greatest ==
    ASSUME NEW n \in Nat, NEW S, S \subseteq 0 .. n, S # {}
    PROVE  \E x \in S : \A y \in S : y <= x
<1> DEFINE P(k) == \A u \in SUBSET (0 .. k) : u # {} => \E x \in u : \A y \in u : y <= x
<1> DEFINE G == {k \in Nat : P(k)}
<1>1. 0 \in G
  <2>1. 0 .. 0 = {0}
    OBVIOUS
  <2>2. ASSUME NEW u \in SUBSET (0 .. 0), u # {} PROVE \E x \in u : \A y \in u : y <= x
    <3>1. \A y \in u : y = 0
      BY <2>1
    <3>2. 0 \in u
      BY <2>2, <3>1
    <3>3. \A y \in u : y <= 0
      BY <3>1
    <3> QED BY <3>2, <3>3
  <2> QED BY <2>2
<1>2. \A k \in Nat : k \in G => k + 1 \in G
  <2> SUFFICES ASSUME NEW k \in Nat, P(k), NEW u \in SUBSET (0 .. k + 1), u # {}
               PROVE  \E x \in u : \A y \in u : y <= x
    OBVIOUS
  <2>1. CASE k + 1 \in u
    <3>1. \A y \in u : y <= k + 1
      OBVIOUS
    <3> QED BY <2>1, <3>1
  <2>2. CASE k + 1 \notin u
    <3>1. \A y \in u : y \in 0 .. k
      BY <2>2
    <3> QED BY <3>1
  <2> QED BY <2>1, <2>2
<1> HIDE DEF G
<1>3. n \in G
  BY <1>1, <1>2, NatSet
<1> QED BY <1>3 DEF G

\* The last file.
LEMMA LastIs ==
    ASSUME NEW k, Shape(wal, k), DOMAIN wal # {}
    PROVE  /\ LastFile \in DOMAIN wal /\ LastFile \in Nat \ {0}
           /\ \A g \in DOMAIN wal : g <= LastFile
<1>1. PICK b \in Nat : \A f \in DOMAIN wal : f <= b
  BY DEF Shape
<1>2. DOMAIN wal \subseteq Nat \ {0}
  BY DEF Shape
<1>3. DOMAIN wal \subseteq 0 .. b
  BY <1>1, <1>2
<1>4. \E f \in DOMAIN wal : \A g \in DOMAIN wal : g <= f
  BY <1>3, Greatest
<1>5. LastFile \in DOMAIN wal /\ \A g \in DOMAIN wal : g <= LastFile
  BY <1>4, Zenon DEF LastFile, FileIds
<1> QED BY <1>2, <1>5

LEMMA EmptyFileShape ==
    ASSUME NEW k
    PROVE  /\ EmptyFile \in LogFile(k) /\ EmptyFile.synced <= Len(EmptyFile.recs)
           /\ ~EmptyFile.torn
BY DEF EmptyFile, LogFile

\* The log with a new file, ...
LEMMA WithFileShape ==
    ASSUME NEW k, NEW w, Shape(w, k), NEW id \in Nat \ {0}
    PROVE  LET v == WithFile(w, id) IN
           /\ Shape(v, k) /\ DOMAIN v = DOMAIN w \cup {id} /\ SameTorn(v, w)
           /\ \A f \in DOMAIN v : v[f] = IF f = id THEN EmptyFile ELSE w[f]
<1> DEFINE v == WithFile(w, id)
<1>1. /\ DOMAIN v = DOMAIN w \cup {id}
      /\ \A f \in DOMAIN v : v[f] = IF f = id THEN EmptyFile ELSE w[f]
      /\ v = [f \in DOMAIN v |-> v[f]]
  BY DEF WithFile
<1> HIDE DEF v
<1>2. PICK b \in Nat : \A f \in DOMAIN w : f <= b
  BY DEF Shape
<1>3. \A f \in DOMAIN v : v[f] \in LogFile(k) /\ v[f].synced <= Len(v[f].recs)
  BY <1>1, EmptyFileShape DEF Shape
<1>4. \E c \in Nat : \A f \in DOMAIN v : f <= c
  <2>1. CASE id <= b
    BY <1>1, <1>2, <2>1
  <2>2. CASE id > b
    <3>1. DOMAIN w \subseteq Nat
      BY DEF Shape
    <3>2. \A f \in DOMAIN v : f <= id
      BY <1>1, <1>2, <2>2, <3>1
    <3> QED BY <3>2
  <2> QED BY <1>2, <2>1, <2>2
<1>5. Shape(v, k)
  BY <1>1, <1>3, <1>4 DEF Shape
<1>6. SameTorn(v, w)
  BY <1>1, EmptyFileShape DEF SameTorn
<1> QED BY <1>1, <1>5, <1>6 DEF v

\* A file of a shape in place of another.
LEMMA InPlace ==
    ASSUME NEW k, NEW w, Shape(w, k), NEW v, DOMAIN v = DOMAIN w,
           v = [f \in DOMAIN v |-> v[f]],
           \A f \in DOMAIN v : v[f] \in LogFile(k) /\ v[f].synced <= Len(v[f].recs)
    PROVE  Shape(v, k)
BY DEF Shape

\* ... with records written, ...
LEMMA DrainedShape ==
    ASSUME NEW k, Shape(wal, k), LastFile \in DOMAIN wal,
           walBuf \in Seq(Rec(k)), NEW n \in 0 .. Len(walBuf)
    PROVE  LET v == Drained(n) IN
           Shape(v, k) /\ DOMAIN v = DOMAIN wal /\ SameTorn(v, wal)
<1> DEFINE old == wal[LastFile]
<1> DEFINE new == [old EXCEPT !.recs = old.recs \o SubSeq(walBuf, 1, n)]
<1> DEFINE v == Drained(n)
<1>1. old \in LogFile(k) /\ old.synced <= Len(old.recs)
  BY DEF Shape
<1>2. SubSeq(walBuf, 1, n) \in Seq(Rec(k)) /\ old.recs \in Seq(Rec(k))
      /\ old.synced \in Nat
  BY <1>1 DEF LogFile
<1>3. v = [wal EXCEPT ![LastFile] = new]
  BY DEF Drained
<1> HIDE DEF v, old
<1>4. new \in LogFile(k) /\ new.torn = old.torn /\ new.synced <= Len(new.recs)
  <2>1. old.recs \o SubSeq(walBuf, 1, n) \in Seq(Rec(k))
    BY <1>2
  <2>2. Len(old.recs) <= Len(old.recs \o SubSeq(walBuf, 1, n))
    <3> DEFINE s == SubSeq(walBuf, 1, n)
    <3> DEFINE r == old.recs
    <3>1. s \in Seq(Rec(k)) /\ r \in Seq(Rec(k))
      BY <1>2
    <3> HIDE DEF s, r
    <3>2. Len(r \o s) = Len(r) + Len(s) /\ Len(r) \in Nat /\ Len(s) \in Nat
      BY <3>1
    <3>3. Len(r) <= Len(r \o s)
      BY <3>2
    <3> QED BY <3>3 DEF s, r
  <2>3. /\ new.recs = old.recs \o SubSeq(walBuf, 1, n) /\ new.synced = old.synced
        /\ new.torn = old.torn
    BY <1>1 DEF LogFile
  <2>4. new \in LogFile(k)
    BY <1>1, <2>1 DEF LogFile
  <2>5. new.synced <= Len(new.recs)
    <3>1. Len(old.recs) \in Nat /\ Len(new.recs) \in Nat
      BY <1>2, <2>1, <2>3
    <3>2. Len(old.recs) <= Len(new.recs)
      BY <2>2, <2>3, Zenon
    <3>3. new.synced \in Nat /\ new.synced <= Len(old.recs)
      BY <1>1, <1>2, <2>3
    <3> HIDE DEF new
    <3> QED BY <3>1, <3>2, <3>3
  <2> QED BY <2>3, <2>4, <2>5
<1> HIDE DEF new
<1>5. /\ DOMAIN v = DOMAIN wal /\ v = [f \in DOMAIN v |-> v[f]]
      /\ \A f \in DOMAIN v : v[f] = IF f = LastFile THEN new ELSE wal[f]
  BY <1>3 DEF Shape
<1>6. Shape(v, k)
  <2>1. \A f \in DOMAIN v : v[f] \in LogFile(k) /\ v[f].synced <= Len(v[f].recs)
    BY <1>4, <1>5 DEF Shape
  <2> QED BY <1>5, <2>1, InPlace
<1>7. SameTorn(v, wal)
  BY <1>4, <1>5 DEF SameTorn, old
<1> QED BY <1>5, <1>6, <1>7 DEF v

\* ... and synced: no file is damaged that was not.
LEMMA SyncedShape ==
    ASSUME NEW k, NEW w, Shape(w, k), LastFile \in DOMAIN w
    PROVE  LET v == Synced(w) IN
           Shape(v, k) /\ DOMAIN v = DOMAIN w /\ SameTorn(v, w)
<1> DEFINE old == w[LastFile]
<1> DEFINE new == [old EXCEPT !.synced = Len(old.recs)]
<1> DEFINE v == Synced(w)
<1>1. old \in LogFile(k)
  BY DEF Shape
<1>2. Len(old.recs) \in Nat
  BY <1>1 DEF LogFile
<1>3. v = [w EXCEPT ![LastFile] = new]
  BY DEF Synced
<1> HIDE DEF v, old
<1>4. /\ new \in LogFile(k) /\ new.torn = old.torn
      /\ new.synced = Len(old.recs) /\ new.recs = old.recs
  BY <1>1, <1>2 DEF LogFile
<1> HIDE DEF new
<1>5. /\ DOMAIN v = DOMAIN w /\ v = [f \in DOMAIN v |-> v[f]]
      /\ \A f \in DOMAIN v : v[f] = IF f = LastFile THEN new ELSE w[f]
  BY <1>3 DEF Shape
<1>6. Shape(v, k)
  <2>1. \A f \in DOMAIN v : v[f] \in LogFile(k) /\ v[f].synced <= Len(v[f].recs)
    BY <1>2, <1>4, <1>5 DEF Shape
  <2> QED BY <1>5, <2>1, InPlace
<1>7. SameTorn(v, w)
  BY <1>4, <1>5 DEF SameTorn, old
<1> QED BY <1>5, <1>6, <1>7 DEF v

LEMMA LogRecordsType ==
    ASSUME NEW k, Shape(wal, k)
    PROVE  LogRecords \in Seq(LogRecord) /\ (FileIds = {} => LogRecords = <<>>)
<1>1. CASE FileIds = {}
  <2>1. LogRecords = <<>>
    BY <1>1 DEF LogRecords
  <2> QED BY <2>1
<1>2. CASE FileIds # {}
  <2> DEFINE qs == [f \in 1 .. LastFile |-> IF f \in FileIds THEN wal[f].recs ELSE <<>>]
  <2>1. LastFile \in Nat
    BY <1>2, LastIs DEF FileIds
  <2>2. ASSUME NEW f \in FileIds PROVE wal[f].recs \in Seq(LogRecord)
    <3>1. wal[f].recs \in Seq(Rec(k))
      BY DEF Shape, FileIds, LogFile
    <3> QED BY <3>1 DEF Rec
  <2>3. qs \in [1 .. LastFile -> Seq(LogRecord)]
    BY <2>2
  <2>4. LogRecords = FlattenSeq(qs)
    BY <1>2, Zenon DEF LogRecords
  <2> HIDE DEF qs
  <2>5. qs \in Seq(Seq(LogRecord))
    BY <2>1, <2>3, FunctionIsSeq
  <2>6. LogRecords \in Seq(LogRecord)
    BY <2>4, <2>5, FlattenType
  <2> QED BY <1>2, <2>6
<1> QED BY <1>1, <1>2

\* What open reads into memory.
LEMMA OpenReads ==
    ASSUME NEW k, Shape(wal, k), segs \in Seq(Segment)
    PROVE  LET mem == Replayed(Restored, LogRecords) IN
           /\ Sound(mem, LoadedFrom(segs).newest)
           /\ FileIds = {} => mem.buffered = 0
<1> DEFINE base == LoadedFrom(segs).newest
<1> DEFINE state == [m |-> Restored, ids |-> <<>>, pending |-> <<>>]
<1>1. Restored = LoadedFrom(segs)
  BY ChainedIs
<1>2. Bare(Restored)
  BY <1>1, LoadedBare
<1>3. base \in [Labels -> Nat] /\ Sound(Restored, base)
  BY <1>1, <1>2, BareSound
<1>4. Resolving(state, base)
  <2>1. <<>> \in Partly(Labels) /\ <<>> \in Partly(Seq(Sample))
    <3>1. <<>> \in [{} -> Labels] /\ <<>> \in [{} -> Seq(Sample)] /\ {} \in SUBSET Nat
      OBVIOUS
    <3> QED BY <3>1, Partial
  <2>2. Restored \in Memory
    BY <1>2 DEF Bare
  <2>3. state \in Resolver
    BY <2>1, <2>2 DEF Resolver
  <2>4. state.m = Restored /\ DOMAIN state.ids = {}
    OBVIOUS
  <2> HIDE DEF state, base
  <2> QED BY <1>3, <2>3, <2>4 DEF Resolving
<1>5. LogRecords \in Seq(LogRecord) /\ (FileIds = {} => LogRecords = <<>>)
  BY LogRecordsType
<1>6. Replayed(Restored, LogRecords) = RecordsApplied(state, LogRecords).m
  BY DEF Replayed, RecordsApplied
<1>7. state.m = Restored
  OBVIOUS
<1> HIDE DEF state, base
<1>8. Resolving(RecordsApplied(state, LogRecords), base)
  BY <1>3, <1>4, <1>5, RecordsSound
<1>9. ASSUME FileIds = {} PROVE RecordsApplied(state, LogRecords) = state
  <2>1. Len(LogRecords) = 0
    BY <1>5, <1>9
  <2>2. state \in Resolver
    BY <1>4 DEF Resolving
  <2>3. PICK r \in [0 .. Len(LogRecords) -> Resolver] :
               r[0] = state /\ r[Len(LogRecords)] = RecordsApplied(state, LogRecords)
    BY <1>5, <2>2, ReplayedRun
  <2> QED BY <2>1, <2>3
<1>10. Restored.buffered = 0
  BY <1>2 DEF Bare
<1> QED BY <1>6, <1>7, <1>8, <1>9, <1>10 DEF Resolving, base

-----------------------------------------------------------------------------
(* The invariant. *)

\* Every variable's shape, the records and segments numbered within the history.
Types ==
    /\ segs \in Seq(Seg(Len(hist))) /\ named \in 0 .. Len(segs)
    /\ Shape(wal, Len(hist)) /\ walBuf \in Seq(Rec(Len(hist)))
    /\ m \in Memory /\ logged \subseteq Range(m.index)
    /\ hist \in Seq(Batches) /\ acked \in Nat /\ doomed \in Nat
    /\ pc \in {"down", "refused", "create", "idle", "cut", "save", "renamed", "remove"}
    /\ by \in {"open", "write", "flush"} /\ failed \in BOOLEAN

\* Where the holder of the lock is, and what is in the log and memory then.
Places ==
    /\ failed => pc = "idle"
    /\ pc \in {"down", "refused", "create"} => walBuf = <<>> /\ logged = {}
    /\ pc \in {"down", "refused"} => m = NoMemory
    /\ pc = "create" /\ doomed = 0 => m.buffered = 0
    /\ pc \notin {"down", "refused", "create"} => \E f \in DOMAIN wal : f > doomed
    /\ pc = "renamed" => \A l \in Labels : m.samples[l] = <<>>
    /\ pc = "remove" => m.buffered = 0

\* Memory counts what it has, and between requests less than MaxBuffer of it.
Buffered ==
    /\ Indexed(m)
    /\ ~failed /\ pc # "renamed" => Counted(m)
    /\ ~failed /\ pc = "idle" => m.buffered < MaxBuffer

\* The segments follow each other in time, and memory follows them.
InOrder ==
    /\ Chained(segs)
    /\ ~failed /\ pc \notin {"down", "refused"} => GoesOn(m, LoadedFrom(segs).newest)

\* Without a loss of unsynced ends, only the last record of the log is damaged.
Whole ==
    "ends" \notin PowerLoss =>
    /\ pc # "refused"
    /\ \A f \in DOMAIN wal : wal[f].torn => pc = "down" /\ \A g \in DOMAIN wal : g <= f

\* The inductive invariant.
SafeInv == Types /\ Places /\ Buffered /\ InOrder /\ Whole

LEMMA SegmentsType ==
    ASSUME NEW k, NEW q \in Seq(Seg(k))
    PROVE  q \in Seq(Segment)
BY DEF Seg

\* It holds at first.
LEMMA InitSafe == Init => SafeInv
<1> SUFFICES ASSUME Init PROVE SafeInv
  OBVIOUS
<1>1. Types
  <2>1. Len(hist) = 0 /\ hist \in Seq(Batches) /\ walBuf \in Seq(Rec(Len(hist)))
        /\ segs \in Seq(Seg(Len(hist))) /\ Len(segs) = 0
    BY DEF Init
  <2>2. Shape(wal, Len(hist))
    <3>1. wal = <<>> /\ DOMAIN wal = {} /\ 0 \in Nat
      BY DEF Init
    <3>2. wal \in [DOMAIN wal -> LogFile(Len(hist))]
      BY <3>1
    <3> QED BY <3>1, <3>2 DEF Shape
  <2>3. m \in Memory
    BY NoMemoryType DEF Init
  <2>4. /\ named \in 0 .. Len(segs) /\ logged \subseteq Range(m.index)
        /\ acked \in Nat /\ doomed \in Nat
    BY <2>1 DEF Init
  <2>5. /\ pc = "down" /\ by = "open" /\ failed = FALSE
    BY DEF Init
  <2> QED BY <2>1, <2>2, <2>3, <2>4, <2>5 DEF Types
<1>2. Places
  BY DEF Init, Places
<1>3. Buffered
  <2>1. Bare(m)
    BY NoMemoryBare DEF Init
  <2>2. Sound(m, m.newest)
    BY <2>1, BareSound
  <2> QED BY <2>2 DEF Init, Buffered, Sound
<1>4. InOrder
  <2>1. segs = <<>> /\ DOMAIN segs = {} /\ pc = "down"
    BY DEF Init
  <2> QED BY <2>1 DEF InOrder, Chained
<1>5. Whole
  BY DEF Init, Whole
<1> QED BY <1>1, <1>2, <1>3, <1>4, <1>5 DEF SafeInv

\* While Db is open the last file is one that stays.
LEMMA UpLast ==
    ASSUME Types, Places, Up
    PROVE  /\ LastFile \in DOMAIN wal /\ LastFile \in Nat \ {0} /\ LastFile > doomed
           /\ \A g \in DOMAIN wal : g <= LastFile
<1>1. PICK f \in DOMAIN wal : f > doomed
  BY DEF Places, Up
<1>2. Shape(wal, Len(hist)) /\ doomed \in Nat
  BY DEF Types
<1>3. LastFile \in DOMAIN wal /\ LastFile \in Nat \ {0}
      /\ \A g \in DOMAIN wal : g <= LastFile
  BY <1>1, <1>2, LastIs
<1>4. f \in Nat
  BY <1>1, <1>2 DEF Shape
<1> QED BY <1>1, <1>2, <1>3, <1>4

\* A step of the log while Db is open.
LEMMA LogStep ==
    ASSUME SafeInv, Up,
           UNCHANGED <<segs, named, m, logged, failed, pc, by, doomed, ghosts>>,
           Shape(wal', Len(hist)), walBuf' \in Seq(Rec(Len(hist))),
           \E f \in DOMAIN wal' : f > doomed, SameTorn(wal', wal)
    PROVE  SafeInv'
<1> USE DEF ghosts
<1>1. Types /\ Places /\ Buffered /\ InOrder /\ Whole
  BY DEF SafeInv
<1>2. Types'
  BY <1>1 DEF Types
<1>3. Places'
  BY <1>1 DEF Places, Up
<1>4. Buffered'
  BY <1>1 DEF Buffered
<1>5. InOrder'
  BY <1>1 DEF InOrder
<1>6. Whole'
  BY <1>1 DEF Whole, Up, SameTorn
<1> QED BY <1>2, <1>3, <1>4, <1>5, <1>6 DEF SafeInv

\* Each step keeps it: the threads of the log, ...
LEMMA LogWriteSafe == SafeInv /\ LogWrite => SafeInv'
<1> SUFFICES ASSUME SafeInv, LogWrite PROVE SafeInv'
  OBVIOUS
<1>1. Types /\ Places /\ Up
  BY DEF SafeInv, LogWrite
<1>2. LastFile \in DOMAIN wal /\ LastFile > doomed
  BY <1>1, UpLast
<1>3. PICK n \in 1 .. Len(walBuf) :
        wal' = Drained(n) /\ walBuf' = SubSeq(walBuf, n + 1, Len(walBuf))
  BY DEF LogWrite
<1>4. Shape(wal, Len(hist)) /\ walBuf \in Seq(Rec(Len(hist))) /\ n \in 0 .. Len(walBuf)
  BY <1>1, <1>3 DEF Types
<1>5. Shape(wal', Len(hist)) /\ DOMAIN wal' = DOMAIN wal /\ SameTorn(wal', wal)
  BY <1>2, <1>3, <1>4, DrainedShape
<1>6. walBuf' \in Seq(Rec(Len(hist)))
  BY <1>3, <1>4
<1>7. UNCHANGED <<segs, named, m, logged, failed, pc, by, doomed, ghosts>>
  BY DEF LogWrite
<1> QED BY <1>1, <1>2, <1>5, <1>6, <1>7, LogStep

LEMMA LogSyncSafe == SafeInv /\ LogSync => SafeInv'
<1> SUFFICES ASSUME SafeInv, LogSync PROVE SafeInv'
  OBVIOUS
<1>1. Types /\ Places /\ Up
  BY DEF SafeInv, LogSync
<1>2. LastFile \in DOMAIN wal /\ LastFile > doomed
  BY <1>1, UpLast
<1>3. Shape(wal, Len(hist)) /\ walBuf' \in Seq(Rec(Len(hist))) /\ wal' = Synced(wal)
  BY <1>1 DEF Types, LogSync
<1>4. Shape(wal', Len(hist)) /\ DOMAIN wal' = DOMAIN wal /\ SameTorn(wal', wal)
  BY <1>2, <1>3, SyncedShape
<1>5. UNCHANGED <<segs, named, m, logged, failed, pc, by, doomed, ghosts>>
  BY DEF LogSync
<1> QED BY <1>1, <1>2, <1>3, <1>4, <1>5, LogStep

LEMMA SameTornTransitive ==
    ASSUME NEW u, NEW v, NEW w, SameTorn(u, v), SameTorn(v, w)
    PROVE  SameTorn(u, w)
BY DEF SameTorn

LEMMA LogRotateSafe == SafeInv /\ LogRotate => SafeInv'
<1> SUFFICES ASSUME SafeInv, LogRotate PROVE SafeInv'
  OBVIOUS
<1>1. Types /\ Places /\ Up
  BY DEF SafeInv, LogRotate
<1>2. LastFile \in DOMAIN wal /\ LastFile > doomed /\ LastFile + 1 \in Nat \ {0}
  BY <1>1, UpLast
<1>3. Shape(wal, Len(hist)) /\ walBuf' \in Seq(Rec(Len(hist)))
  BY <1>1 DEF Types, LogRotate
<1> DEFINE v == Synced(wal)
<1>4. Shape(v, Len(hist)) /\ DOMAIN v = DOMAIN wal
      /\ SameTorn(v, wal)
  BY <1>2, <1>3, SyncedShape
<1>5. wal' = WithFile(v, LastFile + 1)
  BY DEF LogRotate
<1> HIDE DEF v
<1>6. /\ Shape(wal', Len(hist)) /\ DOMAIN wal' = DOMAIN v \cup {LastFile + 1}
      /\ SameTorn(wal', v)
  BY <1>2, <1>4, <1>5, WithFileShape
<1>7. SameTorn(wal', wal)
  BY <1>4, <1>6, SameTornTransitive
<1>9. \E f \in DOMAIN wal' : f > doomed
  BY <1>2, <1>4, <1>6
<1>8. UNCHANGED <<segs, named, m, logged, failed, pc, by, doomed, ghosts>>
  BY DEF LogRotate
<1> QED BY <1>1, <1>3, <1>6, <1>7, <1>8, <1>9, LogStep

\* ... the removal and the cut, ...
LEMMA RemoveFileSafe == SafeInv /\ RemoveFile => SafeInv'
<1> SUFFICES ASSUME SafeInv, RemoveFile PROVE SafeInv'
  OBVIOUS
<1>1. Types /\ Places /\ Up
  BY DEF SafeInv, RemoveFile, Up
<1>2. LastFile \in DOMAIN wal /\ LastFile > doomed /\ doomed \in Nat
  BY <1>1, UpLast DEF Types
<1>3. PICK f \in FileIds : f <= doomed /\ wal' = [g \in FileIds \ {f} |-> wal[g]]
  BY DEF RemoveFile
<1>4. Shape(wal, Len(hist)) /\ walBuf' \in Seq(Rec(Len(hist)))
  BY <1>1 DEF Types, RemoveFile
<1>5. /\ DOMAIN wal' = DOMAIN wal \ {f} /\ \A g \in DOMAIN wal' : wal'[g] = wal[g]
      /\ wal' = [g \in DOMAIN wal' |-> wal'[g]]
  BY <1>3 DEF FileIds
<1>6. f # LastFile
  <2>1. f \in Nat
    BY <1>3, <1>4 DEF Shape, FileIds
  <2> QED BY <1>2, <1>3, <2>1
<1>7. Shape(wal', Len(hist)) /\ SameTorn(wal', wal)
  <2>1. SameTorn(wal', wal)
    BY <1>5 DEF SameTorn
  <2>2. PICK b \in Nat : \A g \in DOMAIN wal : g <= b
    BY <1>4 DEF Shape
  <2>3. \A g \in DOMAIN wal' : g <= b
    BY <1>5, <2>2
  <2>4. \A g \in DOMAIN wal' : wal'[g] \in LogFile(Len(hist))
        /\ wal'[g].synced <= Len(wal'[g].recs)
    BY <1>4, <1>5 DEF Shape
  <2>5. DOMAIN wal' \subseteq Nat \ {0}
    BY <1>4, <1>5 DEF Shape
  <2>6. wal' \in [DOMAIN wal' -> LogFile(Len(hist))]
    BY <1>5, <2>4
  <2> QED BY <2>1, <2>3, <2>4, <2>5, <2>6 DEF Shape
<1>8. UNCHANGED <<segs, named, m, logged, failed, pc, by, doomed, ghosts>>
  BY DEF RemoveFile
<1> QED BY <1>1, <1>2, <1>4, <1>5, <1>6, <1>7, <1>8, LogStep

LEMMA CutSafe == SafeInv /\ Cut => SafeInv'
<1> SUFFICES ASSUME SafeInv, Cut PROVE SafeInv'
  OBVIOUS
<1> USE DEF ghosts
<1>1. Types /\ Places /\ Buffered /\ InOrder /\ Whole /\ Up
  BY DEF SafeInv, Cut, Up
<1>2. LastFile \in DOMAIN wal /\ LastFile \in Nat /\ LastFile + 1 \in Nat \ {0}
  BY <1>1, UpLast
<1> DEFINE n == Len(walBuf)
<1> DEFINE v == Drained(n)
<1>3. Shape(wal, Len(hist)) /\ walBuf \in Seq(Rec(Len(hist))) /\ n \in 0 .. Len(walBuf)
  BY <1>1 DEF Types
<1>4. Shape(v, Len(hist)) /\ DOMAIN v = DOMAIN wal /\ SameTorn(v, wal)
  BY <1>2, <1>3, DrainedShape
<1>5. wal' = WithFile(Synced(v), LastFile + 1)
  BY DEF Cut
<1> HIDE DEF v
<1>6. Shape(Synced(v), Len(hist)) /\ DOMAIN Synced(v) = DOMAIN v
      /\ SameTorn(Synced(v), v)
  BY <1>2, <1>4, SyncedShape
<1>7. /\ Shape(wal', Len(hist)) /\ DOMAIN wal' = DOMAIN Synced(v) \cup {LastFile + 1}
      /\ SameTorn(wal', Synced(v))
  BY <1>2, <1>5, <1>6, WithFileShape
<1>8. SameTorn(wal', wal)
  BY <1>4, <1>6, <1>7, SameTornTransitive
<1>9. /\ pc = "cut" /\ pc' = "save" /\ walBuf' = <<>> /\ doomed' = LastFile
      /\ UNCHANGED <<segs, named, m, logged, failed, by, ghosts>>
  BY DEF Cut
<1>10. Types'
  BY <1>1, <1>2, <1>7, <1>9 DEF Types
<1>11. Places'
  <2>1. LastFile + 1 \in DOMAIN wal' /\ LastFile + 1 > LastFile
    BY <1>2, <1>7
  <2>2. \E f \in DOMAIN wal' : f > doomed'
    BY <1>9, <2>1
  <2>3. failed = FALSE
    BY <1>1, <1>9 DEF Places, Types
  <2> QED BY <1>9, <2>2, <2>3 DEF Places
<1>12. Buffered'
  BY <1>1, <1>9 DEF Buffered
<1>13. InOrder'
  BY <1>1, <1>9 DEF InOrder
<1>14. Whole'
  BY <1>1, <1>8, <1>9 DEF Whole, SameTorn
<1> QED BY <1>10, <1>11, <1>12, <1>13, <1>14 DEF SafeInv

-----------------------------------------------------------------------------
(* Stops. *)

\* The numbers that files hold.
Nos(sg, w) ==
    {sg[i].upto : i \in DOMAIN sg}
    \cup UNION {{w[f].recs[i].no : i \in DOMAIN w[f].recs} : f \in DOMAIN w}

\* After a stop the history ends with the last batch that files hold.
LEMMA SurvivorsIs ==
    ASSUME NEW n \in Nat, NEW sg \in Seq(Seg(n)), NEW w, Shape(w, n)
    PROVE  /\ Survivors(sg, w) \in 0 .. n
           /\ sg \in Seq(Seg(Survivors(sg, w))) /\ Shape(w, Survivors(sg, w))
<1> DEFINE nos == Nos(sg, w)
<1> DEFINE s == Survivors(sg, w)
<1>1. \A i \in DOMAIN sg : sg[i].upto \in nos /\ sg[i] \in Segment
      /\ sg[i].upto \in 0 .. n
  <2> SUFFICES ASSUME NEW i \in DOMAIN sg
               PROVE  sg[i].upto \in nos /\ sg[i] \in Segment /\ sg[i].upto \in 0 .. n
    OBVIOUS
  <2>1. sg[i] \in Seg(n)
    OBVIOUS
  <2>2. sg[i] \in Segment /\ sg[i].upto <= n
    BY <2>1 DEF Seg
  <2>3. sg[i].upto \in Nat
    BY <2>2 DEF Segment
  <2>4. sg[i].upto \in nos
    BY DEF Nos
  <2> QED BY <2>2, <2>3, <2>4
<1>2. ASSUME NEW f \in DOMAIN w
      PROVE  /\ w[f].recs \in Seq(LogRecord)
             /\ \A i \in DOMAIN w[f].recs : w[f].recs[i].no \in nos
                   /\ w[f].recs[i].no \in 0 .. n
  <2>1. w[f].recs \in Seq(Rec(n))
    BY DEF Shape, LogFile
  <2>2. ASSUME NEW i \in DOMAIN w[f].recs
        PROVE  w[f].recs[i].no \in nos /\ w[f].recs[i].no \in 0 .. n
    <3>1. w[f].recs[i] \in LogRecord /\ w[f].recs[i].no <= n
      BY <2>1 DEF Rec
    <3>2. w[f].recs[i].no \in Nat
      BY <3>1 DEF LogRecord
    <3>3. w[f].recs[i].no \in nos
      BY DEF Nos
    <3> QED BY <3>1, <3>2, <3>3
  <2>3. w[f].recs \in Seq(LogRecord)
    BY <2>1 DEF Rec
  <2> QED BY <2>2, <2>3
<1>3. nos \cup {0} \subseteq 0 .. n
  <2>1. \A k \in nos : k \in 0 .. n
    BY <1>1, <1>2 DEF Nos
  <2> HIDE DEF nos
  <2> QED BY <2>1
<1>4. s = CHOOSE k \in nos \cup {0} : \A j \in nos : j <= k
  BY DEF Survivors, Nos
<1> HIDE DEF nos, s
<1>5. \E k \in nos \cup {0} : \A j \in nos \cup {0} : j <= k
  BY <1>3, Greatest
<1>6. s \in nos \cup {0} /\ \A j \in nos : j <= s
  BY <1>4, <1>5, Zenon
<1>7. s \in 0 .. n
  BY <1>3, <1>6
<1>8. sg \in Seq(Seg(s))
  <2>1. \A i \in DOMAIN sg : sg[i] \in Seg(s)
    BY <1>1, <1>6 DEF Seg
  <2>2. DOMAIN sg = 1 .. Len(sg) /\ Len(sg) \in Nat
        /\ sg = [i \in 1 .. Len(sg) |-> sg[i]]
    OBVIOUS
  <2>3. sg \in [1 .. Len(sg) -> Seg(s)]
    BY <2>1, <2>2
  <2> QED BY <2>2, <2>3, FunctionIsSeq
<1>9. ASSUME NEW f \in DOMAIN w PROVE w[f] \in LogFile(s)
  <2> DEFINE r == w[f].recs
  <2>1. r \in Seq(LogRecord) /\ \A i \in DOMAIN r : r[i].no <= s
    BY <1>2, <1>6
  <2>2. w[f] \in LogFile(n)
    BY DEF Shape
  <2>3. w[f] = [recs |-> r, synced |-> w[f].synced, torn |-> w[f].torn]
        /\ w[f].synced \in Nat /\ w[f].torn \in BOOLEAN
    BY <2>2 DEF LogFile
  <2> HIDE DEF r
  <2>4. DOMAIN r = 1 .. Len(r) /\ Len(r) \in Nat /\ r = [i \in 1 .. Len(r) |-> r[i]]
    BY <2>1
  <2>5. r \in [1 .. Len(r) -> Rec(s)]
    BY <2>1, <2>4 DEF Rec
  <2>6. r \in Seq(Rec(s))
    BY <2>4, <2>5, FunctionIsSeq
  <2> QED BY <2>3, <2>6 DEF LogFile
<1>10. Shape(w, s)
  BY <1>9 DEF Shape
<1> QED BY <1>7, <1>8, <1>10 DEF s

\* The history has lost batches at its end.
Shortened == \E n \in 0 .. Len(hist) : hist' = SubSeq(hist, 1, n)

\* A stop that leaves a part of the files.
LEMMA StopSafe ==
    ASSUME SafeInv, StopWith, NEW n \in 0 .. Len(segs), segs' = SubSeq(segs, 1, n),
           named' \in 0 .. Len(segs'), Shape(wal', Len(hist)),
           "ends" \notin PowerLoss => \A f \in DOMAIN wal' : wal'[f].torn =>
                                         \A g \in DOMAIN wal' : g <= f
    PROVE  SafeInv' /\ Shortened
<1>1. Types /\ Places /\ Buffered /\ InOrder /\ Whole
  BY DEF SafeInv
<1>2. /\ walBuf' = <<>> /\ m' = NoMemory /\ logged' = {} /\ failed' = FALSE
      /\ pc' = "down" /\ by' = "open" /\ doomed' = 0
      /\ acked' = IF Ackable > acked THEN Ackable ELSE acked
      /\ hist' = SubSeq(hist, 1, Survivors(segs', wal'))
  BY DEF StopWith, Stopped
<1>3. Len(hist) \in Nat /\ hist \in Seq(Batches) /\ segs \in Seq(Seg(Len(hist)))
  BY <1>1 DEF Types
<1>4. segs' \in Seq(Seg(Len(hist)))
  BY <1>3
<1> DEFINE s == Survivors(segs', wal')
<1>5. s \in 0 .. Len(hist) /\ segs' \in Seq(Seg(s)) /\ Shape(wal', s)
  BY <1>3, <1>4, SurvivorsIs
<1> HIDE DEF s
<1>6. hist' \in Seq(Batches) /\ Len(hist') = s
  BY <1>2, <1>3, <1>5 DEF s
<1>7. acked' \in Nat
  <2>1. Len(walBuf) \in Nat /\ acked \in Nat
    BY <1>1 DEF Types
  <2>2. Ackable \in Int
    BY <1>3, <2>1 DEF Ackable
  <2> QED BY <1>2, <2>1, <2>2
<1>8. Bare(m') /\ m' \in Memory
  BY <1>2, NoMemoryBare DEF Bare
<1>9. Types'
  <2>1. walBuf' \in Seq(Rec(Len(hist'))) /\ logged' \subseteq Range(m'.index)
    BY <1>2
  <2>2. segs' \in Seq(Seg(Len(hist'))) /\ Shape(wal', Len(hist'))
    BY <1>5, <1>6
  <2> QED BY <1>2, <1>6, <1>7, <1>8, <2>1, <2>2 DEF Types
<1>10. Places'
  BY <1>2 DEF Places
<1>11. Buffered'
  <2>1. Sound(m', m'.newest)
    BY <1>8, BareSound
  <2> QED BY <1>2, <2>1 DEF Buffered, Sound
<1>12. InOrder'
  <2>1. Chained(segs) /\ segs \in Seq(Segment)
    BY <1>1, <1>3, SegmentsType DEF InOrder
  <2>2. Chained(segs')
    BY <2>1, ChainedPrefix
  <2> QED BY <1>2, <2>2 DEF InOrder
<1>13. Whole'
  BY <1>2 DEF Whole
<1>14. Shortened
  BY <1>2, <1>5 DEF Shortened, s
<1> QED BY <1>9, <1>10, <1>11, <1>12, <1>13, <1>14 DEF SafeInv

\* The same when an opening Db gives up.
LEMMA OpenFailsSafe ==
    ASSUME SafeInv, Up, OpenFails, UNCHANGED <<disk, hist, acked>>
    PROVE  SafeInv'
<1>1. Types /\ Places /\ Buffered /\ InOrder /\ Whole
  BY DEF SafeInv
<1>2. /\ walBuf' = <<>> /\ m' = NoMemory /\ logged' = {} /\ failed' = FALSE
      /\ pc' = "down" /\ by' = "open" /\ doomed' = 0
      /\ UNCHANGED <<segs, named, wal, hist, acked>>
  BY DEF OpenFails, Stopped, disk
<1>3. Bare(m') /\ m' \in Memory
  BY <1>2, NoMemoryBare DEF Bare
<1>4. Types'
  <2>1. walBuf' \in Seq(Rec(Len(hist'))) /\ logged' \subseteq Range(m'.index)
    BY <1>2
  <2>2. /\ segs' \in Seq(Seg(Len(hist'))) /\ Shape(wal', Len(hist'))
        /\ named' \in 0 .. Len(segs') /\ hist' \in Seq(Batches) /\ acked' \in Nat
    BY <1>1, <1>2 DEF Types
  <2> QED BY <1>2, <1>3, <2>1, <2>2 DEF Types
<1>5. Places'
  BY <1>2 DEF Places
<1>6. Buffered'
  <2>1. Sound(m', m'.newest)
    BY <1>3, BareSound
  <2> QED BY <1>2, <2>1 DEF Buffered, Sound
<1>7. InOrder'
  BY <1>1, <1>2 DEF InOrder
<1>8. Whole'
  BY <1>1, <1>2 DEF Whole, Up
<1> QED BY <1>4, <1>5, <1>6, <1>7, <1>8 DEF SafeInv

\* ... every way to stop, ...
LEMMA DropSafe == SafeInv /\ Drop => SafeInv' /\ Shortened
<1> SUFFICES ASSUME SafeInv, Drop PROVE SafeInv' /\ Shortened
  OBVIOUS
<1>1. Types /\ Places /\ Whole /\ Up
  BY DEF SafeInv, Drop, Up
<1>2. LastFile \in DOMAIN wal
  BY <1>1, UpLast
<1> DEFINE n == Len(walBuf)
<1> DEFINE v == Drained(n)
<1>3. /\ Shape(wal, Len(hist)) /\ walBuf \in Seq(Rec(Len(hist)))
      /\ n \in 0 .. Len(walBuf)
      /\ named \in 0 .. Len(segs) /\ segs \in Seq(Seg(Len(hist)))
  BY <1>1 DEF Types
<1>4. Shape(v, Len(hist)) /\ DOMAIN v = DOMAIN wal /\ SameTorn(v, wal)
  BY <1>2, <1>3, DrainedShape
<1>5. wal' = Synced(v) /\ UNCHANGED <<segs, named>> /\ StopWith
  BY DEF Drop
<1> HIDE DEF v
<1>6. Shape(wal', Len(hist)) /\ SameTorn(wal', v)
  BY <1>2, <1>4, <1>5, SyncedShape
<1>7. "ends" \notin PowerLoss => \A f \in DOMAIN wal' : ~wal'[f].torn
  BY <1>1, <1>4, <1>6 DEF Whole, SameTorn, Up
<1>8. segs' = SubSeq(segs, 1, Len(segs)) /\ Len(segs) \in 0 .. Len(segs)
  BY <1>3, <1>5
<1>9. named' \in 0 .. Len(segs')
  BY <1>3, <1>5
<1> QED BY <1>5, <1>6, <1>7, <1>8, <1>9, StopSafe

LEMMA KillSafe == SafeInv /\ Kill => SafeInv' /\ Shortened
<1> SUFFICES ASSUME SafeInv, Kill PROVE SafeInv' /\ Shortened
  OBVIOUS
<1>1. Types /\ Places /\ Whole /\ pc \notin {"down", "refused"}
  BY DEF SafeInv, Kill
<1>2. /\ Shape(wal, Len(hist)) /\ walBuf \in Seq(Rec(Len(hist)))
      /\ named \in 0 .. Len(segs) /\ segs \in Seq(Seg(Len(hist)))
  BY <1>1 DEF Types
<1>3. UNCHANGED <<segs, named>> /\ StopWith
  BY DEF Kill
<1>4. segs' = SubSeq(segs, 1, Len(segs)) /\ Len(segs) \in 0 .. Len(segs)
      /\ named' \in 0 .. Len(segs')
  BY <1>2, <1>3
<1>5. "ends" \notin PowerLoss => \A f \in DOMAIN wal : ~wal[f].torn
  BY <1>1 DEF Whole
<1>6. PICK n \in 0 .. Len(walBuf), cut \in BOOLEAN :
         wal' = IF walBuf = <<>> THEN wal
                ELSE [Drained(n) EXCEPT ![LastFile].torn = cut]
  BY DEF Kill
<1>7. CASE walBuf = <<>>
  <2>1. wal' = wal
    BY <1>6, <1>7
  <2> QED BY <1>2, <1>3, <1>4, <1>5, <2>1, StopSafe
<1>8. CASE walBuf # <<>>
  <2>1. Up
    BY <1>1, <1>8 DEF Places, Up
  <2>2. LastFile \in DOMAIN wal /\ \A g \in DOMAIN wal : g <= LastFile
    BY <1>1, <2>1, UpLast
  <2> DEFINE v == Drained(n)
  <2>3. Shape(v, Len(hist)) /\ DOMAIN v = DOMAIN wal /\ SameTorn(v, wal)
    BY <1>2, <2>2, DrainedShape
  <2>4. wal' = [v EXCEPT ![LastFile].torn = cut]
    BY <1>6, <1>8
  <2> HIDE DEF v
  <2> DEFINE old == v[LastFile]
  <2> DEFINE new == [old EXCEPT !.torn = cut]
  <2>5. old \in LogFile(Len(hist)) /\ old.synced <= Len(old.recs)
    BY <2>2, <2>3 DEF Shape
  <2>6. wal' = [v EXCEPT ![LastFile] = new]
    BY <2>4
  <2> HIDE DEF old
  <2>7. new \in LogFile(Len(hist)) /\ new.synced <= Len(new.recs)
    BY <2>5 DEF LogFile
  <2> HIDE DEF new
  <2>8. /\ DOMAIN wal' = DOMAIN v /\ wal' = [f \in DOMAIN wal' |-> wal'[f]]
        /\ \A f \in DOMAIN wal' : wal'[f] = IF f = LastFile THEN new ELSE v[f]
    BY <2>3, <2>6 DEF Shape
  <2>9. Shape(wal', Len(hist))
    <3>1. \A f \in DOMAIN wal' : wal'[f] \in LogFile(Len(hist))
                                 /\ wal'[f].synced <= Len(wal'[f].recs)
      BY <2>3, <2>7, <2>8 DEF Shape
    <3> QED BY <2>3, <2>8, <3>1, InPlace
  <2>10. ASSUME "ends" \notin PowerLoss, NEW f \in DOMAIN wal', wal'[f].torn
         PROVE  \A g \in DOMAIN wal' : g <= f
    <3>1. \A g \in DOMAIN v : ~v[g].torn
      BY <1>5, <2>3, <2>10 DEF SameTorn
    <3>2. f = LastFile
      BY <2>8, <2>10, <3>1
    <3> QED BY <2>2, <2>3, <2>8, <3>2
  <2> QED BY <1>3, <1>4, <2>9, <2>10, StopSafe
<1> QED BY <1>7, <1>8

LEMMA LosePowerSafe == SafeInv /\ LosePower => SafeInv' /\ Shortened
<1> SUFFICES ASSUME SafeInv, LosePower PROVE SafeInv' /\ Shortened
  OBVIOUS
<1>1. Types /\ Whole
  BY DEF SafeInv
<1>2. Shape(wal, Len(hist)) /\ named \in 0 .. Len(segs) /\ segs \in Seq(Seg(Len(hist)))
  BY <1>1 DEF Types
<1>3. PICK n \in named .. Len(segs) : segs' = SubSeq(segs, 1, n)
  BY DEF LosePower
<1>4. n \in 0 .. Len(segs) /\ StopWith
  BY <1>2, <1>3 DEF LosePower
<1>5. named' \in 0 .. Len(segs')
  <2>1. Len(segs') \in Nat /\ named' = Len(segs')
    BY <1>2, <1>3, <1>4 DEF LosePower
  <2> QED BY <2>1
<1>6. CASE "ends" \notin PowerLoss
  <2>1. wal' = wal
    BY <1>6 DEF LosePower
  <2>2. \A f \in DOMAIN wal : wal[f].torn => \A g \in DOMAIN wal : g <= f
    BY <1>1, <1>6 DEF Whole
  <2> QED BY <1>2, <1>3, <1>4, <1>5, <2>1, <2>2, StopSafe
<1>7. CASE "ends" \in PowerLoss
  <2>1. PICK kept \in [Loose -> 0 .. MaxBatches], damaged \in SUBSET Loose :
          /\ \A f \in Loose : kept[f] \in wal[f].synced .. Len(wal[f].recs)
          /\ wal' = [f \in FileIds |->
                       IF f \in Loose
                         THEN [recs   |-> SubSeq(wal[f].recs, 1, kept[f]),
                               synced |-> kept[f],
                               torn   |-> f \in damaged]
                         ELSE wal[f]]
    BY <1>7 DEF LosePower
  <2>2. DOMAIN wal' = DOMAIN wal /\ wal' = [f \in DOMAIN wal' |-> wal'[f]]
    BY <2>1 DEF FileIds
  <2>3. ASSUME NEW f \in DOMAIN wal'
        PROVE  wal'[f] \in LogFile(Len(hist)) /\ wal'[f].synced <= Len(wal'[f].recs)
    <3>0. wal[f] \in LogFile(Len(hist)) /\ wal[f].synced <= Len(wal[f].recs)
      BY <1>2, <2>2 DEF Shape
    <3>1. CASE f \notin Loose
      <4>1. wal'[f] = wal[f]
        BY <2>1, <2>2, <3>1 DEF FileIds
      <4> QED BY <3>0, <4>1
    <3>2. CASE f \in Loose
      <4> DEFINE r == wal[f].recs
      <4> DEFINE c == kept[f]
      <4>1. wal'[f] = [recs |-> SubSeq(r, 1, c), synced |-> c, torn |-> f \in damaged]
        BY <2>1, <2>2, <3>2 DEF FileIds
      <4>2. r \in Seq(Rec(Len(hist))) /\ wal[f].synced \in Nat
        BY <3>0 DEF LogFile
      <4>3. c \in wal[f].synced .. Len(r)
        BY <2>1, <3>2
      <4> HIDE DEF r, c
      <4>4. SubSeq(r, 1, c) \in Seq(Rec(Len(hist))) /\ Len(SubSeq(r, 1, c)) = c
            /\ c \in Nat
        BY <4>2, <4>3
      <4>5. (f \in damaged) \in BOOLEAN
        OBVIOUS
      <4> QED BY <4>1, <4>4, <4>5 DEF LogFile
    <3> QED BY <3>1, <3>2
  <2>4. Shape(wal', Len(hist))
    BY <1>2, <2>2, <2>3, InPlace
  <2> QED BY <1>3, <1>4, <1>5, <1>7, <2>4, StopSafe
<1> QED BY <1>6, <1>7

-----------------------------------------------------------------------------
(* Open and the first file. *)

\* ... recovery, ...
LEMMA OpenSafe == SafeInv /\ Open => SafeInv'
<1> SUFFICES ASSUME SafeInv, Open PROVE SafeInv'
  OBVIOUS
<1> USE DEF ghosts
<1> DEFINE k == Len(hist)
<1> DEFINE base == LoadedFrom(segs).newest
<1>1. Types /\ Places /\ Buffered /\ InOrder /\ Whole /\ pc = "down"
  BY DEF SafeInv, Open
<1>2. /\ m' = Replayed(Restored, LogRecords)
      /\ wal' = [f \in FileIds |-> IF wal[f].torn THEN Repaired(f) ELSE wal[f]]
      /\ doomed' = IF FileIds = {} THEN 0 ELSE LastFile
      /\ pc' = "create" /\ by' = "open"
      /\ UNCHANGED <<segs, named, walBuf, logged, failed, hist, acked>>
  BY DEF Open
<1>3. Shape(wal, k) /\ segs \in Seq(Seg(k))
  BY <1>1 DEF Types
<1>4. segs \in Seq(Segment)
  BY <1>3, SegmentsType
<1>5. Sound(m', base) /\ (FileIds = {} => m'.buffered = 0)
  BY <1>2, <1>3, <1>4, OpenReads
<1> HIDE DEF base
<1>6. doomed' \in Nat /\ (doomed' = 0 => FileIds = {})
  <2>1. FileIds # {} => LastFile \in Nat \ {0}
    BY <1>3, LastIs DEF FileIds
  <2> QED BY <1>2, <2>1
<1>7. walBuf = <<>> /\ logged = {} /\ failed = FALSE
  BY <1>1 DEF Places, Types
<1>8. Shape(wal', k) /\ \A f \in DOMAIN wal' : ~wal'[f].torn
  <2>1. DOMAIN wal' = DOMAIN wal /\ wal' = [f \in DOMAIN wal' |-> wal'[f]]
    BY <1>2 DEF FileIds
  <2>2. ASSUME NEW f \in DOMAIN wal'
        PROVE  /\ wal'[f] \in LogFile(k) /\ wal'[f].synced <= Len(wal'[f].recs)
               /\ ~wal'[f].torn
    <3> DEFINE old == wal[f]
    <3>1. old \in LogFile(k) /\ old.synced <= Len(old.recs)
      BY <1>3, <2>1 DEF Shape
    <3>2. wal'[f] = IF old.torn
          THEN [old EXCEPT !.torn = FALSE, !.synced = Len(old.recs)]
                                ELSE old
      BY <1>2, <2>1, Zenon DEF Repaired, FileIds
    <3> HIDE DEF old
    <3> DEFINE new == [old EXCEPT !.torn = FALSE, !.synced = Len(old.recs)]
    <3>3. Len(old.recs) \in Nat
      BY <3>1 DEF LogFile
    <3>4. old.torn \in BOOLEAN
      BY <3>1 DEF LogFile
    <3>5. /\ new \in LogFile(k) /\ new.recs = old.recs /\ new.synced = Len(old.recs)
          /\ new.torn = FALSE
      BY <3>1, <3>3 DEF LogFile
    <3> HIDE DEF new
    <3>6. new.synced <= Len(new.recs)
      BY <3>3, <3>5
    <3> QED BY <3>1, <3>2, <3>4, <3>5, <3>6, Zenon DEF new
  <2> QED BY <1>3, <2>1, <2>2, InPlace
<1>9. Types'
  <2>1. m' \in Memory /\ logged' \subseteq Range(m'.index)
    BY <1>2, <1>5, <1>7 DEF Sound
  <2> QED BY <1>1, <1>2, <1>6, <1>8, <2>1 DEF Types
<1>10. Places'
  BY <1>2, <1>5, <1>6, <1>7 DEF Places
<1>11. Buffered'
  BY <1>2, <1>5 DEF Buffered, Sound
<1>12. InOrder'
  BY <1>1, <1>2, <1>5 DEF InOrder, Sound, base
<1>13. Whole'
  BY <1>2, <1>8 DEF Whole
<1> QED BY <1>9, <1>10, <1>11, <1>12, <1>13 DEF SafeInv

LEMMA RefuseSafe == SafeInv /\ Refuse => SafeInv'
<1> SUFFICES ASSUME SafeInv, Refuse PROVE SafeInv'
  OBVIOUS
<1> USE DEF ghosts, disk
<1>1. Types /\ Places /\ Buffered /\ InOrder /\ Whole /\ pc = "down"
  BY DEF SafeInv, Refuse
<1>2. /\ pc' = "refused"
      /\ UNCHANGED <<segs, named, wal, walBuf, m, logged, failed, by, doomed, hist,
            acked>>
  BY DEF Refuse
<1>3. "ends" \in PowerLoss
  <2> SUFFICES ASSUME "ends" \notin PowerLoss PROVE FALSE
    OBVIOUS
  <2>1. Shape(wal, Len(hist)) /\ segs \in Seq(Segment)
    BY <1>1, SegmentsType DEF Types
  <2>2. SegmentsInOrder
    BY <1>1, <2>1, ChainedIs DEF InOrder
  <2>3. ASSUME NEW f \in FileIds, wal[f].torn PROVE f = LastFile
    <3>1. f \in DOMAIN wal /\ \A g \in DOMAIN wal : g <= f
      BY <1>1, <2>3 DEF Whole, FileIds
    <3>2. LastFile \in DOMAIN wal /\ \A g \in DOMAIN wal : g <= LastFile
      BY <2>1, <3>1, LastIs
    <3>3. f \in Nat /\ LastFile \in Nat
      BY <2>1, <3>1, <3>2 DEF Shape
    <3> QED BY <3>1, <3>2, <3>3
  <2> QED BY <2>2, <2>3 DEF Refuse, LogReadable
<1>4. Types'
  BY <1>1, <1>2 DEF Types
<1>5. Places'
  BY <1>1, <1>2 DEF Places
<1>6. Buffered'
  BY <1>1, <1>2 DEF Buffered
<1>7. InOrder'
  BY <1>1, <1>2 DEF InOrder
<1>8. Whole'
  BY <1>3 DEF Whole
<1> QED BY <1>4, <1>5, <1>6, <1>7, <1>8 DEF SafeInv

\* Only what the last segment is said to hold of the history changes.
LEMMA NothingNewIs ==
    ASSUME NEW k \in Nat, Len(hist) = k, segs \in Seq(Seg(k))
    PROVE  LET new == NothingNew IN
           /\ new \in Seq(Seg(k)) /\ Len(new) = Len(segs)
           /\ \A i \in 1 .. Len(new) :
                new[i].data = segs[i].data /\ new[i].order = segs[i].order
<1>1. CASE segs = <<>>
  BY <1>1 DEF NothingNew
<1>2. CASE segs # <<>>
  <2> DEFINE n == Len(segs)
  <2> DEFINE s == [segs[n] EXCEPT !.upto = k]
  <2>1. n \in 1 .. Len(segs) /\ segs[n] \in Seg(k)
    BY <1>2
  <2>2. s \in Seg(k) /\ s.data = segs[n].data /\ s.order = segs[n].order
    <3> DEFINE old == segs[n]
    <3>1. /\ old \in [data : [Labels -> Seq(Sample)], order : Seq(Labels), upto : Nat]
          /\ \A i \in DOMAIN old.order : old.data[old.order[i]] # <<>>
      BY <2>1 DEF Seg, Segment
    <3>2. s = [old EXCEPT !.upto = k]
      OBVIOUS
    <3> HIDE DEF s, old
    <3>3. /\ s \in [data : [Labels -> Seq(Sample)], order : Seq(Labels), upto : Nat]
          /\ s.data = old.data /\ s.order = old.order /\ s.upto = k
      BY <3>1, <3>2
    <3>4. s \in Segment
      BY <3>1, <3>3 DEF Segment
    <3>5. s \in Seg(k)
      BY <3>3, <3>4 DEF Seg
    <3> QED BY <3>3, <3>5 DEF old
  <2>3. NothingNew = [segs EXCEPT ![n] = s]
    BY <1>2 DEF NothingNew
  <2> HIDE DEF s, n
  <2>4. NothingNew \in Seq(Seg(k)) /\ Len(NothingNew) = Len(segs)
    BY <2>1, <2>2, <2>3
  <2>5. \A i \in 1 .. Len(segs) : NothingNew[i] = IF i = n THEN s ELSE segs[i]
    BY <2>1, <2>3
  <2> QED BY <2>2, <2>4, <2>5
<1> QED BY <1>1, <1>2

LEMMA CreateFileSafe == SafeInv /\ CreateFile => SafeInv'
<1> SUFFICES ASSUME SafeInv, CreateFile PROVE SafeInv'
  OBVIOUS
<1> USE DEF ghosts
<1> DEFINE k == Len(hist)
<1>1. Types /\ Places /\ Buffered /\ InOrder /\ Whole /\ pc = "create"
  BY DEF SafeInv, CreateFile
<1>2. /\ wal' = WithFile(wal, doomed + 1)
      /\ segs' = IF pc' = "remove" THEN NothingNew ELSE segs
      /\ UNCHANGED <<named, walBuf, m, logged, failed, by, doomed, hist, acked>>
  BY DEF CreateFile
<1>3. /\ Shape(wal, k) /\ segs \in Seq(Seg(k)) /\ doomed \in Nat
      /\ doomed + 1 \in Nat \ {0}
      /\ m \in Memory /\ m.buffered \in Nat /\ k \in Nat
  BY <1>1 DEF Types, Memory
<1>4. /\ pc' \in {"idle", "remove", "cut"}
      /\ pc' = "idle" => doomed = 0
      /\ pc' = "remove" => m.buffered = 0
  BY <1>3 DEF CreateFile
<1>5. /\ Shape(wal', k) /\ DOMAIN wal' = DOMAIN wal \cup {doomed + 1}
      /\ SameTorn(wal', wal)
  BY <1>2, <1>3, WithFileShape
<1>6. /\ segs' \in Seq(Seg(k)) /\ Len(segs') = Len(segs)
      /\ \A i \in 1 .. Len(segs') :
            segs'[i].data = segs[i].data /\ segs'[i].order = segs[i].order
  BY <1>2, <1>3, NothingNewIs
<1>7. segs \in Seq(Segment) /\ segs' \in Seq(Segment)
  BY <1>3, <1>6, SegmentsType
<1>8. failed = FALSE
  BY <1>1 DEF Places, Types
<1>9. Types'
  BY <1>1, <1>2, <1>4, <1>5, <1>6 DEF Types
<1>10. Places'
  <2>1. doomed + 1 \in DOMAIN wal' /\ doomed + 1 > doomed
    BY <1>3, <1>5
  <2> QED BY <1>2, <1>4, <1>8, <2>1 DEF Places
<1>11. Buffered'
  <2>1. pc' = "idle" => m.buffered = 0
    BY <1>1, <1>4 DEF Places
  <2>2. MaxBuffer \in Nat \ {0}
    BY DbAssumption
  <2> QED BY <1>1, <1>2, <1>8, <2>1, <2>2 DEF Buffered
<1>12. InOrder'
  <2>1. Chained(segs) /\ GoesOn(m, LoadedFrom(segs).newest)
    BY <1>1, <1>8 DEF InOrder
  <2>2. Chained(segs')
    BY <1>6, <1>7, <2>1, ChainedSame
  <2>3. LoadedFrom(segs') = LoadedFrom(segs)
    BY <1>6, <1>7, LoadedSame
  <2> QED BY <1>2, <2>1, <2>2, <2>3 DEF InOrder
<1>13. Whole'
  BY <1>1, <1>4, <1>5 DEF Whole, SameTorn
<1> QED BY <1>9, <1>10, <1>11, <1>12, <1>13 DEF SafeInv

-----------------------------------------------------------------------------
(* Writes. *)

\* A longer history.
LEMMA ShapeMore ==
    ASSUME NEW k \in Nat, NEW n \in Nat, k <= n
    PROVE  /\ Seq(Rec(k)) \subseteq Seq(Rec(n)) /\ Seq(Seg(k)) \subseteq Seq(Seg(n))
           /\ \A w : Shape(w, k) => Shape(w, n)
<1>1. Rec(k) \subseteq Rec(n)
  BY DEF Rec, LogRecord
<1>2. Seg(k) \subseteq Seg(n)
  BY DEF Seg, Segment
<1>3. Seq(Rec(k)) \subseteq Seq(Rec(n)) /\ Seq(Seg(k)) \subseteq Seq(Seg(n))
  BY <1>1, <1>2
<1>4. LogFile(k) \subseteq LogFile(n)
  BY <1>3 DEF LogFile
<1>5. ASSUME NEW w, Shape(w, k) PROVE Shape(w, n)
  <2>1. w \in [DOMAIN w -> LogFile(n)]
    BY <1>4, <1>5 DEF Shape
  <2> QED BY <1>5, <2>1 DEF Shape
<1> QED BY <1>3, <1>5

\* Memory in order, where the invariant says so.
LEMMA SoundNow ==
    ASSUME SafeInv, ~failed, pc \notin {"down", "refused", "renamed"}
    PROVE  /\ LoadedFrom(segs).newest \in [Labels -> Nat]
           /\ Sound(m, LoadedFrom(segs).newest)
<1>1. segs \in Seq(Segment) /\ m \in Memory
  BY SegmentsType DEF SafeInv, Types
<1>2. LoadedFrom(segs).newest \in [Labels -> Nat]
  BY <1>1, LoadedBare, BareSound
<1> QED BY <1>1, <1>2 DEF SafeInv, Buffered, InOrder, Sound

LEMMA BatchType ==
    ASSUME NEW b \in Batches
    PROVE  Entries(b) \in Seq(Entry)
<1>1. b \in Seq(Entry)
  BY DbAssumption DEF Entry
<1> QED BY <1>1, EntriesType

\* ... requests, ...
LEMMA WriteSafe == ASSUME NEW b \in Batches, SafeInv, Write(b) PROVE SafeInv'
<1> USE DEF ghosts, disk
<1> DEFINE k == Len(hist)
<1> DEFINE es == Entries(b)
<1> DEFINE mem == EncodeAll(m, es)
<1> DEFINE rec == Record(mem, es, k + 1)
<1> DEFINE base == LoadedFrom(segs).newest
<1>1. Types /\ Places /\ Buffered /\ InOrder /\ Whole /\ pc = "idle" /\ ~failed
  BY DEF SafeInv, Write
<1>2. /\ walBuf' = Append(walBuf, rec)
      /\ logged' = logged \cup Used(es)
      /\ m' = AppendAll(mem, rec)
      /\ hist' = Append(hist, b)
      /\ by' = "write"
      /\ pc' = IF m'.buffered >= MaxBuffer THEN "cut" ELSE "idle"
      /\ UNCHANGED <<segs, named, wal, failed, doomed, acked>>
  BY DEF Write, Used
<1>3. es \in Seq(Entry)
  BY BatchType
<1>4. base \in [Labels -> Nat] /\ Sound(m, base)
  BY <1>1, SoundNow DEF SafeInv
<1>5. k \in Nat /\ m \in Memory
  BY <1>1 DEF Types
<1> HIDE DEF base, es
<1>6. /\ mem \in Memory /\ Range(mem.index) = Range(m.index) \cup Used(es)
      /\ Sound(mem, base)
  BY <1>3, <1>4, <1>5, EncodeAllSound
<1> HIDE DEF mem
<1>7. rec \in LogRecord /\ rec.samples \in Seq(Known(mem)) /\ rec.no = k + 1
  BY <1>3, <1>5, <1>6, RecordType
<1> HIDE DEF rec
<1>8. Sound(m', base) /\ m'.index = mem.index
  BY <1>2, <1>4, <1>6, <1>7, AppendAllSound
<1>9. hist' \in Seq(Batches) /\ Len(hist') = k + 1
  BY <1>1, <1>2 DEF Types
<1> HIDE DEF k
<1>10. /\ segs' \in Seq(Seg(k + 1)) /\ Shape(wal', k + 1) /\ walBuf \in Seq(Rec(k + 1))
  BY <1>1, <1>2, <1>5, ShapeMore DEF Types, k
<1>11. walBuf' \in Seq(Rec(k + 1))
  <2>1. rec \in Rec(k + 1)
    BY <1>5, <1>7 DEF Rec
  <2> QED BY <1>2, <1>10, <2>1
<1>12. Types'
  <2>1. m' \in Memory /\ logged' \subseteq Range(m'.index)
    BY <1>1, <1>2, <1>6, <1>8 DEF Sound, Types
  <2> QED BY <1>1, <1>2, <1>9, <1>10, <1>11, <2>1 DEF Types
<1>13. Places'
  BY <1>1, <1>2 DEF Places
<1>14. Buffered'
  <2>1. m'.buffered \in Nat /\ MaxBuffer \in Nat
    BY <1>8, DbAssumption DEF Sound, Memory
  <2>2. pc' = "idle" => m'.buffered < MaxBuffer
    BY <1>2, <2>1
  <2> QED BY <1>8, <2>2 DEF Buffered, Sound
<1>15. InOrder'
  BY <1>1, <1>2, <1>8 DEF InOrder, Sound, base
<1>16. Whole'
  BY <1>1, <1>2 DEF Whole
<1> QED BY <1>12, <1>13, <1>14, <1>15, <1>16 DEF SafeInv

LEMMA WriteTooLargeSafe ==
    ASSUME NEW b \in Batches, SafeInv, WriteTooLarge(b)
    PROVE  SafeInv'
<1> USE DEF ghosts, disk
<1> DEFINE es == Entries(b)
<1> DEFINE base == LoadedFrom(segs).newest
<1>1. Types /\ Places /\ Buffered /\ InOrder /\ Whole /\ pc = "idle" /\ ~failed
  BY DEF SafeInv, WriteTooLarge
<1>2. /\ m' = EncodeAll(m, es)
      /\ UNCHANGED <<segs, named, wal, walBuf, logged, failed, pc, by, doomed, hist,
            acked>>
  BY DEF WriteTooLarge
<1>3. es \in Seq(Entry)
  BY BatchType
<1>4. base \in [Labels -> Nat] /\ Sound(m, base)
  BY <1>1, SoundNow DEF SafeInv
<1>5. m \in Memory
  BY <1>1 DEF Types
<1> HIDE DEF base, es
<1>6. /\ Range(m'.index) = Range(m.index) \cup Used(es) /\ Sound(m', base)
      /\ m'.buffered = m.buffered
  BY <1>2, <1>3, <1>4, <1>5, EncodeAllSound
<1>7. Types'
  <2>1. m' \in Memory /\ logged' \subseteq Range(m'.index)
    BY <1>1, <1>2, <1>6 DEF Sound, Types
  <2> QED BY <1>1, <1>2, <2>1 DEF Types
<1>8. Places'
  BY <1>1, <1>2 DEF Places
<1>9. Buffered'
  BY <1>1, <1>2, <1>6 DEF Buffered, Sound
<1>10. InOrder'
  BY <1>1, <1>2, <1>6 DEF InOrder, Sound, base
<1>11. Whole'
  BY <1>1, <1>2 DEF Whole
<1> QED BY <1>7, <1>8, <1>9, <1>10, <1>11 DEF SafeInv

-----------------------------------------------------------------------------
(* The flush. *)

\* ... and a flush.
LEMMA FlushSafe == SafeInv /\ Flush => SafeInv'
<1> SUFFICES ASSUME SafeInv, Flush PROVE SafeInv'
  OBVIOUS
<1> USE DEF ghosts, disk
<1>1. Types /\ Places /\ Buffered /\ InOrder /\ Whole /\ pc = "idle" /\ ~failed
  BY DEF SafeInv, Flush
<1>2. /\ pc' = "cut" /\ by' = "flush"
      /\ UNCHANGED <<segs, named, wal, walBuf, m, logged, failed, doomed, hist, acked>>
  BY DEF Flush
<1>3. Types'
  BY <1>1, <1>2 DEF Types
<1>4. Places'
  BY <1>1, <1>2 DEF Places
<1>5. Buffered'
  BY <1>1, <1>2 DEF Buffered
<1>6. InOrder'
  BY <1>1, <1>2 DEF InOrder
<1>7. Whole'
  BY <1>1, <1>2 DEF Whole
<1> QED BY <1>3, <1>4, <1>5, <1>6, <1>7 DEF SafeInv

\* Memory once its samples are taken.
LEMMA EmptiedIs ==
    ASSUME m \in Memory, Indexed(m)
    PROVE  /\ Emptied \in Memory /\ Indexed(Emptied) /\ Emptied.index = m.index
           /\ Emptied.newest = m.newest
           /\ \A l \in Labels : Emptied.samples[l] = <<>>
<1> DEFINE none == [l \in Labels |-> <<>>]
<1>1. none \in [Labels -> Seq(Sample)] /\ \A l \in Labels : none[l] = <<>>
  OBVIOUS
<1>2. Emptied = [m EXCEPT !.samples = none]
  BY DEF Emptied
<1> HIDE DEF none
<1>3. /\ Emptied \in Memory /\ Emptied.index = m.index /\ Emptied.samples = none
      /\ Emptied.newest = m.newest
  BY <1>1, <1>2 DEF Memory
<1>4. Indexed(Emptied)
  BY <1>1, <1>3 DEF Indexed
<1> QED BY <1>1, <1>3, <1>4

LEMMA SaveSafe == SafeInv /\ Save => SafeInv'
<1> SUFFICES ASSUME SafeInv, Save PROVE SafeInv'
  OBVIOUS
<1> USE DEF ghosts
<1> DEFINE k == Len(hist)
<1> DEFINE seg == NewSegment(m, k)
<1>1. Types /\ Places /\ Buffered /\ InOrder /\ Whole /\ pc = "save"
  BY Zenon DEF SafeInv, Save
<1>2. /\ segs' = Append(segs, seg) /\ m' = Emptied /\ pc' = "renamed"
      /\ UNCHANGED <<named, wal, walBuf, logged, failed, by, doomed, hist, acked>>
  BY Zenon DEF Save, NewSegment, Ordered
<1>3. failed = FALSE
  BY <1>1 DEF Places, Types
<1>4. m \in Memory /\ Indexed(m) /\ segs \in Seq(Seg(k)) /\ k \in Nat
  BY <1>1 DEF Types, Buffered
<1>5. segs \in Seq(Segment)
  BY <1>4, SegmentsType
<1>6. Chained(segs) /\ GoesOn(m, LoadedFrom(segs).newest)
  BY <1>1, <1>3 DEF InOrder
<1>7. /\ seg \in Segment /\ SegmentInOrder(seg, LoadedFrom(segs))
      /\ \A l \in Labels : LoadedFrom(Append(segs, seg)).newest[l] = m.newest[l]
  BY <1>4, <1>5, <1>6, SavedInOrder
<1>8. seg.upto = k
  BY DEF NewSegment
<1> HIDE DEF seg, k
<1>9. segs' \in Seq(Seg(k)) /\ Len(segs') = Len(segs) + 1
  <2>1. seg \in Seg(k)
    BY <1>4, <1>7, <1>8 DEF Seg
  <2> QED BY <1>2, <1>4, <2>1
<1>10. /\ m' \in Memory /\ Indexed(m') /\ m'.index = m.index /\ m'.newest = m.newest
       /\ \A l \in Labels : m'.samples[l] = <<>>
  BY <1>2, <1>4, EmptiedIs
<1>11. Types'
  <2>1. named' \in 0 .. Len(segs')
    BY <1>1, <1>2, <1>9 DEF Types
  <2>2. segs' \in Seq(Seg(Len(hist')))
    BY <1>2, <1>9 DEF k
  <2> QED BY <1>1, <1>2, <1>10, <2>1, <2>2 DEF Types
<1>12. Places'
  BY <1>1, <1>2, <1>3, <1>10 DEF Places
<1>13. Buffered'
  BY <1>2, <1>10 DEF Buffered
<1>14. InOrder'
  <2>1. Chained(segs')
    BY <1>2, <1>5, <1>6, <1>7, ChainedAppend
  <2>2. GoesOn(m', LoadedFrom(segs').newest)
    <3> SUFFICES ASSUME NEW l \in Labels
                 PROVE  m'.samples[l] = <<>>
                       /\ m'.newest[l] = LoadedFrom(segs').newest[l]
      BY DEF GoesOn
    <3> QED BY <1>2, <1>7, <1>10
  <2> QED BY <2>1, <2>2 DEF InOrder
<1>15. Whole'
  BY <1>1, <1>2 DEF Whole
<1> QED BY <1>11, <1>12, <1>13, <1>14, <1>15 DEF SafeInv

LEMMA SaveDoneSafe == SafeInv /\ SaveDone => SafeInv'
<1> SUFFICES ASSUME SafeInv, SaveDone PROVE SafeInv'
  OBVIOUS
<1> USE DEF ghosts
<1>1. Types /\ Places /\ Buffered /\ InOrder /\ Whole /\ pc = "renamed"
  BY DEF SafeInv, SaveDone
<1>2. /\ named' = Len(segs) /\ m' = [m EXCEPT !.buffered = 0]
      /\ logged' = {} /\ pc' = "remove"
      /\ UNCHANGED <<segs, wal, walBuf, failed, by, doomed, hist, acked>>
  BY DEF SaveDone
<1>3. failed = FALSE /\ m \in Memory /\ \A l \in Labels : m.samples[l] = <<>>
  BY <1>1 DEF Places, Types
<1>4. /\ m' \in Memory /\ m'.index = m.index /\ m'.samples = m.samples
      /\ m'.newest = m.newest /\ m'.buffered = 0
  BY <1>2, <1>3 DEF Memory
<1>5. Types'
  <2>1. Len(segs) \in 0 .. Len(segs)
    BY <1>1 DEF Types
  <2> QED BY <1>1, <1>2, <1>4, <2>1 DEF Types
<1>6. Places'
  BY <1>1, <1>2, <1>3, <1>4 DEF Places
<1>7. Buffered'
  <2>1. Indexed(m')
    BY <1>1, <1>4 DEF Buffered, Indexed
  <2>2. Total(m'.samples, m'.index) = 0
    BY <1>3, <1>4, MemoryHas, TotalNone
  <2> QED BY <1>2, <1>4, <2>1, <2>2 DEF Buffered, Counted
<1>8. InOrder'
  <2>1. GoesOn(m, LoadedFrom(segs).newest)
    BY <1>1, <1>3 DEF InOrder
  <2> QED BY <1>1, <1>2, <1>4, <2>1 DEF InOrder, GoesOn
<1>9. Whole'
  BY <1>1, <1>2 DEF Whole
<1> QED BY <1>5, <1>6, <1>7, <1>8, <1>9 DEF SafeInv

LEMMA SaveFailsSafe == SafeInv /\ SaveFails => SafeInv'
<1> SUFFICES ASSUME SafeInv, SaveFails PROVE SafeInv'
  OBVIOUS
<1> USE DEF disk
<1>1. Types /\ Places /\ Buffered /\ InOrder /\ Whole /\ pc \in {"save", "renamed"}
      /\ Up
  BY DEF SafeInv, SaveFails, Up
<1>2. CASE by = "open"
  BY <1>1, <1>2, OpenFailsSafe DEF SaveFails
<1>3. CASE by # "open"
  <2>1. /\ failed' = TRUE /\ m' = Emptied /\ pc' = "idle"
        /\ UNCHANGED <<segs, named, wal, walBuf, logged, by, doomed, hist, acked>>
    BY <1>3 DEF SaveFails
  <2>2. m' \in Memory /\ Indexed(m') /\ m'.index = m.index
    BY <1>1, <2>1, EmptiedIs DEF Types, Buffered
  <2>3. Types'
    BY <1>1, <2>1, <2>2 DEF Types
  <2>4. Places'
    BY <1>1, <2>1 DEF Places
  <2>5. Buffered'
    BY <2>1, <2>2 DEF Buffered
  <2>6. InOrder'
    BY <1>1, <2>1 DEF InOrder
  <2>7. Whole'
    BY <1>1, <2>1 DEF Whole
  <2> QED BY <2>3, <2>4, <2>5, <2>6, <2>7 DEF SafeInv
<1> QED BY <1>2, <1>3

\* The flush is over, with the log files removed or not.
LEMMA FlushOver ==
    ASSUME SafeInv, pc = "remove", pc' = "idle", doomed' = 0,
           UNCHANGED <<disk, walBuf, m, logged, failed, by, hist, acked>>
    PROVE  SafeInv'
<1> USE DEF disk
<1>1. Types /\ Places /\ Buffered /\ InOrder /\ Whole
  BY DEF SafeInv
<1>2. Types'
  BY <1>1 DEF Types
<1>3. Places'
  <2>1. PICK f \in DOMAIN wal : f > doomed
    BY <1>1 DEF Places
  <2>2. f \in Nat /\ doomed \in Nat
    BY <1>1 DEF Types, Shape
  <2>3. f > 0
    BY <2>1, <2>2
  <2> QED BY <1>1, <2>3 DEF Places
<1>4. Buffered'
  <2>1. m.buffered = 0 /\ MaxBuffer \in Nat \ {0}
    BY <1>1, DbAssumption DEF Places
  <2>2. m.buffered < MaxBuffer
    BY <2>1
  <2> QED BY <1>1, <2>2 DEF Buffered, Places
<1>5. InOrder'
  BY <1>1 DEF InOrder
<1>6. Whole'
  BY <1>1 DEF Whole
<1> QED BY <1>2, <1>3, <1>4, <1>5, <1>6 DEF SafeInv

LEMMA RemoveDoneSafe == SafeInv /\ RemoveDone => SafeInv'
BY FlushOver DEF RemoveDone, ghosts

LEMMA RemoveFailsSafe == SafeInv /\ RemoveFails => SafeInv'
<1> SUFFICES ASSUME SafeInv, RemoveFails PROVE SafeInv'
  OBVIOUS
<1>1. CASE by = "open"
  <2>1. Up
    BY DEF RemoveFails, Up
  <2> QED BY <1>1, <2>1, OpenFailsSafe DEF RemoveFails
<1>2. CASE by # "open"
  BY <1>2, FlushOver DEF RemoveFails
<1> QED BY <1>1, <1>2

LEMMA StutterSafe == SafeInv /\ UNCHANGED vars => SafeInv'
<1> SUFFICES ASSUME SafeInv, UNCHANGED vars PROVE SafeInv'
  OBVIOUS
<1> USE DEF vars
<1>1. Types /\ Places /\ Buffered /\ InOrder /\ Whole
  BY DEF SafeInv
<1>2. Types'
  BY <1>1 DEF Types
<1>3. Places'
  BY <1>1 DEF Places
<1>4. Buffered'
  BY <1>1 DEF Buffered
<1>5. InOrder'
  BY <1>1 DEF InOrder
<1>6. Whole'
  BY <1>1 DEF Whole
<1> QED BY <1>2, <1>3, <1>4, <1>5, <1>6 DEF SafeInv

-----------------------------------------------------------------------------
\* The invariant is inductive.
LEMMA NextSafe == SafeInv /\ [Next]_vars => SafeInv'
<1> SUFFICES ASSUME SafeInv, [Next]_vars PROVE SafeInv'
  OBVIOUS
<1>1. CASE Open
  BY <1>1, OpenSafe
<1>2. CASE Refuse
  BY <1>2, RefuseSafe
<1>3. CASE CreateFile
  BY <1>3, CreateFileSafe
<1>4. ASSUME NEW b \in Batches, Write(b) PROVE SafeInv'
  BY <1>4, WriteSafe
<1>5. ASSUME NEW b \in Batches, WriteTooLarge(b) PROVE SafeInv'
  BY <1>5, WriteTooLargeSafe
<1>6. CASE Flush
  BY <1>6, FlushSafe
<1>7. CASE Cut
  BY <1>7, CutSafe
<1>8. CASE Save
  BY <1>8, SaveSafe
<1>9. CASE SaveDone
  BY <1>9, SaveDoneSafe
<1>10. CASE SaveFails
  BY <1>10, SaveFailsSafe
<1>11. CASE RemoveFile
  BY <1>11, RemoveFileSafe
<1>12. CASE RemoveDone
  BY <1>12, RemoveDoneSafe
<1>13. CASE RemoveFails
  BY <1>13, RemoveFailsSafe
<1>14. CASE LogWrite
  BY <1>14, LogWriteSafe
<1>15. CASE LogSync
  BY <1>15, LogSyncSafe
<1>16. CASE LogRotate
  BY <1>16, LogRotateSafe
<1>17. CASE Drop
  BY <1>17, DropSafe
<1>18. CASE Kill
  BY <1>18, KillSafe
<1>19. CASE LosePower
  BY <1>19, LosePowerSafe
<1>20. CASE Idle \/ UNCHANGED vars
  BY <1>20, StutterSafe DEF Idle
<1> QED BY <1>1, <1>2, <1>3, <1>4, <1>5, <1>6, <1>7, <1>8, <1>9, <1>10, <1>11, <1>12,
           <1>13, <1>14, <1>15, <1>16, <1>17, <1>18, <1>19, <1>20, Zenon DEF Next

\* The invariant holds in every reachable state: every operation of the database,
\* with its failed calls, every kill and every loss of power keeps memory, the
\* segments and the log together as SafeInv says (db.rs, segment.rs, replay.rs).
THEOREM SafeDb == Spec => []SafeInv
<1>1. Init => SafeInv
  BY InitSafe
<1>2. SafeInv /\ [Next]_vars => SafeInv'
  BY NextSafe
<1> QED BY <1>1, <1>2, PTL DEF Spec

\* Every variable has its type: no write, flush, recovery or crash makes a
\* sample without a timestamp or syncs more of a log file than it has (db.rs:29).
THEOREM TypeCorrect == Spec => []TypeOK
<1>1. SafeInv => TypeOK
  <2> SUFFICES ASSUME SafeInv PROVE TypeOK
    OBVIOUS
  <2>1. Types
    BY DEF SafeInv
  <2>2. /\ FileIds \subseteq Nat
        /\ \A f \in FileIds : wal[f].synced \in 0 .. Len(wal[f].recs)
              /\ wal[f].torn \in BOOLEAN
    <3>1. Shape(wal, Len(hist))
      BY <2>1 DEF Types
    <3>2. ASSUME NEW f \in FileIds
          PROVE  wal[f].synced \in 0 .. Len(wal[f].recs) /\ wal[f].torn \in BOOLEAN
      <4>1. wal[f] \in LogFile(Len(hist)) /\ wal[f].synced <= Len(wal[f].recs)
        BY <3>1 DEF Shape, FileIds
      <4>2. Len(wal[f].recs) \in Nat /\ wal[f].synced \in Nat /\ wal[f].torn \in BOOLEAN
        BY <4>1 DEF LogFile
      <4> QED BY <4>1, <4>2
    <3> QED BY <3>1, <3>2 DEF Shape, FileIds
  <2>3. /\ m.samples \in [Labels -> Seq(Nat \X Nat)] /\ m.newest \in [Labels -> Nat]
        /\ m.buffered \in Nat /\ Range(m.index) \subseteq Labels
    <3>1. m \in Memory
      BY <2>1 DEF Types
    <3>2. Seq(Sample) \subseteq Seq(Nat \X Nat)
      BY DEF Sample
    <3> QED BY <3>1, <3>2, MemoryHas
  <2> QED BY <2>1, <2>2, <2>3 DEF Types, TypeOK
<1> QED BY <1>1, SafeDb, PTL

\* total_buffered, from which a write decides to flush, is the number of samples
\* in memory whenever the database answers: the replay of a log that overlaps
\* the segments counts what it kept and no more (db.rs:159, index.rs, replay.rs).
THEOREM BufferedIsExact == Spec => []BufferedExact
<1>1. SafeInv => BufferedExact
  BY Zenon DEF SafeInv, Buffered, BufferedExact, Counted, Total, Answers
<1> QED BY <1>1, SafeDb, PTL

\* Where a crash tears at most the end of the last log file, a database opens
\* again wherever the server stopped, within a flush and within a recovery too:
\* segments and log never disagree so that Db::open refuses them (db.rs:43).
THEOREM OpensAgain ==
    ASSUME "ends" \notin PowerLoss
    PROVE  Spec => []NeverRefused
<1>1. SafeInv => NeverRefused
  BY DEF SafeInv, Whole, NeverRefused
<1> QED BY <1>1, SafeDb, PTL
===============================================================================
