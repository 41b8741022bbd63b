----------------------------- MODULE FramingProofs -----------------------------
(***************************************************************************)
(* What replay makes of the bytes of the log (module Framing), proved for  *)
(* any batches and any bounds.                                             *)
(***************************************************************************)
EXTENDS Framing, FoldFacts

-----------------------------------------------------------------------------
(* Parts of a buffer. *)

\* The cells c are in buf from place p on.
Lies(buf, p, c) ==
    p + Len(c) <= Len(buf) /\ \A i \in 1 .. Len(c) : buf[p + i] = c[i]

LEMMA MiddleIs ==
    ASSUME NEW S, NEW b \in Seq(S), NEW a \in Nat, NEW n \in Nat, a + n <= Len(b)
    PROVE  /\ SubSeq(b, a + 1, a + n) \in Seq(S) /\ Len(SubSeq(b, a + 1, a + n)) = n
           /\ \A i \in 1 .. n : SubSeq(b, a + 1, a + n)[i] = b[a + i]
OBVIOUS

LEMMA ElementIs ==
    ASSUME NEW S, NEW s \in Seq(S), NEW i \in 1 .. Len(s)
    PROVE  s[i] \in S
OBVIOUS

LEMMA LiesIs ==
    ASSUME NEW buf \in Cells, NEW p \in Nat, NEW c \in Cells, Lies(buf, p, c)
    PROVE  SubSeq(buf, p + 1, p + Len(c)) = c
<1> DEFINE s == SubSeq(buf, p + 1, p + Len(c))
<1>1. /\ Len(c) \in Nat /\ Len(buf) \in Nat /\ p + Len(c) <= Len(buf)
      /\ \A i \in 1 .. Len(c) : buf[p + i] = c[i]
  BY DEF Lies, Cells
<1>2. s \in Cells /\ Len(s) = Len(c) /\ \A i \in 1 .. Len(c) : s[i] = buf[p + i]
  BY <1>1 DEF Cells
<1> HIDE DEF s
<1>3. \A i \in 1 .. Len(s) : s[i] = c[i]
  BY <1>1, <1>2
<1>4. s = c
  BY <1>2, <1>3, SameSeq DEF Cells
<1> QED BY <1>4 DEF s

LEMMA LiesJoin ==
    ASSUME NEW buf \in Cells, NEW p \in Nat, NEW a \in Cells, NEW b \in Cells,
           Lies(buf, p, a \o b)
    PROVE  Lies(buf, p, a) /\ Lies(buf, p + Len(a), b)
<1>1. /\ Len(a) \in Nat /\ Len(b) \in Nat /\ Len(a \o b) = Len(a) + Len(b)
      /\ \A i \in 1 .. Len(a) : (a \o b)[i] = a[i]
      /\ \A i \in 1 .. Len(b) : (a \o b)[Len(a) + i] = b[i]
  BY JoinIs DEF Cells
<1> DEFINE c == a \o b
<1>2. /\ p + Len(c) <= Len(buf) /\ Len(buf) \in Nat
      /\ \A i \in 1 .. Len(c) : buf[p + i] = c[i]
  BY DEF Lies, Cells
<1> HIDE DEF c
<1>3. /\ Len(c) = Len(a) + Len(b) /\ \A i \in 1 .. Len(a) : c[i] = a[i]
      /\ \A i \in 1 .. Len(b) : c[Len(a) + i] = b[i]
  BY <1>1 DEF c
<1>4. Lies(buf, p, a)
  BY <1>1, <1>2, <1>3 DEF Lies
<1>5. ASSUME NEW i \in 1 .. Len(b) PROVE buf[(p + Len(a)) + i] = b[i]
  <2>1. Len(a) + i \in 1 .. Len(c) /\ p + (Len(a) + i) = (p + Len(a)) + i
    BY <1>1, <1>3
  <2> QED BY <1>2, <1>3, <2>1
<1>6. (p + Len(a)) + Len(b) <= Len(buf)
  BY <1>1, <1>2, <1>3
<1> QED BY <1>4, <1>5, <1>6 DEF Lies

\* f has the places at which the sequences of qs end when they are joined.
Offsets(f, qs) ==
    /\ f \in [0 .. Len(qs) -> Nat] /\ f[0] = 0 /\ f[Len(qs)] = Len(FlattenSeq(qs))
    /\ \A i \in 1 .. Len(qs) : f[i] = f[i - 1] + Len(qs[i])

LEMMA Pieces ==
    ASSUME NEW buf \in Cells, NEW p \in Nat, NEW qs \in Seq(Cells),
           Lies(buf, p, FlattenSeq(qs))
    PROVE  \E f : Offsets(f, qs)
                  /\ \A i \in 1 .. Len(qs) : Lies(buf, p + f[i - 1], qs[i])
<1>1. Len(qs) \in Nat /\ \A i \in 1 .. Len(qs) : qs[i] \in Cells
  BY DEF Cells
<1>2. PICK r \in [0 .. Len(qs) -> Cells] :
               /\ r[0] = <<>> /\ r[Len(qs)] = FlattenSeq(qs)
               /\ \A i \in 1 .. Len(qs) : r[i] = r[i - 1] \o qs[i]
  BY FlattenRun DEF Cells
<1> DEFINE n == Len(qs)
<1> DEFINE G == {d \in 0 .. n : Lies(buf, p, r[n - d])}
<1>3. 0 \in G
  BY <1>1, <1>2
<1>4. ASSUME NEW d \in 1 .. n, d - 1 \in G PROVE d \in G
  <2> DEFINE i == n - (d - 1)
  <2>1. i \in 1 .. n /\ i - 1 = n - d /\ i - 1 \in 0 .. n /\ i \in 0 .. n
    BY <1>1
  <2>2. Lies(buf, p, r[i])
    BY <1>4
  <2> HIDE DEF i, n
  <2>3. r[i] = r[i - 1] \o qs[i] /\ r[i - 1] \in Cells /\ qs[i] \in Cells
    BY <1>1, <1>2, <2>1 DEF n
  <2>4. Lies(buf, p, r[i - 1])
    BY <2>2, <2>3, LiesJoin
  <2> QED BY <2>1, <2>4
<1> HIDE DEF G
<1>5. \A d \in 0 .. n : d \in G
  BY <1>1, <1>3, <1>4, UpTo
<1>6. ASSUME NEW i \in 0 .. n PROVE Lies(buf, p, r[i])
  <2>1. n - i \in 0 .. n /\ n - (n - i) = i
    BY <1>1
  <2> QED BY <1>5, <2>1 DEF G
<1> DEFINE f == [i \in 0 .. n |-> Len(r[i])]
<1>7. f \in [0 .. n -> Nat] /\ f[0] = 0 /\ f[n] = Len(FlattenSeq(qs))
  BY <1>1, <1>2 DEF Cells
<1>8. ASSUME NEW i \in 1 .. n
      PROVE  f[i] = f[i - 1] + Len(qs[i]) /\ Lies(buf, p + f[i - 1], qs[i])
  <2>1. i - 1 \in 0 .. n /\ i \in 0 .. n
    BY <1>1
  <2>2. r[i] = r[i - 1] \o qs[i] /\ r[i - 1] \in Cells /\ qs[i] \in Cells
    BY <1>1, <1>2, <2>1
  <2>3. f[i] = Len(r[i]) /\ f[i - 1] = Len(r[i - 1])
    BY <2>1
  <2> HIDE DEF f, n
  <2>6. Lies(buf, p, r[i - 1] \o qs[i])
    BY <1>6, <2>1, <2>2
  <2>4. Lies(buf, p + Len(r[i - 1]), qs[i])
    BY <2>2, <2>6, LiesJoin
  <2>5. Len(r[i]) = Len(r[i - 1]) + Len(qs[i])
    BY <2>2, JoinIs DEF Cells
  <2> QED BY <2>3, <2>4, <2>5
<1> HIDE DEF f
<1> QED BY <1>7, <1>8 DEF Offsets

\* There are such places.
LEMMA OffsetsExist ==
    ASSUME NEW qs \in Seq(Cells)
    PROVE  \E f : Offsets(f, qs)
<1> DEFINE buf == FlattenSeq(qs)
<1>1. qs \in Seq(Seq(Nat))
  BY Zenon DEF Cells
<1>2. buf \in Cells /\ Len(buf) \in Nat
  BY <1>1, FlattenType DEF Cells
<1>3. Lies(buf, 0, buf)
  BY <1>2 DEF Lies
<1> QED BY <1>2, <1>3, Pieces, Zenon

\* n sequences of at least k cells are at least k * n cells.
LEMMA AtLeast ==
    ASSUME NEW qs \in Seq(Cells), NEW f, Offsets(f, qs), NEW k \in {2, 3, 4},
           \A i \in 1 .. Len(qs) : Len(qs[i]) >= k
    PROVE  k * Len(qs) <= Len(FlattenSeq(qs))
<1> DEFINE G == {i \in 0 .. Len(qs) : k * i <= f[i]}
<1>1. Len(qs) \in Nat /\ \A i \in 1 .. Len(qs) : Len(qs[i]) \in Nat
  BY DEF Cells
<1>2. 0 \in G
  BY <1>1 DEF Offsets
<1>3. ASSUME NEW i \in 1 .. Len(qs), i - 1 \in G PROVE i \in G
  <2>1. i - 1 \in 0 .. Len(qs) /\ k * (i - 1) <= f[i - 1] /\ i \in 0 .. Len(qs)
    BY <1>1, <1>3
  <2>2. f[i] = f[i - 1] + Len(qs[i]) /\ f[i - 1] \in Nat /\ Len(qs[i]) >= k
    BY <2>1 DEF Offsets
  <2>3. k * (i - 1) + k = k * i
    OBVIOUS
  <2>4. k * (i - 1) \in Int /\ k * i \in Int /\ Len(qs[i]) \in Nat
    BY <1>1
  <2>5. k * i <= f[i]
    BY <2>1, <2>2, <2>3, <2>4
  <2> QED BY <2>1, <2>5
<1> HIDE DEF G
<1>4. Len(qs) \in G
  BY <1>1, <1>2, <1>3, UpTo
<1> QED BY <1>4 DEF G, Offsets

-----------------------------------------------------------------------------
(* Readers. *)

\* The readers of buf whose last call read one of V, or failed, and that have
\* reserved no more than there is.
Readers(buf, V) ==
    [buf : {buf}, pos : 0 .. Len(buf), ok : BOOLEAN, got : V, reserved : {0}]

\* A reader at place p that has just read g.
Good(buf, p, g) == [buf |-> buf, pos |-> p, ok |-> TRUE, got |-> g, reserved |-> 0]

LEMMA GoodIs ==
    ASSUME NEW buf \in Cells, NEW V, NEW p \in 0 .. Len(buf), NEW g \in V
    PROVE  Good(buf, p, g) \in Readers(buf, V)
BY DEF Good, Readers

LEMMA FailType ==
    ASSUME NEW buf \in Cells, NEW V, NEW r \in Readers(buf, V)
    PROVE  Fail(r) \in Readers(buf, {<<0>>}) /\ ~Fail(r).ok
BY DEF Fail, Readers

LEMMA ZeroCell == <<0>> \in Cells /\ Len(<<0>>) = 1 /\ <<0>>[1] = 0
BY DEF Cells

LEMMA TakeType ==
    ASSUME NEW buf \in Cells, NEW V, NEW r \in Readers(buf, V), NEW n \in Nat
    PROVE  /\ Take(r, n) \in Readers(buf, Cells)
           /\ Take(r, n).ok => r.ok /\ Len(Take(r, n).got) = n
           /\ n = 1 => Take(r, n).got[1] \in Nat
<1>0. Len(buf) \in Nat /\ r.buf = buf /\ r.pos \in 0 .. Len(buf) /\ r.reserved = 0
  BY DEF Readers, Cells
<1>1. CASE r.ok /\ n <= Remaining(r)
  <2> DEFINE got == SubSeq(r.buf, r.pos + 1, r.pos + n)
  <2>1. r.pos + n \in 0 .. Len(buf)
    BY <1>0, <1>1 DEF Remaining
  <2>2. got \in Cells /\ Len(got) = n
    <3>1. r.pos \in Nat /\ r.pos + n <= Len(buf)
      BY <1>0, <2>1
    <3>2. /\ SubSeq(buf, r.pos + 1, r.pos + n) \in Cells
          /\ Len(SubSeq(buf, r.pos + 1, r.pos + n)) = n
      BY <3>1, MiddleIs, SMTT(30) DEF Cells
    <3> QED BY <1>0, <3>2
  <2>3. Take(r, n) = [r EXCEPT !.pos = r.pos + n, !.got = got]
    BY <1>1 DEF Take
  <2> HIDE DEF got
  <2>4. Take(r, n) \in Readers(buf, Cells) /\ Take(r, n).got = got
    BY <2>1, <2>2, <2>3 DEF Readers
  <2>5. ASSUME n = 1 PROVE got[1] \in Nat
    <3>1. got \in Seq(Nat) /\ 1 \in 1 .. Len(got)
      BY <2>2, <2>5 DEF Cells
    <3> QED BY <3>1, ElementIs
  <2> QED BY <1>1, <2>2, <2>4, <2>5
<1>2. CASE ~(r.ok /\ n <= Remaining(r))
  <2>1. Take(r, n) = Fail(r)
    BY <1>2 DEF Take
  <2>2. Take(r, n) \in Readers(buf, Cells) /\ ~Take(r, n).ok /\ Take(r, n).got = <<0>>
    BY <2>1, FailType, ZeroCell DEF Readers
  <2> QED BY <2>2, ZeroCell
<1> QED BY <1>1, <1>2

\* What lies ahead is taken.
LEMMA TakeIs ==
    ASSUME NEW buf \in Cells, NEW p \in Nat, NEW g, NEW c \in Cells, Lies(buf, p, c)
    PROVE  /\ Take(Good(buf, p, g), Len(c)) = Good(buf, p + Len(c), c)
           /\ Len(c) \in Nat /\ p + Len(c) \in 0 .. Len(buf)
<1> DEFINE r == Good(buf, p, g)
<1>1. Len(c) \in Nat /\ Len(buf) \in Nat /\ p + Len(c) <= Len(buf)
  BY DEF Lies, Cells
<1>2. r.ok /\ Len(c) <= Remaining(r) /\ r.pos = p /\ r.buf = buf
  BY <1>1 DEF Good, Remaining
<1>3. SubSeq(buf, p + 1, p + Len(c)) = c
  BY LiesIs
<1>4. Take(r, Len(c)) = [r EXCEPT !.pos = p + Len(c), !.got = c]
  BY <1>2, <1>3 DEF Take
<1>5. Take(r, Len(c)) = Good(buf, p + Len(c), c)
  BY <1>4 DEF Good
<1> QED BY <1>1, <1>5

\* One item more.
Step(acc, e) == [e EXCEPT !.got = Append(acc.got, e.got)]

LEMMA StepType ==
    ASSUME NEW buf \in Cells, NEW V, NEW a \in Readers(buf, Seq(V)),
           NEW e \in Readers(buf, V)
    PROVE  Step(a, e) \in Readers(buf, Seq(V))
<1>1. Append(a.got, e.got) \in Seq(V)
  BY DEF Readers
<1> QED BY <1>1 DEF Step, Readers

\* From where one of qs lies ahead, t reads the one of vs that it stands for.
Advances(t, buf, V, qs, vs) ==
    \A i \in 1 .. Len(qs), q \in Nat, g \in Seq(V) :
        t[i - 1] = Good(buf, q, g) /\ Lies(buf, q, qs[i])
          => t[i] = Good(buf, q + Len(qs[i]), Append(g, vs[i]))

\* Reading items from where one would be reads all of them.
LEMMA ReadAll ==
    ASSUME NEW V, NEW buf \in Cells, NEW p \in Nat, NEW qs \in Seq(Cells),
           NEW vs \in Seq(V), Len(vs) = Len(qs), Lies(buf, p, FlattenSeq(qs)),
           NEW t, t[0] = Good(buf, p, <<>>), Advances(t, buf, V, qs, vs)
    PROVE  t[Len(qs)] = Good(buf, p + Len(FlattenSeq(qs)), vs)
<1>1. /\ Len(qs) \in Nat /\ DOMAIN vs = 1 .. Len(qs)
      /\ \A i \in 1 .. Len(qs) : qs[i] \in Cells /\ Len(qs[i]) \in Nat
  BY DEF Cells
<1>2. PICK f : Offsets(f, qs) /\ \A i \in 1 .. Len(qs) : Lies(buf, p + f[i - 1], qs[i])
  BY Pieces
<1> DEFINE G == {i \in 0 .. Len(qs) : t[i] = Good(buf, p + f[i], SubSeq(vs, 1, i))}
<1>3. 0 \in G
  <2>1. f[0] = 0 /\ p + 0 = p /\ SubSeq(vs, 1, 0) = <<>>
    BY <1>2 DEF Offsets
  <2>2. t[0] = Good(buf, p + f[0], SubSeq(vs, 1, 0))
    BY <2>1
  <2> QED BY <1>1, <2>2
<1>4. ASSUME NEW i \in 1 .. Len(qs), i - 1 \in G PROVE i \in G
  <2> DEFINE g == SubSeq(vs, 1, i - 1)
  <2> DEFINE q == p + f[i - 1]
  <2>1. i - 1 \in 0 .. Len(qs) /\ i \in 0 .. Len(qs) /\ t[i - 1] = Good(buf, q, g)
    BY <1>1, <1>4
  <2>2. f[i - 1] \in Nat /\ f[i] = f[i - 1] + Len(qs[i])
    BY <1>2, <2>1 DEF Offsets
  <2>3. q \in Nat /\ q + Len(qs[i]) = p + f[i]
    BY <1>1, <2>2
  <2>4. g \in Seq(V) /\ SubSeq(vs, 1, i) = Append(g, vs[i])
    BY <1>1, BeginMore
  <2>5. Lies(buf, q, qs[i])
    BY <1>2
  <2> HIDE DEF g, q
  <2>6. t[i] = Good(buf, q + Len(qs[i]), Append(g, vs[i]))
    BY <2>1, <2>3, <2>4, <2>5 DEF Advances
  <2>7. t[i] = Good(buf, p + f[i], SubSeq(vs, 1, i))
    BY <2>3, <2>4, <2>6
  <2> QED BY <2>1, <2>7
<1> HIDE DEF G
<1>5. Len(qs) \in G
  BY <1>1, <1>3, <1>4, UpTo
<1>6. t[Len(qs)] = Good(buf, p + f[Len(qs)], SubSeq(vs, 1, Len(qs)))
  BY <1>5 DEF G
<1>7. SubSeq(vs, 1, Len(qs)) = vs
  BY <1>1
<1> QED BY <1>2, <1>6, <1>7 DEF Offsets

-----------------------------------------------------------------------------
(* Label sets. *)

\* A set of numbers up to n has a largest.
LEMMA MaxFrom ==
    ASSUME NEW n \in Nat, NEW s \in SUBSET (0 .. n), s # {}
    PROVE  Max(s) \in s /\ \A x \in s : x <= Max(s)
<1> DEFINE P(k) == \A u \in SUBSET (0 .. k) : u # {} => \E x \in u : \A y \in u : x >= y
<1> DEFINE G == {k \in Nat : P(k)}
<1>1. 0 \in G
  <2>1. 0 .. 0 = {0}
    OBVIOUS
  <2>2. ASSUME NEW u \in SUBSET (0 .. 0), u # {} PROVE \E x \in u : \A y \in u : x >= y
    <3>1. 0 \in u /\ \A y \in u : y = 0
      BY <2>1, <2>2
    <3> QED BY <3>1
  <2> QED BY <2>2
<1>2. \A k \in Nat : k \in G => k + 1 \in G
  <2> SUFFICES ASSUME NEW k \in Nat, P(k), NEW u \in SUBSET (0 .. k + 1), u # {}
               PROVE  \E x \in u : \A y \in u : x >= y
    OBVIOUS
  <2>1. CASE k + 1 \in u
    BY <2>1
  <2>2. CASE k + 1 \notin u
    <3>1. u \in SUBSET (0 .. k)
      BY <2>2
    <3> QED BY <3>1
  <2> QED BY <2>1, <2>2
<1> HIDE DEF G
<1>3. n \in G
  BY <1>1, <1>2, NatSet
<1>4. \E x \in s : \A y \in s : x >= y
  BY <1>3 DEF G
<1>5. Max(s) \in s /\ \A x \in s : Max(s) >= x
  BY <1>4, Zenon DEF Max
<1> QED BY <1>5

LEMMA MaxIsTop == ASSUME NEW n \in Nat PROVE Max(0 .. n) = n
<1>1. 0 .. n \in SUBSET (0 .. n) /\ n \in 0 .. n
  OBVIOUS
<1>2. Max(0 .. n) \in 0 .. n /\ n <= Max(0 .. n)
  BY <1>1, MaxFrom
<1> QED BY <1>2

LEMMA BeforeBefore ==
    ASSUME NEW s \in Cells, NEW t \in Cells, NEW u \in Cells, Before(s, t), Before(t, u)
    PROVE  Before(s, u)
<1>1. PICK n \in 0 .. Len(s) : /\ n < Len(t) /\ (n < Len(s) => s[n + 1] < t[n + 1])
                               /\ \A i \in 1 .. n : s[i] = t[i]
  BY DEF Before
<1>2. PICK m \in 0 .. Len(t) : /\ m < Len(u) /\ (m < Len(t) => t[m + 1] < u[m + 1])
                               /\ \A i \in 1 .. m : t[i] = u[i]
  BY DEF Before
<1>3. /\ Len(s) \in Nat /\ Len(t) \in Nat /\ Len(u) \in Nat
      /\ \A i \in 1 .. Len(s) : s[i] \in Nat
      /\ \A i \in 1 .. Len(t) : t[i] \in Nat
      /\ \A i \in 1 .. Len(u) : u[i] \in Nat
  BY DEF Cells
<1>4. CASE n <= m
  <2>1. n \in 0 .. Len(s) /\ n < Len(u) /\ \A i \in 1 .. n : s[i] = u[i]
    BY <1>1, <1>2, <1>3, <1>4
  <2>2. ASSUME n < Len(s) PROVE s[n + 1] < u[n + 1]
    <3>1. s[n + 1] < t[n + 1] /\ n + 1 \in 1 .. Len(s) /\ n + 1 \in 1 .. Len(t)
      BY <1>1, <1>3, <2>2
    <3>2. t[n + 1] <= u[n + 1] /\ n + 1 \in 1 .. Len(u)
      BY <1>1, <1>2, <1>3, <1>4, <3>1
    <3> HIDE <1>1, <1>2
    <3> QED BY <1>3, <3>1, <3>2
  <2> QED BY <2>1, <2>2 DEF Before
<1>5. CASE m < n
  <2>1. m \in 0 .. Len(s) /\ m < Len(u) /\ \A i \in 1 .. m : s[i] = u[i]
    BY <1>1, <1>2, <1>3, <1>5
  <2>2. s[m + 1] = t[m + 1] /\ t[m + 1] < u[m + 1]
    BY <1>1, <1>2, <1>3, <1>5
  <2> QED BY <2>1, <2>2 DEF Before
<1> QED BY <1>1, <1>2, <1>3, <1>4, <1>5

LEMMA BeforeOrAfter ==
    ASSUME NEW s \in Cells, NEW t \in Cells, s # t
    PROVE  Before(s, t) \/ Before(t, s)
<1> DEFINE P == {n \in 0 .. Len(s) : n <= Len(t) /\ \A i \in 1 .. n : s[i] = t[i]}
<1> DEFINE n == Max(P)
<1>1. /\ Len(s) \in Nat /\ Len(t) \in Nat
      /\ \A i \in 1 .. Len(s) : s[i] \in Nat
      /\ \A i \in 1 .. Len(t) : t[i] \in Nat
  BY DEF Cells
<1>2. P \in SUBSET (0 .. Len(s)) /\ 0 \in P
  BY <1>1
<1>3. n \in P /\ \A x \in P : x <= n
  <2> HIDE DEF P
  <2> QED BY <1>1, <1>2, MaxFrom
<1> HIDE DEF n
<1>4. n \in 0 .. Len(s) /\ n <= Len(t) /\ \A i \in 1 .. n : s[i] = t[i]
  BY <1>3
<1>5. CASE n = Len(s) /\ n = Len(t)
  <2>1. s = t
    BY <1>4, <1>5, SameSeq DEF Cells
  <2> QED BY <2>1
<1>6. CASE n = Len(s) /\ n < Len(t)
  BY <1>4, <1>6 DEF Before
<1>7. CASE n < Len(s) /\ n = Len(t)
  <2>1. n \in 0 .. Len(t) /\ \A i \in 1 .. n : t[i] = s[i]
    BY <1>1, <1>4, <1>7
  <2> QED BY <1>7, <2>1 DEF Before
<1>8. CASE n < Len(s) /\ n < Len(t)
  <2>1. s[n + 1] # t[n + 1]
    <3> SUFFICES ASSUME s[n + 1] = t[n + 1] PROVE FALSE
      OBVIOUS
    <3>1. n + 1 \in 0 .. Len(s) /\ n + 1 <= Len(t)
      BY <1>1, <1>4, <1>8
    <3>2. \A i \in 1 .. n + 1 : s[i] = t[i]
      BY <1>1, <1>4
    <3>3. n + 1 \in P
      BY <3>1, <3>2
    <3>4. n + 1 <= n /\ n \in Int
      BY <1>3, <1>4, <3>3
    <3> QED BY <3>4
  <2>2. s[n + 1] \in Nat /\ t[n + 1] \in Nat
    BY <1>1, <1>4, <1>8
  <2>3. n \in 0 .. Len(t) /\ \A i \in 1 .. n : t[i] = s[i]
    BY <1>1, <1>4, <1>8
  <2>4. s[n + 1] < t[n + 1] \/ t[n + 1] < s[n + 1]
    BY <2>1, <2>2
  <2> QED BY <1>4, <1>8, <2>3, <2>4 DEF Before
<1> QED BY <1>1, <1>4, <1>5, <1>6, <1>7, <1>8

LabelCells == [name : Cells, value : Cells]

\* Sorted by name, each name once.
Sorted(ls) == \A i, j \in DOMAIN ls : i < j => Before(ls[i].name, ls[j].name)

\* r is ls with l between the first n and what follows the first m.
Put(r, V, ls, l, n, m) ==
    /\ n \in Nat /\ m \in Nat /\ n <= m /\ m <= Len(ls)
    /\ r \in Seq(V) /\ Len(r) = (n + 1) + (Len(ls) - m)
    /\ \A i \in 1 .. n : r[i] = ls[i]
    /\ r[n + 1] = l
    /\ \A i \in 1 .. Len(ls) - m : r[(n + 1) + i] = ls[m + i]

\* What comes before a name, in a list of labels.
Lower(ls, l) == {0} \cup {i \in DOMAIN ls : Before(ls[i].name, l.name)}

LEMMA InsertIs ==
    ASSUME NEW V, NEW ls \in Seq(V), NEW l \in V
    PROVE  LET n == Max(Lower(ls, l))
               m == IF n < Len(ls) /\ ls[n + 1].name = l.name THEN n + 1 ELSE n
           IN  Put(Insert(ls, l), V, ls, l, n, m)
<1> DEFINE n == Max(Lower(ls, l))
<1> DEFINE m == IF n < Len(ls) /\ ls[n + 1].name = l.name THEN n + 1 ELSE n
<1> DEFINE a == SubSeq(ls, 1, n)
<1> DEFINE b == SubSeq(ls, m + 1, Len(ls))
<1> DEFINE x == <<l>>
<1>1. Insert(ls, l) = a \o x \o b
  BY Zenon DEF Insert, Lower
<1>2. Len(ls) \in Nat /\ DOMAIN ls = 1 .. Len(ls)
  OBVIOUS
<1>3. n \in 0 .. Len(ls)
  <2>1. Lower(ls, l) \in SUBSET (0 .. Len(ls)) /\ Lower(ls, l) # {}
    BY <1>2 DEF Lower
  <2> QED BY <1>2, <2>1, MaxFrom
<1> HIDE DEF n
<1>4. n \in Nat /\ m \in Nat /\ n <= m /\ m <= Len(ls) /\ m \in 0 .. Len(ls)
  BY <1>2, <1>3
<1> HIDE DEF m
<1>5. a \in Seq(V) /\ Len(a) = n /\ \A i \in 1 .. n : a[i] = ls[i]
  BY <1>3, Split
<1>6. /\ b \in Seq(V) /\ Len(b) = Len(ls) - m
      /\ \A i \in 1 .. Len(ls) - m : b[i] = ls[m + i]
  BY <1>4, Split
<1>7. x \in Seq(V) /\ Len(x) = 1 /\ x[1] = l
  OBVIOUS
<1> HIDE DEF a, b, x
<1> DEFINE ax == a \o x
<1>8. /\ ax \in Seq(V) /\ Len(ax) = n + 1 /\ \A i \in 1 .. n : ax[i] = ls[i]
      /\ ax[n + 1] = l
  <2>a. a \in Seq(V)
    BY <1>5
  <2>b. x \in Seq(V)
    BY <1>7
  <2>1. /\ ax \in Seq(V) /\ Len(ax) = Len(a) + Len(x)
        /\ \A i \in 1 .. Len(a) : ax[i] = a[i]
        /\ \A i \in 1 .. Len(x) : ax[Len(a) + i] = x[i]
    BY <2>a, <2>b, JoinIs
  <2> HIDE DEF ax
  <2>2. ax[n + 1] = x[1]
    BY <1>5, <1>7, <2>1
  <2> QED BY <1>4, <1>5, <1>7, <2>1, <2>2
<1> HIDE DEF ax
<1> DEFINE r == ax \o b
<1>9. /\ r \in Seq(V) /\ Len(r) = Len(ax) + Len(b)
      /\ \A i \in 1 .. Len(ax) : r[i] = ax[i]
      /\ \A i \in 1 .. Len(b) : r[Len(ax) + i] = b[i]
  <2>a. ax \in Seq(V)
    BY <1>8
  <2>b. b \in Seq(V)
    BY <1>6
  <2> QED BY <2>a, <2>b, JoinIs
<1>10. Insert(ls, l) = r
  BY <1>1 DEF ax
<1> HIDE DEF r
<1>11. /\ Len(r) = (n + 1) + (Len(ls) - m)
       /\ \A i \in 1 .. n : r[i] = ls[i]
       /\ r[n + 1] = l
       /\ \A i \in 1 .. Len(ls) - m : r[(n + 1) + i] = ls[m + i]
  BY <1>4, <1>6, <1>8, <1>9
<1>12. Put(r, V, ls, l, n, m)
  BY <1>4, <1>9, <1>11 DEF Put
<1> QED BY <1>10, <1>12, Zenon DEF n, m

LEMMA InsertType ==
    ASSUME NEW V, NEW ls \in Seq(V), NEW l \in V
    PROVE  Insert(ls, l) \in Seq(V)
<1>1. \E n, m : Put(Insert(ls, l), V, ls, l, n, m)
  BY InsertIs, Zenon
<1> QED BY <1>1, Zenon DEF Put

\* A label that belongs at the end.
LEMMA InsertLast ==
    ASSUME NEW V, NEW ls \in Seq(V), NEW l \in V,
           \A i \in DOMAIN ls : Before(ls[i].name, l.name)
    PROVE  Insert(ls, l) = Append(ls, l)
<1> DEFINE n == Max(Lower(ls, l))
<1> DEFINE m == IF n < Len(ls) /\ ls[n + 1].name = l.name THEN n + 1 ELSE n
<1> DEFINE r == Insert(ls, l)
<1>1. Put(r, V, ls, l, n, m)
  BY InsertIs, Zenon
<1>2. Len(ls) \in Nat /\ DOMAIN ls = 1 .. Len(ls)
  OBVIOUS
<1>3. n = Len(ls)
  <2>1. Lower(ls, l) = 0 .. Len(ls)
    BY <1>2 DEF Lower
  <2> QED BY <1>2, <2>1, MaxIsTop, Zenon
<1> HIDE DEF n
<1>4. m = Len(ls)
  <2>1. ~(n < Len(ls))
    <3> HIDE DEF m
    <3>1. ~(Len(ls) < Len(ls))
      BY <1>2
    <3> QED BY <1>3, <3>1, Zenon
  <2> QED BY <1>3, <2>1, Zenon
<1> HIDE DEF m, r
<1>5. /\ r \in Seq(V) /\ Len(r) = Len(ls) + 1 /\ r[Len(ls) + 1] = l
      /\ \A i \in 1 .. Len(ls) : r[i] = ls[i]
  BY <1>1, <1>2, <1>3, <1>4 DEF Put
<1>6. /\ Append(ls, l) \in Seq(V) /\ Len(Append(ls, l)) = Len(ls) + 1
      /\ Append(ls, l)[Len(ls) + 1] = l
      /\ \A i \in 1 .. Len(ls) : Append(ls, l)[i] = ls[i]
  OBVIOUS
<1>7. ASSUME NEW i \in 1 .. Len(r) PROVE r[i] = Append(ls, l)[i]
  <2>1. i \in 1 .. Len(ls) \/ i = Len(ls) + 1
    BY <1>2, <1>5
  <2> QED BY <1>5, <1>6, <2>1
<1>8. r = Append(ls, l)
  BY <1>5, <1>6, <1>7, SameSeq
<1> QED BY <1>8 DEF r

LEMMA InsertSorts ==
    ASSUME NEW ls \in Seq(LabelCells), NEW l \in LabelCells, Sorted(ls)
    PROVE  Sorted(Insert(ls, l))
<1> DEFINE n == Max(Lower(ls, l))
<1> DEFINE m == IF n < Len(ls) /\ ls[n + 1].name = l.name THEN n + 1 ELSE n
<1> DEFINE r == Insert(ls, l)
<1>1. Put(r, LabelCells, ls, l, n, m)
  BY InsertIs, Zenon
<1>2. Len(ls) \in Nat /\ DOMAIN ls = 1 .. Len(ls)
  OBVIOUS
<1>3. n \in Lower(ls, l) /\ \A x \in Lower(ls, l) : x <= n
  <2>1. Lower(ls, l) \in SUBSET (0 .. Len(ls)) /\ Lower(ls, l) # {}
    BY <1>2 DEF Lower
  <2> QED BY <1>2, <2>1, MaxFrom
<1> HIDE DEF n
<1>4. n \in 0 .. Len(ls) /\ (n # 0 => Before(ls[n].name, l.name))
  <2>1. n = 0 \/ (n \in 1 .. Len(ls) /\ Before(ls[n].name, l.name))
    BY <1>2, <1>3, Zenon DEF Lower
  <2> QED BY <1>2, <2>1
<1>5. l.name \in Cells /\ \A i \in 1 .. Len(ls) : ls[i].name \in Cells
  <2>1. \A x \in LabelCells : x.name \in Cells
    BY DEF LabelCells
  <2>2. \A i \in 1 .. Len(ls) : ls[i] \in LabelCells
    BY ElementIs
  <2> QED BY <2>1, <2>2
<1>6. \A i, j \in 1 .. Len(ls) : i < j => Before(ls[i].name, ls[j].name)
  BY <1>2 DEF Sorted
<1>7. ASSUME NEW i \in 1 .. n PROVE i \in 1 .. Len(ls) /\ Before(ls[i].name, l.name)
  <2>1. i \in 1 .. Len(ls) /\ n \in 1 .. Len(ls) /\ n # 0 /\ i \in Int
    BY <1>2, <1>4
  <2>2. CASE i = n
    BY <1>4, <2>1, <2>2
  <2>3. CASE i < n
    <3>1. Before(ls[i].name, ls[n].name)
      BY <1>6, <2>1, <2>3
    <3> QED BY <1>4, <1>5, <2>1, <3>1, BeforeBefore
  <2> QED BY <1>4, <2>1, <2>2, <2>3
<1>8. ASSUME NEW i \in 1 .. Len(ls), i > m PROVE Before(l.name, ls[i].name)
  <2>1. i > n /\ n + 1 \in 1 .. Len(ls) /\ n \in Int
    BY <1>2, <1>4, <1>8
  <2>2. n + 1 \notin Lower(ls, l)
    BY <1>3, <1>4, <2>1
  <2>3. ~Before(ls[n + 1].name, l.name)
    BY <1>2, <2>1, <2>2 DEF Lower
  <2>4. CASE ls[n + 1].name = l.name
    <3>1. m = n + 1
      BY <1>2, <2>1, <2>4
    <3>2. Before(ls[n + 1].name, ls[i].name)
      BY <1>6, <1>8, <2>1, <3>1
    <3> QED BY <2>4, <3>2
  <2>5. CASE ls[n + 1].name # l.name
    <3>1. Before(l.name, ls[n + 1].name)
      BY <1>5, <2>1, <2>3, <2>5, BeforeOrAfter
    <3>2. CASE i = n + 1
      BY <3>1, <3>2
    <3>3. CASE i # n + 1
      <4>1. n + 1 < i
        BY <2>1, <3>3
      <4>2. Before(ls[n + 1].name, ls[i].name)
        BY <1>6, <2>1, <4>1
      <4> QED BY <1>5, <2>1, <3>1, <4>2, BeforeBefore
    <3> QED BY <3>2, <3>3
  <2> QED BY <2>4, <2>5
<1> HIDE DEF m, r
<1>9. /\ n \in Nat /\ m \in Nat /\ n <= m /\ m <= Len(ls)
      /\ r \in Seq(LabelCells) /\ Len(r) = (n + 1) + (Len(ls) - m)
      /\ \A i \in 1 .. n : r[i] = ls[i]
      /\ r[n + 1] = l
      /\ \A i \in 1 .. Len(ls) - m : r[(n + 1) + i] = ls[m + i]
  BY <1>1 DEF Put
<1>10. DOMAIN r = 1 .. (n + 1) + (Len(ls) - m)
  BY <1>9
\* Place i of the result, as a label of ls or the new one.
<1>11. ASSUME NEW i \in DOMAIN r
       PROVE  \/ i \in 1 .. n /\ r[i] = ls[i]
              \/ i = n + 1 /\ r[i] = l
              \/ /\ i > n + 1 /\ r[i] = ls[m + (i - (n + 1))]
                 /\ m + (i - (n + 1)) \in 1 .. Len(ls) /\ m + (i - (n + 1)) > m
  <2>1. i \in Int /\ i >= 1 /\ i <= (n + 1) + (Len(ls) - m)
    BY <1>2, <1>9, <1>10
  <2>2. CASE i > n + 1
    <3> DEFINE k == i - (n + 1)
    <3>1. k \in 1 .. Len(ls) - m /\ (n + 1) + k = i /\ m + k \in 1 .. Len(ls) /\ m + k > m
      <4>1. n \in Nat /\ m \in Nat /\ Len(ls) \in Nat
        BY <1>2, <1>9
      <4>2. k \in Int /\ k >= 1 /\ k <= Len(ls) - m /\ (n + 1) + k = i
        BY <2>1, <2>2, <4>1
      <4> HIDE DEF k
      <4> QED BY <4>1, <4>2
    <3> HIDE DEF k
    <3>2. r[i] = ls[m + k]
      BY <1>9, <3>1
    <3> QED BY <2>2, <3>1, <3>2 DEF k
  <2>3. CASE i = n + 1
    BY <1>9, <2>3
  <2>4. CASE i < n + 1
    <3>1. i \in 1 .. n
      BY <1>9, <2>1, <2>4
    <3> QED BY <1>9, <3>1
  <2> QED BY <1>9, <2>1, <2>2, <2>3, <2>4
<1>12. ASSUME NEW i \in DOMAIN r, NEW j \in DOMAIN r, i < j
       PROVE  Before(r[i].name, r[j].name)
  <2>0. i \in Int /\ j \in Int
    BY <1>2, <1>9, <1>10
  <2>1. CASE i \in 1 .. n /\ r[i] = ls[i]
    <3>1. CASE j \in 1 .. n /\ r[j] = ls[j]
      BY <1>6, <1>7, <1>12, <2>1, <3>1
    <3>2. CASE j = n + 1 /\ r[j] = l
      BY <1>7, <2>1, <3>2
    <3>3. CASE /\ j > n + 1 /\ r[j] = ls[m + (j - (n + 1))]
               /\ m + (j - (n + 1)) \in 1 .. Len(ls) /\ m + (j - (n + 1)) > m
      <4> DEFINE k == m + (j - (n + 1))
      <4>1. r[j] = ls[k] /\ k \in 1 .. Len(ls) /\ k > m
        BY <3>3
      <4> HIDE DEF k
      <4>2. i < k /\ i \in 1 .. Len(ls)
        BY <1>9, <2>0, <2>1, <4>1
      <4>3. Before(ls[i].name, ls[k].name)
        BY <1>6, <4>1, <4>2
      <4> QED BY <2>1, <4>1, <4>3
    <3> QED BY <1>11, <3>1, <3>2, <3>3
  <2>2. CASE i = n + 1 /\ r[i] = l
    <3>1. j > n + 1
      BY <1>12, <2>2
    <3> DEFINE k == m + (j - (n + 1))
    <3>2. ~(j \in 1 .. n) /\ j # n + 1
      BY <1>9, <2>0, <3>1
    <3>3. r[j] = ls[k] /\ k \in 1 .. Len(ls) /\ k > m
      BY <1>11, <3>2
    <3> HIDE DEF k
    <3>4. Before(l.name, ls[k].name)
      BY <1>8, <3>3
    <3> QED BY <2>2, <3>3, <3>4
  <2>3. CASE /\ i > n + 1 /\ r[i] = ls[m + (i - (n + 1))]
             /\ m + (i - (n + 1)) \in 1 .. Len(ls) /\ m + (i - (n + 1)) > m
    <3> DEFINE h == m + (i - (n + 1))
    <3> DEFINE k == m + (j - (n + 1))
    <3>1. ~(j \in 1 .. n) /\ j # n + 1 /\ h < k
      BY <1>9, <1>12, <2>0, <2>3
    <3>2. r[j] = ls[k] /\ k \in 1 .. Len(ls)
      BY <1>11, <3>1
    <3>3. r[i] = ls[h] /\ h \in 1 .. Len(ls)
      BY <2>3
    <3> HIDE DEF h, k
    <3>4. Before(ls[h].name, ls[k].name)
      BY <1>6, <3>1, <3>2, <3>3
    <3> QED BY <3>2, <3>3, <3>4
  <2> QED BY <1>11, <2>1, <2>2, <2>3
<1>13. Sorted(r)
  BY <1>12 DEF Sorted
<1> QED BY <1>13 DEF r

\* FromLabels label by label.
LabelsOf(r, V, ls) ==
    /\ r \in [0 .. Len(ls) -> Seq(V)] /\ r[0] = <<>> /\ r[Len(ls)] = FromLabels(ls)
    /\ \A i \in 1 .. Len(ls) : r[i] = Insert(r[i - 1], ls[i])

LEMMA LabelsRun ==
    ASSUME NEW V, NEW ls \in Seq(V)
    PROVE  \E r : LabelsOf(r, V, ls)
<1> DEFINE T == Seq(V)
<1> DEFINE F == [p \in T \X V |-> Insert(p[1], p[2])]
<1> DEFINE Next1(g, s) == Insert(g[s \ {Max(s)}], ls[Max(s)])
<1> DEFINE Eq(g) == g = [s \in SUBSET DOMAIN ls |-> IF s = {} THEN <<>> ELSE Next1(g, s)]
<1> DEFINE it == CHOOSE g : Eq(g)
<1>1. F \in [T \X V -> T]
  BY InsertType
<1>b. <<>> \in T
  OBVIOUS
<1>2. \A a \in T, b \in V : F[<<a, b>>] = Insert(a, b)
  OBVIOUS
<1> HIDE DEF F
<1>3. Foldable(T, V, <<>>, F, ls)
  BY <1>1, <1>b, Zenon DEF Foldable
<1>4. Eq(it)
  <2>1. PICK g : Values(g, T, V, <<>>, F, ls)
    BY <1>3, Iterates
  <2>2. \A s \in SUBSET DOMAIN ls : g[s] = IF s = {} THEN <<>> ELSE Next1(g, s)
    BY <1>2, <2>1 DEF Values
  <2>3. Eq(g)
    BY <2>1, <2>2, Zenon DEF Values
  <2> QED BY <2>3, Zenon
<1>5. FromLabels(ls) = it[DOMAIN ls]
  BY Zenon DEF FromLabels, FoldLeft, MapThenFoldSet
<1> HIDE DEF it
<1>6. \A s \in SUBSET DOMAIN ls : it[s] = IF s = {} THEN <<>> ELSE Next1(it, s)
  BY <1>4
<1>7. Iteration(it, T, V, <<>>, F, ls)
  BY <1>2, <1>6 DEF Iteration
<1>8. PICK r : Run(r, T, V, <<>>, F, ls) /\ r[Len(ls)] = it[DOMAIN ls]
  BY <1>3, <1>7, Unrolled
<1>9. ASSUME NEW i \in 1 .. Len(ls) PROVE r[i] = Insert(r[i - 1], ls[i])
  <2>1. r[i - 1] \in T /\ ls[i] \in V /\ r[i] = F[<<r[i - 1], ls[i]>>]
    BY <1>8 DEF Run
  <2> QED BY <1>2, <2>1, Zenon
<1>10. r \in [0 .. Len(ls) -> Seq(V)]
  BY <1>8 DEF Run
<1> QED BY <1>5, <1>8, <1>9, <1>10, Zenon DEF Run, LabelsOf

LEMMA FromLabelsType ==
    ASSUME NEW V, NEW ls \in Seq(V)
    PROVE  FromLabels(ls) \in Seq(V)
<1>1. Len(ls) \in 0 .. Len(ls)
  OBVIOUS
<1>2. PICK r : LabelsOf(r, V, ls)
  BY LabelsRun
<1> QED BY <1>1, <1>2 DEF LabelsOf

LEMMA FromLabelsSorts ==
    ASSUME NEW ls \in Seq(LabelCells)
    PROVE  Sorted(FromLabels(ls))
<1>1. Len(ls) \in Nat /\ \A i \in 1 .. Len(ls) : ls[i] \in LabelCells
  OBVIOUS
<1>2. PICK r : LabelsOf(r, LabelCells, ls)
  BY LabelsRun
<1> DEFINE G == {i \in 0 .. Len(ls) : Sorted(r[i])}
<1>3. 0 \in G
  BY <1>1, <1>2 DEF LabelsOf, Sorted
<1>4. ASSUME NEW i \in 1 .. Len(ls), i - 1 \in G PROVE i \in G
  <2>1. i - 1 \in 0 .. Len(ls) /\ i \in 0 .. Len(ls) /\ Sorted(r[i - 1])
    BY <1>1, <1>4
  <2>2. r[i - 1] \in Seq(LabelCells) /\ r[i] = Insert(r[i - 1], ls[i])
    BY <1>2, <2>1 DEF LabelsOf
  <2>3. Sorted(r[i])
    BY <1>1, <2>1, <2>2, InsertSorts
  <2> QED BY <2>1, <2>3
<1> HIDE DEF G
<1>5. Len(ls) \in G
  BY <1>1, <1>3, <1>4, UpTo
<1> QED BY <1>2, <1>5 DEF G, LabelsOf

\* A label set that is sorted is as it was.
LEMMA FromSorted ==
    ASSUME NEW V, NEW ls \in Seq(V), Sorted(ls)
    PROVE  FromLabels(ls) = ls
<1>1. Len(ls) \in Nat /\ DOMAIN ls = 1 .. Len(ls) /\ \A i \in 1 .. Len(ls) : ls[i] \in V
  OBVIOUS
<1>2. PICK r : LabelsOf(r, V, ls)
  BY LabelsRun
<1> DEFINE G == {i \in 0 .. Len(ls) : r[i] = SubSeq(ls, 1, i)}
<1>3. 0 \in G
  <2>1. SubSeq(ls, 1, 0) = <<>>
    OBVIOUS
  <2> QED BY <1>1, <1>2, <2>1 DEF LabelsOf
<1>4. ASSUME NEW i \in 1 .. Len(ls), i - 1 \in G PROVE i \in G
  <2> DEFINE c == SubSeq(ls, 1, i - 1)
  <2>1. i - 1 \in 0 .. Len(ls) /\ i \in 0 .. Len(ls) /\ r[i - 1] = c
    BY <1>1, <1>4
  <2>2. r[i] = Insert(r[i - 1], ls[i])
    BY <1>2 DEF LabelsOf
  <2>3. c \in Seq(V) /\ SubSeq(ls, 1, i) = Append(c, ls[i])
    BY BeginMore
  <2>4. \A j \in DOMAIN c : j \in 1 .. Len(ls) /\ j < i /\ c[j] = ls[j]
    BY <1>1, <2>1, Split
  <2> HIDE DEF c
  <2>5. \A j \in DOMAIN c : Before(c[j].name, ls[i].name)
    BY <1>1, <2>4 DEF Sorted
  <2>6. Insert(c, ls[i]) = Append(c, ls[i])
    BY <1>1, <2>3, <2>5, InsertLast
  <2> QED BY <2>1, <2>2, <2>3, <2>6
<1> HIDE DEF G
<1>5. Len(ls) \in G
  BY <1>1, <1>3, <1>4, UpTo
<1>6. r[Len(ls)] = SubSeq(ls, 1, Len(ls))
  BY <1>5 DEF G
<1>7. SubSeq(ls, 1, Len(ls)) = ls
  BY <1>1
<1> QED BY <1>2, <1>6, <1>7 DEF LabelsOf

-----------------------------------------------------------------------------
(* Reading several of something. *)

\* A reader that begins to read n items.
Seed(r, n) == [r EXCEPT !.got = <<>>, !.reserved = Max({@, n - Len(r.buf)})]

LEMMA SeedIs ==
    ASSUME NEW buf \in Cells, NEW W, NEW r \in Readers(buf, W), NEW V,
           NEW n \in Nat, n <= Len(buf)
    PROVE  Seed(r, n) = [r EXCEPT !.got = <<>>] /\ Seed(r, n) \in Readers(buf, Seq(V))
<1>1. r.buf = buf /\ r.reserved = 0 /\ Len(buf) \in Nat
  BY DEF Readers, Cells
<1> DEFINE k == n - Len(buf)
<1>2. k \in Int /\ k <= 0
  BY <1>1
<1> HIDE DEF k
<1>3. Max({0, k}) = 0
  <2>1. \E x \in {0, k} : \A y \in {0, k} : x >= y
    BY <1>2
  <2>2. Max({0, k}) \in {0, k} /\ \A y \in {0, k} : Max({0, k}) >= y
    BY <2>1, Zenon DEF Max
  <2> QED BY <1>2, <2>2
<1>4. Seed(r, n) = [r EXCEPT !.got = <<>>, !.reserved = 0]
  BY <1>1, <1>3 DEF Seed, k
<1>5. <<>> \in Seq(V)
  OBVIOUS
<1> QED BY <1>1, <1>4, <1>5 DEF Readers

\* t has the readers from r on, for n items, to the last. Items with which they
\* go on are in V.
Reads(t, buf, V, r, n, last) ==
    /\ t \in [0 .. n -> Readers(buf, Seq(V))]
    /\ t[0] = [r EXCEPT !.got = <<>>] /\ t[n] = last

\* What is known of n items that were read.
ItemsRead(r, buf, V) ==
    r \in Readers(buf, Seq(V) \cup {<<0>>}) /\ (r.ok => r.got \in Seq(V))

LEMMA FailRead ==
    ASSUME NEW buf \in Cells, NEW W, NEW r \in Readers(buf, W), NEW V
    PROVE  ItemsRead(Fail(r), buf, V)
BY FailType DEF ItemsRead, Readers

LEMMA LastRead ==
    ASSUME NEW buf \in Cells, NEW V, NEW t, NEW r, NEW n \in Nat, NEW last,
           Reads(t, buf, V, r, n, last)
    PROVE  ItemsRead(last, buf, V)
<1>1. last \in Readers(buf, Seq(V))
  BY DEF Reads
<1> QED BY <1>1 DEF ItemsRead, Readers

LEMMA SampleItemsRun ==
    ASSUME NEW buf \in Cells, NEW W, NEW r \in Readers(buf, W), r.ok,
           NEW n \in Nat, n <= Len(buf)
    PROVE  \E t : /\ Reads(t, buf, Cells, r, n, ReadItems(r, n, ReadSample))
                  /\ \A i \in 1 .. n : t[i] = Step(t[i - 1], ReadSample(t[i - 1]))
<1> DEFINE T == Readers(buf, Seq(Cells))
<1> DEFINE q == [x \in 1 .. n |-> x]
<1> DEFINE base == Seed(r, n)
<1> DEFINE F == [p \in T \X Nat |-> Step(p[1], ReadSample(p[1]))]
<1> DEFINE Next1(g, s) ==
      LET e == ReadSample(g[s \ {Max(s)}])
      IN  [e EXCEPT !.got = Append(g[s \ {Max(s)}].got, e.got)]
<1> DEFINE Eq(g) == g = [s \in SUBSET DOMAIN q |-> IF s = {} THEN base ELSE Next1(g, s)]
<1> DEFINE it == CHOOSE g : Eq(g)
<1>1. F \in [T \X Nat -> T]
  <2>1. \A a \in T : ReadSample(a) \in Readers(buf, Cells)
    BY TakeType DEF ReadSample
  <2> QED BY <2>1, StepType
<1>b. base \in T /\ base = [r EXCEPT !.got = <<>>]
  BY SeedIs
<1>2. \A a \in T, b \in Nat : F[<<a, b>>] = Step(a, ReadSample(a))
  OBVIOUS
<1>q. q \in Seq(Nat) /\ Len(q) = n
  OBVIOUS
<1>5. ReadItems(r, n, ReadSample) = it[DOMAIN q]
  BY Zenon DEF ReadItems, FoldLeft, MapThenFoldSet, Seed
<1> HIDE DEF F, base, q
<1>3. Foldable(T, Nat, base, F, q)
  BY <1>1, <1>b, <1>q, Zenon DEF Foldable
<1>4. Eq(it)
  <2>1. PICK g : Values(g, T, Nat, base, F, q)
    BY <1>3, Iterates
  <2>2. \A s \in SUBSET DOMAIN q : g[s] = IF s = {} THEN base ELSE Next1(g, s)
    <3>1. ASSUME NEW s \in SUBSET DOMAIN q, s # {} PROVE g[s] = Next1(g, s)
      <4>1. /\ g[s \ {Max(s)}] \in T /\ q[Max(s)] \in Nat
            /\ g[s] = F[<<g[s \ {Max(s)}], q[Max(s)]>>]
        BY <2>1, <3>1 DEF Values
      <4>2. g[s] = Step(g[s \ {Max(s)}], ReadSample(g[s \ {Max(s)}]))
        BY <1>2, <4>1, Zenon
      <4> QED BY <4>2, Zenon DEF Step
    <3>2. g[{}] = base
      BY <2>1 DEF Values
    <3> QED BY <3>1, <3>2, Zenon
  <2>3. Eq(g)
    BY <2>1, <2>2, Zenon DEF Values
  <2> QED BY <2>3, Zenon
<1> HIDE DEF it
<1>6. \A s \in SUBSET DOMAIN q : it[s] = IF s = {} THEN base ELSE Next1(it, s)
  BY <1>4, Zenon
<1>7. Iteration(it, T, Nat, base, F, q)
  <2>1. it[{}] = base
    BY <1>6, Zenon
  <2>2. ASSUME NEW s \in SUBSET DOMAIN q, s # {}, it[s \ {Max(s)}] \in T,
               q[Max(s)] \in Nat
        PROVE  it[s] = F[<<it[s \ {Max(s)}], q[Max(s)]>>]
    <3>1. it[s] = Step(it[s \ {Max(s)}], ReadSample(it[s \ {Max(s)}]))
      BY <1>6, <2>2, Zenon DEF Step
    <3> QED BY <1>2, <2>2, <3>1, Zenon
  <2> QED BY <2>1, <2>2, Zenon DEF Iteration
<1>8. PICK t : Run(t, T, Nat, base, F, q) /\ t[Len(q)] = it[DOMAIN q]
  BY <1>3, <1>7, Unrolled
<1>9. ASSUME NEW i \in 1 .. n PROVE t[i] = Step(t[i - 1], ReadSample(t[i - 1]))
  <2>1. t[i - 1] \in T /\ q[i] \in Nat /\ t[i] = F[<<t[i - 1], q[i]>>]
    BY <1>8, <1>q DEF Run
  <2> QED BY <1>2, <2>1, Zenon
<1>10. t \in [0 .. n -> T] /\ t[0] = base
  BY <1>8, <1>q DEF Run
<1>11. t[n] = ReadItems(r, n, ReadSample)
  BY <1>5, <1>8, <1>q
<1>12. Reads(t, buf, Cells, r, n, ReadItems(r, n, ReadSample))
  BY <1>b, <1>10, <1>11, Zenon DEF Reads
<1> QED BY <1>9, <1>12, Zenon

LEMMA SampleItemsType ==
    ASSUME NEW buf \in Cells, NEW W, NEW r \in Readers(buf, W),
           NEW n \in Nat, r.ok => n <= Len(buf)
    PROVE  ItemsRead(ReadItems(r, n, ReadSample), buf, Cells)
<1>1. CASE r.ok
  <2>1. PICK t : Reads(t, buf, Cells, r, n, ReadItems(r, n, ReadSample))
    BY <1>1, SampleItemsRun
  <2> QED BY <2>1, LastRead
<1>2. CASE ~r.ok
  <2>1. ReadItems(r, n, ReadSample) = Fail(r)
    BY <1>2, Zenon DEF ReadItems
  <2> QED BY <2>1, FailRead
<1> QED BY <1>1, <1>2

LEMMA StrType ==
    ASSUME NEW buf \in Cells, NEW V, NEW r \in Readers(buf, V)
    PROVE  ReadStr(r) \in Readers(buf, Cells)
<1> DEFINE len == Take(r, 1)
<1> DEFINE n == len.got[1]
<1> DEFINE str == Take(len, n)
<1>1. len \in Readers(buf, Cells) /\ n \in Nat
  BY TakeType
<1> HIDE DEF n, len
<1>2. str \in Readers(buf, Cells)
  BY <1>1, TakeType
<1>3. ReadStr(r) = str \/ ReadStr(r) = Fail(str)
  BY DEF ReadStr, len, n
<1> HIDE DEF str
<1>4. Fail(str) \in Readers(buf, Cells)
  BY <1>2, FailType, ZeroCell DEF Readers
<1> QED BY <1>2, <1>3, <1>4

LEMMA LabelType ==
    ASSUME NEW buf \in Cells, NEW V, NEW r \in Readers(buf, V)
    PROVE  ReadLabel(r) \in Readers(buf, LabelCells)
<1> DEFINE name == ReadStr(r)
<1> DEFINE value == ReadStr(name)
<1>1. name \in Readers(buf, Cells)
  BY StrType
<1> HIDE DEF name
<1>2. value \in Readers(buf, Cells)
  BY <1>1, StrType
<1>3. ReadLabel(r) = [value EXCEPT !.got = [name |-> name.got, value |-> value.got]]
  BY DEF ReadLabel, name
<1> HIDE DEF value
<1>4. [name |-> name.got, value |-> value.got] \in LabelCells
  BY <1>1, <1>2 DEF Readers, LabelCells
<1> QED BY <1>2, <1>3, <1>4 DEF Readers

\* A count that fits is not larger than the buffer.
LEMMA FitsWithin ==
    ASSUME NEW buf \in Cells, NEW V, NEW r \in Readers(buf, V), NEW n \in Nat,
           NEW k \in {2, 3, 4}, Fits(r, n, k)
    PROVE  n <= Len(buf)
<1> DEFINE left == Len(buf) - r.pos
<1>1. Len(buf) \in Nat /\ r.pos \in Nat /\ left \in Nat /\ left <= Len(buf)
  BY DEF Readers, Cells
<1>2. n <= left \div k
  BY DEF Fits, Remaining, Readers
<1> HIDE DEF left
<1>3. left \div k <= left
  BY <1>1
<1>4. left \div k \in Int
  BY <1>1
<1> QED BY <1>1, <1>2, <1>3, <1>4

LEMMA LabelItemsRun ==
    ASSUME NEW buf \in Cells, NEW W, NEW r \in Readers(buf, W), r.ok,
           NEW n \in Nat, n <= Len(buf)
    PROVE  \E t : /\ Reads(t, buf, LabelCells, r, n, ReadItems(r, n, ReadLabel))
                  /\ \A i \in 1 .. n : t[i] = Step(t[i - 1], ReadLabel(t[i - 1]))
<1> DEFINE T == Readers(buf, Seq(LabelCells))
<1> DEFINE q == [x \in 1 .. n |-> x]
<1> DEFINE base == Seed(r, n)
<1> DEFINE F == [p \in T \X Nat |-> Step(p[1], ReadLabel(p[1]))]
<1> DEFINE Next1(g, s) ==
      LET e == ReadLabel(g[s \ {Max(s)}])
      IN  [e EXCEPT !.got = Append(g[s \ {Max(s)}].got, e.got)]
<1> DEFINE Eq(g) == g = [s \in SUBSET DOMAIN q |-> IF s = {} THEN base ELSE Next1(g, s)]
<1> DEFINE it == CHOOSE g : Eq(g)
<1>1. F \in [T \X Nat -> T]
  <2>1. \A a \in T : ReadLabel(a) \in Readers(buf, LabelCells)
    BY LabelType
  <2> QED BY <2>1, StepType
<1>b. base \in T /\ base = [r EXCEPT !.got = <<>>]
  BY SeedIs
<1>2. \A a \in T, b \in Nat : F[<<a, b>>] = Step(a, ReadLabel(a))
  OBVIOUS
<1>q. q \in Seq(Nat) /\ Len(q) = n
  OBVIOUS
<1>5. ReadItems(r, n, ReadLabel) = it[DOMAIN q]
  BY Zenon DEF ReadItems, FoldLeft, MapThenFoldSet, Seed
<1> HIDE DEF F, base, q
<1>3. Foldable(T, Nat, base, F, q)
  BY <1>1, <1>b, <1>q, Zenon DEF Foldable
<1>4. Eq(it)
  <2>1. PICK g : Values(g, T, Nat, base, F, q)
    BY <1>3, Iterates
  <2>2. \A s \in SUBSET DOMAIN q : g[s] = IF s = {} THEN base ELSE Next1(g, s)
    <3>1. ASSUME NEW s \in SUBSET DOMAIN q, s # {} PROVE g[s] = Next1(g, s)
      <4>1. /\ g[s \ {Max(s)}] \in T /\ q[Max(s)] \in Nat
            /\ g[s] = F[<<g[s \ {Max(s)}], q[Max(s)]>>]
        BY <2>1, <3>1 DEF Values
      <4>2. g[s] = Step(g[s \ {Max(s)}], ReadLabel(g[s \ {Max(s)}]))
        BY <1>2, <4>1, Zenon
      <4> QED BY <4>2, Zenon DEF Step
    <3>2. g[{}] = base
      BY <2>1 DEF Values
    <3> QED BY <3>1, <3>2, Zenon
  <2>3. Eq(g)
    BY <2>1, <2>2, Zenon DEF Values
  <2> QED BY <2>3, Zenon
<1> HIDE DEF it
<1>6. \A s \in SUBSET DOMAIN q : it[s] = IF s = {} THEN base ELSE Next1(it, s)
  BY <1>4, Zenon
<1>7. Iteration(it, T, Nat, base, F, q)
  <2>1. it[{}] = base
    BY <1>6, Zenon
  <2>2. ASSUME NEW s \in SUBSET DOMAIN q, s # {}, it[s \ {Max(s)}] \in T,
               q[Max(s)] \in Nat
        PROVE  it[s] = F[<<it[s \ {Max(s)}], q[Max(s)]>>]
    <3>1. it[s] = Step(it[s \ {Max(s)}], ReadLabel(it[s \ {Max(s)}]))
      BY <1>6, <2>2, Zenon DEF Step
    <3> QED BY <1>2, <2>2, <3>1, Zenon
  <2> QED BY <2>1, <2>2, Zenon DEF Iteration
<1>8. PICK t : Run(t, T, Nat, base, F, q) /\ t[Len(q)] = it[DOMAIN q]
  BY <1>3, <1>7, Unrolled
<1>9. ASSUME NEW i \in 1 .. n PROVE t[i] = Step(t[i - 1], ReadLabel(t[i - 1]))
  <2>1. t[i - 1] \in T /\ q[i] \in Nat /\ t[i] = F[<<t[i - 1], q[i]>>]
    BY <1>8, <1>q DEF Run
  <2> QED BY <1>2, <2>1, Zenon
<1>10. t \in [0 .. n -> T] /\ t[0] = base
  BY <1>8, <1>q DEF Run
<1>11. t[n] = ReadItems(r, n, ReadLabel)
  BY <1>5, <1>8, <1>q
<1>12. Reads(t, buf, LabelCells, r, n, ReadItems(r, n, ReadLabel))
  BY <1>b, <1>10, <1>11, Zenon DEF Reads
<1> QED BY <1>9, <1>12, Zenon

LEMMA LabelItemsType ==
    ASSUME NEW buf \in Cells, NEW W, NEW r \in Readers(buf, W),
           NEW n \in Nat, r.ok => n <= Len(buf)
    PROVE  ItemsRead(ReadItems(r, n, ReadLabel), buf, LabelCells)
<1>1. CASE r.ok
  <2>1. PICK t : Reads(t, buf, LabelCells, r, n, ReadItems(r, n, ReadLabel))
    BY <1>1, LabelItemsRun
  <2> QED BY <2>1, LastRead
<1>2. CASE ~r.ok
  <2>1. ReadItems(r, n, ReadLabel) = Fail(r)
    BY <1>2, Zenon DEF ReadItems
  <2> QED BY <2>1, FailRead
<1> QED BY <1>1, <1>2

LEMMA CountedSamples ==
    ASSUME NEW buf \in Cells, NEW W, NEW r \in Readers(buf, W), NEW n \in Nat
    PROVE  ItemsRead(Counted(r, n, 4, ReadSample), buf, Cells)
<1>1. CASE Fits(r, n, 4)
  <2>1. n <= Len(buf)
    BY <1>1, FitsWithin
  <2>2. Counted(r, n, 4, ReadSample) = ReadItems(r, n, ReadSample)
    BY <1>1, Zenon DEF Counted
  <2> QED BY <2>1, <2>2, SampleItemsType
<1>2. CASE ~Fits(r, n, 4)
  <2>1. Counted(r, n, 4, ReadSample) = Fail(r)
    BY <1>2, Zenon DEF Counted
  <2> QED BY <2>1, FailRead
<1> QED BY <1>1, <1>2

LEMMA CountedLabels ==
    ASSUME NEW buf \in Cells, NEW W, NEW r \in Readers(buf, W), NEW n \in Nat
    PROVE  ItemsRead(Counted(r, n, 2, ReadLabel), buf, LabelCells)
<1>1. CASE Fits(r, n, 2)
  <2>1. n <= Len(buf)
    BY <1>1, FitsWithin
  <2>2. Counted(r, n, 2, ReadLabel) = ReadItems(r, n, ReadLabel)
    BY <1>1, Zenon DEF Counted
  <2> QED BY <2>1, <2>2, LabelItemsType
<1>2. CASE ~Fits(r, n, 2)
  <2>1. Counted(r, n, 2, ReadLabel) = Fail(r)
    BY <1>2, Zenon DEF Counted
  <2> QED BY <2>1, FailRead
<1> QED BY <1>1, <1>2

LEMMA DecodeLabelsType ==
    ASSUME NEW buf \in Cells, NEW V, NEW r \in Readers(buf, V)
    PROVE  DecodeLabels(r) \in Readers(buf, Seq(LabelCells) \cup {<<0>>})
<1> DEFINE n == Take(r, 1)
<1> DEFINE ls == Counted(n, n.got[1], 2, ReadLabel)
<1>1. n \in Readers(buf, Cells) /\ n.got[1] \in Nat
  BY TakeType
<1>2. DecodeLabels(r) = IF ls.ok THEN [ls EXCEPT !.got = FromLabels(ls.got)] ELSE ls
  BY Zenon DEF DecodeLabels
<1> HIDE DEF n
<1>3. ItemsRead(ls, buf, LabelCells)
  BY <1>1, CountedLabels
<1> HIDE DEF ls
<1>4. ls.ok => FromLabels(ls.got) \in Seq(LabelCells)
  BY <1>3, FromLabelsType DEF ItemsRead
<1> QED BY <1>2, <1>3, <1>4 DEF ItemsRead, Readers

SeriesCells == [id : Cells, labels : Seq(LabelCells) \cup {<<0>>}]
SamplesCells == [id : Cells, samples : Seq(Cells) \cup {<<0>>}]

LEMMA SeriesType ==
    ASSUME NEW buf \in Cells, NEW V, NEW r \in Readers(buf, V)
    PROVE  ReadSeries(r) \in Readers(buf, SeriesCells)
<1> DEFINE id == Take(r, 2)
<1> DEFINE ls == DecodeLabels(id)
<1>1. id \in Readers(buf, Cells)
  BY TakeType
<1>2. ReadSeries(r) = [ls EXCEPT !.got = [id |-> id.got, labels |-> ls.got]]
  BY DEF ReadSeries
<1> HIDE DEF id
<1>3. ls \in Readers(buf, Seq(LabelCells) \cup {<<0>>})
  BY <1>1, DecodeLabelsType
<1> HIDE DEF ls
<1>4. [id |-> id.got, labels |-> ls.got] \in SeriesCells
  BY <1>1, <1>3 DEF Readers, SeriesCells
<1> QED BY <1>2, <1>3, <1>4 DEF Readers

LEMMA SamplesType ==
    ASSUME NEW buf \in Cells, NEW V, NEW r \in Readers(buf, V)
    PROVE  ReadSamples(r) \in Readers(buf, SamplesCells)
<1> DEFINE id == Take(r, 2)
<1> DEFINE n == Take(id, 1)
<1> DEFINE s == Counted(n, n.got[1], 4, ReadSample)
<1>1. id \in Readers(buf, Cells)
  BY TakeType
<1>2. ReadSamples(r) = [s EXCEPT !.got = [id |-> id.got, samples |-> s.got]]
  BY Zenon DEF ReadSamples
<1> HIDE DEF id
<1>3. n \in Readers(buf, Cells) /\ n.got[1] \in Nat
  BY <1>1, TakeType
<1> HIDE DEF n
<1>4. ItemsRead(s, buf, Cells)
  BY <1>3, CountedSamples
<1> HIDE DEF s
<1>5. [id |-> id.got, samples |-> s.got] \in SamplesCells
  BY <1>1, <1>4 DEF ItemsRead, Readers, SamplesCells
<1> QED BY <1>2, <1>4, <1>5 DEF ItemsRead, Readers

LEMMA SeriesItemsRun ==
    ASSUME NEW buf \in Cells, NEW W, NEW r \in Readers(buf, W), r.ok,
           NEW n \in Nat, n <= Len(buf)
    PROVE  \E t : /\ Reads(t, buf, SeriesCells, r, n, ReadItems(r, n, ReadSeries))
                  /\ \A i \in 1 .. n : t[i] = Step(t[i - 1], ReadSeries(t[i - 1]))
<1> DEFINE T == Readers(buf, Seq(SeriesCells))
<1> DEFINE q == [x \in 1 .. n |-> x]
<1> DEFINE base == Seed(r, n)
<1> DEFINE F == [p \in T \X Nat |-> Step(p[1], ReadSeries(p[1]))]
<1> DEFINE Next1(g, s) ==
      LET e == ReadSeries(g[s \ {Max(s)}])
      IN  [e EXCEPT !.got = Append(g[s \ {Max(s)}].got, e.got)]
<1> DEFINE Eq(g) == g = [s \in SUBSET DOMAIN q |-> IF s = {} THEN base ELSE Next1(g, s)]
<1> DEFINE it == CHOOSE g : Eq(g)
<1>1. F \in [T \X Nat -> T]
  <2>1. \A a \in T : ReadSeries(a) \in Readers(buf, SeriesCells)
    BY SeriesType
  <2> QED BY <2>1, StepType
<1>b. base \in T /\ base = [r EXCEPT !.got = <<>>]
  BY SeedIs
<1>2. \A a \in T, b \in Nat : F[<<a, b>>] = Step(a, ReadSeries(a))
  OBVIOUS
<1>q. q \in Seq(Nat) /\ Len(q) = n
  OBVIOUS
<1>5. ReadItems(r, n, ReadSeries) = it[DOMAIN q]
  BY Zenon DEF ReadItems, FoldLeft, MapThenFoldSet, Seed
<1> HIDE DEF F, base, q
<1>3. Foldable(T, Nat, base, F, q)
  BY <1>1, <1>b, <1>q, Zenon DEF Foldable
<1>4. Eq(it)
  <2>1. PICK g : Values(g, T, Nat, base, F, q)
    BY <1>3, Iterates
  <2>2. \A s \in SUBSET DOMAIN q : g[s] = IF s = {} THEN base ELSE Next1(g, s)
    <3>1. ASSUME NEW s \in SUBSET DOMAIN q, s # {} PROVE g[s] = Next1(g, s)
      <4>1. /\ g[s \ {Max(s)}] \in T /\ q[Max(s)] \in Nat
            /\ g[s] = F[<<g[s \ {Max(s)}], q[Max(s)]>>]
        BY <2>1, <3>1 DEF Values
      <4>2. g[s] = Step(g[s \ {Max(s)}], ReadSeries(g[s \ {Max(s)}]))
        BY <1>2, <4>1, Zenon
      <4> QED BY <4>2, Zenon DEF Step
    <3>2. g[{}] = base
      BY <2>1 DEF Values
    <3> QED BY <3>1, <3>2, Zenon
  <2>3. Eq(g)
    BY <2>1, <2>2, Zenon DEF Values
  <2> QED BY <2>3, Zenon
<1> HIDE DEF it
<1>6. \A s \in SUBSET DOMAIN q : it[s] = IF s = {} THEN base ELSE Next1(it, s)
  BY <1>4, Zenon
<1>7. Iteration(it, T, Nat, base, F, q)
  <2>1. it[{}] = base
    BY <1>6, Zenon
  <2>2. ASSUME NEW s \in SUBSET DOMAIN q, s # {}, it[s \ {Max(s)}] \in T,
               q[Max(s)] \in Nat
        PROVE  it[s] = F[<<it[s \ {Max(s)}], q[Max(s)]>>]
    <3>1. it[s] = Step(it[s \ {Max(s)}], ReadSeries(it[s \ {Max(s)}]))
      BY <1>6, <2>2, Zenon DEF Step
    <3> QED BY <1>2, <2>2, <3>1, Zenon
  <2> QED BY <2>1, <2>2, Zenon DEF Iteration
<1>8. PICK t : Run(t, T, Nat, base, F, q) /\ t[Len(q)] = it[DOMAIN q]
  BY <1>3, <1>7, Unrolled
<1>9. ASSUME NEW i \in 1 .. n PROVE t[i] = Step(t[i - 1], ReadSeries(t[i - 1]))
  <2>1. t[i - 1] \in T /\ q[i] \in Nat /\ t[i] = F[<<t[i - 1], q[i]>>]
    BY <1>8, <1>q DEF Run
  <2> QED BY <1>2, <2>1, Zenon
<1>10. t \in [0 .. n -> T] /\ t[0] = base
  BY <1>8, <1>q DEF Run
<1>11. t[n] = ReadItems(r, n, ReadSeries)
  BY <1>5, <1>8, <1>q
<1>12. Reads(t, buf, SeriesCells, r, n, ReadItems(r, n, ReadSeries))
  BY <1>b, <1>10, <1>11, Zenon DEF Reads
<1> QED BY <1>9, <1>12, Zenon

LEMMA SeriesItemsType ==
    ASSUME NEW buf \in Cells, NEW W, NEW r \in Readers(buf, W),
           NEW n \in Nat, r.ok => n <= Len(buf)
    PROVE  ItemsRead(ReadItems(r, n, ReadSeries), buf, SeriesCells)
<1>1. CASE r.ok
  <2>1. PICK t : Reads(t, buf, SeriesCells, r, n, ReadItems(r, n, ReadSeries))
    BY <1>1, SeriesItemsRun
  <2> QED BY <2>1, LastRead
<1>2. CASE ~r.ok
  <2>1. ReadItems(r, n, ReadSeries) = Fail(r)
    BY <1>2, Zenon DEF ReadItems
  <2> QED BY <2>1, FailRead
<1> QED BY <1>1, <1>2

LEMMA SamplesItemsRun ==
    ASSUME NEW buf \in Cells, NEW W, NEW r \in Readers(buf, W), r.ok,
           NEW n \in Nat, n <= Len(buf)
    PROVE  \E t : /\ Reads(t, buf, SamplesCells, r, n, ReadItems(r, n, ReadSamples))
                  /\ \A i \in 1 .. n : t[i] = Step(t[i - 1], ReadSamples(t[i - 1]))
<1> DEFINE T == Readers(buf, Seq(SamplesCells))
<1> DEFINE q == [x \in 1 .. n |-> x]
<1> DEFINE base == Seed(r, n)
<1> DEFINE F == [p \in T \X Nat |-> Step(p[1], ReadSamples(p[1]))]
<1> DEFINE Next1(g, s) ==
      LET e == ReadSamples(g[s \ {Max(s)}])
      IN  [e EXCEPT !.got = Append(g[s \ {Max(s)}].got, e.got)]
<1> DEFINE Eq(g) == g = [s \in SUBSET DOMAIN q |-> IF s = {} THEN base ELSE Next1(g, s)]
<1> DEFINE it == CHOOSE g : Eq(g)
<1>1. F \in [T \X Nat -> T]
  <2>1. \A a \in T : ReadSamples(a) \in Readers(buf, SamplesCells)
    BY SamplesType
  <2> QED BY <2>1, StepType
<1>b. base \in T /\ base = [r EXCEPT !.got = <<>>]
  BY SeedIs
<1>2. \A a \in T, b \in Nat : F[<<a, b>>] = Step(a, ReadSamples(a))
  OBVIOUS
<1>q. q \in Seq(Nat) /\ Len(q) = n
  OBVIOUS
<1>5. ReadItems(r, n, ReadSamples) = it[DOMAIN q]
  BY Zenon DEF ReadItems, FoldLeft, MapThenFoldSet, Seed
<1> HIDE DEF F, base, q
<1>3. Foldable(T, Nat, base, F, q)
  BY <1>1, <1>b, <1>q, Zenon DEF Foldable
<1>4. Eq(it)
  <2>1. PICK g : Values(g, T, Nat, base, F, q)
    BY <1>3, Iterates
  <2>2. \A s \in SUBSET DOMAIN q : g[s] = IF s = {} THEN base ELSE Next1(g, s)
    <3>1. ASSUME NEW s \in SUBSET DOMAIN q, s # {} PROVE g[s] = Next1(g, s)
      <4>1. /\ g[s \ {Max(s)}] \in T /\ q[Max(s)] \in Nat
            /\ g[s] = F[<<g[s \ {Max(s)}], q[Max(s)]>>]
        BY <2>1, <3>1 DEF Values
      <4>2. g[s] = Step(g[s \ {Max(s)}], ReadSamples(g[s \ {Max(s)}]))
        BY <1>2, <4>1, Zenon
      <4> QED BY <4>2, Zenon DEF Step
    <3>2. g[{}] = base
      BY <2>1 DEF Values
    <3> QED BY <3>1, <3>2, Zenon
  <2>3. Eq(g)
    BY <2>1, <2>2, Zenon DEF Values
  <2> QED BY <2>3, Zenon
<1> HIDE DEF it
<1>6. \A s \in SUBSET DOMAIN q : it[s] = IF s = {} THEN base ELSE Next1(it, s)
  BY <1>4, Zenon
<1>7. Iteration(it, T, Nat, base, F, q)
  <2>1. it[{}] = base
    BY <1>6, Zenon
  <2>2. ASSUME NEW s \in SUBSET DOMAIN q, s # {}, it[s \ {Max(s)}] \in T,
               q[Max(s)] \in Nat
        PROVE  it[s] = F[<<it[s \ {Max(s)}], q[Max(s)]>>]
    <3>1. it[s] = Step(it[s \ {Max(s)}], ReadSamples(it[s \ {Max(s)}]))
      BY <1>6, <2>2, Zenon DEF Step
    <3> QED BY <1>2, <2>2, <3>1, Zenon
  <2> QED BY <2>1, <2>2, Zenon DEF Iteration
<1>8. PICK t : Run(t, T, Nat, base, F, q) /\ t[Len(q)] = it[DOMAIN q]
  BY <1>3, <1>7, Unrolled
<1>9. ASSUME NEW i \in 1 .. n PROVE t[i] = Step(t[i - 1], ReadSamples(t[i - 1]))
  <2>1. t[i - 1] \in T /\ q[i] \in Nat /\ t[i] = F[<<t[i - 1], q[i]>>]
    BY <1>8, <1>q DEF Run
  <2> QED BY <1>2, <2>1, Zenon
<1>10. t \in [0 .. n -> T] /\ t[0] = base
  BY <1>8, <1>q DEF Run
<1>11. t[n] = ReadItems(r, n, ReadSamples)
  BY <1>5, <1>8, <1>q
<1>12. Reads(t, buf, SamplesCells, r, n, ReadItems(r, n, ReadSamples))
  BY <1>b, <1>10, <1>11, Zenon DEF Reads
<1> QED BY <1>9, <1>12, Zenon

LEMMA SamplesItemsType ==
    ASSUME NEW buf \in Cells, NEW W, NEW r \in Readers(buf, W),
           NEW n \in Nat, r.ok => n <= Len(buf)
    PROVE  ItemsRead(ReadItems(r, n, ReadSamples), buf, SamplesCells)
<1>1. CASE r.ok
  <2>1. PICK t : Reads(t, buf, SamplesCells, r, n, ReadItems(r, n, ReadSamples))
    BY <1>1, SamplesItemsRun
  <2> QED BY <2>1, LastRead
<1>2. CASE ~r.ok
  <2>1. ReadItems(r, n, ReadSamples) = Fail(r)
    BY <1>2, Zenon DEF ReadItems
  <2> QED BY <2>1, FailRead
<1> QED BY <1>1, <1>2

LEMMA ReaderIs ==
    ASSUME NEW buf \in Cells
    PROVE  Reader(buf) = Good(buf, 0, <<0>>) /\ Reader(buf) \in Readers(buf, Cells)
<1>1. 0 \in 0 .. Len(buf)
  BY DEF Cells
<1>2. Reader(buf) = Good(buf, 0, <<0>>)
  BY DEF Reader, Good
<1> QED BY <1>1, <1>2, GoodIs, ZeroCell

\* Whatever is decoded: the capacities that are asked for are within the payload.
LEMMA DecodeReserves ==
    ASSUME NEW payload \in Cells
    PROVE  LET d == Decode(payload) IN d.reserved = 0 /\ d.ok \in BOOLEAN
<1> DEFINE counts == Take(Reader(payload), 2)
<1> DEFINE c1 == counts.got[1]
<1> DEFINE c2 == counts.got[2]
<1> DEFINE series == ReadItems(counts, c1, ReadSeries)
<1> DEFINE samples == ReadItems(series, c2, ReadSamples)
<1> DEFINE rec == [series |-> series.got, samples |-> samples.got]
<1>1. counts \in Readers(payload, Cells) /\ (counts.ok => Len(counts.got) = 2)
  BY ReaderIs, TakeType
<1>2. Decode(payload) =
        IF counts.ok /\ Fits(counts, c1 + c2, 3)
        THEN [samples EXCEPT !.ok = @ /\ Remaining(samples) = 0, !.got = rec]
        ELSE Fail(counts)
  BY Zenon DEF Decode
<1> HIDE DEF counts
<1>3. CASE counts.ok /\ Fits(counts, c1 + c2, 3)
  <2>1. c1 \in Nat /\ c2 \in Nat
    <3>1. counts.got \in Seq(Nat) /\ Len(counts.got) = 2
      BY <1>1, <1>3 DEF Readers, Cells
    <3> QED BY <3>1, ElementIs
  <2> HIDE DEF c1, c2
  <2>2. c1 + c2 <= Len(payload) /\ Len(payload) \in Nat
    BY <1>1, <1>3, <2>1, FitsWithin DEF Cells
  <2>3. c1 <= Len(payload) /\ c2 <= Len(payload)
    BY <2>1, <2>2
  <2>4. ItemsRead(series, payload, SeriesCells)
    BY <1>1, <2>1, <2>3, SeriesItemsType
  <2> HIDE DEF series
  <2>5. series \in Readers(payload, Seq(SeriesCells) \cup {<<0>>})
    BY <2>4 DEF ItemsRead
  <2>6. ItemsRead(samples, payload, SamplesCells)
    BY <2>1, <2>3, <2>5, SamplesItemsType
  <2> HIDE DEF samples
  <2>7. samples.reserved = 0
    BY <2>6 DEF ItemsRead, Readers
  <2>8. Decode(payload) = [samples EXCEPT !.ok = @ /\ Remaining(samples) = 0, !.got = rec]
    BY <1>2, <1>3, Zenon DEF c1, c2, series, samples
  <2>9. samples \in Readers(payload, Seq(SamplesCells) \cup {<<0>>})
    BY <2>6 DEF ItemsRead
  <2> HIDE DEF rec
  <2> QED BY <2>7, <2>8, <2>9 DEF Readers
<1>4. CASE ~(counts.ok /\ Fits(counts, c1 + c2, 3))
  <2>1. Decode(payload) = Fail(counts)
    BY <1>2, <1>4, Zenon
  <2> QED BY <1>1, <2>1, FailType DEF Readers
<1> QED BY <1>3, <1>4

-----------------------------------------------------------------------------
(* What is encoded. *)

LabelText == [name : Text, value : Text]
SeriesEntry == [id : Pair, labels : Labels]
SamplesEntry == [id : Pair, samples : Seq([1 .. 4 -> Nat])]

LEMMA FunctionLen ==
    ASSUME NEW S, NEW n \in Nat, NEW f \in [1 .. n -> S]
    PROVE  f \in Seq(S) /\ Len(f) = n
OBVIOUS

LEMMA TextIsCells == ASSUME NEW s \in Text PROVE s \in Cells
BY DEF Text, Cells

LEMMA OneCell == ASSUME NEW n \in Nat PROVE <<n>> \in Cells /\ Len(<<n>>) = 1
BY DEF Cells

LEMMA JoinCells ==
    ASSUME NEW a \in Cells, NEW b \in Cells
    PROVE  a \o b \in Cells /\ Len(a \o b) = Len(a) + Len(b) /\ Len(a) \in Nat /\ Len(b) \in Nat
BY JoinIs DEF Cells

LEMMA PutBytesType ==
    ASSUME NEW s \in Cells
    PROVE  PutBytes(s) \in Cells /\ Len(PutBytes(s)) = 1 + Len(s) /\ Len(s) \in Nat
<1>1. Len(s) \in Nat
  BY DEF Cells
<1> QED BY <1>1, OneCell, JoinCells DEF PutBytes

LEMMA EncodeLabelType ==
    ASSUME NEW l \in LabelText
    PROVE  EncodeLabel(l) \in Cells /\ Len(EncodeLabel(l)) >= 2
<1>1. l.name \in Cells /\ l.value \in Cells
  BY TextIsCells DEF LabelText
<1> DEFINE a == PutBytes(l.name)
<1> DEFINE b == PutBytes(l.value)
<1>2. a \in Cells /\ Len(a) = 1 + Len(l.name) /\ Len(l.name) \in Nat
  BY <1>1, PutBytesType
<1>3. b \in Cells /\ Len(b) = 1 + Len(l.value) /\ Len(l.value) \in Nat
  BY <1>1, PutBytesType
<1>4. EncodeLabel(l) = a \o b
  BY DEF EncodeLabel
<1> HIDE DEF a, b
<1>5. a \o b \in Cells /\ Len(a \o b) = Len(a) + Len(b)
  BY <1>2, <1>3, JoinCells
<1>6. Len(a) \in Nat /\ Len(a) >= 1 /\ Len(b) \in Nat /\ Len(b) >= 1
  BY <1>2, <1>3
<1>7. Len(a \o b) >= 2
  <2> HIDE <1>2, <1>3
  <2> QED BY <1>5, <1>6
<1> QED BY <1>4, <1>5, <1>7

\* Entries that are encoded one after the other.
LEMMA LabelParts ==
    ASSUME NEW ls \in Labels
    PROVE  LET qs == [n \in 1 .. Len(ls) |-> EncodeLabel(ls[n])] IN
           /\ qs \in Seq(Cells) /\ Len(qs) = Len(ls) /\ FlattenSeq(qs) \in Cells
           /\ \A i \in 1 .. Len(ls) : qs[i] = EncodeLabel(ls[i]) /\ Len(qs[i]) >= 2
<1> DEFINE qs == [n \in 1 .. Len(ls) |-> EncodeLabel(ls[n])]
<1>0. ls \in Seq(LabelText)
  BY Zenon DEF Labels, LabelText
<1>1. Len(ls) \in Nat /\ \A i \in 1 .. Len(ls) : ls[i] \in LabelText
  BY <1>0
<1>2. \A i \in 1 .. Len(ls) : EncodeLabel(ls[i]) \in Cells /\ Len(EncodeLabel(ls[i])) >= 2
  BY <1>1, EncodeLabelType
<1>3. qs \in [1 .. Len(ls) -> Cells]
  BY <1>2
<1>4. qs \in Seq(Cells) /\ Len(qs) = Len(ls)
  BY <1>1, <1>3
<1>5. \A i \in 1 .. Len(ls) : qs[i] = EncodeLabel(ls[i])
  OBVIOUS
<1> HIDE DEF qs
<1>6. FlattenSeq(qs) \in Cells
  BY <1>4, FlattenType DEF Cells
<1>7. \A i \in 1 .. Len(ls) : qs[i] = EncodeLabel(ls[i]) /\ Len(qs[i]) >= 2
  BY <1>2, <1>5
<1> QED BY <1>4, <1>6, <1>7, Zenon DEF qs

LEMMA EncodeLabelsType ==
    ASSUME NEW ls \in Labels
    PROVE  EncodeLabels(ls) \in Cells /\ Len(EncodeLabels(ls)) >= 1
<1> DEFINE flat == FlattenSeq([n \in 1 .. Len(ls) |-> EncodeLabel(ls[n])])
<1>0. ls \in Seq(LabelText)
  BY Zenon DEF Labels, LabelText
<1>5. flat \in Cells
  BY LabelParts, Zenon
<1>1. flat \in Cells /\ Len(ls) \in Nat
  BY <1>0, <1>5
<1>2. EncodeLabels(ls) = <<Len(ls)>> \o flat
  BY DEF EncodeLabels
<1> HIDE DEF flat
<1>3. <<Len(ls)>> \in Cells /\ Len(<<Len(ls)>>) = 1
  BY <1>1, OneCell
<1>4. Len(flat) \in Nat
  BY <1>1 DEF Cells
<1> QED BY <1>1, <1>2, <1>3, <1>4, JoinCells

LEMMA PairIsCells == ASSUME NEW p \in Pair PROVE p \in Cells /\ Len(p) = 2
BY FunctionLen DEF Pair, Cells

LEMMA EncodeSeriesType ==
    ASSUME NEW e \in SeriesEntry
    PROVE  EncodeSeries(e) \in Cells /\ Len(EncodeSeries(e)) >= 3
<1>1. e.id \in Cells /\ Len(e.id) = 2 /\ e.labels \in Labels
  BY PairIsCells DEF SeriesEntry
<1> DEFINE b == EncodeLabels(e.labels)
<1>2. b \in Cells /\ Len(b) >= 1
  BY <1>1, EncodeLabelsType
<1>3. EncodeSeries(e) = e.id \o b
  BY DEF EncodeSeries
<1> HIDE DEF b
<1> DEFINE a == e.id
<1>4. a \in Cells /\ Len(a) = 2
  BY <1>1
<1> HIDE DEF a
<1>5. a \o b \in Cells /\ Len(a \o b) = Len(a) + Len(b)
  BY <1>2, <1>4, JoinCells
<1>6. Len(b) \in Nat
  BY <1>2 DEF Cells
<1>7. Len(a \o b) >= 3
  BY <1>2, <1>4, <1>5, <1>6
<1> QED BY <1>3, <1>5, <1>7 DEF a

LEMMA SampleParts ==
    ASSUME NEW ss \in Seq([1 .. 4 -> Nat])
    PROVE  /\ ss \in Seq(Cells) /\ FlattenSeq(ss) \in Cells /\ Len(ss) \in Nat
           /\ \A i \in 1 .. Len(ss) : Len(ss[i]) = 4
<1>1. \A s \in [1 .. 4 -> Nat] : s \in Cells /\ Len(s) = 4
  BY FunctionLen DEF Cells
<1>2. Len(ss) \in Nat /\ \A i \in 1 .. Len(ss) : ss[i] \in [1 .. 4 -> Nat]
  OBVIOUS
<1>3. \A i \in 1 .. Len(ss) : ss[i] \in Cells /\ Len(ss[i]) = 4
  BY <1>1, <1>2
<1>4. ss \in Seq(Cells)
  <2> DEFINE A == [1 .. 4 -> Nat]
  <2>1. ss \in Seq(A)
    OBVIOUS
  <2>2. \A i \in 1 .. Len(ss) : ss[i] \in Cells
    BY <1>3
  <2> HIDE DEF A
  <2>3. Len(ss) \in Nat /\ ss \in [1 .. Len(ss) -> A]
    BY <2>1
  <2>4. ss \in [1 .. Len(ss) -> Cells]
    BY <2>2, <2>3
  <2> QED BY <2>3, <2>4, FunctionLen
<1>5. ss \in Seq(Seq(Nat))
  BY <1>4, Zenon DEF Cells
<1>6. FlattenSeq(ss) \in Cells
  BY <1>5, FlattenType, Zenon DEF Cells
<1> QED BY <1>2, <1>3, <1>4, <1>6

LEMMA EncodeSamplesType ==
    ASSUME NEW e \in SamplesEntry
    PROVE  EncodeSamples(e) \in Cells /\ Len(EncodeSamples(e)) >= 3
<1>1. e.id \in Cells /\ Len(e.id) = 2 /\ e.samples \in Seq([1 .. 4 -> Nat])
  BY PairIsCells DEF SamplesEntry
<1> DEFINE n == <<Len(e.samples)>>
<1> DEFINE b == FlattenSeq(e.samples)
<1> DEFINE a == e.id \o n
<1>2. b \in Cells /\ Len(b) \in Nat /\ Len(e.samples) \in Nat
  BY <1>1, SampleParts DEF Cells
<1>3. n \in Cells /\ Len(n) = 1
  BY <1>2, OneCell
<1>4. EncodeSamples(e) = a \o b
  BY DEF EncodeSamples
<1> HIDE DEF b, n
<1> DEFINE i == e.id
<1>6. i \in Cells /\ Len(i) = 2
  BY <1>1
<1>7. a = i \o n
  OBVIOUS
<1> HIDE DEF a, i
<1>5. a \in Cells /\ Len(a) = Len(i) + Len(n)
  BY <1>3, <1>6, <1>7, JoinCells
<1>8. Len(a) = 3
  BY <1>3, <1>5, <1>6
<1>9. a \o b \in Cells /\ Len(a \o b) = Len(a) + Len(b)
  BY <1>2, <1>5, JoinCells
<1>10. Len(a \o b) >= 3
  BY <1>2, <1>8, <1>9
<1> QED BY <1>4, <1>9, <1>10

\* What WithSamples keeps is of the same kind.
LEMMA WithSamplesType ==
    ASSUME NEW V, NEW es \in Seq(V)
    PROVE  WithSamples(es) \in Seq(V)
<1> DEFINE T == Seq(V)
<1> DEFINE F == [p \in T \X V |->
                   IF p[2].samples = <<>> THEN p[1] ELSE Append(p[1], p[2])]
<1> DEFINE Next1(g, s) ==
      IF es[Max(s)].samples = <<>> THEN g[s \ {Max(s)}]
      ELSE Append(g[s \ {Max(s)}], es[Max(s)])
<1> DEFINE Eq(g) == g = [s \in SUBSET DOMAIN es |-> IF s = {} THEN <<>> ELSE Next1(g, s)]
<1> DEFINE it == CHOOSE g : Eq(g)
<1>1. F \in [T \X V -> T]
  OBVIOUS
<1>b. <<>> \in T
  OBVIOUS
<1>2. \A a \in T, b \in V : F[<<a, b>>] = IF b.samples = <<>> THEN a ELSE Append(a, b)
  OBVIOUS
<1> HIDE DEF F
<1>3. Foldable(T, V, <<>>, F, es)
  BY <1>1, <1>b, Zenon DEF Foldable
<1>4. Eq(it)
  <2>1. PICK g : Values(g, T, V, <<>>, F, es)
    BY <1>3, Iterates
  <2>2. \A s \in SUBSET DOMAIN es : g[s] = IF s = {} THEN <<>> ELSE Next1(g, s)
    BY <1>2, <2>1 DEF Values
  <2>3. Eq(g)
    BY <2>1, <2>2, Zenon DEF Values
  <2> QED BY <2>3, Zenon
<1>5. WithSamples(es) = it[DOMAIN es]
  BY Zenon DEF WithSamples, FoldLeft, MapThenFoldSet
<1> HIDE DEF it
<1>6. \A s \in SUBSET DOMAIN es : it[s] = IF s = {} THEN <<>> ELSE Next1(it, s)
  BY <1>4
<1>7. Iteration(it, T, V, <<>>, F, es)
  BY <1>2, <1>6 DEF Iteration
<1>8. PICK r : Run(r, T, V, <<>>, F, es) /\ r[Len(es)] = it[DOMAIN es]
  BY <1>3, <1>7, Unrolled
<1>9. Len(es) \in 0 .. Len(es)
  OBVIOUS
<1>10. r[Len(es)] \in T
  BY <1>8, <1>9 DEF Run
<1> QED BY <1>5, <1>8, <1>10

LEMMA RecordType ==
    ASSUME NEW b \in Batches
    PROVE  /\ RecordOf[b] = [series |-> RecordOf[b].series, samples |-> RecordOf[b].samples]
           /\ RecordOf[b].series \in Seq(SeriesEntry)
           /\ RecordOf[b].samples \in Seq(SamplesEntry)
           /\ \A i \in 1 .. Len(RecordOf[b].series) : Sorted(RecordOf[b].series[i].labels)
<1> DEFINE given == b.series
<1> DEFINE series == [n \in 1 .. Len(given) |->
                        [id |-> given[n].id, labels |-> FromLabels(given[n].labels)]]
<1>1. given \in Seq(SeriesEntry) /\ b.samples \in Seq(SamplesEntry)
  BY FramingAssumption DEF SeriesEntry, SamplesEntry
<1>2. RecordOf[b] = [series |-> series, samples |-> WithSamples(b.samples)]
  BY DEF RecordOf
<1>3. WithSamples(b.samples) \in Seq(SamplesEntry)
  BY <1>1, WithSamplesType
<1> HIDE DEF given
<1>4. Len(given) \in Nat /\ \A n \in 1 .. Len(given) : given[n] \in SeriesEntry
  BY <1>1
<1>5. ASSUME NEW n \in 1 .. Len(given)
      PROVE  series[n] \in SeriesEntry /\ Sorted(series[n].labels)
  <2>1. given[n].id \in Pair /\ given[n].labels \in Labels
    BY <1>4 DEF SeriesEntry
  <2>2. FromLabels(given[n].labels) \in Labels
    BY <2>1, FromLabelsType DEF Labels
  <2>3. given[n].labels \in Seq(LabelCells)
    <3>1. \A l \in LabelText : l \in LabelCells
      BY TextIsCells DEF LabelText, LabelCells
    <3>2. given[n].labels \in Seq(LabelText)
      BY <2>1, Zenon DEF Labels, LabelText
    <3> DEFINE ls == given[n].labels
    <3> HIDE DEF ls
    <3>4. ls \in Seq(LabelText)
      BY <3>2 DEF ls
    <3>3. \A i \in 1 .. Len(ls) : ls[i] \in LabelCells
      BY <3>1, <3>4, ElementIs
    <3>6. Len(ls) \in Nat /\ ls \in [1 .. Len(ls) -> LabelText]
      BY <3>4
    <3>7. ls \in [1 .. Len(ls) -> LabelCells]
      BY <3>3, <3>6
    <3>5. ls \in Seq(LabelCells)
      BY <3>6, <3>7, FunctionLen
    <3> QED BY <3>5 DEF ls
  <2>4. Sorted(FromLabels(given[n].labels))
    BY <2>3, FromLabelsSorts
  <2>5. series[n] = [id |-> given[n].id, labels |-> FromLabels(given[n].labels)]
    OBVIOUS
  <2> HIDE DEF series
  <2> DEFINE ls == FromLabels(given[n].labels)
  <2>6. ls \in Labels /\ Sorted(ls)
    BY <2>2, <2>4
  <2>7. series[n] = [id |-> given[n].id, labels |-> ls]
    BY <2>5
  <2> HIDE DEF ls
  <2>8. series[n] \in SeriesEntry /\ series[n].labels = ls
    BY <2>1, <2>6, <2>7 DEF SeriesEntry
  <2> QED BY <2>6, <2>8
<1>6. series \in Seq(SeriesEntry) /\ Len(series) = Len(given)
  <2>1. series \in [1 .. Len(given) -> SeriesEntry]
    BY <1>5
  <2> QED BY <1>4, <2>1
<1> HIDE DEF series
<1> QED BY <1>2, <1>3, <1>5, <1>6

SeriesParts(es) == [n \in 1 .. Len(es) |-> EncodeSeries(es[n])]
SamplesParts(es) == [n \in 1 .. Len(es) |-> EncodeSamples(es[n])]

LEMMA SeriesPartsType ==
    ASSUME NEW es \in Seq(SeriesEntry)
    PROVE  /\ SeriesParts(es) \in Seq(Cells) /\ Len(SeriesParts(es)) = Len(es)
           /\ Len(es) \in Nat /\ FlattenSeq(SeriesParts(es)) \in Cells
           /\ \A i \in 1 .. Len(es) : /\ es[i] \in SeriesEntry
                                      /\ SeriesParts(es)[i] = EncodeSeries(es[i])
                                      /\ Len(SeriesParts(es)[i]) >= 3
<1> DEFINE qs == SeriesParts(es)
<1>1. Len(es) \in Nat /\ \A i \in 1 .. Len(es) : es[i] \in SeriesEntry
  OBVIOUS
<1>2. \A i \in 1 .. Len(es) : EncodeSeries(es[i]) \in Cells /\ Len(EncodeSeries(es[i])) >= 3
  BY <1>1, EncodeSeriesType
<1>3. qs \in [1 .. Len(es) -> Cells]
  BY <1>2 DEF SeriesParts
<1>4. qs \in Seq(Cells) /\ Len(qs) = Len(es)
  BY <1>1, <1>3
<1>5. \A i \in 1 .. Len(es) : qs[i] = EncodeSeries(es[i])
  BY DEF SeriesParts
<1> HIDE DEF qs
<1>6. qs \in Seq(Seq(Nat))
  BY <1>4, Zenon DEF Cells
<1>7. FlattenSeq(qs) \in Cells
  BY <1>6, FlattenType, Zenon DEF Cells
<1>8. \A i \in 1 .. Len(es) : /\ es[i] \in SeriesEntry
                              /\ qs[i] = EncodeSeries(es[i]) /\ Len(qs[i]) >= 3
  BY <1>1, <1>2, <1>5
<1> QED BY <1>1, <1>4, <1>7, <1>8, Zenon DEF qs

LEMMA SamplesPartsType ==
    ASSUME NEW es \in Seq(SamplesEntry)
    PROVE  /\ SamplesParts(es) \in Seq(Cells) /\ Len(SamplesParts(es)) = Len(es)
           /\ Len(es) \in Nat /\ FlattenSeq(SamplesParts(es)) \in Cells
           /\ \A i \in 1 .. Len(es) : /\ es[i] \in SamplesEntry
                                      /\ SamplesParts(es)[i] = EncodeSamples(es[i])
                                      /\ Len(SamplesParts(es)[i]) >= 3
<1> DEFINE qs == SamplesParts(es)
<1>1. Len(es) \in Nat /\ \A i \in 1 .. Len(es) : es[i] \in SamplesEntry
  OBVIOUS
<1>2. \A i \in 1 .. Len(es) : EncodeSamples(es[i]) \in Cells /\ Len(EncodeSamples(es[i])) >= 3
  BY <1>1, EncodeSamplesType
<1>3. qs \in [1 .. Len(es) -> Cells]
  BY <1>2 DEF SamplesParts
<1>4. qs \in Seq(Cells) /\ Len(qs) = Len(es)
  BY <1>1, <1>3
<1>5. \A i \in 1 .. Len(es) : qs[i] = EncodeSamples(es[i])
  BY DEF SamplesParts
<1> HIDE DEF qs
<1>6. qs \in Seq(Seq(Nat))
  BY <1>4, Zenon DEF Cells
<1>7. FlattenSeq(qs) \in Cells
  BY <1>6, FlattenType, Zenon DEF Cells
<1>8. \A i \in 1 .. Len(es) : /\ es[i] \in SamplesEntry
                              /\ qs[i] = EncodeSamples(es[i]) /\ Len(qs[i]) >= 3
  BY <1>1, <1>2, <1>5
<1> QED BY <1>1, <1>4, <1>7, <1>8, Zenon DEF qs

LEMMA TwoCells ==
    ASSUME NEW m \in Nat, NEW n \in Nat
    PROVE  /\ <<m, n>> \in Cells /\ Len(<<m, n>>) = 2
           /\ <<m, n>>[1] = m /\ <<m, n>>[2] = n
BY DEF Cells

\* What is encoded of the batch b.
EncodedSeries(b) == FlattenSeq(SeriesParts(RecordOf[b].series))
EncodedSamples(b) == FlattenSeq(SamplesParts(RecordOf[b].samples))
Counts(b) == <<Len(RecordOf[b].series), Len(RecordOf[b].samples)>>

LEMMA PayloadType ==
    ASSUME NEW b \in Batches
    PROVE  /\ Payload[b] = (Counts(b) \o EncodedSeries(b)) \o EncodedSamples(b)
           /\ Counts(b) \in Cells /\ Len(Counts(b)) = 2
           /\ EncodedSeries(b) \in Cells /\ EncodedSamples(b) \in Cells
           /\ Payload[b] \in Cells /\ Len(Payload[b]) \in Nat /\ Len(Payload[b]) >= 2
<1> DEFINE c == Counts(b)
<1> DEFINE s == EncodedSeries(b)
<1> DEFINE m == EncodedSamples(b)
<1>1. Payload[b] = (c \o s) \o m
  BY Zenon DEF Payload, Counts, EncodedSeries, EncodedSamples, SeriesParts, SamplesParts
<1>2. s \in Cells /\ m \in Cells
  BY RecordType, SeriesPartsType, SamplesPartsType DEF EncodedSeries, EncodedSamples
<1>3. c \in Cells /\ Len(c) = 2
  <2>1. Len(RecordOf[b].series) \in Nat /\ Len(RecordOf[b].samples) \in Nat
    BY RecordType, SeriesPartsType, SamplesPartsType
  <2> QED BY <2>1, TwoCells DEF Counts
<1> HIDE DEF c, s, m
<1> DEFINE cs == c \o s
<1>4. cs \in Cells /\ Len(cs) = Len(c) + Len(s) /\ Len(s) \in Nat
  BY <1>2, <1>3, JoinCells
<1> HIDE DEF cs
<1> DEFINE p == cs \o m
<1>5. p \in Cells /\ Len(p) = Len(cs) + Len(m) /\ Len(m) \in Nat
  BY <1>2, <1>4, JoinCells
<1> HIDE DEF p
<1>6. Len(p) \in Nat /\ Len(p) >= 2
  BY <1>3, <1>4, <1>5
<1>7. Payload[b] = p
  BY <1>1 DEF p, cs
<1> QED BY <1>1, <1>2, <1>3, <1>5, <1>6, <1>7 DEF c, s, m

LEMMA MixType == \A h, c \in Nat : Mix(h, c) \in Nat
<1>1. Modulus \in Nat /\ Modulus > 0
  BY DEF Modulus
<1>2. \A h, c \in Nat : (7 * h + c) % Modulus \in Nat
  BY <1>1
<1> QED BY <1>2 DEF Mix

MixF == [p \in Nat \X Nat |-> Mix(p[1], p[2])]

LEMMA MixFIs ==
    /\ MixF \in [Nat \X Nat -> Nat] /\ \A h \in Nat, c \in Nat : MixF[<<h, c>>] = Mix(h, c)
BY MixType DEF MixF

\* The checksum takes one cell after the other.
LEMMA CrcRun ==
    ASSUME NEW kind \in Nat, NEW len \in Nat, NEW payload \in Cells
    PROVE  LET q == <<kind, len>> \o payload IN
           /\ q \in Seq(Nat)
           /\ \E r : Run(r, Nat, Nat, 1, MixF, q) /\ r[Len(q)] = RecordCrc(kind, len, payload)
<1> DEFINE q == <<kind, len>> \o payload
<1> DEFINE F == MixF
<1> DEFINE Next1(g, s) == Mix(g[s \ {Max(s)}], q[Max(s)])
<1> DEFINE Eq(g) == g = [s \in SUBSET DOMAIN q |-> IF s = {} THEN 1 ELSE Next1(g, s)]
<1> DEFINE it == CHOOSE g : Eq(g)
<1>0. q \in Seq(Nat)
  BY TwoCells, JoinCells DEF Cells
<1>1. F \in [Nat \X Nat -> Nat]
  BY MixFIs
<1>2. \A h \in Nat, c \in Nat : F[<<h, c>>] = Mix(h, c)
  BY MixFIs
<1>5. RecordCrc(kind, len, payload) = it[DOMAIN q]
  BY Zenon DEF RecordCrc, FoldLeft, MapThenFoldSet
<1> HIDE DEF F, q
<1>3. Foldable(Nat, Nat, 1, F, q)
  BY <1>0, <1>1 DEF Foldable
<1>4. Eq(it)
  <2>1. PICK g : Values(g, Nat, Nat, 1, F, q)
    BY <1>3, Iterates
  <2>2. \A s \in SUBSET DOMAIN q : g[s] = IF s = {} THEN 1 ELSE Next1(g, s)
    BY <1>2, <2>1, Zenon DEF Values
  <2>3. Eq(g)
    BY <2>1, <2>2, Zenon DEF Values
  <2> QED BY <2>3, Zenon
<1> HIDE DEF it
<1>6. \A s \in SUBSET DOMAIN q : it[s] = IF s = {} THEN 1 ELSE Next1(it, s)
  BY <1>4, Zenon
<1>7. Iteration(it, Nat, Nat, 1, F, q)
  BY <1>2, <1>6, Zenon DEF Iteration
<1>8. PICK r : Run(r, Nat, Nat, 1, F, q) /\ r[Len(q)] = it[DOMAIN q]
  BY <1>3, <1>7, Unrolled
<1>9. r[Len(q)] = RecordCrc(kind, len, payload)
  BY <1>5, <1>8, Zenon
<1> QED BY <1>0, <1>8, <1>9, Zenon DEF F, q

LEMMA CrcType ==
    ASSUME NEW kind \in Nat, NEW len \in Nat, NEW payload \in Cells
    PROVE  RecordCrc(kind, len, payload) \in Nat
<1> DEFINE q == <<kind, len>> \o payload
<1>1. q \in Seq(Nat)
  BY CrcRun
<1>2. PICK r : Run(r, Nat, Nat, 1, MixF, q) /\ r[Len(q)] = RecordCrc(kind, len, payload)
  BY CrcRun
<1> HIDE DEF q
<1>3. Len(q) \in 0 .. Len(q)
  BY <1>1
<1>4. r[Len(q)] \in Nat
  BY <1>2, <1>3 DEF Run
<1> QED BY <1>2, <1>4, Zenon

LEMMA HeaderType ==
    ASSUME NEW p \in Cells
    PROVE  /\ Header(p) \in Cells /\ Len(Header(p)) = 3
           /\ Header(p)[1] = Len(p) /\ Header(p)[3] = WriteKind
           /\ Header(p)[2] = RecordCrc(WriteKind, Len(p), p)
<1> DEFINE c == RecordCrc(WriteKind, Len(p), p)
<1>1. Len(p) \in Nat /\ WriteKind \in Nat
  BY DEF Cells, WriteKind
<1>2. c \in Nat
  BY <1>1, CrcType
<1>3. Header(p) = <<Len(p), c, WriteKind>>
  BY DEF Header
<1> HIDE DEF c
<1>4. <<Len(p), c, WriteKind>> \in Cells
  BY <1>1, <1>2 DEF Cells
<1>5. Len(<<Len(p), c, WriteKind>>) = 3
  OBVIOUS
<1> QED BY <1>3, <1>4, <1>5 DEF c

LEMMA EncodedType ==
    ASSUME NEW b \in Batches
    PROVE  /\ Encoded[b] = Header(Payload[b]) \o Payload[b]
           /\ Encoded[b] \in Cells
           /\ Len(Encoded[b]) = HeaderLen + Len(Payload[b])
<1>1. Payload[b] \in Cells
  BY PayloadType
<1>2. Encoded[b] = Header(Payload[b]) \o Payload[b]
  BY DEF Encoded
<1>3. Header(Payload[b]) \in Cells /\ Len(Header(Payload[b])) = 3
  BY <1>1, HeaderType
<1> QED BY <1>1, <1>2, <1>3, JoinCells DEF HeaderLen

BatchParts(bs) == [n \in 1 .. Len(bs) |-> Encoded[bs[n]]]

LEMMA BatchPartsType ==
    ASSUME NEW bs \in Seq(Batches)
    PROVE  /\ BatchParts(bs) \in Seq(Cells) /\ BatchParts(bs) \in Seq(Seq(Nat))
           /\ Len(BatchParts(bs)) = Len(bs) /\ Len(bs) \in Nat
           /\ EncodedAll(bs) = FlattenSeq(BatchParts(bs)) /\ EncodedAll(bs) \in Cells
           /\ \A i \in 1 .. Len(bs) : bs[i] \in Batches /\ BatchParts(bs)[i] = Encoded[bs[i]]
<1> DEFINE qs == BatchParts(bs)
<1>1. Len(bs) \in Nat /\ \A i \in 1 .. Len(bs) : bs[i] \in Batches
  OBVIOUS
<1>2. \A i \in 1 .. Len(bs) : Encoded[bs[i]] \in Cells
  BY <1>1, EncodedType
<1>3. qs \in [1 .. Len(bs) -> Cells]
  BY <1>2 DEF BatchParts
<1>4. qs \in Seq(Cells) /\ Len(qs) = Len(bs)
  BY <1>1, <1>3
<1>5. \A i \in 1 .. Len(bs) : qs[i] = Encoded[bs[i]]
  BY DEF BatchParts
<1>8. EncodedAll(bs) = FlattenSeq(qs)
  BY Zenon DEF EncodedAll, BatchParts
<1> HIDE DEF qs
<1>6. qs \in Seq(Seq(Nat))
  BY <1>4, Zenon DEF Cells
<1>7. FlattenSeq(qs) \in Cells
  BY <1>6, FlattenType, Zenon DEF Cells
<1>9. \A i \in 1 .. Len(bs) : bs[i] \in Batches /\ qs[i] = Encoded[bs[i]]
  BY <1>1, <1>5
<1> QED BY <1>1, <1>4, <1>6, <1>7, <1>8, <1>9, Zenon DEF qs

LEMMA EncodedNone == EncodedAll(<<>>) = <<>>
<1>1. [n \in 1 .. Len(<<>>) |-> Encoded[<<>>[n]]] = <<>>
  OBVIOUS
<1> QED BY <1>1, FlattenNone, Zenon DEF EncodedAll

LEMMA EncodedMore ==
    ASSUME NEW bs \in Seq(Batches), NEW b \in Batches
    PROVE  EncodedAll(Append(bs, b)) = EncodedAll(bs) \o Encoded[b]
<1> DEFINE cs == Append(bs, b)
<1>1. /\ cs \in Seq(Batches) /\ Len(cs) = Len(bs) + 1 /\ cs[Len(bs) + 1] = b
      /\ \A i \in 1 .. Len(bs) : cs[i] = bs[i]
  OBVIOUS
<1> HIDE DEF cs
<1> DEFINE qs == BatchParts(bs)
<1> DEFINE ps == BatchParts(cs)
<1> DEFINE e == Encoded[b]
<1>2. /\ qs \in Seq(Seq(Nat)) /\ Len(qs) = Len(bs) /\ Len(bs) \in Nat
      /\ EncodedAll(bs) = FlattenSeq(qs)
      /\ \A i \in 1 .. Len(bs) : qs[i] = Encoded[bs[i]]
  BY BatchPartsType
<1>3. /\ ps \in Seq(Seq(Nat)) /\ Len(ps) = Len(cs) /\ EncodedAll(cs) = FlattenSeq(ps)
      /\ \A i \in 1 .. Len(cs) : ps[i] = Encoded[cs[i]]
  BY <1>1, BatchPartsType
<1>4. e \in Seq(Nat)
  BY EncodedType DEF Cells
<1>7. Encoded[cs[Len(bs) + 1]] = e
  BY <1>1
<1> HIDE DEF qs, ps, e
<1> DEFINE as == Append(qs, e)
<1>5. /\ as \in Seq(Seq(Nat)) /\ Len(as) = Len(qs) + 1 /\ as[Len(qs) + 1] = e
      /\ \A i \in 1 .. Len(qs) : as[i] = qs[i]
  BY <1>2, <1>4
<1> HIDE DEF as
<1>6. ps = as
  <2>1. Len(ps) = Len(as)
    BY <1>1, <1>2, <1>3, <1>5
  <2>2. ASSUME NEW i \in 1 .. Len(ps) PROVE ps[i] = as[i]
    <3>1. i \in 1 .. Len(bs) \/ i = Len(bs) + 1
      BY <1>1, <1>2, <1>3
    <3>2. ps[i] = Encoded[cs[i]]
      BY <1>3
    <3>3. CASE i \in 1 .. Len(bs)
      BY <1>1, <1>2, <1>5, <3>2, <3>3
    <3>4. CASE i = Len(bs) + 1
      BY <1>2, <1>5, <1>7, <3>2, <3>4
    <3> QED BY <3>1, <3>3, <3>4
  <2> QED BY <1>3, <1>5, <2>1, <2>2, SameSeq
<1>8. FlattenSeq(as) = FlattenSeq(qs) \o e
  BY <1>2, <1>4, FlattenMore DEF as
<1>9. EncodedAll(cs) = EncodedAll(bs) \o e
  BY <1>2, <1>3, <1>6, <1>8, Zenon
<1> QED BY <1>9 DEF cs, e

\* What is whole of bs in some cells, and that no more is.
LEMMA WholeIs ==
    ASSUME NEW bs \in Seq(Batches), NEW cells \in Cells
    PROVE  /\ WholeIn(bs, cells) \in 0 .. Len(bs)
           /\ IsPrefix(EncodedAll(SubSeq(bs, 1, WholeIn(bs, cells))), cells)
           /\ \A n \in 0 .. Len(bs) :
                 IsPrefix(EncodedAll(SubSeq(bs, 1, n)), cells) => n <= WholeIn(bs, cells)
<1> DEFINE P == {n \in 0 .. Len(bs) : IsPrefix(EncodedAll(SubSeq(bs, 1, n)), cells)}
<1>1. WholeIn(bs, cells) = Max(P)
  BY DEF WholeIn
<1>2. Len(bs) \in Nat /\ P \in SUBSET (0 .. Len(bs))
  OBVIOUS
<1>3. 0 \in P
  <2>1. SubSeq(bs, 1, 0) = <<>>
    OBVIOUS
  <2>2. EncodedAll(SubSeq(bs, 1, 0)) = <<>>
    BY <2>1, EncodedNone
  <2>3. IsPrefix(<<>>, cells)
    BY DEF IsPrefix, Cells
  <2> QED BY <1>2, <2>2, <2>3
<1> DEFINE m == Max(P)
<1>4. m \in P /\ \A n \in P : n <= m
  <2> HIDE DEF P
  <2> QED BY <1>2, <1>3, MaxFrom
<1> HIDE DEF m
<1>5. WholeIn(bs, cells) = m
  BY <1>1 DEF m
<1>6. /\ m \in 0 .. Len(bs) /\ IsPrefix(EncodedAll(SubSeq(bs, 1, m)), cells)
      /\ \A n \in 0 .. Len(bs) : IsPrefix(EncodedAll(SubSeq(bs, 1, n)), cells) => n <= m
  BY <1>4, Zenon
<1> QED BY <1>5, <1>6, Zenon

-----------------------------------------------------------------------------
(* What is encoded is read back. *)

LEMMA GoodGot ==
    ASSUME NEW buf, NEW p, NEW g, NEW x
    PROVE  [Good(buf, p, g) EXCEPT !.got = x] = Good(buf, p, x)
<1> DEFINE yes == TRUE
<1> DEFINE R(y) == [buf |-> buf, pos |-> p, ok |-> yes, got |-> y, reserved |-> 0]
<1>1. yes = TRUE
  OBVIOUS
<1> HIDE DEF yes
<1>2. [R(g) EXCEPT !.got = x] = R(x)
  OBVIOUS
<1> HIDE DEF R
<1>3. R(g) = Good(buf, p, g) /\ R(x) = Good(buf, p, x)
  BY <1>1 DEF R, Good
<1> QED BY <1>2, <1>3

LEMMA StepIs ==
    ASSUME NEW buf, NEW p, NEW g, NEW q, NEW v
    PROVE  Step(Good(buf, p, g), Good(buf, q, v)) = Good(buf, q, Append(g, v))
<1>1. Good(buf, p, g).got = g /\ Good(buf, q, v).got = v
  BY DEF Good
<1> DEFINE x == Append(g, v)
<1>3. Step(Good(buf, p, g), Good(buf, q, v)) = [Good(buf, q, v) EXCEPT !.got = x]
  BY <1>1, Zenon DEF Step
<1> HIDE DEF x
<1>2. [Good(buf, q, v) EXCEPT !.got = x] = Good(buf, q, x)
  BY GoodGot
<1> QED BY <1>2, <1>3 DEF x

LEMMA TakeOne ==
    ASSUME NEW buf \in Cells, NEW p \in Nat, NEW g, NEW n \in Nat, Lies(buf, p, <<n>>)
    PROVE  /\ Take(Good(buf, p, g), 1) = Good(buf, p + 1, <<n>>)
           /\ Take(Good(buf, p, g), 1).got[1] = n /\ p + 1 \in 0 .. Len(buf)
<1> DEFINE c == <<n>>
<1>1. c \in Cells /\ Len(c) = 1 /\ c[1] = n
  BY OneCell
<1> HIDE DEF c
<1>2. /\ Take(Good(buf, p, g), Len(c)) = Good(buf, p + Len(c), c)
      /\ p + Len(c) \in 0 .. Len(buf)
  BY <1>1, TakeIs, ZenonT(40) DEF c
<1>3. Good(buf, p + 1, c).got = c
  BY DEF Good
<1> QED BY <1>1, <1>2, <1>3 DEF c

LEMMA ReadStrIs ==
    ASSUME NEW buf \in Cells, NEW p \in Nat, NEW g, NEW s \in Text,
           Lies(buf, p, PutBytes(s))
    PROVE  ReadStr(Good(buf, p, g)) = Good(buf, p + Len(PutBytes(s)), s)
<1> DEFINE len == Take(Good(buf, p, g), 1)
<1> DEFINE str == Take(len, len.got[1])
<1>1. s \in Cells /\ Len(s) \in Nat
  BY TextIsCells DEF Cells
<1>2. <<Len(s)>> \in Cells /\ Len(<<Len(s)>>) = 1
  BY <1>1, OneCell
<1>3. Lies(buf, p, <<Len(s)>>) /\ Lies(buf, p + 1, s)
  BY <1>1, <1>2, LiesJoin DEF PutBytes
<1>4. len = Good(buf, p + 1, <<Len(s)>>) /\ len.got[1] = Len(s)
  BY <1>1, <1>3, TakeOne
<1>5. ReadStr(Good(buf, p, g)) =
        IF str.ok /\ Range(str.got) \cap NotText # {} THEN Fail(str) ELSE str
  BY Zenon DEF ReadStr
<1> HIDE DEF len
<1>6. p + 1 \in Nat
  OBVIOUS
<1>7. Take(Good(buf, p + 1, <<Len(s)>>), Len(s)) = Good(buf, p + 1 + Len(s), s)
  BY <1>1, <1>3, <1>6, TakeIs
<1>8. str = Good(buf, p + 1 + Len(s), s)
  BY <1>4, <1>7, Zenon
<1>9. Range(s) \cap NotText = {}
  BY DEF Range, Text
<1>10. str.got = s
  BY <1>8 DEF Good
<1> HIDE DEF str
<1>11. ReadStr(Good(buf, p, g)) = Good(buf, p + 1 + Len(s), s)
  BY <1>5, <1>8, <1>9, <1>10, Zenon
<1>12. p + Len(PutBytes(s)) = p + 1 + Len(s)
  <2>1. Len(PutBytes(s)) = 1 + Len(s)
    BY <1>1, PutBytesType
  <2> QED BY <1>1, <2>1
<1> QED BY <1>11, <1>12, Zenon

LEMMA ReadLabelIs ==
    ASSUME NEW buf \in Cells, NEW p \in Nat, NEW g, NEW l \in LabelText,
           Lies(buf, p, EncodeLabel(l))
    PROVE  ReadLabel(Good(buf, p, g)) = Good(buf, p + Len(EncodeLabel(l)), l)
<1> DEFINE a == PutBytes(l.name)
<1> DEFINE b == PutBytes(l.value)
<1> DEFINE name == ReadStr(Good(buf, p, g))
<1> DEFINE value == ReadStr(name)
<1>1. l.name \in Text /\ l.value \in Text /\ l = [name |-> l.name, value |-> l.value]
  BY DEF LabelText
<1>2. a \in Cells /\ Len(a) \in Nat
  <2>1. l.name \in Cells
    BY <1>1, TextIsCells
  <2> QED BY <2>1, PutBytesType DEF Cells
<1>3. b \in Cells /\ Len(b) \in Nat
  <2>1. l.value \in Cells
    BY <1>1, TextIsCells
  <2> QED BY <2>1, PutBytesType DEF Cells
<1> HIDE DEF a, b
<1>4. EncodeLabel(l) = a \o b
  BY DEF EncodeLabel, a, b
<1>5. Lies(buf, p, a) /\ Lies(buf, p + Len(a), b) /\ Len(a \o b) = Len(a) + Len(b)
  BY <1>2, <1>3, <1>4, LiesJoin, JoinCells
<1>6. name = Good(buf, p + Len(a), l.name)
  BY <1>1, <1>5, ReadStrIs DEF a
<1>7. ReadLabel(Good(buf, p, g)) =
        [value EXCEPT !.got = [name |-> name.got, value |-> value.got]]
  BY DEF ReadLabel
<1> HIDE DEF name
<1>8. p + Len(a) \in Nat
  BY <1>2
<1>9. ReadStr(Good(buf, p + Len(a), l.name)) = Good(buf, p + Len(a) + Len(b), l.value)
  BY <1>1, <1>5, <1>8, ReadStrIs DEF b
<1>10. value = Good(buf, p + Len(a) + Len(b), l.value)
  BY <1>6, <1>9, Zenon
<1> HIDE DEF value
<1>11. ReadLabel(Good(buf, p, g)) = Good(buf, p + Len(a) + Len(b), l)
  BY <1>1, <1>6, <1>7, <1>10 DEF Good
<1>12. p + Len(EncodeLabel(l)) = p + Len(a) + Len(b)
  BY <1>2, <1>3, <1>4, <1>5
<1> QED BY <1>11, <1>12, Zenon

\* n items of at least k cells that lie ahead fit.
LEMMA FitsThere ==
    ASSUME NEW buf \in Cells, NEW p \in Nat, NEW g, NEW n \in Nat, NEW k \in {2, 3, 4},
           NEW m \in Nat, k * n <= m, p + m <= Len(buf)
    PROVE  Fits(Good(buf, p, g), n, k)
<1>1. Len(buf) \in Nat
  BY DEF Cells
<1>2. Remaining(Good(buf, p, g)) = Len(buf) - p
  BY DEF Remaining, Good
<1> DEFINE r == Len(buf) - p
<1>3. r \in Nat /\ k * n <= r
  <2>1. k * n \in Int
    OBVIOUS
  <2> HIDE DEF r
  <2>2. r \in Int /\ m <= r
    BY <1>1 DEF r
  <2> QED BY <2>1, <2>2
<1> HIDE DEF r
<1>4. n <= r \div k
  <2>1. CASE k = 2
    BY <1>3, <2>1
  <2>2. CASE k = 3
    BY <1>3, <2>2
  <2>3. CASE k = 4
    BY <1>3, <2>3
  <2> QED BY <2>1, <2>2, <2>3
<1> QED BY <1>2, <1>4 DEF Fits, r

\* A reader of items that starts where one reader is.
LEMMA SeedGood ==
    ASSUME NEW buf, NEW p, NEW g
    PROVE  [Good(buf, p, g) EXCEPT !.got = <<>>] = Good(buf, p, <<>>) /\ Good(buf, p, g).ok
<1>1. Good(buf, p, g).ok
  BY DEF Good
<1> QED BY <1>1, GoodGot

LEMMA ReadLabelsIs ==
    ASSUME NEW buf \in Cells, NEW p \in Nat, NEW g, NEW ls \in Labels,
           Lies(buf, p, FlattenSeq([n \in 1 .. Len(ls) |-> EncodeLabel(ls[n])]))
    PROVE  LET flat == FlattenSeq([n \in 1 .. Len(ls) |-> EncodeLabel(ls[n])])
           IN  /\ Counted(Good(buf, p, g), Len(ls), 2, ReadLabel) = Good(buf, p + Len(flat), ls)
               /\ Len(flat) \in Nat
<1> DEFINE qs == [n \in 1 .. Len(ls) |-> EncodeLabel(ls[n])]
<1> DEFINE m == Len(ls)
<1>0. ls \in Seq(LabelText) /\ m \in Nat
  <2>1. ls \in Seq(LabelText)
    BY Zenon DEF Labels, LabelText
  <2> QED BY <2>1
<1>1. /\ qs \in Seq(Cells) /\ Len(qs) = m /\ FlattenSeq(qs) \in Cells
      /\ \A i \in 1 .. m : qs[i] = EncodeLabel(ls[i]) /\ Len(qs[i]) >= 2
  BY LabelParts
<1>2. Lies(buf, p, FlattenSeq(qs))
  OBVIOUS
<1> HIDE DEF qs
<1> DEFINE r == Good(buf, p, g)
<1>10. m \in Nat
  BY <1>0
<1>3. Fits(r, m, 2) /\ p \in 0 .. Len(buf) /\ Len(FlattenSeq(qs)) \in Nat
  <2>1. PICK f : Offsets(f, qs)
    BY <1>1, <1>2, Pieces
  <2>2. \A i \in 1 .. Len(qs) : Len(qs[i]) >= 2
    BY <1>1
  <2>3. 2 * Len(qs) <= Len(FlattenSeq(qs))
    BY <1>1, <2>1, <2>2, AtLeast
  <2>4. 2 * m <= Len(FlattenSeq(qs))
    BY <1>1, <2>3
  <2>5. /\ Len(FlattenSeq(qs)) \in Nat /\ Len(buf) \in Nat
        /\ p + Len(FlattenSeq(qs)) <= Len(buf)
    BY <1>1, <1>2 DEF Lies, Cells
  <2> HIDE DEF m
  <2>6. Fits(r, m, 2)
    BY <1>10, <2>4, <2>5, FitsThere
  <2> QED BY <2>5, <2>6
<1>4. Counted(r, m, 2, ReadLabel) = ReadItems(r, m, ReadLabel)
  BY <1>3, Zenon DEF Counted
<1>5. r \in Readers(buf, {g}) /\ r.ok
  BY <1>3, GoodIs, SeedGood
<1>6. m <= Len(buf)
  <2> HIDE DEF r, m
  <2> QED BY <1>3, <1>5, <1>10, FitsWithin
<1> HIDE DEF m
<1>7. PICK t : /\ Reads(t, buf, LabelCells, r, m, ReadItems(r, m, ReadLabel))
               /\ \A i \in 1 .. m : t[i] = Step(t[i - 1], ReadLabel(t[i - 1]))
  BY <1>5, <1>6, <1>10, LabelItemsRun
<1>8. t[0] = Good(buf, p, <<>>)
  BY <1>7, SeedGood DEF Reads
<1>9. ASSUME NEW i \in 1 .. Len(qs), NEW q \in Nat, NEW h \in Seq(LabelText),
             t[i - 1] = Good(buf, q, h), Lies(buf, q, qs[i])
      PROVE  t[i] = Good(buf, q + Len(qs[i]), Append(h, ls[i]))
  <2>1. i \in 1 .. m /\ ls[i] \in LabelText /\ qs[i] = EncodeLabel(ls[i])
    BY <1>0, <1>1 DEF m
  <2>2. ReadLabel(Good(buf, q, h)) = Good(buf, q + Len(EncodeLabel(ls[i])), ls[i])
    BY <1>9, <2>1, ReadLabelIs
  <2>3. t[i] = Step(t[i - 1], ReadLabel(t[i - 1]))
    BY <1>7, <2>1
  <2>4. t[i] = Step(Good(buf, q, h), Good(buf, q + Len(qs[i]), ls[i]))
    BY <1>9, <2>1, <2>2, <2>3, Zenon
  <2> QED BY <2>4, StepIs
<1>11. Len(ls) = Len(qs)
  BY <1>1 DEF m
<1>12. t[Len(qs)] = Good(buf, p + Len(FlattenSeq(qs)), ls)
  <2>1. ls \in Seq(LabelText) /\ qs \in Seq(Cells)
    BY <1>0, <1>1
  <2>2. Advances(t, buf, LabelText, qs, ls)
    BY <1>9, Zenon DEF Advances
  <2> QED BY <1>2, <1>8, <1>11, <2>1, <2>2, ReadAll
<1>13. t[Len(qs)] = ReadItems(r, m, ReadLabel)
  BY <1>1, <1>7 DEF Reads
<1>14. Counted(r, m, 2, ReadLabel) = Good(buf, p + Len(FlattenSeq(qs)), ls)
  BY <1>4, <1>12, <1>13, Zenon
<1> QED BY <1>3, <1>14, Zenon DEF m, r, qs

\* What lies ahead in two parts.
LEMMA LiesBoth ==
    ASSUME NEW buf \in Cells, NEW p \in Nat, NEW a \in Cells, NEW b \in Cells,
           Lies(buf, p, a \o b)
    PROVE  /\ Lies(buf, p, a) /\ Lies(buf, p + Len(a), b)
           /\ a \o b \in Cells /\ Len(a \o b) = Len(a) + Len(b) /\ Len(b) \in Nat
<1>1. Lies(buf, p, a) /\ Lies(buf, p + Len(a), b)
  BY LiesJoin
<1>2. a \o b \in Cells /\ Len(a \o b) = Len(a) + Len(b) /\ Len(b) \in Nat
  BY JoinCells
<1> QED BY <1>1, <1>2

LEMMA DecodeLabelsIs ==
    ASSUME NEW buf \in Cells, NEW p \in Nat, NEW g, NEW ls \in Labels, Sorted(ls),
           Lies(buf, p, EncodeLabels(ls))
    PROVE  DecodeLabels(Good(buf, p, g)) = Good(buf, p + Len(EncodeLabels(ls)), ls)
<1> DEFINE flat == FlattenSeq([n \in 1 .. Len(ls) |-> EncodeLabel(ls[n])])
<1> DEFINE m == Len(ls)
<1> DEFINE r == Good(buf, p, g)
<1> DEFINE n == Take(r, 1)
<1> DEFINE q == Counted(n, n.got[1], 2, ReadLabel)
<1>0. ls \in Seq(LabelText) /\ m \in Nat
  <2>1. ls \in Seq(LabelText)
    BY Zenon DEF Labels, LabelText
  <2> QED BY <2>1
<1>1. flat \in Cells
  BY LabelParts, Zenon
<1>2. EncodeLabels(ls) = <<m>> \o flat
  BY DEF EncodeLabels
<1>3. DecodeLabels(r) = IF q.ok THEN [q EXCEPT !.got = FromLabels(q.got)] ELSE q
  BY Zenon DEF DecodeLabels
<1>4. Lies(buf, p + 1, flat) =>
        /\ Counted(Good(buf, p + 1, <<m>>), m, 2, ReadLabel) = Good(buf, p + 1 + Len(flat), ls)
        /\ Len(flat) \in Nat
  BY ReadLabelsIs
<1> HIDE DEF flat, m, n
<1>5. <<m>> \in Cells /\ Len(<<m>>) = 1
  BY <1>0, OneCell
<1>6. /\ Lies(buf, p, <<m>>) /\ Lies(buf, p + 1, flat)
      /\ Len(EncodeLabels(ls)) = 1 + Len(flat) /\ Len(flat) \in Nat
  <2> DEFINE c == <<m>>
  <2>1. c \in Cells /\ Len(c) = 1
    BY <1>5
  <2> HIDE DEF c
  <2>2. EncodeLabels(ls) = c \o flat
    BY <1>2 DEF c
  <2>3. Lies(buf, p, c \o flat)
    BY <2>2
  <2>4. /\ Lies(buf, p, c) /\ Lies(buf, p + 1, flat)
        /\ Len(c \o flat) = 1 + Len(flat) /\ Len(flat) \in Nat
    <3>1. Lies(buf, p, c) /\ Lies(buf, p + Len(c), flat)
      BY <1>1, <2>1, <2>3, LiesJoin
    <3>2. Len(c \o flat) = Len(c) + Len(flat) /\ Len(flat) \in Nat
      BY <1>1, <2>1, JoinCells
    <3> QED BY <2>1, <3>1, <3>2
  <2> QED BY <2>2, <2>4 DEF c
<1>7. n = Good(buf, p + 1, <<m>>) /\ n.got[1] = m
  BY <1>0, <1>6, TakeOne DEF n
<1> HIDE DEF r
<1>8. q = Good(buf, p + 1 + Len(flat), ls)
  BY <1>4, <1>6, <1>7, Zenon
<1> HIDE DEF q
<1>9. q.ok /\ q.got = ls
  BY <1>8 DEF Good
<1>10. FromLabels(ls) = ls
  BY <1>0, FromSorted
<1>11. DecodeLabels(r) = [Good(buf, p + 1 + Len(flat), ls) EXCEPT !.got = ls]
  BY <1>3, <1>8, <1>9, <1>10, Zenon
<1>12. DecodeLabels(r) = Good(buf, p + 1 + Len(flat), ls)
  BY <1>11, GoodGot
<1>13. p + Len(EncodeLabels(ls)) = p + 1 + Len(flat)
  BY <1>6
<1> QED BY <1>12, <1>13, Zenon DEF r

LEMMA TakePair ==
    ASSUME NEW buf \in Cells, NEW p \in Nat, NEW g, NEW id \in Pair, Lies(buf, p, id)
    PROVE  Take(Good(buf, p, g), 2) = Good(buf, p + 2, id) /\ p + 2 \in 0 .. Len(buf)
<1>1. id \in Cells /\ Len(id) = 2
  BY PairIsCells
<1>2. /\ Take(Good(buf, p, g), Len(id)) = Good(buf, p + Len(id), id)
      /\ p + Len(id) \in 0 .. Len(buf)
  BY <1>1, TakeIs
<1> QED BY <1>1, <1>2

LEMMA ReadSeriesIs ==
    ASSUME NEW buf \in Cells, NEW p \in Nat, NEW g, NEW e \in SeriesEntry,
           Sorted(e.labels), Lies(buf, p, EncodeSeries(e))
    PROVE  ReadSeries(Good(buf, p, g)) = Good(buf, p + Len(EncodeSeries(e)), e)
<1> DEFINE a == e.id
<1> DEFINE b == EncodeLabels(e.labels)
<1> DEFINE id == Take(Good(buf, p, g), 2)
<1> DEFINE ls == DecodeLabels(id)
<1>1. /\ e.id \in Pair /\ e.labels \in Labels /\ e = [id |-> e.id, labels |-> e.labels]
  BY DEF SeriesEntry
<1>2. a \in Cells /\ Len(a) = 2 /\ b \in Cells /\ Len(b) \in Nat
  BY <1>1, PairIsCells, EncodeLabelsType DEF Cells
<1>3. ReadSeries(Good(buf, p, g)) = [ls EXCEPT !.got = [id |-> id.got, labels |-> ls.got]]
  BY Zenon DEF ReadSeries
<1> HIDE DEF a, b, id
<1>4. EncodeSeries(e) = a \o b
  BY DEF EncodeSeries, a, b
<1>14. Lies(buf, p, a \o b)
  BY <1>4
<1>5. Lies(buf, p, a) /\ Lies(buf, p + 2, b) /\ Len(a \o b) = 2 + Len(b)
  <2>1. a \in Cells /\ b \in Cells
    BY <1>2
  <2>2. Lies(buf, p, a) /\ Lies(buf, p + Len(a), b) /\ Len(a \o b) = Len(a) + Len(b)
    BY <1>14, <2>1, LiesBoth
  <2> QED BY <1>2, <2>2
<1>6. id = Good(buf, p + 2, a)
  BY <1>1, <1>5, TakePair DEF a, id
<1>7. p + 2 \in Nat
  OBVIOUS
<1>8. DecodeLabels(Good(buf, p + 2, a)) = Good(buf, p + 2 + Len(b), e.labels)
  BY <1>1, <1>5, <1>7, DecodeLabelsIs DEF b
<1>9. ls = Good(buf, p + 2 + Len(b), e.labels)
  BY <1>6, <1>8, Zenon
<1> HIDE DEF ls
<1>10. id.got = a /\ ls.got = e.labels
  BY <1>6, <1>9 DEF Good
<1>11. [id |-> id.got, labels |-> ls.got] = e
  BY <1>1, <1>10 DEF a
<1>12. ReadSeries(Good(buf, p, g)) = Good(buf, p + 2 + Len(b), e)
  BY <1>3, <1>9, <1>11, GoodGot
<1>13. p + Len(EncodeSeries(e)) = p + 2 + Len(b)
  BY <1>2, <1>4, <1>5
<1> QED BY <1>12, <1>13, Zenon

LEMMA ReadSampleIs ==
    ASSUME NEW buf \in Cells, NEW p \in Nat, NEW g, NEW s \in Cells, Len(s) = 4,
           Lies(buf, p, s)
    PROVE  ReadSample(Good(buf, p, g)) = Good(buf, p + Len(s), s)
<1>1. Take(Good(buf, p, g), Len(s)) = Good(buf, p + Len(s), s)
  BY TakeIs
<1> QED BY <1>1 DEF ReadSample

LEMMA ReadValuesIs ==
    ASSUME NEW buf \in Cells, NEW p \in Nat, NEW g, NEW ss \in Seq([1 .. 4 -> Nat]),
           Lies(buf, p, FlattenSeq(ss))
    PROVE  /\ Counted(Good(buf, p, g), Len(ss), 4, ReadSample)
                = Good(buf, p + Len(FlattenSeq(ss)), ss)
           /\ Len(FlattenSeq(ss)) \in Nat
<1> DEFINE m == Len(ss)
<1>1. /\ ss \in Seq(Cells) /\ m \in Nat /\ FlattenSeq(ss) \in Cells
      /\ \A i \in 1 .. m : Len(ss[i]) = 4
  BY SampleParts
<1> DEFINE r == Good(buf, p, g)
<1>10. m \in Nat
  BY <1>1
<1>3. Fits(r, m, 4) /\ p \in 0 .. Len(buf) /\ Len(FlattenSeq(ss)) \in Nat
  <2>1. PICK f : Offsets(f, ss)
    BY <1>1, Pieces
  <2>2. ASSUME NEW i \in 1 .. Len(ss) PROVE Len(ss[i]) >= 4
    <3>1. Len(ss[i]) = 4
      BY <1>1
    <3> QED BY <3>1
  <2>3. 4 * m <= Len(FlattenSeq(ss))
    BY <1>1, <2>1, <2>2, AtLeast
  <2>5. /\ Len(FlattenSeq(ss)) \in Nat /\ Len(buf) \in Nat
        /\ p + Len(FlattenSeq(ss)) <= Len(buf)
    BY <1>1 DEF Lies, Cells
  <2> HIDE DEF m
  <2>6. Fits(r, m, 4)
    BY <1>10, <2>3, <2>5, FitsThere
  <2> QED BY <2>5, <2>6
<1>4. Counted(r, m, 4, ReadSample) = ReadItems(r, m, ReadSample)
  BY <1>3, Zenon DEF Counted
<1>5. r \in Readers(buf, {g}) /\ r.ok
  BY <1>3, GoodIs, SeedGood
<1>6. m <= Len(buf)
  <2> HIDE DEF r, m
  <2> QED BY <1>3, <1>5, <1>10, FitsWithin
<1> HIDE DEF m
<1>7. PICK t : /\ Reads(t, buf, Cells, r, m, ReadItems(r, m, ReadSample))
               /\ \A i \in 1 .. m : t[i] = Step(t[i - 1], ReadSample(t[i - 1]))
  BY <1>5, <1>6, <1>10, SampleItemsRun
<1>8. t[0] = Good(buf, p, <<>>)
  BY <1>7, SeedGood DEF Reads
<1>9. ASSUME NEW i \in 1 .. Len(ss), NEW q \in Nat, NEW h \in Seq(Cells),
             t[i - 1] = Good(buf, q, h), Lies(buf, q, ss[i])
      PROVE  t[i] = Good(buf, q + Len(ss[i]), Append(h, ss[i]))
  <2>1. i \in 1 .. m /\ ss[i] \in Cells /\ Len(ss[i]) = 4
    BY <1>1, ElementIs DEF m
  <2>2. ReadSample(Good(buf, q, h)) = Good(buf, q + Len(ss[i]), ss[i])
    BY <1>9, <2>1, ReadSampleIs
  <2>3. t[i] = Step(t[i - 1], ReadSample(t[i - 1]))
    BY <1>7, <2>1
  <2>4. t[i] = Step(Good(buf, q, h), Good(buf, q + Len(ss[i]), ss[i]))
    BY <1>9, <2>2, <2>3, Zenon
  <2> QED BY <2>4, StepIs
<1>12. t[Len(ss)] = Good(buf, p + Len(FlattenSeq(ss)), ss)
  <2>1. ss \in Seq(Cells)
    BY <1>1
  <2>2. Advances(t, buf, Cells, ss, ss)
    BY <1>9, Zenon DEF Advances
  <2>3. Lies(buf, p, FlattenSeq(ss)) /\ Len(ss) = Len(ss)
    OBVIOUS
  <2> QED BY <1>8, <2>1, <2>2, <2>3, ReadAll
<1>13. t[Len(ss)] = ReadItems(r, m, ReadSample)
  BY <1>7 DEF Reads, m
<1>14. Counted(r, m, 4, ReadSample) = Good(buf, p + Len(FlattenSeq(ss)), ss)
  BY <1>4, <1>12, <1>13, Zenon
<1> QED BY <1>3, <1>14, Zenon DEF m, r

LEMMA ReadSamplesIs ==
    ASSUME NEW buf \in Cells, NEW p \in Nat, NEW g, NEW e \in SamplesEntry,
           Lies(buf, p, EncodeSamples(e))
    PROVE  ReadSamples(Good(buf, p, g)) = Good(buf, p + Len(EncodeSamples(e)), e)
<1> DEFINE a == e.id
<1> DEFINE m == Len(e.samples)
<1> DEFINE b == FlattenSeq(e.samples)
<1> DEFINE id == Take(Good(buf, p, g), 2)
<1> DEFINE n == Take(id, 1)
<1> DEFINE s == Counted(n, n.got[1], 4, ReadSample)
<1>1. /\ e.id \in Pair /\ e.samples \in Seq([1 .. 4 -> Nat])
      /\ e = [id |-> e.id, samples |-> e.samples]
  BY DEF SamplesEntry
<1>2. a \in Cells /\ Len(a) = 2 /\ b \in Cells /\ Len(b) \in Nat /\ m \in Nat
  BY <1>1, PairIsCells, SampleParts DEF Cells
<1>3. ReadSamples(Good(buf, p, g)) = [s EXCEPT !.got = [id |-> id.got, samples |-> s.got]]
  BY Zenon DEF ReadSamples
<1> HIDE DEF a, b, m, id, n
<1> DEFINE c == <<m>>
<1> DEFINE d == a \o c
<1>4. EncodeSamples(e) = d \o b
  BY DEF EncodeSamples, a, b, m
<1>5. c \in Cells /\ Len(c) = 1
  BY <1>2, OneCell
<1> HIDE DEF c
<1>6. d \in Cells /\ Len(d) = 3
  <2>1. a \in Cells /\ c \in Cells
    BY <1>2, <1>5
  <2>2. a \o c \in Cells /\ Len(a \o c) = Len(a) + Len(c)
    BY <2>1, JoinCells
  <2> QED BY <1>2, <1>5, <2>2
<1>18. d = a \o c
  OBVIOUS
<1> HIDE DEF d
<1>19. Lies(buf, p, d \o b)
  BY <1>4
<1>7. Lies(buf, p, d) /\ Lies(buf, p + 3, b) /\ Len(d \o b) = 3 + Len(b)
  <2>1. d \in Cells /\ b \in Cells
    BY <1>2, <1>6
  <2>2. Lies(buf, p, d) /\ Lies(buf, p + Len(d), b) /\ Len(d \o b) = Len(d) + Len(b)
    BY <1>19, <2>1, LiesBoth
  <2> QED BY <1>6, <2>2
<1>20. Lies(buf, p, a \o c)
  BY <1>7, <1>18
<1>8. Lies(buf, p, a) /\ Lies(buf, p + 2, c)
  <2>1. a \in Cells /\ c \in Cells
    BY <1>2, <1>5
  <2>2. Lies(buf, p, a) /\ Lies(buf, p + Len(a), c)
    BY <1>20, <2>1, LiesBoth
  <2> QED BY <1>2, <2>2
<1>9. id = Good(buf, p + 2, a)
  BY <1>1, <1>8, TakePair DEF a, id
<1>10. n = Good(buf, p + 3, c) /\ n.got[1] = m
  <2>1. p + 2 \in Nat /\ p + 2 + 1 = p + 3
    OBVIOUS
  <2>2. Lies(buf, p + 2, <<m>>)
    BY <1>8 DEF c
  <2>3. /\ Take(Good(buf, p + 2, a), 1) = Good(buf, p + 2 + 1, <<m>>)
        /\ Take(Good(buf, p + 2, a), 1).got[1] = m
    BY <1>2, <2>1, <2>2, TakeOne
  <2> QED BY <1>9, <2>1, <2>3 DEF n, c
<1>11. p + 3 \in Nat
  OBVIOUS
<1>12. Counted(Good(buf, p + 3, c), m, 4, ReadSample) = Good(buf, p + 3 + Len(b), e.samples)
  BY <1>1, <1>7, <1>11, ReadValuesIs DEF b, m
<1>13. s = Good(buf, p + 3 + Len(b), e.samples)
  BY <1>10, <1>12, Zenon
<1> HIDE DEF s
<1>14. id.got = a /\ s.got = e.samples
  BY <1>9, <1>13 DEF Good
<1>15. [id |-> id.got, samples |-> s.got] = e
  BY <1>1, <1>14 DEF a
<1>16. ReadSamples(Good(buf, p, g)) = Good(buf, p + 3 + Len(b), e)
  BY <1>3, <1>13, <1>15, GoodGot
<1>17. p + Len(EncodeSamples(e)) = p + 3 + Len(b)
  BY <1>2, <1>4, <1>7
<1> QED BY <1>16, <1>17, Zenon

\* The label sets of entries are sorted.
SortedSeries(es) == \A i \in 1 .. Len(es) : Sorted(es[i].labels)

LEMMA SeriesReadBack ==
    ASSUME NEW buf \in Cells, NEW p \in Nat, NEW g, NEW es \in Seq(SeriesEntry),
           SortedSeries(es), Lies(buf, p, FlattenSeq(SeriesParts(es)))
    PROVE  ReadItems(Good(buf, p, g), Len(es), ReadSeries)
             = Good(buf, p + Len(FlattenSeq(SeriesParts(es))), es)
<1> DEFINE qs == SeriesParts(es)
<1> DEFINE m == Len(es)
<1>1. /\ qs \in Seq(Cells) /\ Len(qs) = m /\ m \in Nat /\ FlattenSeq(qs) \in Cells
      /\ \A i \in 1 .. m : /\ es[i] \in SeriesEntry /\ qs[i] = EncodeSeries(es[i])
                           /\ Len(qs[i]) >= 3
  BY SeriesPartsType
<1>2. Lies(buf, p, FlattenSeq(qs))
  OBVIOUS
<1> HIDE DEF qs
<1> DEFINE r == Good(buf, p, g)
<1>10. m \in Nat
  BY <1>1
<1>3. m <= Len(buf) /\ p \in 0 .. Len(buf)
  <2>1. PICK f : Offsets(f, qs)
    BY <1>1, <1>2, Pieces
  <2>2. \A i \in 1 .. Len(qs) : Len(qs[i]) >= 3
    BY <1>1
  <2>3. 3 * Len(qs) <= Len(FlattenSeq(qs))
    BY <1>1, <2>1, <2>2, AtLeast
  <2>5. /\ Len(FlattenSeq(qs)) \in Nat /\ Len(buf) \in Nat
        /\ p + Len(FlattenSeq(qs)) <= Len(buf)
    BY <1>1, <1>2 DEF Lies, Cells
  <2>4. Len(qs) = m
    BY <1>1
  <2> HIDE DEF m
  <2> QED BY <1>10, <2>3, <2>4, <2>5
<1>5. r \in Readers(buf, {g}) /\ r.ok
  BY <1>3, GoodIs, SeedGood
<1> HIDE DEF m
<1>7. PICK t : /\ Reads(t, buf, SeriesCells, r, m, ReadItems(r, m, ReadSeries))
               /\ \A i \in 1 .. m : t[i] = Step(t[i - 1], ReadSeries(t[i - 1]))
  BY <1>3, <1>5, <1>10, SeriesItemsRun
<1>8. t[0] = Good(buf, p, <<>>)
  BY <1>7, SeedGood DEF Reads
<1>9. ASSUME NEW i \in 1 .. Len(qs), NEW q \in Nat, NEW h \in Seq(SeriesEntry),
             t[i - 1] = Good(buf, q, h), Lies(buf, q, qs[i])
      PROVE  t[i] = Good(buf, q + Len(qs[i]), Append(h, es[i]))
  <2>1. /\ i \in 1 .. m /\ es[i] \in SeriesEntry /\ qs[i] = EncodeSeries(es[i])
        /\ Sorted(es[i].labels)
    BY <1>1 DEF m, SortedSeries
  <2>2. ReadSeries(Good(buf, q, h)) = Good(buf, q + Len(EncodeSeries(es[i])), es[i])
    BY <1>9, <2>1, ReadSeriesIs
  <2>3. t[i] = Step(t[i - 1], ReadSeries(t[i - 1]))
    BY <1>7, <2>1
  <2>4. t[i] = Step(Good(buf, q, h), Good(buf, q + Len(qs[i]), es[i]))
    BY <1>9, <2>1, <2>2, <2>3, Zenon
  <2> QED BY <2>4, StepIs
<1>11. Len(es) = Len(qs)
  BY <1>1 DEF m
<1>12. t[Len(qs)] = Good(buf, p + Len(FlattenSeq(qs)), es)
  <2>1. qs \in Seq(Cells)
    BY <1>1
  <2>2. Advances(t, buf, SeriesEntry, qs, es)
    BY <1>9, Zenon DEF Advances
  <2> QED BY <1>2, <1>8, <1>11, <2>1, <2>2, ReadAll
<1>13. t[Len(qs)] = ReadItems(r, m, ReadSeries)
  BY <1>1, <1>7 DEF Reads
<1> QED BY <1>12, <1>13, Zenon DEF m, r, qs

LEMMA SamplesReadBack ==
    ASSUME NEW buf \in Cells, NEW p \in Nat, NEW g, NEW es \in Seq(SamplesEntry),
           Lies(buf, p, FlattenSeq(SamplesParts(es)))
    PROVE  ReadItems(Good(buf, p, g), Len(es), ReadSamples)
             = Good(buf, p + Len(FlattenSeq(SamplesParts(es))), es)
<1> DEFINE qs == SamplesParts(es)
<1> DEFINE m == Len(es)
<1>1. /\ qs \in Seq(Cells) /\ Len(qs) = m /\ m \in Nat /\ FlattenSeq(qs) \in Cells
      /\ \A i \in 1 .. m : /\ es[i] \in SamplesEntry /\ qs[i] = EncodeSamples(es[i])
                           /\ Len(qs[i]) >= 3
  BY SamplesPartsType
<1>2. Lies(buf, p, FlattenSeq(qs))
  OBVIOUS
<1> HIDE DEF qs
<1> DEFINE r == Good(buf, p, g)
<1>10. m \in Nat
  BY <1>1
<1>3. m <= Len(buf) /\ p \in 0 .. Len(buf)
  <2>1. PICK f : Offsets(f, qs)
    BY <1>1, <1>2, Pieces
  <2>2. \A i \in 1 .. Len(qs) : Len(qs[i]) >= 3
    BY <1>1
  <2>3. 3 * Len(qs) <= Len(FlattenSeq(qs))
    BY <1>1, <2>1, <2>2, AtLeast
  <2>5. /\ Len(FlattenSeq(qs)) \in Nat /\ Len(buf) \in Nat
        /\ p + Len(FlattenSeq(qs)) <= Len(buf)
    BY <1>1, <1>2 DEF Lies, Cells
  <2>4. Len(qs) = m
    BY <1>1
  <2> HIDE DEF m
  <2> QED BY <1>10, <2>3, <2>4, <2>5
<1>5. r \in Readers(buf, {g}) /\ r.ok
  BY <1>3, GoodIs, SeedGood
<1> HIDE DEF m
<1>7. PICK t : /\ Reads(t, buf, SamplesCells, r, m, ReadItems(r, m, ReadSamples))
               /\ \A i \in 1 .. m : t[i] = Step(t[i - 1], ReadSamples(t[i - 1]))
  BY <1>3, <1>5, <1>10, SamplesItemsRun
<1>8. t[0] = Good(buf, p, <<>>)
  BY <1>7, SeedGood DEF Reads
<1>9. ASSUME NEW i \in 1 .. Len(qs), NEW q \in Nat, NEW h \in Seq(SamplesEntry),
             t[i - 1] = Good(buf, q, h), Lies(buf, q, qs[i])
      PROVE  t[i] = Good(buf, q + Len(qs[i]), Append(h, es[i]))
  <2>1. /\ i \in 1 .. m /\ es[i] \in SamplesEntry /\ qs[i] = EncodeSamples(es[i])
    BY <1>1 DEF m
  <2>2. ReadSamples(Good(buf, q, h)) = Good(buf, q + Len(EncodeSamples(es[i])), es[i])
    BY <1>9, <2>1, ReadSamplesIs
  <2>3. t[i] = Step(t[i - 1], ReadSamples(t[i - 1]))
    BY <1>7, <2>1
  <2>4. t[i] = Step(Good(buf, q, h), Good(buf, q + Len(qs[i]), es[i]))
    BY <1>9, <2>1, <2>2, <2>3, Zenon
  <2> QED BY <2>4, StepIs
<1>11. Len(es) = Len(qs)
  BY <1>1 DEF m
<1>12. t[Len(qs)] = Good(buf, p + Len(FlattenSeq(qs)), es)
  <2>1. qs \in Seq(Cells)
    BY <1>1
  <2>2. Advances(t, buf, SamplesEntry, qs, es)
    BY <1>9, Zenon DEF Advances
  <2> QED BY <1>2, <1>8, <1>11, <2>1, <2>2, ReadAll
<1>13. t[Len(qs)] = ReadItems(r, m, ReadSamples)
  BY <1>1, <1>7 DEF Reads
<1> QED BY <1>12, <1>13, Zenon DEF m, r, qs

\* Decoding what was encoded of a batch gives the record of the batch, and no
\* more of the payload is left.
LEMMA DecodeIs ==
    ASSUME NEW b \in Batches
    PROVE  Decode(Payload[b]).ok /\ Decode(Payload[b]).got = RecordOf[b]
<1> DEFINE buf == Payload[b]
<1> DEFINE rec == RecordOf[b]
<1> DEFINE c == Counts(b)
<1> DEFINE s == EncodedSeries(b)
<1> DEFINE m == EncodedSamples(b)
<1> DEFINE c1 == Len(rec.series)
<1> DEFINE c2 == Len(rec.samples)
<1> DEFINE counts == Take(Reader(buf), 2)
<1> DEFINE series == ReadItems(counts, counts.got[1], ReadSeries)
<1> DEFINE samples == ReadItems(series, counts.got[2], ReadSamples)
<1>1. /\ buf = (c \o s) \o m /\ c \in Cells /\ Len(c) = 2 /\ s \in Cells /\ m \in Cells
      /\ buf \in Cells /\ Len(buf) \in Nat
  BY PayloadType
<1>2. /\ rec = [series |-> rec.series, samples |-> rec.samples]
      /\ rec.series \in Seq(SeriesEntry) /\ rec.samples \in Seq(SamplesEntry)
      /\ SortedSeries(rec.series)
  BY RecordType DEF SortedSeries
<1>3. c1 \in Nat /\ c2 \in Nat /\ 3 * c1 <= Len(s) /\ 3 * c2 <= Len(m)
  <2>1. /\ SeriesParts(rec.series) \in Seq(Cells) /\ Len(SeriesParts(rec.series)) = c1
        /\ c1 \in Nat /\ \A i \in 1 .. c1 : Len(SeriesParts(rec.series)[i]) >= 3
    BY <1>2, SeriesPartsType
  <2>2. /\ SamplesParts(rec.samples) \in Seq(Cells) /\ Len(SamplesParts(rec.samples)) = c2
        /\ c2 \in Nat /\ \A i \in 1 .. c2 : Len(SamplesParts(rec.samples)[i]) >= 3
    BY <1>2, SamplesPartsType
  <2> DEFINE u == SeriesParts(rec.series)
  <2> DEFINE v == SamplesParts(rec.samples)
  <2>5. s = FlattenSeq(u) /\ m = FlattenSeq(v)
    BY Zenon DEF EncodedSeries, EncodedSamples
  <2> HIDE DEF c1, c2, u, v, s, m
  <2>3. 3 * Len(u) <= Len(FlattenSeq(u))
    <3>1. u \in Seq(Cells) /\ \A i \in 1 .. Len(u) : Len(u[i]) >= 3
      BY <2>1 DEF u
    <3>2. PICK f : Offsets(f, u)
      BY <3>1, OffsetsExist
    <3> QED BY <3>1, <3>2, AtLeast
  <2>4. 3 * Len(v) <= Len(FlattenSeq(v))
    <3>1. v \in Seq(Cells) /\ \A i \in 1 .. Len(v) : Len(v[i]) >= 3
      BY <2>2 DEF v
    <3>2. PICK f : Offsets(f, v)
      BY <3>1, OffsetsExist
    <3> QED BY <3>1, <3>2, AtLeast
  <2> QED BY <2>1, <2>2, <2>3, <2>4, <2>5 DEF u, v
<1>4. Decode(buf) =
        IF counts.ok /\ Fits(counts, counts.got[1] + counts.got[2], 3)
        THEN [samples EXCEPT !.ok = @ /\ Remaining(samples) = 0,
                             !.got = [series |-> series.got, samples |-> samples.got]]
        ELSE Fail(counts)
  BY Zenon DEF Decode
<1>5. Reader(buf) = Good(buf, 0, <<0>>)
  BY <1>1, ReaderIs
<1>6. c[1] = c1 /\ c[2] = c2
  BY DEF Counts
<1>7. /\ s = FlattenSeq(SeriesParts(rec.series)) /\ m = FlattenSeq(SamplesParts(rec.samples))
  BY Zenon DEF EncodedSeries, EncodedSamples
<1>22. Len(rec.series) = c1 /\ Len(rec.samples) = c2
  OBVIOUS
<1> HIDE DEF buf, rec, c, s, m, counts, c1, c2
<1> DEFINE cs == c \o s
<1>8. cs \in Cells /\ Len(cs) = 2 + Len(s) /\ Len(s) \in Nat
  <2>1. c \in Cells /\ s \in Cells
    BY <1>1
  <2>2. c \o s \in Cells /\ Len(c \o s) = Len(c) + Len(s) /\ Len(s) \in Nat
    BY <2>1, JoinCells
  <2> QED BY <1>1, <2>2
<1> HIDE DEF cs
<1>9. Len(buf) = 2 + Len(s) + Len(m) /\ Len(m) \in Nat
  <2>1. Len(cs \o m) = Len(cs) + Len(m) /\ Len(m) \in Nat
    BY <1>1, <1>8, JoinCells
  <2> QED BY <1>1, <1>8, <2>1 DEF cs
<1> DEFINE z == 0
<1>23. z \in Nat /\ z = 0 /\ z + Len(cs) = 2 + Len(s) /\ z + 2 = 2
  BY <1>8
<1> HIDE DEF z
<1>10. Lies(buf, z, cs) /\ Lies(buf, 2 + Len(s), m)
  <2>1. Lies(buf, z, cs \o m)
    <3>1. buf = cs \o m
      BY <1>1 DEF cs
    <3>2. z + Len(buf) <= Len(buf) /\ \A i \in 1 .. Len(buf) : buf[z + i] = buf[i]
      BY <1>1, <1>23
    <3> QED BY <3>1, <3>2 DEF Lies
  <2>2. cs \in Cells /\ m \in Cells /\ z \in Nat /\ buf \in Cells
    BY <1>1, <1>8, <1>23
  <2>3. Lies(buf, z, cs) /\ Lies(buf, z + Len(cs), m)
    BY <2>1, <2>2, LiesJoin
  <2> QED BY <1>23, <2>3
<1>11. Lies(buf, z, c) /\ Lies(buf, 2, s)
  <2>1. c \in Cells /\ s \in Cells /\ z \in Nat /\ buf \in Cells /\ Len(c) = 2
    BY <1>1, <1>23
  <2>2. Lies(buf, z, c \o s)
    BY <1>10 DEF cs
  <2>3. Lies(buf, z, c) /\ Lies(buf, z + Len(c), s)
    BY <2>1, <2>2, LiesBoth
  <2> QED BY <1>23, <2>1, <2>3
<1>12. counts = Good(buf, 2, c)
  <2> DEFINE g == <<0>>
  <2>2. Reader(buf) = Good(buf, z, g)
    BY <1>5, <1>23
  <2> HIDE DEF g
  <2>3. c \in Cells /\ z \in Nat /\ buf \in Cells /\ Len(c) = 2
    BY <1>1, <1>23
  <2>1. Take(Good(buf, z, g), Len(c)) = Good(buf, z + Len(c), c)
    BY <1>11, <2>3, TakeIs
  <2> QED BY <1>23, <2>1, <2>2, <2>3 DEF counts
<1>13. counts.ok /\ counts.got[1] = c1 /\ counts.got[2] = c2
  BY <1>6, <1>12 DEF Good
<1>14. Fits(counts, c1 + c2, 3)
  <2>1. 3 * (c1 + c2) <= Len(s) + Len(m) /\ c1 + c2 \in Nat /\ Len(s) + Len(m) \in Nat
        /\ 2 + (Len(s) + Len(m)) <= Len(buf)
    BY <1>3, <1>8, <1>9
  <2> DEFINE n == c1 + c2
  <2> DEFINE k == Len(s) + Len(m)
  <2>2. n \in Nat /\ k \in Nat /\ 3 * n <= k /\ 2 + k <= Len(buf) /\ buf \in Cells
    BY <1>1, <2>1
  <2> HIDE DEF n, k
  <2>3. Fits(Good(buf, 2, c), n, 3)
    BY <2>2, FitsThere
  <2> QED BY <1>12, <2>3 DEF n
<1>15. series = Good(buf, 2 + Len(s), rec.series)
  <2> DEFINE es == rec.series
  <2>1. /\ es \in Seq(SeriesEntry) /\ SortedSeries(es) /\ buf \in Cells
        /\ Lies(buf, 2, FlattenSeq(SeriesParts(es))) /\ s = FlattenSeq(SeriesParts(es))
    BY <1>1, <1>2, <1>7, <1>11
  <2>2. Len(es) = c1
    BY <1>22
  <2> HIDE DEF es
  <2>3. ReadItems(Good(buf, 2, c), Len(es), ReadSeries)
          = Good(buf, 2 + Len(FlattenSeq(SeriesParts(es))), es)
    BY <2>1, SeriesReadBack
  <2>4. series = Good(buf, 2 + Len(s), es)
    BY <1>12, <1>13, <2>1, <2>2, <2>3, Zenon
  <2> QED BY <2>4 DEF es
<1> HIDE DEF series
<1>16. samples = Good(buf, 2 + Len(s) + Len(m), rec.samples)
  <2> DEFINE es == rec.samples
  <2> DEFINE q == 2 + Len(s)
  <2>1. /\ es \in Seq(SamplesEntry) /\ buf \in Cells /\ q \in Nat
        /\ Lies(buf, q, FlattenSeq(SamplesParts(es))) /\ m = FlattenSeq(SamplesParts(es))
    BY <1>1, <1>2, <1>7, <1>8, <1>10
  <2>2. Len(es) = c2
    BY <1>22
  <2>5. series = Good(buf, q, rec.series)
    BY <1>15
  <2> HIDE DEF es, q
  <2>3. ReadItems(Good(buf, q, rec.series), Len(es), ReadSamples)
          = Good(buf, q + Len(FlattenSeq(SamplesParts(es))), es)
    BY <2>1, SamplesReadBack
  <2>4. samples = Good(buf, q + Len(m), es)
    BY <1>13, <2>1, <2>2, <2>3, <2>5, Zenon
  <2> QED BY <2>4 DEF es, q
<1> HIDE DEF samples
<1>17. samples.ok = TRUE /\ samples.got = rec.samples /\ series.got = rec.series
  BY <1>15, <1>16 DEF Good
<1>18. Remaining(samples) = 0
  <2>1. samples.buf = buf /\ samples.pos = Len(buf)
    BY <1>9, <1>16 DEF Good
  <2> QED BY <1>1, <2>1 DEF Remaining
<1>19. Decode(buf) =
         [samples EXCEPT !.ok = @ /\ Remaining(samples) = 0,
                         !.got = [series |-> series.got, samples |-> samples.got]]
  BY <1>4, <1>13, <1>14, Zenon
<1>20. DOMAIN samples = {"buf", "pos", "ok", "got", "reserved"}
  BY <1>16 DEF Good
<1>21. Decode(buf).ok /\ Decode(buf).got = [series |-> series.got, samples |-> samples.got]
  BY <1>17, <1>18, <1>19, <1>20
<1> QED BY <1>2, <1>17, <1>21 DEF buf, rec

-----------------------------------------------------------------------------
(* Types. *)

TypeInv ==
    /\ pc \in {"up", "reading", "opened", "refused"}
    /\ segments \in Seq(Cells) /\ logged \in Seq(Seq(Batches))
    /\ Len(logged) = Len(segments) /\ Len(segments) \in 1 .. MaxSegments
    /\ at \in 1 .. Len(segments) /\ offset \in Nat
    /\ stops \in 0 .. MaxStops /\ damage \in {"none", "seen", "unseen"}

\* The parts of TypeInv that are about the files, once the rest is unchanged.
LEMMA FilesType ==
    ASSUME TypeInv, NEW i \in 1 .. Len(segments), NEW cells \in Cells,
           NEW bs \in Seq(Batches)
    PROVE  /\ [segments EXCEPT ![i] = cells] \in Seq(Cells)
           /\ [logged EXCEPT ![i] = bs] \in Seq(Seq(Batches))
           /\ Len([segments EXCEPT ![i] = cells]) = Len(segments)
           /\ Len([logged EXCEPT ![i] = bs]) = Len(segments)
           /\ segments[i] \in Cells /\ logged[i] \in Seq(Batches)
BY DEF TypeInv

LEMMA InitType == Init => TypeInv /\ reserved = 0
BY FramingAssumption DEF Init, TypeInv, Cells

LEMMA LastIs ==
    ASSUME TypeInv
    PROVE  /\ Len(segments) \in 1 .. Len(segments) /\ LastSegment = Len(segments)
           /\ Len(segments) \in Nat
BY DEF TypeInv, LastSegment

LEMMA WriteType ==
    ASSUME TypeInv, NEW b \in Batches, Write(b)
    PROVE  TypeInv' /\ reserved' = reserved
<1> DEFINE l == LastSegment
<1>1. l \in 1 .. Len(segments)
  BY LastIs
<1>2. segments[l] \in Cells /\ logged[l] \in Seq(Batches)
  BY <1>1 DEF TypeInv
<1>3. segments[l] \o Encoded[b] \in Cells
  BY <1>2, EncodedType, JoinCells
<1>4. Append(logged[l], b) \in Seq(Batches)
  BY <1>2
<1>5. /\ segments' = [segments EXCEPT ![l] = segments[l] \o Encoded[b]]
      /\ logged' = [logged EXCEPT ![l] = Append(logged[l], b)]
      /\ pc' = pc /\ at' = at /\ offset' = offset /\ reserved' = reserved
      /\ stops' = stops /\ damage' = damage
  BY DEF Write, replay
<1> HIDE DEF l
<1>6. /\ segments' \in Seq(Cells) /\ logged' \in Seq(Seq(Batches))
      /\ Len(segments') = Len(segments) /\ Len(logged') = Len(segments)
  BY <1>1, <1>3, <1>4, <1>5, FilesType
<1> QED BY <1>5, <1>6 DEF TypeInv

LEMMA AppendIs ==
    ASSUME NEW S, NEW s \in Seq(S), NEW x \in S
    PROVE  Append(s, x) \in Seq(S) /\ Len(Append(s, x)) = Len(s) + 1
OBVIOUS

LEMMA CreateType ==
    ASSUME TypeInv, CreateSegment
    PROVE  TypeInv' /\ reserved' = reserved
<1>1. /\ segments' = Append(segments, <<>>) /\ logged' = Append(logged, <<>>)
      /\ Len(segments) < MaxSegments /\ pc' = "up" /\ at' = at /\ offset' = offset
      /\ reserved' = reserved /\ stops' = stops /\ damage' = damage
  BY DEF CreateSegment, replay, LastSegment
<1>2. <<>> \in Cells /\ <<>> \in Seq(Batches)
  BY DEF Cells
<1>5. segments \in Seq(Cells) /\ logged \in Seq(Seq(Batches))
  BY DEF TypeInv
<1>6. segments' \in Seq(Cells) /\ Len(segments') = Len(segments) + 1
  BY <1>1, <1>2, <1>5, AppendIs
<1>7. logged' \in Seq(Seq(Batches)) /\ Len(logged') = Len(logged) + 1
  BY <1>1, <1>2, <1>5, AppendIs
<1>3. /\ segments' \in Seq(Cells) /\ logged' \in Seq(Seq(Batches))
      /\ Len(segments') = Len(segments) + 1 /\ Len(logged') = Len(segments) + 1
  BY <1>6, <1>7 DEF TypeInv
<1>4. Len(segments') \in 1 .. MaxSegments /\ at' \in 1 .. Len(segments')
  BY <1>1, <1>3, FramingAssumption DEF TypeInv
<1> QED BY <1>1, <1>3, <1>4 DEF TypeInv

\* What a stop may leave of the last segment.
Left(n, zeros) == SubSeq(segments[LastSegment], 1, n) \o [z \in 1 .. zeros |-> 0]

LEMMA LeftType ==
    ASSUME TypeInv, NEW n \in 0 .. Len(segments[LastSegment]), NEW zeros \in Nat
    PROVE  Left(n, zeros) \in Cells
<1> DEFINE s == segments[LastSegment]
<1>1. s \in Cells
  BY LastIs DEF TypeInv
<1>4. n \in 0 .. Len(s)
  OBVIOUS
<1> HIDE DEF s
<1>2. SubSeq(s, 1, n) \in Cells
  BY <1>1, <1>4, Split DEF Cells
<1>3. [z \in 1 .. zeros |-> 0] \in Cells
  BY FunctionLen DEF Cells
<1> QED BY <1>2, <1>3, JoinCells DEF Left, s

LEMMA StopType ==
    ASSUME TypeInv, NEW n \in 0 .. Len(segments[LastSegment]), NEW z \in ZeroTails,
           StopAndOpen(n, z)
    PROVE  TypeInv' /\ reserved' = 0
<1> DEFINE l == LastSegment
<1> DEFINE is == Left(n, z)
<1> DEFINE bs == SubSeq(logged[l], 1, WholeIn(logged[l], is))
<1>1. l \in 1 .. Len(segments) /\ 1 \in 1 .. Len(segments)
  BY LastIs
<1>2. logged[l] \in Seq(Batches)
  BY <1>1 DEF TypeInv
<1>3. is \in Cells
  BY LeftType, FramingAssumption
<1>4. /\ segments' = [segments EXCEPT ![l] = is] /\ logged' = [logged EXCEPT ![l] = bs]
      /\ pc' = "reading" /\ at' = 1 /\ offset' = 0 /\ reserved' = 0
      /\ stops < MaxStops /\ stops' = stops + 1 /\ damage' = damage
  BY DEF StopAndOpen, StartReading, Left
<1> HIDE DEF is
<1>5. WholeIn(logged[l], is) \in 0 .. Len(logged[l])
  BY <1>2, <1>3, WholeIs
<1>6. bs \in Seq(Batches)
  BY <1>2, <1>5, Split
<1> HIDE DEF l, bs
<1>7. /\ segments' \in Seq(Cells) /\ logged' \in Seq(Seq(Batches))
      /\ Len(segments') = Len(segments) /\ Len(logged') = Len(segments)
  BY <1>1, <1>3, <1>4, <1>6, FilesType
<1>8. stops' \in 0 .. MaxStops
  BY <1>4, FramingAssumption DEF TypeInv
<1> QED BY <1>1, <1>4, <1>7, <1>8 DEF TypeInv

LEMMA DamageType ==
    ASSUME TypeInv, NEW s \in 1 .. LastSegment, NEW c \in BadCells,
           NEW n \in 1 .. Len(segments[s]), DamageCell(s, n, c) \/ DamageUnseen(s, n, c)
    PROVE  TypeInv' /\ reserved' = reserved
<1> DEFINE was == segments[s]
<1> DEFINE is == [was EXCEPT ![n] = c]
<1> DEFINE payload == SubSeq(is, HeaderLen + 1, Len(was))
<1>1. s \in 1 .. Len(segments) /\ was \in Cells /\ c \in Nat
  BY LastIs, FramingAssumption DEF TypeInv
<1>2. is \in Cells /\ Len(is) = Len(was) /\ Len(was) \in Nat
  BY <1>1 DEF Cells
<1>3. CASE DamageCell(s, n, c)
  <2>1. /\ segments' = [segments EXCEPT ![s] = is] /\ logged' = logged
        /\ pc' = pc /\ at' = at /\ offset' = offset /\ reserved' = reserved
        /\ stops' = stops /\ damage' = "seen"
    BY <1>1, <1>3 DEF DamageCell, replay, TypeInv
  <2> HIDE DEF was, is
  <2>2. segments' \in Seq(Cells) /\ Len(segments') = Len(segments)
    BY <1>1, <1>2, <2>1 DEF TypeInv
  <2> QED BY <2>1, <2>2 DEF TypeInv
<1>4. CASE DamageUnseen(s, n, c)
  <2>1. /\ segments' = [segments EXCEPT ![s] = Header(payload) \o payload]
        /\ logged' = logged
        /\ pc' = pc /\ at' = at /\ offset' = offset /\ reserved' = reserved
        /\ stops' = stops /\ damage' = "unseen" /\ n > HeaderLen
    BY <1>1, <1>4 DEF DamageUnseen, replay, TypeInv
  <2>a. is[n] = is[n]
    OBVIOUS
  <2> HIDE DEF is
  <2>2. payload \in Cells
    <3>1. HeaderLen \in 0 .. Len(is)
      BY <1>2, <2>1 DEF HeaderLen
    <3> QED BY <1>2, <3>1, Split DEF Cells
  <2> HIDE DEF was, payload
  <2>3. Header(payload) \o payload \in Cells
    BY <2>2, HeaderType, JoinCells
  <2>4. segments' \in Seq(Cells) /\ Len(segments') = Len(segments)
    BY <1>1, <2>1, <2>3 DEF TypeInv
  <2> QED BY <2>1, <2>4 DEF TypeInv
<1> QED BY <1>3, <1>4

\* What is left to read of a segment.
LEMMA RestType ==
    ASSUME TypeInv
    PROVE  /\ segments[at] \in Cells /\ Rest \in Cells /\ Len(segments[at]) \in Nat
           /\ Rest # <<>> => /\ offset < Len(segments[at]) /\ PayloadLen \in Nat
                             /\ Len(Rest) = Len(segments[at]) - offset
<1> DEFINE s == segments[at]
<1>1. s \in Cells /\ offset \in Nat /\ Len(s) \in Nat
  BY DEF TypeInv, Cells
<1>2. Rest = SubSeq(s, offset + 1, Len(s))
  BY DEF Rest
<1> HIDE DEF s
<1>3. CASE offset <= Len(s)
  <2>1. offset \in 0 .. Len(s)
    BY <1>1, <1>3
  <2>2. Rest \in Cells /\ Len(Rest) = Len(s) - offset
    BY <1>1, <1>2, <2>1, Split DEF Cells
  <2>3. ASSUME Rest # <<>> PROVE offset < Len(s) /\ PayloadLen \in Nat
    <3>1. Len(Rest) # 0 /\ Len(Rest) \in Nat
      BY <2>2, <2>3 DEF Cells
    <3>2. 1 \in 1 .. Len(Rest)
      BY <3>1
    <3>3. Rest[1] \in Nat
      BY <2>2, <3>2, ElementIs DEF Cells
    <3> QED BY <1>1, <2>2, <3>1, <3>3 DEF PayloadLen
  <2> QED BY <1>1, <2>2, <2>3 DEF s
<1>4. CASE ~(offset <= Len(s))
  <2>1. Rest = <<>> /\ <<>> \in Cells
    BY <1>1, <1>2, <1>4 DEF Cells
  <2> QED BY <1>1, <2>1 DEF s
<1> QED BY <1>3, <1>4

\* The payload of a record that is whole.
LEMMA ReadableIs ==
    ASSUME TypeInv, Rest # <<>>, Readable
    PROVE  /\ PayloadRead \in Cells /\ Len(PayloadRead) = PayloadLen /\ PayloadLen \in Nat
           /\ offset + HeaderLen + PayloadLen <= Len(segments[at])
<1>1. /\ Rest \in Cells /\ PayloadLen \in Nat /\ offset \in Nat /\ Len(segments[at]) \in Nat
      /\ Len(Rest) = Len(segments[at]) - offset /\ Len(Rest) \in Nat
  BY RestType DEF TypeInv, Cells
<1>2. Len(Rest) - 3 >= PayloadLen
  BY Zenon DEF Readable, BeginsRecord, PayloadLen, HeaderLen
<1>3. 3 + PayloadLen <= Len(Rest)
  BY <1>1, <1>2
<1>4. PayloadRead \in Cells /\ Len(PayloadRead) = PayloadLen
  <2> DEFINE s == Rest
  <2> DEFINE n == PayloadLen
  <2>1. PayloadRead = SubSeq(s, HeaderLen + 1, HeaderLen + n)
    BY Zenon DEF PayloadRead, PayloadOf, PayloadLen
  <2>2. s \in Seq(Nat) /\ n \in Nat /\ HeaderLen \in Nat /\ HeaderLen + n <= Len(s)
    BY <1>1, <1>3 DEF HeaderLen, Cells
  <2> HIDE DEF s, n
  <2>3. PayloadRead \in Seq(Nat) /\ Len(PayloadRead) = n
    BY <2>1, <2>2, MiddleIs
  <2> QED BY <2>3 DEF n, Cells
<1> QED BY <1>1, <1>3, <1>4 DEF HeaderLen

LEMMA DeliverType ==
    ASSUME TypeInv, reserved = 0, Deliver
    PROVE  TypeInv' /\ reserved' = 0
<1> DEFINE d == Decode(PayloadRead)
<1>1. PayloadRead \in Cells /\ PayloadLen \in Nat
  BY ReadableIs DEF Deliver
<1>2. d.reserved = 0
  BY <1>1, DecodeReserves
<1>3. /\ reserved' = Max({reserved, d.reserved})
      /\ \/ offset' = offset + HeaderLen + PayloadLen /\ pc' = pc
         \/ offset' = offset /\ pc' = "refused"
      /\ segments' = segments /\ at' = at /\ logged' = logged /\ stops' = stops
      /\ damage' = damage
  BY DEF Deliver
<1> HIDE DEF d
<1>4. reserved' = 0
  <2>1. {reserved, d.reserved} = 0 .. 0
    BY <1>2
  <2> QED BY <1>3, <2>1, MaxIsTop
<1>5. offset' \in Nat
  BY <1>1, <1>3 DEF TypeInv, HeaderLen
<1> QED BY <1>3, <1>4, <1>5 DEF TypeInv

LEMMA EndType ==
    ASSUME TypeInv, EndOfSegment
    PROVE  TypeInv' /\ reserved' = reserved
<1>1. /\ \/ at < Len(segments) /\ at' = at + 1 /\ offset' = 0 /\ pc' = pc
         \/ pc' = "opened" /\ at' = at /\ offset' = offset
      /\ segments' = segments /\ logged' = logged /\ reserved' = reserved
      /\ stops' = stops /\ damage' = damage
  BY DEF EndOfSegment, LastSegment
<1>2. at' \in 1 .. Len(segments) /\ offset' \in Nat
  BY <1>1 DEF TypeInv
<1> QED BY <1>1, <1>2 DEF TypeInv

LEMMA RepairType ==
    ASSUME TypeInv, Repair
    PROVE  TypeInv' /\ reserved' = reserved
<1> DEFINE cs == SubSeq(segments[at], 1, offset)
<1> DEFINE bs == SubSeq(logged[at], 1, WholeRead)
<1>1. /\ segments' = [segments EXCEPT ![at] = cs] /\ logged' = [logged EXCEPT ![at] = bs]
      /\ pc' = "opened" /\ at' = at /\ offset' = offset /\ reserved' = reserved
      /\ stops' = stops /\ damage' = damage
  BY DEF Repair, replay
<1>2. at \in 1 .. Len(segments) /\ logged[at] \in Seq(Batches)
  BY DEF TypeInv
<1>3. cs \in Cells
  <2>1. offset \in 0 .. Len(segments[at]) /\ segments[at] \in Cells
    BY RestType DEF Repair, Unreadable, TypeInv
  <2> QED BY <2>1, Split DEF Cells
<1>4. bs \in Seq(Batches)
  <2>1. WholeRead \in 0 .. Len(logged[at])
    BY <1>2, <1>3, WholeIs DEF WholeRead
  <2> QED BY <1>2, <2>1, Split
<1> HIDE DEF cs, bs
<1>5. /\ segments' \in Seq(Cells) /\ logged' \in Seq(Seq(Batches))
      /\ Len(segments') = Len(segments) /\ Len(logged') = Len(segments)
  BY <1>1, <1>2, <1>3, <1>4, FilesType
<1> QED BY <1>1, <1>5 DEF TypeInv

LEMMA RefuseType ==
    ASSUME TypeInv, Refuse
    PROVE  TypeInv' /\ reserved' = reserved
BY DEF TypeInv, Refuse, replay

\* Every step keeps the types, and that nothing was reserved in excess.
LEMMA TypeStep ==
    ASSUME TypeInv, reserved = 0, [Next]_vars
    PROVE  TypeInv' /\ reserved' = 0
<1>1. ASSUME NEW b \in Batches, Write(b) PROVE TypeInv' /\ reserved' = 0
  BY <1>1, WriteType
<1>2. ASSUME CreateSegment PROVE TypeInv' /\ reserved' = 0
  BY <1>2, CreateType
<1>3. ASSUME NEW n \in 0 .. Len(segments[LastSegment]), NEW z \in ZeroTails,
             StopAndOpen(n, z)
      PROVE  TypeInv' /\ reserved' = 0
  BY <1>3, StopType
<1>4. ASSUME NEW s \in 1 .. LastSegment, NEW c \in BadCells,
             NEW n \in 1 .. Len(segments[s]), DamageCell(s, n, c) \/ DamageUnseen(s, n, c)
      PROVE  TypeInv' /\ reserved' = 0
  BY <1>4, DamageType
<1>5. ASSUME Deliver PROVE TypeInv' /\ reserved' = 0
  BY <1>5, DeliverType
<1>6. ASSUME EndOfSegment PROVE TypeInv' /\ reserved' = 0
  BY <1>6, EndType
<1>7. ASSUME Repair PROVE TypeInv' /\ reserved' = 0
  BY <1>7, RepairType
<1>8. ASSUME Refuse PROVE TypeInv' /\ reserved' = 0
  BY <1>8, RefuseType
<1>9. ASSUME UNCHANGED vars PROVE TypeInv' /\ reserved' = 0
  BY <1>9 DEF vars, TypeInv
<1> QED BY <1>1, <1>2, <1>3, <1>4, <1>5, <1>6, <1>7, <1>8, <1>9 DEF Next

LEMMA TypeHolds == Spec => [](TypeInv /\ reserved = 0)
<1>1. Init => TypeInv /\ reserved = 0
  BY InitType
<1>2. (TypeInv /\ reserved = 0) /\ [Next]_vars => (TypeInv /\ reserved = 0)'
  BY TypeStep
<1> QED BY <1>1, <1>2, PTL DEF Spec

\* The state of the log and of its replay is always of its type, for any batches
\* and any bounds: replay never runs past the last of the segments.
THEOREM TypeCorrect == Spec => []TypeOK
<1>1. TypeInv => TypeOK
  BY DEF TypeInv, TypeOK, LastSegment
<1> QED BY <1>1, TypeHolds, PTL

\* Whatever the payload holds, decode reserves no capacity beyond its length
\* (codec.rs:23, 114, 129): for any cells, any batches and any damage, the
\* counts that are read are checked against what is left before they are used.
THEOREM Reserves == Spec => []ReservesWhatIsThere
<1>1. reserved = 0 => ReservesWhatIsThere
  BY DEF ReservesWhatIsThere
<1> QED BY <1>1, TypeHolds, PTL

\* What decode makes of the payload of a batch is its record, whatever the
\* batch: the encoder (codec.rs:46-82) and the decoder (codec.rs:106-148) agree
\* on every count, and reading the labels sorts what is sorted already.
THEOREM RoundTrip ==
    \A b \in Batches : Decode(Payload[b]).ok /\ Decode(Payload[b]).got = RecordOf[b]
BY DecodeIs

-----------------------------------------------------------------------------
(* Beginnings of sequences. *)

LEMMA BeginIs ==
    ASSUME NEW S, NEW a \in Seq(S), NEW t \in Seq(S)
    PROVE  /\ a \o t \in Seq(S) /\ Len(a \o t) = Len(a) + Len(t)
           /\ SubSeq(a \o t, 1, Len(a)) = a
           /\ SubSeq(a \o t, Len(a) + 1, Len(a \o t)) = t
           /\ IsPrefix(a, a \o t)
<1> DEFINE c == a \o t
<1>1. /\ c \in Seq(S) /\ Len(c) = Len(a) + Len(t) /\ Len(a) \in Nat /\ Len(t) \in Nat
      /\ \A i \in 1 .. Len(a) : c[i] = a[i]
      /\ \A i \in 1 .. Len(t) : c[Len(a) + i] = t[i]
  BY JoinIs
<1> HIDE DEF c
<1> DEFINE x == SubSeq(c, 1, Len(a))
<1> DEFINE y == SubSeq(c, Len(a) + 1, Len(c))
<1>2. Len(a) \in 0 .. Len(c)
  BY <1>1
<1>3. /\ x \in Seq(S) /\ Len(x) = Len(a) /\ \A i \in 1 .. Len(a) : x[i] = c[i]
      /\ y \in Seq(S) /\ Len(y) = Len(c) - Len(a)
      /\ \A i \in 1 .. Len(c) - Len(a) : y[i] = c[Len(a) + i]
  BY <1>1, <1>2, Split
<1> HIDE DEF x, y
<1>4. x = a
  <2>1. \A i \in 1 .. Len(x) : x[i] = a[i]
    BY <1>1, <1>3
  <2> QED BY <1>3, <2>1, SameSeq
<1>5. y = t
  <2>1. Len(y) = Len(t)
    BY <1>1, <1>3
  <2>2. \A i \in 1 .. Len(y) : y[i] = t[i]
    BY <1>1, <1>3
  <2> QED BY <1>3, <2>1, <2>2, SameSeq
<1>6. SubSeq(a, 1, Len(a)) = a
  OBVIOUS
<1>7. IsPrefix(a, c)
  BY <1>1, <1>4, <1>6 DEF IsPrefix, x
<1> QED BY <1>1, <1>4, <1>5, <1>7 DEF c, x, y

LEMMA Cancel ==
    ASSUME NEW S, NEW a \in Seq(S), NEW x \in Seq(S), NEW y \in Seq(S), a \o x = a \o y
    PROVE  x = y
<1>1. SubSeq(a \o x, Len(a) + 1, Len(a \o x)) = x
  BY BeginIs
<1>2. SubSeq(a \o y, Len(a) + 1, Len(a \o y)) = y
  BY BeginIs
<1> QED BY <1>1, <1>2

LEMMA SplitJoin ==
    ASSUME NEW S, NEW c \in Seq(S), NEW n \in 0 .. Len(c)
    PROVE  SubSeq(c, 1, n) \o SubSeq(c, n + 1, Len(c)) = c
<1> DEFINE a == SubSeq(c, 1, n)
<1> DEFINE t == SubSeq(c, n + 1, Len(c))
<1>1. /\ a \in Seq(S) /\ Len(a) = n /\ \A i \in 1 .. n : a[i] = c[i]
      /\ t \in Seq(S) /\ Len(t) = Len(c) - n /\ Len(c) \in Nat
      /\ \A i \in 1 .. Len(c) - n : t[i] = c[n + i]
  BY Split
<1> HIDE DEF a, t
<1> DEFINE x == a \o t
<1>2. a \in Seq(S) /\ t \in Seq(S)
  BY <1>1
<1>3. /\ x \in Seq(S) /\ Len(x) = Len(a) + Len(t)
      /\ \A i \in 1 .. Len(a) : x[i] = a[i]
      /\ \A i \in 1 .. Len(t) : x[Len(a) + i] = t[i]
  BY <1>2, JoinIs
<1> HIDE DEF x
<1>4. ASSUME NEW i \in 1 .. Len(x) PROVE x[i] = c[i]
  <2>1. CASE i <= n
    BY <1>1, <1>3, <2>1
  <2>2. CASE ~(i <= n)
    <3> DEFINE m == i - n
    <3>1. m \in 1 .. Len(t) /\ i = n + m
      BY <1>1, <1>3, <2>2
    <3> HIDE DEF m
    <3>2. x[n + m] = t[m] /\ t[m] = c[n + m]
      BY <1>1, <1>3, <3>1
    <3> QED BY <3>1, <3>2
  <2> QED BY <2>1, <2>2
<1>5. x = c
  <2>1. Len(x) = Len(c)
    BY <1>1, <1>3
  <2> QED BY <1>3, <1>4, <2>1, SameSeq
<1> QED BY <1>5 DEF x, a, t

LEMMA PrefixSplit ==
    ASSUME NEW S, NEW a \in Seq(S), NEW c \in Seq(S), IsPrefix(a, c)
    PROVE  \E t \in Seq(S) : c = a \o t
<1> DEFINE x == SubSeq(c, 1, Len(a))
<1> DEFINE t == SubSeq(c, Len(a) + 1, Len(c))
<1>1. Len(a) \in 0 .. Len(c)
  BY DEF IsPrefix
<1>2. SubSeq(a, 1, Len(a)) = a
  OBVIOUS
<1>3. x = a
  BY <1>2 DEF IsPrefix
<1>4. t \in Seq(S)
  BY <1>1, Split
<1>5. x \o t = c
  BY <1>1, SplitJoin
<1> QED BY <1>3, <1>4, <1>5

\* The beginning of a beginning.
LEMMA SubBegin ==
    ASSUME NEW S, NEW s \in Seq(S), NEW m \in 0 .. Len(s), NEW n \in 0 .. m
    PROVE  SubSeq(SubSeq(s, 1, m), 1, n) = SubSeq(s, 1, n)
<1> DEFINE t == SubSeq(s, 1, m)
<1> DEFINE x == SubSeq(t, 1, n)
<1> DEFINE y == SubSeq(s, 1, n)
<1>1. t \in Seq(S) /\ Len(t) = m /\ \A i \in 1 .. m : t[i] = s[i]
  BY Split
<1>4. n \in 0 .. Len(s)
  OBVIOUS
<1>2. y \in Seq(S) /\ Len(y) = n /\ \A i \in 1 .. n : y[i] = s[i]
  BY <1>4, Split
<1> HIDE DEF t
<1>5. n \in 0 .. Len(t)
  BY <1>1
<1>3. x \in Seq(S) /\ Len(x) = n /\ \A i \in 1 .. n : x[i] = t[i]
  BY <1>1, <1>5, Split
<1> HIDE DEF x, y
<1>6. \A i \in 1 .. Len(x) : x[i] = y[i]
  BY <1>1, <1>2, <1>3, SMTT(30)
<1>7. x = y
  BY <1>2, <1>3, <1>6, SameSeq
<1> QED BY <1>7 DEF x, y, t

\* The beginning of two sequences in one.
LEMMA CutJoin ==
    ASSUME NEW S, NEW a \in Seq(S), NEW t \in Seq(S), NEW n \in 0 .. Len(a) + Len(t)
    PROVE  /\ n <= Len(a) => SubSeq(a \o t, 1, n) = SubSeq(a, 1, n)
           /\ Len(a) <= n => SubSeq(a \o t, 1, n) = a \o SubSeq(t, 1, n - Len(a))
<1> DEFINE c == a \o t
<1> DEFINE x == SubSeq(c, 1, n)
<1>1. /\ c \in Seq(S) /\ Len(c) = Len(a) + Len(t) /\ Len(a) \in Nat /\ Len(t) \in Nat
      /\ \A i \in 1 .. Len(a) : c[i] = a[i]
      /\ \A i \in 1 .. Len(t) : c[Len(a) + i] = t[i]
  BY JoinIs
<1> HIDE DEF c
<1>2. n \in 0 .. Len(c)
  BY <1>1
<1>3. x \in Seq(S) /\ Len(x) = n /\ \A i \in 1 .. n : x[i] = c[i]
  BY <1>1, <1>2, Split
<1> HIDE DEF x
<1>4. ASSUME n <= Len(a) PROVE x = SubSeq(a, 1, n)
  <2> DEFINE y == SubSeq(a, 1, n)
  <2>1. n \in 0 .. Len(a)
    BY <1>1, <1>4
  <2>2. y \in Seq(S) /\ Len(y) = n /\ \A i \in 1 .. n : y[i] = a[i]
    BY <2>1, Split
  <2> HIDE DEF y
  <2>5. Len(x) <= Len(a)
    BY <1>3, <1>4
  <2>6. \A i \in 1 .. Len(x) : i \in 1 .. Len(a) /\ i \in 1 .. n
    BY <1>1, <1>3, <2>5
  <2>3. \A i \in 1 .. Len(x) : x[i] = y[i]
    BY <1>1, <1>3, <2>2, <2>6, Zenon
  <2>4. x = y
    BY <1>3, <2>2, <2>3, SameSeq
  <2> QED BY <2>4 DEF y
<1>5. ASSUME Len(a) <= n PROVE x = a \o SubSeq(t, 1, n - Len(a))
  <2> DEFINE k == n - Len(a)
  <2> DEFINE u == SubSeq(t, 1, k)
  <2> DEFINE y == a \o u
  <2>1. k \in 0 .. Len(t) /\ n = Len(a) + k
    BY <1>1, <1>5
  <2> HIDE DEF k
  <2>2. u \in Seq(S) /\ Len(u) = k /\ \A i \in 1 .. k : u[i] = t[i]
    BY <2>1, Split
  <2> HIDE DEF u
  <2>a. u \in Seq(S)
    BY <2>2
  <2>3. /\ y \in Seq(S) /\ Len(y) = Len(a) + Len(u)
        /\ \A i \in 1 .. Len(a) : y[i] = a[i]
        /\ \A i \in 1 .. Len(u) : y[Len(a) + i] = u[i]
    BY <2>a, JoinIs
  <2> HIDE DEF y
  <2>4. ASSUME NEW i \in 1 .. Len(x) PROVE x[i] = y[i]
    <3>1. CASE i <= Len(a)
      <4>1. i \in 1 .. Len(a) /\ i \in 1 .. n
        BY <1>1, <1>3, <3>1
      <4> QED BY <1>1, <1>3, <2>3, <4>1, Zenon
    <3>2. CASE ~(i <= Len(a))
      <4> DEFINE m == i - Len(a)
      <4>1. m \in 1 .. k /\ i = Len(a) + m
        BY <1>1, <1>3, <2>1, <3>2
      <4> HIDE DEF m
      <4>2. c[Len(a) + m] = t[m] /\ y[Len(a) + m] = u[m] /\ u[m] = t[m]
        BY <1>1, <2>1, <2>2, <2>3, <4>1
      <4> QED BY <1>3, <4>1, <4>2
    <3> QED BY <3>1, <3>2
  <2>5. x = y
    BY <1>3, <2>1, <2>2, <2>3, <2>4, SameSeq
  <2> QED BY <2>5 DEF y, u, k
<1> QED BY <1>4, <1>5 DEF x, c

-----------------------------------------------------------------------------
(* Records one after the other. *)

LEMMA CellsJoin ==
    ASSUME NEW a \in Cells, NEW b \in Cells, NEW c \in Cells
    PROVE  (a \o b) \o c = a \o (b \o c)
BY JoinJoin DEF Cells

LEMMA CellsJoinIs ==
    ASSUME NEW a \in Cells, NEW b \in Cells
    PROVE  /\ a \o b \in Cells /\ Len(a \o b) = Len(a) + Len(b)
           /\ Len(a) \in Nat /\ Len(b) \in Nat
           /\ \A i \in 1 .. Len(a) : (a \o b)[i] = a[i]
           /\ \A i \in 1 .. Len(b) : (a \o b)[Len(a) + i] = b[i]
BY JoinIs DEF Cells

LEMMA EncodedAllType == \A bs \in Seq(Batches) : EncodedAll(bs) \in Cells
BY BatchPartsType

LEMMA EncodedJoin ==
    ASSUME NEW xs \in Seq(Batches), NEW ys \in Seq(Batches)
    PROVE  EncodedAll(xs \o ys) = EncodedAll(xs) \o EncodedAll(ys)
<1> DEFINE P(i) == EncodedAll(xs \o SubSeq(ys, 1, i))
                       = EncodedAll(xs) \o EncodedAll(SubSeq(ys, 1, i))
<1> DEFINE G == {i \in 0 .. Len(ys) : P(i)}
<1>1. 0 \in G
  <2>1. SubSeq(ys, 1, 0) = <<>> /\ 0 \in 0 .. Len(ys)
    OBVIOUS
  <2>2. xs \o <<>> = xs
    BY JoinNone
  <2>3. EncodedAll(xs) \o <<>> = EncodedAll(xs)
    BY EncodedAllType, JoinNone DEF Cells
  <2> QED BY <2>1, <2>2, <2>3, EncodedNone
<1>2. ASSUME NEW i \in 1 .. Len(ys), i - 1 \in G PROVE i \in G
  <2> DEFINE c == SubSeq(ys, 1, i - 1)
  <2> DEFINE d == SubSeq(ys, 1, i)
  <2> DEFINE b == ys[i]
  <2>1. c \in Seq(Batches) /\ d = Append(c, b)
    BY BeginMore
  <2>2. b \in Batches
    BY ElementIs
  <2>3. EncodedAll(xs \o c) = EncodedAll(xs) \o EncodedAll(c)
    BY <1>2
  <2> HIDE DEF c, b
  <2> DEFINE xc == xs \o c
  <2>4. xs \o Append(c, b) = Append(xc, b) /\ xc \in Seq(Batches)
    BY <2>1, <2>2, JoinMore, JoinIs
  <2> HIDE DEF xc
  <2>5. EncodedAll(Append(xc, b)) = EncodedAll(xc) \o Encoded[b]
    BY <2>2, <2>4, EncodedMore
  <2>6. EncodedAll(Append(c, b)) = EncodedAll(c) \o Encoded[b]
    BY <2>1, <2>2, EncodedMore
  <2> DEFINE ex == EncodedAll(xs)
  <2> DEFINE ec == EncodedAll(c)
  <2> DEFINE eb == Encoded[b]
  <2>7. ex \in Cells /\ ec \in Cells /\ eb \in Cells
    BY <2>1, <2>2, EncodedAllType, EncodedType
  <2> HIDE DEF ex, ec, eb
  <2>10. (ex \o ec) \o eb = ex \o (ec \o eb)
    BY <2>7, CellsJoin
  <2>8. (EncodedAll(xs) \o EncodedAll(c)) \o Encoded[b]
            = EncodedAll(xs) \o (EncodedAll(c) \o Encoded[b])
    BY <2>10 DEF ex, ec, eb
  <2>9. EncodedAll(xs \o d) = EncodedAll(xs) \o EncodedAll(d)
    BY <2>1, <2>3, <2>4, <2>5, <2>6, <2>8, Zenon DEF xc
  <2> QED BY <2>9
<1>3. Len(ys) \in Nat
  OBVIOUS
<1> HIDE DEF G
<1>4. Len(ys) \in G
  BY <1>1, <1>2, <1>3, UpTo
<1> USE DEF G
<1>5. SubSeq(ys, 1, Len(ys)) = ys
  OBVIOUS
<1> QED BY <1>4, <1>5

LEMMA EncodedSplit ==
    ASSUME NEW bs \in Seq(Batches), NEW j \in 0 .. Len(bs)
    PROVE  /\ SubSeq(bs, 1, j) \in Seq(Batches) /\ Len(SubSeq(bs, 1, j)) = j
           /\ SubSeq(bs, j + 1, Len(bs)) \in Seq(Batches)
           /\ Len(SubSeq(bs, j + 1, Len(bs))) = Len(bs) - j
           /\ EncodedAll(bs) = EncodedAll(SubSeq(bs, 1, j))
                                   \o EncodedAll(SubSeq(bs, j + 1, Len(bs)))
<1> DEFINE x == SubSeq(bs, 1, j)
<1> DEFINE y == SubSeq(bs, j + 1, Len(bs))
<1>1. /\ x \in Seq(Batches) /\ y \in Seq(Batches)
      /\ Len(x) = j /\ Len(y) = Len(bs) - j
  BY Split
<1>2. x \o y = bs
  BY SplitJoin
<1> HIDE DEF x, y
<1>3. EncodedAll(x \o y) = EncodedAll(x) \o EncodedAll(y)
  BY <1>1, EncodedJoin
<1> QED BY <1>1, <1>2, <1>3 DEF x, y

\* The j-th record, what is before it and what is after it.
LEMMA EncodedAt ==
    ASSUME NEW bs \in Seq(Batches), NEW j \in 1 .. Len(bs)
    PROVE  /\ bs[j] \in Batches
           /\ SubSeq(bs, 1, j - 1) \in Seq(Batches)
           /\ SubSeq(bs, 1, j) = Append(SubSeq(bs, 1, j - 1), bs[j])
           /\ EncodedAll(SubSeq(bs, 1, j)) = EncodedAll(SubSeq(bs, 1, j - 1)) \o Encoded[bs[j]]
           /\ EncodedAll(bs) = EncodedAll(SubSeq(bs, 1, j - 1))
                  \o (Encoded[bs[j]] \o EncodedAll(SubSeq(bs, j + 1, Len(bs))))
<1> DEFINE x == SubSeq(bs, 1, j - 1)
<1> DEFINE y == SubSeq(bs, 1, j)
<1> DEFINE z == SubSeq(bs, j + 1, Len(bs))
<1> DEFINE b == bs[j]
<1>1. b \in Batches
  BY ElementIs
<1>2. x \in Seq(Batches) /\ y = Append(x, b)
  BY BeginMore
<1>3. j \in 0 .. Len(bs)
  OBVIOUS
<1>4. z \in Seq(Batches) /\ EncodedAll(bs) = EncodedAll(y) \o EncodedAll(z)
  BY <1>3, EncodedSplit
<1> HIDE DEF x, y, z, b
<1>5. EncodedAll(y) = EncodedAll(x) \o Encoded[b]
  BY <1>1, <1>2, EncodedMore
<1> DEFINE ex == EncodedAll(x)
<1> DEFINE ez == EncodedAll(z)
<1> DEFINE eb == Encoded[b]
<1>6. ex \in Cells /\ ez \in Cells /\ eb \in Cells
  BY <1>1, <1>2, <1>4, EncodedAllType, EncodedType
<1> HIDE DEF ex, ez, eb
<1>7. (ex \o eb) \o ez = ex \o (eb \o ez)
  BY <1>6, CellsJoin
<1>8. EncodedAll(bs) = EncodedAll(x) \o (Encoded[b] \o EncodedAll(z))
  BY <1>4, <1>5, <1>7, Zenon DEF ex, ez, eb
<1> QED BY <1>1, <1>2, <1>5, <1>8, Zenon DEF x, y, z, b

\* A place in the cells of some records is at the end or within one of them.
LEMMA PlaceIn ==
    ASSUME NEW bs \in Seq(Batches), NEW n \in 0 .. Len(EncodedAll(bs))
    PROVE  \/ n = Len(EncodedAll(bs))
           \/ \E j \in 1 .. Len(bs) :
                 /\ Len(EncodedAll(SubSeq(bs, 1, j - 1))) <= n
                 /\ n < Len(EncodedAll(SubSeq(bs, 1, j - 1))) + Len(Encoded[bs[j]])
<1> DEFINE e(i) == Len(EncodedAll(SubSeq(bs, 1, i)))
<1> DEFINE P == {i \in 0 .. Len(bs) : e(i) <= n}
<1>1. Len(bs) \in Nat /\ P \in SUBSET (0 .. Len(bs))
  OBVIOUS
<1>2. 0 \in P
  <2>1. SubSeq(bs, 1, 0) = <<>>
    OBVIOUS
  <2>3. EncodedAll(SubSeq(bs, 1, 0)) = <<>>
    BY <2>1, EncodedNone
  <2>2. e(0) = 0
    BY <2>3
  <2> QED BY <1>1, <2>2
<1> DEFINE m == Max(P)
<1>3. m \in P /\ \A i \in P : i <= m
  <2> HIDE DEF P
  <2> QED BY <1>1, <1>2, MaxFrom
<1> HIDE DEF m
<1>4. m \in 0 .. Len(bs) /\ e(m) <= n
  BY <1>3
<1>5. CASE m = Len(bs)
  <2>1. SubSeq(bs, 1, Len(bs)) = bs
    OBVIOUS
  <2>2. Len(EncodedAll(bs)) <= n
    BY <1>4, <1>5, <2>1
  <2>3. Len(EncodedAll(bs)) \in Nat
    BY EncodedAllType DEF Cells
  <2>4. n = Len(EncodedAll(bs))
    BY <2>2, <2>3
  <2> QED BY <2>4
<1>6. CASE m # Len(bs)
  <2> DEFINE j == m + 1
  <2>1. j \in 1 .. Len(bs) /\ m = j - 1 /\ j \in 0 .. Len(bs) /\ ~(j <= m)
    BY <1>1, <1>4, <1>6
  <2>2. j \notin P
    BY <1>3, <2>1
  <2> HIDE DEF j
  <2>3. ~(e(j) <= n)
    BY <2>1, <2>2
  <2>4. EncodedAll(SubSeq(bs, 1, j)) = EncodedAll(SubSeq(bs, 1, j - 1)) \o Encoded[bs[j]]
    BY <2>1, EncodedAt
  <2>5. EncodedAll(SubSeq(bs, 1, j - 1)) \in Cells /\ Encoded[bs[j]] \in Cells
    BY <2>1, EncodedAt, EncodedAllType, EncodedType
  <2>6. e(j) = Len(EncodedAll(SubSeq(bs, 1, j - 1))) + Len(Encoded[bs[j]]) /\ e(j) \in Nat
    BY <2>4, <2>5, JoinCells DEF Cells
  <2>7. Len(EncodedAll(SubSeq(bs, 1, j - 1))) <= n
    BY <1>4, <2>1
  <2>9. n \in Nat
    BY EncodedAllType DEF Cells
  <2> HIDE DEF e
  <2>11. e(j) \in Nat
    BY <2>6
  <2>8. n < e(j)
    BY <2>3, <2>9, <2>11
  <2>10. n < Len(EncodedAll(SubSeq(bs, 1, j - 1))) + Len(Encoded[bs[j]])
    BY <2>6, <2>8
  <2> QED BY <2>1, <2>7, <2>10, Zenon
<1> QED BY <1>5, <1>6

-----------------------------------------------------------------------------
(* What is taken for a record. *)

LEMMA PayloadAt ==
    ASSUME NEW c \in Cells, NEW p \in Cells, Lies(c, 3, p), c[1] = Len(p)
    PROVE  PayloadOf(c) = p
<1>1. SubSeq(c, 3 + 1, 3 + Len(p)) = p
  BY LiesIs
<1>2. PayloadOf(c) = SubSeq(c, 3 + 1, 3 + Len(p))
  BY Zenon DEF PayloadOf, HeaderLen
<1> QED BY <1>1, <1>2

\* The cells begin with the record of b.
StartsWith(cells, b) ==
    /\ cells[1] = Len(Payload[b]) /\ PayloadOf(cells) = Payload[b]
    /\ Len(cells) >= Len(Encoded[b]) /\ (Len(Payload[b]) <= MaxCells => BeginsRecord(cells))

LEMMA RecordStarts ==
    ASSUME NEW b \in Batches, NEW t \in Cells
    PROVE  StartsWith(Encoded[b] \o t, b)
<1> DEFINE p == Payload[b]
<1> DEFINE h == Header(p)
<1> DEFINE e == Encoded[b]
<1> DEFINE c == e \o t
<1>1. p \in Cells /\ Len(p) \in Nat
  BY PayloadType
<1>2. /\ h \in Cells /\ Len(h) = 3 /\ h[1] = Len(p) /\ h[3] = WriteKind
      /\ h[2] = RecordCrc(WriteKind, Len(p), p)
  BY <1>1, HeaderType
<1>3. e = h \o p /\ e \in Cells /\ Len(e) = 3 + Len(p)
  BY EncodedType DEF HeaderLen
<1>4. /\ \A i \in 1 .. Len(h) : (h \o p)[i] = h[i]
      /\ \A i \in 1 .. Len(p) : (h \o p)[Len(h) + i] = p[i]
  <2> HIDE DEF h, p
  <2>1. h \in Cells /\ p \in Cells
    BY <1>1, <1>2
  <2> QED BY <2>1, CellsJoinIs
<1>5. /\ \A i \in 1 .. 3 : e[i] = h[i]
      /\ \A i \in 1 .. Len(p) : e[3 + i] = p[i]
  BY <1>2, <1>3, <1>4, Zenon
<1> HIDE DEF p, h, e
<1>6. /\ c \in Cells /\ Len(c) = Len(e) + Len(t) /\ Len(t) \in Nat
      /\ \A i \in 1 .. Len(e) : c[i] = e[i]
  <2>1. e \in Cells
    BY <1>3
  <2> QED BY <2>1, CellsJoinIs
<1> HIDE DEF c
<1>7. c[1] = h[1] /\ c[2] = h[2] /\ c[3] = h[3]
  BY <1>1, <1>3, <1>5, <1>6
<1>8. ASSUME NEW i \in 1 .. Len(p) PROVE c[3 + i] = p[i]
  <2>1. 3 + i \in 1 .. Len(e)
    BY <1>1, <1>3
  <2> QED BY <1>5, <1>6, <2>1
<1>9. Lies(c, 3, p)
  BY <1>1, <1>3, <1>6, <1>8 DEF Lies
<1>10. c[1] = Len(p)
  BY <1>2, <1>7
<1>11. PayloadOf(c) = p
  BY <1>1, <1>6, <1>9, <1>10, PayloadAt
<1>12. Len(c) \in Nat /\ Len(c) >= Len(e) /\ Len(c) - 3 >= Len(p) /\ Len(c) >= 3
  BY <1>1, <1>3, <1>6
<1>13. RecordCrc(c[3], c[1], PayloadOf(c)) = c[2]
  BY <1>2, <1>7, <1>10, <1>11, Zenon
<1>14. c[3] = WriteKind
  BY <1>2, <1>7
<1>15. ASSUME Len(p) <= MaxCells PROVE BeginsRecord(c)
  <2>1. c[1] <= MaxCells /\ Len(c) - 3 >= c[1]
    BY <1>10, <1>12, <1>15, Zenon
  <2> QED BY <1>12, <1>13, <1>14, <2>1, Zenon DEF BeginsRecord, HeaderLen
<1>16. StartsWith(c, b)
  BY <1>10, <1>11, <1>12, <1>15, Zenon DEF StartsWith, p, e
<1> QED BY <1>16 DEF c, e

\* What is a record stays one when there is more behind it.
LEMMA MoreBehind ==
    ASSUME NEW a \in Cells, NEW t \in Cells, BeginsRecord(a)
    PROVE  BeginsRecord(a \o t)
<1> DEFINE c == a \o t
<1> DEFINE p == PayloadOf(a)
<1>1. /\ Len(a) >= 3 /\ a[3] = WriteKind /\ a[1] <= MaxCells /\ Len(a) - 3 >= a[1]
      /\ RecordCrc(a[3], a[1], p) = a[2]
  BY Zenon DEF BeginsRecord, HeaderLen
<1>2. Len(a) \in Nat
  BY DEF Cells
<1>3. a[1] \in Nat
  <2>1. 1 \in 1 .. Len(a)
    BY <1>1, <1>2
  <2> QED BY <2>1, ElementIs DEF Cells
<1> DEFINE n == a[1]
<1>4. n \in Nat /\ 3 + n <= Len(a)
  BY <1>1, <1>2, <1>3
<1>5. p = SubSeq(a, HeaderLen + 1, HeaderLen + n)
  BY Zenon DEF PayloadOf
<1> HIDE DEF n, p
<1>6. p \in Cells /\ Len(p) = n /\ \A i \in 1 .. n : p[i] = a[3 + i]
  <2>1. HeaderLen \in Nat /\ HeaderLen + n <= Len(a) /\ HeaderLen = 3
    BY <1>4 DEF HeaderLen
  <2>2. p \in Cells /\ Len(p) = n /\ \A i \in 1 .. n : p[i] = a[HeaderLen + i]
    BY <1>4, <1>5, <2>1, MiddleIs DEF Cells
  <2> QED BY <2>1, <2>2
<1>7. /\ c \in Cells /\ Len(c) = Len(a) + Len(t) /\ Len(t) \in Nat
      /\ \A i \in 1 .. Len(a) : c[i] = a[i]
  BY CellsJoinIs
<1> HIDE DEF c
<1>8. c[1] = a[1] /\ c[2] = a[2] /\ c[3] = a[3]
  BY <1>1, <1>2, <1>7
<1>9. ASSUME NEW i \in 1 .. Len(p) PROVE c[3 + i] = p[i]
  <2>1. 3 + i \in 1 .. Len(a) /\ i \in 1 .. n
    BY <1>2, <1>4, <1>6
  <2> QED BY <1>6, <1>7, <2>1
<1>10. Lies(c, 3, p)
  BY <1>2, <1>4, <1>6, <1>7, <1>9 DEF Lies
<1>11. c[1] = Len(p)
  BY <1>6, <1>8 DEF n
<1>12. PayloadOf(c) = p
  BY <1>6, <1>7, <1>10, <1>11, PayloadAt
<1>13. Len(c) >= 3 /\ Len(c) - 3 >= n
  BY <1>2, <1>4, <1>7
<1>14. c[1] <= MaxCells /\ Len(c) - 3 >= c[1] /\ RecordCrc(c[3], c[1], PayloadOf(c)) = c[2]
  BY <1>1, <1>8, <1>12, <1>13, Zenon DEF n
<1>15. BeginsRecord(c)
  BY <1>1, <1>8, <1>13, <1>14, Zenon DEF BeginsRecord, HeaderLen
<1> QED BY <1>15 DEF c

\* Zeros are none: the checksum of nothing is not zero.
LEMMA ZerosCrc == RecordCrc(0, 0, <<>>) # 0
<1> DEFINE q == <<0, 0>> \o <<>>
<1>1. <<>> \in Cells
  BY DEF Cells
<1>2. PICK r : Run(r, Nat, Nat, 1, MixF, q) /\ r[Len(q)] = RecordCrc(0, 0, <<>>)
  BY <1>1, CrcRun
<1>3. Len(q) = 2 /\ q[1] = 0 /\ q[2] = 0
  OBVIOUS
<1> HIDE DEF q
<1>4. r[0] = 1 /\ r[1 - 1] \in Nat /\ r[1] = MixF[<<r[1 - 1], 0>>]
  <2>1. 1 \in 1 .. Len(q)
    BY <1>3
  <2>2. r[0] = 1 /\ r[1 - 1] \in Nat /\ r[1] = MixF[<<r[1 - 1], q[1]>>]
    BY <1>2, <2>1, Zenon DEF Run
  <2> QED BY <1>3, <2>2
<1>5. r[2 - 1] \in Nat /\ r[2] = MixF[<<r[2 - 1], 0>>]
  <2>1. 2 \in 1 .. Len(q)
    BY <1>3
  <2>2. r[2 - 1] \in Nat /\ r[2] = MixF[<<r[2 - 1], q[2]>>]
    BY <1>2, <2>1, Zenon DEF Run
  <2> QED BY <1>3, <2>2
<1>6. r[1] = Mix(1, 0)
  <2>1. 1 - 1 = 0
    OBVIOUS
  <2>2. r[1] = MixF[<<1, 0>>]
    BY <1>4, <2>1
  <2> QED BY <2>2, MixFIs
<1>7. Mix(1, 0) = 7
  BY DEF Mix, Modulus
<1>8. r[2] = Mix(7, 0)
  <2>1. 2 - 1 = 1
    OBVIOUS
  <2>2. r[2] = MixF[<<7, 0>>]
    BY <1>5, <1>6, <1>7, <2>1
  <2> QED BY <2>2, MixFIs
<1>9. Mix(7, 0) = 49
  BY DEF Mix, Modulus
<1> QED BY <1>2, <1>3, <1>8, <1>9

AllZero(cells) == \A i \in 1 .. Len(cells) : cells[i] = 0

LEMMA ZerosAreNone ==
    ASSUME NEW c \in Cells, AllZero(c)
    PROVE  ~BeginsRecord(c) /\ \A b \in Batches : ~IsPrefix(Encoded[b], c)
<1>1. Len(c) \in Nat
  BY DEF Cells
<1>2. ASSUME BeginsRecord(c) PROVE FALSE
  <2>1. Len(c) >= 3 /\ RecordCrc(c[3], c[1], PayloadOf(c)) = c[2]
    BY <1>2, Zenon DEF BeginsRecord, HeaderLen
  <2>2. c[1] = 0 /\ c[2] = 0 /\ c[3] = 0
    BY <1>1, <2>1 DEF AllZero
  <2>3. <<>> \in Cells /\ Len(<<>>) = 0
    BY DEF Cells
  <2>4. Lies(c, 3, <<>>)
    BY <1>1, <2>1 DEF Lies
  <2>5. PayloadOf(c) = <<>>
    BY <2>2, <2>3, <2>4, PayloadAt
  <2> QED BY <2>1, <2>2, <2>5, ZerosCrc
<1>3. ASSUME NEW b \in Batches, IsPrefix(Encoded[b], c) PROVE FALSE
  <2>1. Encoded[b] \in Cells
    BY EncodedType
  <2>2. PICK t \in Cells : c = Encoded[b] \o t
    BY <1>3, <2>1, PrefixSplit DEF Cells
  <2>3. StartsWith(c, b)
    BY <2>2, RecordStarts
  <2>4. /\ c[1] = Len(Payload[b]) /\ Len(c) >= Len(Encoded[b])
        /\ Len(Encoded[b]) = 3 + Len(Payload[b]) /\ Len(Payload[b]) \in Nat
        /\ Len(Payload[b]) >= 2
    BY <2>3, EncodedType, PayloadType DEF StartsWith, HeaderLen
  <2>5. 1 \in 1 .. Len(c)
    BY <1>1, <2>4
  <2>6. c[1] = 0
    BY <2>5 DEF AllZero
  <2> QED BY <2>4, <2>6
<1> QED BY <1>2, <1>3

\* The beginning of a record is none.
LEMMA TornIsNone ==
    ASSUME NEW b \in Batches, NEW k \in 0 .. Len(Encoded[b]) - 1
    PROVE  /\ SubSeq(Encoded[b], 1, k) \in Cells /\ Len(SubSeq(Encoded[b], 1, k)) = k
           /\ ~BeginsRecord(SubSeq(Encoded[b], 1, k))
<1> DEFINE e == Encoded[b]
<1> DEFINE c == SubSeq(e, 1, k)
<1> DEFINE none == <<>>
<1>1. e \in Cells /\ Len(e) = 3 + Len(Payload[b]) /\ Len(Payload[b]) \in Nat
  BY EncodedType, PayloadType DEF HeaderLen
<1>2. none \in Cells /\ e \o none = e
  <2> HIDE DEF e
  <2> QED BY <1>1, JoinNone DEF Cells
<1> HIDE DEF none
<1>3. StartsWith(e \o none, b)
  BY <1>2, RecordStarts
<1>4. e[1] = Len(Payload[b])
  BY <1>2, <1>3 DEF StartsWith
<1> HIDE DEF e
<1>5. k \in 0 .. Len(e) /\ k < Len(e) /\ k \in Nat
  BY <1>1 DEF e
<1>6. c \in Cells /\ Len(c) = k /\ \A i \in 1 .. k : c[i] = e[i]
  BY <1>1, <1>5, Split, ZenonT(40) DEF Cells
<1> HIDE DEF c
<1>7. ASSUME BeginsRecord(c) PROVE FALSE
  <2>1. Len(c) >= 3 /\ Len(c) - 3 >= c[1]
    BY <1>7, Zenon DEF BeginsRecord, HeaderLen
  <2>2. c[1] = Len(Payload[b])
    BY <1>4, <1>5, <1>6, <2>1
  <2> QED BY <1>1, <1>5, <1>6, <2>1, <2>2
<1> QED BY <1>6, <1>7 DEF c, e

-----------------------------------------------------------------------------
(* Where the records of a file end. *)

\* The cells hold the first g of bs whole; what is behind them, J, is not taken
\* for a record, and does not hold the next one.
Breaks(cells, bs, g, J) ==
    /\ g \in 0 .. Len(bs) /\ J \in Cells
    /\ cells = EncodedAll(SubSeq(bs, 1, g)) \o J /\ ~BeginsRecord(J)
    /\ g < Len(bs) => ~IsPrefix(Encoded[bs[g + 1]], J)

IsCut(cells, bs) == \E J : Breaks(cells, bs, Len(bs), J)

LEMMA CellsBegin ==
    ASSUME NEW a \in Cells, NEW t \in Cells
    PROVE  /\ SubSeq(a \o t, 1, Len(a)) = a /\ SubSeq(a \o t, Len(a) + 1, Len(a \o t)) = t
           /\ IsPrefix(a, a \o t)
BY BeginIs DEF Cells

LEMMA CellsPrefix ==
    ASSUME NEW e \in Cells, NEW c \in Cells, IsPrefix(e, c)
    PROVE  \E t \in Cells : c = e \o t
BY PrefixSplit DEF Cells

LEMMA PrefixJoin ==
    ASSUME NEW e \in Cells, NEW c \in Cells, NEW t \in Cells, IsPrefix(e, c)
    PROVE  IsPrefix(e, c \o t)
<1>1. PICK u \in Cells : c = e \o u
  BY CellsPrefix
<1>2. (e \o u) \o t = e \o (u \o t)
  BY CellsJoin
<1> DEFINE v == u \o t
<1>3. v \in Cells
  BY CellsJoinIs
<1> HIDE DEF v
<1>4. IsPrefix(e, e \o v)
  BY <1>3, BeginIs DEF Cells
<1> QED BY <1>1, <1>2, <1>4 DEF v

LEMMA WholeExact ==
    ASSUME NEW bs \in Seq(Batches), NEW cells \in Cells, NEW g \in 0 .. Len(bs),
           NEW J \in Cells, cells = EncodedAll(SubSeq(bs, 1, g)) \o J,
           g < Len(bs) => ~IsPrefix(Encoded[bs[g + 1]], J)
    PROVE  WholeIn(bs, cells) = g
<1> DEFINE w == WholeIn(bs, cells)
<1> DEFINE x == SubSeq(bs, 1, w)
<1> DEFINE f == SubSeq(bs, 1, g)
<1>1. /\ w \in 0 .. Len(bs) /\ IsPrefix(EncodedAll(x), cells)
      /\ IsPrefix(EncodedAll(f), cells) => g <= w
  BY WholeIs
<1>2. f \in Seq(Batches) /\ Len(f) = g
  BY EncodedSplit
<1>3. EncodedAll(f) \in Cells
  BY <1>2, EncodedAllType
<1> HIDE DEF w
<1>4. x \in Seq(Batches) /\ Len(x) = w /\ \A i \in 1 .. w : x[i] = bs[i]
  BY <1>1, Split
<1>5. IsPrefix(EncodedAll(f), cells)
  <2> DEFINE a == EncodedAll(f)
  <2>1. a \in Cells /\ cells = a \o J
    BY <1>3
  <2> HIDE DEF a
  <2>2. IsPrefix(a, a \o J)
    BY <2>1, BeginIs DEF Cells
  <2> QED BY <2>1, <2>2 DEF a
<1>6. g <= w
  BY <1>1, <1>5
<1>7. ASSUME g # w PROVE FALSE
  <2> DEFINE j == g + 1
  <2>1. /\ j \in 1 .. w /\ j - 1 = g /\ g < Len(bs) /\ g \in 0 .. w /\ w \in 0 .. Len(bs)
        /\ j \in 1 .. Len(x)
    BY <1>1, <1>4, <1>6, <1>7
  <2>2. ~IsPrefix(Encoded[bs[j]], J)
    BY <2>1
  <2> HIDE DEF j
  <2>3. SubSeq(x, 1, g) = f
    BY <2>1, SubBegin
  <2>4. x[j] = bs[j]
    BY <1>4, <2>1
  <2> HIDE DEF x, f
  <2> DEFINE e == Encoded[x[j]]
  <2> DEFINE z == EncodedAll(SubSeq(x, j + 1, Len(x)))
  <2> DEFINE a == EncodedAll(f)
  <2>5. EncodedAll(x) = EncodedAll(SubSeq(x, 1, j - 1)) \o (e \o z) /\ x[j] \in Batches
    BY <1>4, <2>1, EncodedAt
  <2>6. EncodedAll(x) = a \o (e \o z)
    BY <2>1, <2>3, <2>5
  <2>7. e \in Cells
    BY <2>5, EncodedType
  <2>8. z \in Cells
    <3>1. j \in 0 .. Len(x)
      BY <2>1
    <3>2. SubSeq(x, j + 1, Len(x)) \in Seq(Batches)
      BY <1>4, <3>1, EncodedSplit
    <3> QED BY <3>2, EncodedAllType
  <2>9. EncodedAll(x) \in Cells
    BY <1>4, EncodedAllType
  <2> DEFINE ax == EncodedAll(x)
  <2>18. ax \in Cells /\ IsPrefix(ax, cells)
    BY <1>1, <2>9 DEF x
  <2> HIDE DEF ax
  <2>10. PICK t \in Cells : cells = ax \o t
    BY <2>18, CellsPrefix
  <2>11. a \in Cells /\ cells = a \o J
    BY <1>3 DEF f
  <2> HIDE DEF e, z, a
  <2> DEFINE ez == e \o z
  <2>12. ez \in Cells /\ IsPrefix(e, ez)
    BY <2>7, <2>8, BeginIs DEF Cells
  <2>13. cells = (a \o ez) \o t
    BY <2>6, <2>10 DEF ax
  <2> HIDE DEF ez
  <2>14. (a \o ez) \o t = a \o (ez \o t)
    BY <2>11, <2>12, CellsJoin
  <2> DEFINE r == ez \o t
  <2>15. r \in Cells /\ IsPrefix(e, r)
    BY <2>7, <2>12, PrefixJoin, CellsJoinIs
  <2>16. a \o J = a \o r
    BY <2>11, <2>13, <2>14
  <2> HIDE DEF r
  <2>17. J = r
    BY <2>11, <2>15, <2>16, Cancel DEF Cells
  <2> QED BY <2>2, <2>4, <2>15, <2>17 DEF e
<1> QED BY <1>7 DEF w

\* What a stop leaves is cut where the records that are whole end.
LEMMA CutHere ==
    ASSUME NEW bs \in Seq(Batches), NEW cells \in Cells, NEW g, NEW J,
           Breaks(cells, bs, g, J)
    PROVE  WholeIn(bs, cells) = g /\ IsCut(cells, SubSeq(bs, 1, WholeIn(bs, cells)))
<1> DEFINE f == SubSeq(bs, 1, g)
<1>1. /\ g \in 0 .. Len(bs) /\ J \in Cells /\ cells = EncodedAll(f) \o J
      /\ ~BeginsRecord(J) /\ (g < Len(bs) => ~IsPrefix(Encoded[bs[g + 1]], J))
  BY DEF Breaks
<1>2. WholeIn(bs, cells) = g
  BY <1>1, WholeExact
<1>3. f \in Seq(Batches) /\ Len(f) = g /\ g \in Nat
  BY <1>1, Split
<1> HIDE DEF f
<1>4. SubSeq(f, 1, Len(f)) = f
  BY <1>3
<1>5. Len(f) \in 0 .. Len(f) /\ ~(Len(f) < Len(f))
  BY <1>3
<1>6. Breaks(cells, f, Len(f), J)
  BY <1>1, <1>4, <1>5, Zenon DEF Breaks
<1> QED BY <1>2, <1>6 DEF IsCut, f

\* A place before the end is within a record.
LEMMA PlaceCut ==
    ASSUME NEW bs \in Seq(Batches), NEW n \in 0 .. Len(EncodedAll(bs)),
           n # Len(EncodedAll(bs))
    PROVE  \E j \in 1 .. Len(bs) : \E k \in 0 .. Len(Encoded[bs[j]]) - 1 :
              /\ n = Len(EncodedAll(SubSeq(bs, 1, j - 1))) + k
              /\ SubSeq(EncodedAll(bs), 1, n)
                     = EncodedAll(SubSeq(bs, 1, j - 1)) \o SubSeq(Encoded[bs[j]], 1, k)
<1> DEFINE a == EncodedAll(bs)
<1>1. PICK j \in 1 .. Len(bs) :
          /\ Len(EncodedAll(SubSeq(bs, 1, j - 1))) <= n
          /\ n < Len(EncodedAll(SubSeq(bs, 1, j - 1))) + Len(Encoded[bs[j]])
  BY PlaceIn
<1> DEFINE p == EncodedAll(SubSeq(bs, 1, j - 1))
<1> DEFINE e == Encoded[bs[j]]
<1> DEFINE z == EncodedAll(SubSeq(bs, j + 1, Len(bs)))
<1>2. j \in 0 .. Len(bs) /\ n \in Nat
  BY EncodedAllType DEF Cells
<1>3. bs[j] \in Batches /\ a = p \o (e \o z) /\ SubSeq(bs, 1, j - 1) \in Seq(Batches)
  BY EncodedAt
<1>4. SubSeq(bs, j + 1, Len(bs)) \in Seq(Batches)
  BY <1>2, EncodedSplit
<1>5. p \in Cells /\ z \in Cells /\ e \in Cells
  BY <1>3, <1>4, EncodedAllType, EncodedType
<1>6. Len(p) <= n /\ n < Len(p) + Len(e)
  BY <1>1
<1> HIDE DEF p, z, e
<1> DEFINE ez == e \o z
<1>7. ez \in Cells /\ Len(ez) = Len(e) + Len(z)
  BY <1>5, CellsJoinIs
<1>8. a = p \o ez
  BY <1>3
<1> HIDE DEF ez, a
<1> DEFINE k == n - Len(p)
<1> DEFINE lp == Len(p)
<1> DEFINE le == Len(e)
<1> DEFINE lz == Len(z)
<1>9. lp \in Nat /\ le \in Nat /\ lz \in Nat /\ lp <= n /\ n < lp + le
  BY <1>5, <1>6 DEF Cells
<1> HIDE DEF lp, le, lz
<1>10. /\ n - lp \in 0 .. le - 1 /\ n - lp \in 0 .. le + lz /\ n - lp <= le
       /\ n \in 0 .. lp + (le + lz) /\ n = lp + (n - lp)
  BY <1>2, <1>9
<1>11. /\ k \in 0 .. Len(e) - 1 /\ k \in 0 .. Len(e) + Len(z) /\ k <= Len(e)
       /\ n \in 0 .. Len(p) + Len(ez) /\ n = Len(p) + k
  BY <1>7, <1>10, Zenon DEF lp, le, lz
<1>12. SubSeq(a, 1, n) = p \o SubSeq(ez, 1, k)
  BY <1>5, <1>6, <1>7, <1>8, <1>11, CutJoin DEF Cells
<1> HIDE DEF k
<1>13. SubSeq(ez, 1, k) = SubSeq(e, 1, k)
  BY <1>5, <1>11, CutJoin DEF Cells, ez
<1>14. SubSeq(a, 1, n) = p \o SubSeq(e, 1, k)
  BY <1>12, <1>13
<1> QED BY <1>11, <1>14, Zenon DEF a, p, e

LEMMA StopCuts ==
    ASSUME NEW bs \in Seq(Batches), NEW cells \in Cells, NEW g, NEW J,
           Breaks(cells, bs, g, J), NEW n \in 0 .. Len(cells)
    PROVE  \E h, K : Breaks(SubSeq(cells, 1, n), bs, h, K)
<1> DEFINE f == SubSeq(bs, 1, g)
<1> DEFINE a == EncodedAll(f)
<1> DEFINE c == SubSeq(cells, 1, n)
<1>1. /\ g \in 0 .. Len(bs) /\ J \in Cells /\ cells = a \o J
      /\ ~BeginsRecord(J) /\ (g < Len(bs) => ~IsPrefix(Encoded[bs[g + 1]], J))
  BY DEF Breaks
<1>2. f \in Seq(Batches) /\ Len(f) = g /\ \A i \in 1 .. g : f[i] = bs[i]
  BY <1>1, Split
<1>3. a \in Cells
  BY <1>2, EncodedAllType
<1> HIDE DEF a, f
<1>4. Len(cells) = Len(a) + Len(J) /\ Len(a) \in Nat /\ Len(J) \in Nat /\ n \in Nat
  BY <1>1, <1>3, CellsJoinIs
<1>5. n \in 0 .. Len(a) + Len(J)
  BY <1>4
<1>6. /\ n <= Len(a) => c = SubSeq(a, 1, n)
      /\ Len(a) <= n => c = a \o SubSeq(J, 1, n - Len(a))
  BY <1>1, <1>3, <1>5, CutJoin, ZenonT(40) DEF Cells
<1>7. CASE Len(a) <= n
  <2> DEFINE k == n - Len(a)
  <2> DEFINE K == SubSeq(J, 1, k)
  <2> DEFINE L == SubSeq(J, k + 1, Len(J))
  <2>1. k \in 0 .. Len(J)
    BY <1>4, <1>5, <1>7
  <2>2. c = a \o K
    BY <1>6, <1>7
  <2> HIDE DEF k
  <2>3. K \in Cells /\ L \in Cells
    BY <1>1, <2>1, Split DEF Cells
  <2>4. K \o L = J
    BY <1>1, <2>1, SplitJoin DEF Cells
  <2> HIDE DEF K, L
  <2>5. ~BeginsRecord(K)
    BY <1>1, <2>3, <2>4, MoreBehind
  <2>6. ASSUME g < Len(bs) PROVE ~IsPrefix(Encoded[bs[g + 1]], K)
    <3> DEFINE e == Encoded[bs[g + 1]]
    <3>1. g + 1 \in 1 .. Len(bs)
      BY <1>1, <2>6
    <3>2. e \in Cells
      BY <3>1, EncodedType, ElementIs
    <3>3. ~IsPrefix(e, J)
      BY <1>1, <2>6
    <3> HIDE DEF e
    <3>4. IsPrefix(e, K) => IsPrefix(e, J)
      BY <2>3, <2>4, <3>2, PrefixJoin
    <3> QED BY <3>3, <3>4 DEF e
  <2>7. Breaks(c, bs, g, K)
    BY <1>1, <2>2, <2>3, <2>5, <2>6, Zenon DEF Breaks, a, f
  <2> QED BY <2>7
<1>8. CASE ~(Len(a) <= n)
  <2>1. n \in 0 .. Len(a) /\ n # Len(a) /\ n <= Len(a)
    BY <1>4, <1>8
  <2>2. PICK j \in 1 .. Len(f) : \E k \in 0 .. Len(Encoded[f[j]]) - 1 :
            SubSeq(a, 1, n) = EncodedAll(SubSeq(f, 1, j - 1)) \o SubSeq(Encoded[f[j]], 1, k)
    BY <1>2, <2>1, PlaceCut DEF a
  <2> DEFINE h == j - 1
  <2> DEFINE b == bs[h + 1]
  <2>3. /\ h \in 0 .. Len(bs) /\ h \in 0 .. g /\ g \in 0 .. Len(bs) /\ j = h + 1
        /\ j \in 1 .. g /\ j \in 1 .. Len(bs) /\ h < Len(bs)
    BY <1>1, <1>2
  <2>4. SubSeq(f, 1, h) = SubSeq(bs, 1, h)
    BY <2>3, SubBegin DEF f
  <2>5. f[j] = b /\ b \in Batches
    BY <1>2, <2>3, ElementIs
  <2>6. PICK k \in 0 .. Len(Encoded[f[j]]) - 1 :
            SubSeq(a, 1, n) = EncodedAll(SubSeq(f, 1, j - 1)) \o SubSeq(Encoded[f[j]], 1, k)
    BY <2>2
  <2> HIDE DEF h
  <2>7. /\ k \in 0 .. Len(Encoded[b]) - 1
        /\ SubSeq(a, 1, n) = EncodedAll(SubSeq(bs, 1, h)) \o SubSeq(Encoded[b], 1, k)
    BY <2>4, <2>5, <2>6 DEF h
  <2> DEFINE e == Encoded[b]
  <2> DEFINE K == SubSeq(e, 1, k)
  <2>8. K \in Cells /\ Len(K) = k /\ ~BeginsRecord(K)
    BY <2>5, <2>7, TornIsNone
  <2>9. e \in Cells
    BY <2>5, EncodedType
  <2>10. k \in 0 .. Len(e) - 1 /\ c = EncodedAll(SubSeq(bs, 1, h)) \o K
    BY <1>6, <2>1, <2>7
  <2> HIDE DEF K, e
  <2>11. ~IsPrefix(e, K)
    BY <2>8, <2>9, <2>10 DEF IsPrefix, Cells
  <2>12. Breaks(c, bs, h, K)
    BY <2>3, <2>8, <2>10, <2>11, Zenon DEF Breaks, e
  <2> QED BY <2>12
<1> QED BY <1>7, <1>8

\* With zeros behind what is left, which may complete a record of zeros.
LEMMA ZerosCut ==
    ASSUME TearsSeen, NEW bs \in Seq(Batches), NEW z \in ZeroTails,
           NEW n \in 0 .. Len(EncodedAll(bs))
    PROVE  \E h, K : Breaks(SubSeq(EncodedAll(bs), 1, n) \o [i \in 1 .. z |-> 0], bs, h, K)
<1> DEFINE a == EncodedAll(bs)
<1> DEFINE zs == [i \in 1 .. z |-> 0]
<1> DEFINE c == SubSeq(a, 1, n) \o zs
<1>1. zs \in Cells /\ Len(zs) = z /\ \A i \in 1 .. Len(zs) : zs[i] = 0
  <2>1. z \in Nat
    BY FramingAssumption
  <2>2. zs \in Cells /\ Len(zs) = z
    BY <2>1, FunctionLen DEF Cells
  <2> QED BY <2>1, <2>2
<1>2. a \in Cells
  BY EncodedAllType
<1>3. CASE n = Len(a)
  <2>1. SubSeq(a, 1, n) = a
    <3> HIDE DEF a
    <3> QED BY <1>2, <1>3 DEF Cells
  <2>2. SubSeq(bs, 1, Len(bs)) = bs /\ Len(bs) \in 0 .. Len(bs) /\ ~(Len(bs) < Len(bs))
    OBVIOUS
  <2> HIDE DEF zs
  <2>3. ~BeginsRecord(zs)
    BY <1>1, ZerosAreNone DEF AllZero
  <2>4. Breaks(c, bs, Len(bs), zs)
    BY <1>1, <2>1, <2>2, <2>3, Zenon DEF Breaks
  <2> QED BY <2>4 DEF zs
<1>4. CASE n # Len(a)
  <2>1. PICK j \in 1 .. Len(bs) : \E k \in 0 .. Len(Encoded[bs[j]]) - 1 :
            SubSeq(a, 1, n) = EncodedAll(SubSeq(bs, 1, j - 1)) \o SubSeq(Encoded[bs[j]], 1, k)
    BY <1>4, PlaceCut
  <2> DEFINE b == bs[j]
  <2> DEFINE e == Encoded[b]
  <2> DEFINE p == EncodedAll(SubSeq(bs, 1, j - 1))
  <2>2. PICK k \in 0 .. Len(e) - 1 : SubSeq(a, 1, n) = p \o SubSeq(e, 1, k)
    BY <2>1
  <2>3. b \in Batches /\ EncodedAll(SubSeq(bs, 1, j)) = p \o e
        /\ SubSeq(bs, 1, j - 1) \in Seq(Batches)
    BY EncodedAt
  <2>4. e \in Cells /\ p \in Cells
    BY <2>3, EncodedType, EncodedAllType
  <2> DEFINE T == SubSeq(e, 1, k)
  <2>5. T \in Cells /\ Len(T) = k /\ k \in Nat
    BY <2>3, TornIsNone
  <2> DEFINE h == j - 1
  <2>6. /\ h \in 0 .. Len(bs) /\ j \in 0 .. Len(bs) /\ h + 1 = j /\ h < Len(bs)
        /\ j - 1 = h
    OBVIOUS
  <2>7. IsPrefix(e, T \o zs) \/ ~BeginsRecord(T \o zs)
    BY <2>3 DEF TearsSeen
  <2>8. c = (p \o T) \o zs
    BY <2>2
  <2>20. p = EncodedAll(SubSeq(bs, 1, h)) /\ e = Encoded[bs[h + 1]] /\ k < Len(e)
    BY <2>2, <2>4, <2>6 DEF Cells
  <2> HIDE DEF zs, T, p, e, h, c
  <2>9. (p \o T) \o zs = p \o (T \o zs)
    BY <1>1, <2>4, <2>5, CellsJoin
  <2> DEFINE K == T \o zs
  <2>10. /\ K \in Cells /\ Len(K) = Len(T) + Len(zs)
         /\ \A i \in 1 .. Len(zs) : K[Len(T) + i] = zs[i]
    BY <1>1, <2>5, CellsJoinIs
  <2>11. c = p \o K
    BY <2>8, <2>9
  <2> HIDE DEF K
  <2>12. CASE ~IsPrefix(e, K)
    <3>1. ~BeginsRecord(K)
      BY <2>7, <2>12 DEF K
    <3>2. Breaks(c, bs, h, K)
      BY <2>6, <2>10, <2>11, <2>12, <2>20, <3>1, Zenon DEF Breaks
    <3> QED BY <3>2 DEF c, zs
  <2>13. CASE IsPrefix(e, K)
    <3>1. PICK t \in Cells : K = e \o t
      BY <2>4, <2>10, <2>13, CellsPrefix
    <3>2. /\ Len(K) = Len(e) + Len(t) /\ Len(t) \in Nat /\ Len(e) \in Nat
          /\ \A i \in 1 .. Len(t) : K[Len(e) + i] = t[i]
      BY <2>4, <3>1, CellsJoinIs
    <3>3. ASSUME NEW i \in 1 .. Len(t) PROVE t[i] = 0
      <4> DEFINE m == Len(e) + i - k
      <4>1. Len(zs) \in Nat
        BY <1>1 DEF Cells
      <4>6. k + Len(zs) = Len(e) + Len(t)
        BY <2>5, <2>10, <3>2
      <4> DEFINE le == Len(e)
      <4> DEFINE lt == Len(t)
      <4> DEFINE lz == Len(zs)
      <4>7. /\ le \in Nat /\ lt \in Nat /\ lz \in Nat /\ k \in Nat /\ k < le
            /\ k + lz = le + lt /\ i \in 1 .. lt
        BY <2>5, <2>20, <3>2, <4>1, <4>6
      <4> HIDE DEF le, lt, lz
      <4>8. le + i - k \in 1 .. lz /\ k + (le + i - k) = le + i
        BY <4>7
      <4>2. m \in 1 .. Len(zs) /\ k + m = Len(e) + i
        BY <4>8, Zenon DEF le, lt, lz
      <4> HIDE DEF m
      <4>3. K[Len(T) + m] = 0
        BY <1>1, <2>10, <4>2
      <4>4. K[k + m] = 0
        BY <2>5, <4>3
      <4>5. K[Len(e) + i] = t[i]
        BY <3>2
      <4> QED BY <4>2, <4>4, <4>5
    <3>4. ~BeginsRecord(t) /\ \A x \in Batches : ~IsPrefix(Encoded[x], t)
      BY <3>3, ZerosAreNone DEF AllZero
    <3>5. c = (p \o e) \o t
      <4>1. (p \o e) \o t = p \o (e \o t)
        BY <2>4, CellsJoin
      <4> QED BY <2>11, <3>1, <4>1
    <3>6. j < Len(bs) => ~IsPrefix(Encoded[bs[j + 1]], t)
      <4>1. ASSUME j < Len(bs) PROVE bs[j + 1] \in Batches
        <5>1. j + 1 \in 1 .. Len(bs)
          BY <2>6, <4>1
        <5> QED BY <5>1, ElementIs
      <4> QED BY <3>4, <4>1
    <3>7. c = EncodedAll(SubSeq(bs, 1, j)) \o t
      BY <2>3, <3>5 DEF p, e
    <3>8. Breaks(c, bs, j, t)
      BY <2>6, <3>4, <3>6, <3>7, Zenon DEF Breaks
    <3> QED BY <3>8 DEF c, zs
  <2> QED BY <2>12, <2>13
<1> QED BY <1>3, <1>4

-----------------------------------------------------------------------------
(* A damaged record. *)

Changed(b, n, c) == [Encoded[b] EXCEPT ![n] = c]

SpoiltAt(cells, bs, j, n, c) ==
    /\ j \in 1 .. Len(bs) /\ n \in 1 .. Len(Encoded[bs[j]])
    /\ c \in BadCells /\ c # Encoded[bs[j]][n]
    /\ cells = EncodedAll(SubSeq(bs, 1, j - 1))
                   \o (Changed(bs[j], n, c) \o EncodedAll(SubSeq(bs, j + 1, Len(bs))))

\* The cells are the records of bs but for one cell.
IsSpoilt(cells, bs) == \E j, n, c : SpoiltAt(cells, bs, j, n, c)

LEMMA ChangedType ==
    ASSUME NEW b \in Batches, NEW n \in 1 .. Len(Encoded[b]), NEW c \in BadCells
    PROVE  /\ Changed(b, n, c) \in Cells /\ Len(Changed(b, n, c)) = Len(Encoded[b])
           /\ Changed(b, n, c)[n] = c
           /\ \A i \in 1 .. Len(Encoded[b]) : i # n => Changed(b, n, c)[i] = Encoded[b][i]
<1> DEFINE e == Encoded[b]
<1>1. e \in Cells /\ c \in Nat
  BY EncodedType, FramingAssumption
<1>2. n \in 1 .. Len(e)
  OBVIOUS
<1>3. Changed(b, n, c) = [e EXCEPT ![n] = c]
  BY DEF Changed
<1> HIDE DEF e
<1> DEFINE d == [e EXCEPT ![n] = c]
<1>4. d \in Cells /\ Len(d) = Len(e) /\ d[n] = c /\ \A i \in 1 .. Len(e) : i # n => d[i] = e[i]
  BY <1>1, <1>2 DEF Cells
<1> HIDE DEF d
<1> QED BY <1>3, <1>4 DEF d, e

\* Replay stops at the damaged record.
LEMMA SpoiltBreaks ==
    ASSUME DamageSeen, NEW bs \in Seq(Batches), Len(bs) <= MaxRecords, NEW cells,
           NEW j, NEW n, NEW c, SpoiltAt(cells, bs, j, n, c)
    PROVE  \E J : J # <<>> /\ Breaks(cells, bs, j - 1, J)
<1> DEFINE b == bs[j]
<1> DEFINE e == Encoded[b]
<1> DEFINE d == Changed(b, n, c)
<1> DEFINE after == SubSeq(bs, j + 1, Len(bs))
<1> DEFINE z == EncodedAll(after)
<1> DEFINE h == j - 1
<1>1. /\ j \in 1 .. Len(bs) /\ n \in 1 .. Len(e) /\ c \in BadCells /\ c # e[n]
      /\ cells = EncodedAll(SubSeq(bs, 1, h)) \o (d \o z)
  BY DEF SpoiltAt
<1>2. b \in Batches
  BY <1>1, ElementIs
<1>3. j \in 0 .. Len(bs) /\ h \in 0 .. Len(bs) /\ h + 1 = j
  BY <1>1
<1>4. after \in Seq(Batches) /\ Len(after) = Len(bs) - j
  BY <1>3, EncodedSplit
<1>5. e \in Cells /\ d \in Cells /\ Len(d) = Len(e) /\ d[n] = c
  <2>1. e \in Cells
    BY <1>2, EncodedType
  <2>2. d \in Cells /\ Len(d) = Len(e) /\ d[n] = c
    BY <1>1, <1>2, ChangedType
  <2> QED BY <2>1, <2>2
<1> HIDE DEF after
<1>6. z \in Cells
  BY <1>4, EncodedAllType
<1>7. after \in UNION {[1 .. m -> Batches] : m \in 0 .. MaxRecords}
  <2>1. Len(after) \in 0 .. MaxRecords
    BY <1>3, <1>4, FramingAssumption
  <2>2. after \in [1 .. Len(after) -> Batches]
    BY <1>4
  <2> QED BY <2>1, <2>2
<1>8. ~BeginsRecord(d \o z)
  BY <1>1, <1>2, <1>7 DEF DamageSeen, Changed
<1>9. e # d
  BY <1>1, <1>5
<1> HIDE DEF z, d, e
<1> DEFINE J == d \o z
<1>10. J \in Cells /\ Len(J) = Len(d) + Len(z) /\ SubSeq(J, 1, Len(d)) = d
  BY <1>5, <1>6, CellsBegin, CellsJoinIs
<1> HIDE DEF J
<1>11. ~IsPrefix(e, J)
  <2>1. SubSeq(e, 1, Len(e)) = e
    BY <1>5 DEF Cells
  <2> QED BY <1>5, <1>9, <1>10, <2>1, Zenon DEF IsPrefix
<1>12. J # <<>>
  <2>1. Len(d) \in Nat /\ Len(z) \in Nat /\ Len(d) # 0
    BY <1>1, <1>5, <1>6 DEF Cells
  <2>2. Len(J) # 0
    BY <1>10, <2>1
  <2> QED BY <2>2
<1>13. e = Encoded[bs[h + 1]]
  BY <1>3 DEF e
<1> HIDE DEF h
<1>14. cells = EncodedAll(SubSeq(bs, 1, h)) \o J /\ ~BeginsRecord(J)
  BY <1>1, <1>8 DEF J
<1>15. Breaks(cells, bs, h, J)
  BY <1>3, <1>10, <1>11, <1>13, <1>14, Zenon DEF Breaks
<1> QED BY <1>12, <1>15 DEF h

LEMMA ChangeFirst ==
    ASSUME NEW a \in Cells, NEW t \in Cells, NEW n \in 1 .. Len(a), NEW c \in Nat
    PROVE  [a \o t EXCEPT ![n] = c] = [a EXCEPT ![n] = c] \o t
<1> DEFINE s == a \o t
<1> DEFINE b == [a EXCEPT ![n] = c]
<1> DEFINE x == [s EXCEPT ![n] = c]
<1> DEFINE y == b \o t
<1>1. /\ s \in Cells /\ Len(s) = Len(a) + Len(t) /\ Len(a) \in Nat /\ Len(t) \in Nat
      /\ \A i \in 1 .. Len(a) : s[i] = a[i]
      /\ \A i \in 1 .. Len(t) : s[Len(a) + i] = t[i]
  BY CellsJoinIs
<1> HIDE DEF s
<1>2. b \in Cells /\ Len(b) = Len(a) /\ \A i \in 1 .. Len(a) : b[i] = IF i = n THEN c ELSE a[i]
  BY DEF Cells
<1> HIDE DEF b
<1>3. /\ x \in Cells /\ Len(x) = Len(s)
      /\ \A i \in 1 .. Len(s) : x[i] = IF i = n THEN c ELSE s[i]
  BY <1>1 DEF Cells
<1> HIDE DEF x
<1>4. b \in Cells
  BY <1>2
<1>5. /\ y \in Cells /\ Len(y) = Len(b) + Len(t)
      /\ \A i \in 1 .. Len(b) : y[i] = b[i]
      /\ \A i \in 1 .. Len(t) : y[Len(b) + i] = t[i]
  BY <1>4, CellsJoinIs
<1> HIDE DEF y
<1>6. ASSUME NEW i \in 1 .. Len(x) PROVE x[i] = y[i]
  <2>1. CASE i \in 1 .. Len(a)
    <3>1. y[i] = b[i] /\ s[i] = a[i] /\ b[i] = IF i = n THEN c ELSE a[i]
      BY <1>1, <1>2, <1>5, <2>1
    <3>2. x[i] = IF i = n THEN c ELSE s[i]
      BY <1>3
    <3> QED BY <3>1, <3>2
  <2>2. CASE i \notin 1 .. Len(a)
    <3> DEFINE m == i - Len(a)
    <3>1. m \in 1 .. Len(t) /\ i = Len(a) + m /\ i # n
      BY <1>1, <1>3, <2>2
    <3> HIDE DEF m
    <3>2. y[Len(b) + m] = t[m] /\ s[Len(a) + m] = t[m]
      BY <1>1, <1>5, <3>1
    <3>3. x[i] = s[i]
      BY <1>3, <3>1
    <3> QED BY <1>2, <3>1, <3>2, <3>3
  <2> QED BY <2>1, <2>2
<1>7. Len(x) = Len(y)
  BY <1>1, <1>2, <1>3, <1>5
<1>8. x = y
  BY <1>3, <1>5, <1>6, <1>7, SameSeq DEF Cells
<1> QED BY <1>8 DEF x, y, s, b

LEMMA ChangeSecond ==
    ASSUME NEW a \in Cells, NEW t \in Cells, NEW n \in 1 .. Len(t), NEW c \in Nat
    PROVE  [a \o t EXCEPT ![Len(a) + n] = c] = a \o [t EXCEPT ![n] = c]
<1> DEFINE s == a \o t
<1> DEFINE k == Len(a) + n
<1> DEFINE b == [t EXCEPT ![n] = c]
<1> DEFINE x == [s EXCEPT ![k] = c]
<1> DEFINE y == a \o b
<1>1. /\ s \in Cells /\ Len(s) = Len(a) + Len(t) /\ Len(a) \in Nat /\ Len(t) \in Nat
      /\ \A i \in 1 .. Len(a) : s[i] = a[i]
      /\ \A i \in 1 .. Len(t) : s[Len(a) + i] = t[i]
  BY CellsJoinIs
<1> HIDE DEF s
<1>2. b \in Cells /\ Len(b) = Len(t) /\ \A i \in 1 .. Len(t) : b[i] = IF i = n THEN c ELSE t[i]
  BY DEF Cells
<1> HIDE DEF b
<1>9. k = Len(a) + n /\ k \in 1 .. Len(s)
  BY <1>1
<1> HIDE DEF k
<1>3. /\ x \in Cells /\ Len(x) = Len(s)
      /\ \A i \in 1 .. Len(s) : x[i] = IF i = k THEN c ELSE s[i]
  BY <1>1, <1>9 DEF Cells
<1> HIDE DEF x
<1>4. b \in Cells
  BY <1>2
<1>5. /\ y \in Cells /\ Len(y) = Len(a) + Len(b)
      /\ \A i \in 1 .. Len(a) : y[i] = a[i]
      /\ \A i \in 1 .. Len(b) : y[Len(a) + i] = b[i]
  BY <1>4, CellsJoinIs
<1> HIDE DEF y
<1>6. ASSUME NEW i \in 1 .. Len(x) PROVE x[i] = y[i]
  <2>1. CASE i \in 1 .. Len(a)
    <3>1. y[i] = a[i] /\ s[i] = a[i] /\ i # k
      BY <1>1, <1>5, <1>9, <2>1
    <3>2. x[i] = s[i]
      BY <1>3, <3>1
    <3> QED BY <3>1, <3>2
  <2>2. CASE i \notin 1 .. Len(a)
    <3> DEFINE m == i - Len(a)
    <3>1. m \in 1 .. Len(t) /\ i = Len(a) + m /\ (i = k <=> m = n)
      BY <1>1, <1>3, <1>9, <2>2
    <3> HIDE DEF m
    <3>2. y[Len(a) + m] = b[m] /\ s[Len(a) + m] = t[m]
      BY <1>1, <1>2, <1>5, <3>1
    <3>3. x[i] = IF i = k THEN c ELSE s[i]
      BY <1>3
    <3>4. b[m] = IF m = n THEN c ELSE t[m]
      BY <1>2, <3>1
    <3> QED BY <3>1, <3>2, <3>3, <3>4
  <2> QED BY <2>1, <2>2
<1>7. Len(x) = Len(y)
  BY <1>1, <1>2, <1>3, <1>5
<1>8. x = y
  BY <1>3, <1>5, <1>6, <1>7, SameSeq DEF Cells
<1> QED BY <1>8 DEF x, y, s, b, k

\* A changed cell is one of a record.
LEMMA DamageSpoils ==
    ASSUME NEW bs \in Seq(Batches), NEW n \in 1 .. Len(EncodedAll(bs)), NEW c \in BadCells,
           EncodedAll(bs)[n] # c
    PROVE  IsSpoilt([EncodedAll(bs) EXCEPT ![n] = c], bs)
<1> DEFINE a == EncodedAll(bs)
<1> DEFINE i == n - 1
<1>1. a \in Cells /\ Len(a) \in Nat /\ c \in Nat
  BY EncodedAllType, FramingAssumption DEF Cells
<1> HIDE DEF a
<1>2. i \in 0 .. Len(a) /\ i # Len(a) /\ n = i + 1 /\ i \in Nat /\ n \in 1 .. Len(a)
  BY <1>1 DEF a
<1> HIDE DEF i
<1>3. \E j \in 1 .. Len(bs) : \E k \in 0 .. Len(Encoded[bs[j]]) - 1 :
          i = Len(EncodedAll(SubSeq(bs, 1, j - 1))) + k
  BY <1>2, PlaceCut DEF a
<1>20. PICK j \in 1 .. Len(bs) : \E k \in 0 .. Len(Encoded[bs[j]]) - 1 :
          i = Len(EncodedAll(SubSeq(bs, 1, j - 1))) + k
  BY <1>3
<1>4. PICK k \in 0 .. Len(Encoded[bs[j]]) - 1 : i = Len(EncodedAll(SubSeq(bs, 1, j - 1))) + k
  BY <1>20
<1> DEFINE b == bs[j]
<1> DEFINE e == Encoded[b]
<1> DEFINE p == EncodedAll(SubSeq(bs, 1, j - 1))
<1> DEFINE z == EncodedAll(SubSeq(bs, j + 1, Len(bs)))
<1> DEFINE m == k + 1
<1>5. /\ b \in Batches /\ a = p \o (e \o z) /\ SubSeq(bs, 1, j - 1) \in Seq(Batches)
  BY EncodedAt DEF a
<1>6. SubSeq(bs, j + 1, Len(bs)) \in Seq(Batches)
  <2>1. j \in 0 .. Len(bs)
    OBVIOUS
  <2> QED BY <2>1, EncodedSplit
<1>7. e \in Cells /\ p \in Cells /\ z \in Cells
  BY <1>5, <1>6, EncodedType, EncodedAllType
<1>8. i = Len(p) + k /\ k \in 0 .. Len(e) - 1
  BY <1>4
<1> HIDE DEF e, p, z
<1>9. Len(p) \in Nat /\ Len(e) \in Nat
  BY <1>7 DEF Cells
<1>10. m \in 1 .. Len(e) /\ n = Len(p) + m
  BY <1>2, <1>8, <1>9
<1> HIDE DEF m
<1> DEFINE ez == e \o z
<1> HIDE DEF ez
<1>11. ez \in Cells /\ Len(ez) = Len(e) + Len(z) /\ Len(z) \in Nat
       /\ \A q \in 1 .. Len(e) : ez[q] = e[q]
  BY <1>7, CellsJoinIs DEF ez
<1>12. a = p \o ez
  BY <1>5 DEF ez, e, p, z
<1>13. [ez EXCEPT ![m] = c] = [e EXCEPT ![m] = c] \o z
  <2>1. e \in Cells /\ z \in Cells /\ c \in Nat /\ m \in 1 .. Len(e)
    BY <1>1, <1>7, <1>10
  <2>2. [e \o z EXCEPT ![m] = c] = [e EXCEPT ![m] = c] \o z
    BY <2>1, ChangeFirst
  <2> QED BY <2>2, Zenon DEF ez
<1>14. m \in 1 .. Len(ez)
  <2> DEFINE le == Len(e)
  <2> DEFINE lz == Len(z)
  <2> DEFINE lez == Len(ez)
  <2> HIDE DEF le, lz, lez
  <2>1. le \in Nat /\ lz \in Nat /\ lez = le + lz /\ m \in 1 .. le
    BY <1>9, <1>10, <1>11, Zenon DEF le, lz, lez
  <2>2. m \in 1 .. lez
    BY <2>1
  <2> QED BY <2>2, Zenon DEF lez
<1>15. [a EXCEPT ![n] = c] = p \o [ez EXCEPT ![m] = c]
  <2>1. p \in Cells /\ ez \in Cells /\ c \in Nat
    BY <1>1, <1>7, <1>11
  <2>2. [p \o ez EXCEPT ![Len(p) + m] = c] = p \o [ez EXCEPT ![m] = c]
    BY <1>14, <2>1, ChangeSecond
  <2> QED BY <1>10, <1>12, <2>2
<1>16. a[n] = e[m]
  <2>1. a[Len(p) + m] = ez[m]
    BY <1>7, <1>11, <1>12, <1>14, CellsJoinIs
  <2> QED BY <1>10, <1>11, <2>1
<1>17. [e EXCEPT ![m] = c] = Changed(b, m, c)
  BY DEF Changed, e
<1>18. [a EXCEPT ![n] = c] = p \o (Changed(b, m, c) \o z)
  BY <1>13, <1>15, <1>17
<1>19. c # e[m]
  BY <1>16 DEF a
<1>21. SpoiltAt([a EXCEPT ![n] = c], bs, j, m, c)
  BY <1>10, <1>18, <1>19, Zenon DEF SpoiltAt, e, p, z
<1> QED BY <1>21 DEF IsSpoilt, a

LEMMA AppendCut ==
    ASSUME NEW S, NEW s \in Seq(S), NEW x \in S, NEW n \in 0 .. Len(s)
    PROVE  /\ SubSeq(Append(s, x), 1, n) = SubSeq(s, 1, n)
           /\ SubSeq(Append(s, x), n + 1, Len(Append(s, x)))
                  = Append(SubSeq(s, n + 1, Len(s)), x)
<1> DEFINE a == SubSeq(s, 1, n)
<1> DEFINE t == SubSeq(s, n + 1, Len(s))
<1>1. a \in Seq(S) /\ t \in Seq(S) /\ Len(a) = n
  BY Split
<1>2. a \o t = s
  BY SplitJoin
<1> HIDE DEF a, t
<1> DEFINE u == Append(t, x)
<1>3. u \in Seq(S)
  BY <1>1
<1>4. a \o u = Append(s, x)
  BY <1>1, <1>2, JoinMore
<1> HIDE DEF u
<1>5. /\ SubSeq(a \o u, 1, Len(a)) = a
      /\ SubSeq(a \o u, Len(a) + 1, Len(a \o u)) = u
  BY <1>1, <1>3, BeginIs
<1>6. /\ SubSeq(Append(s, x), 1, n) = a
      /\ SubSeq(Append(s, x), n + 1, Len(Append(s, x))) = u
  BY <1>1, <1>4, <1>5
<1> QED BY <1>6 DEF a, t, u

\* A record behind the damaged one.
LEMMA SpoiltMore ==
    ASSUME NEW bs \in Seq(Batches), NEW cells, IsSpoilt(cells, bs), NEW b \in Batches
    PROVE  IsSpoilt(cells \o Encoded[b], Append(bs, b))
<1> DEFINE cs == Append(bs, b)
<1>1. PICK j, n, c : SpoiltAt(cells, bs, j, n, c)
  BY DEF IsSpoilt
<1> DEFINE x == bs[j]
<1> DEFINE d == Changed(x, n, c)
<1> DEFINE after == SubSeq(bs, j + 1, Len(bs))
<1> DEFINE p == EncodedAll(SubSeq(bs, 1, j - 1))
<1> DEFINE z == EncodedAll(after)
<1> DEFINE e == Encoded[b]
<1>2. /\ j \in 1 .. Len(bs) /\ n \in 1 .. Len(Encoded[x]) /\ c \in BadCells
      /\ c # Encoded[x][n] /\ cells = p \o (d \o z)
  BY <1>1 DEF SpoiltAt
<1>3. j \in 0 .. Len(bs) /\ j - 1 \in 0 .. Len(bs) /\ (j - 1) + 1 = j
  BY <1>2
<1>4. /\ cs \in Seq(Batches) /\ Len(cs) = Len(bs) + 1 /\ cs[j] = x /\ x \in Batches
      /\ j \in 1 .. Len(cs)
  BY <1>2
<1>5. SubSeq(cs, 1, j - 1) = SubSeq(bs, 1, j - 1) /\ SubSeq(bs, 1, j - 1) \in Seq(Batches)
  BY <1>3, AppendCut, EncodedSplit
<1>6. SubSeq(cs, j + 1, Len(cs)) = Append(after, b) /\ after \in Seq(Batches)
  BY <1>3, AppendCut, EncodedSplit
<1> HIDE DEF after, cs
<1>7. EncodedAll(Append(after, b)) = z \o e
  BY <1>6, EncodedMore
<1>8. p \in Cells /\ z \in Cells /\ e \in Cells /\ d \in Cells
  <2>1. d \in Cells
    BY <1>2, <1>4, ChangedType
  <2>2. p \in Cells /\ z \in Cells
    BY <1>5, <1>6, EncodedAllType
  <2> QED BY <2>1, <2>2, EncodedType
<1> HIDE DEF p, z, e, d
<1>9. (p \o (d \o z)) \o e = p \o (d \o (z \o e))
  <2> DEFINE dz == d \o z
  <2>1. dz \in Cells
    BY <1>8, CellsJoinIs
  <2>2. (d \o z) \o e = d \o (z \o e)
    BY <1>8, CellsJoin
  <2>3. dz \o e = d \o (z \o e)
    BY <2>2
  <2> HIDE DEF dz
  <2>4. (p \o dz) \o e = p \o (dz \o e)
    BY <1>8, <2>1, CellsJoin, SMTT(30)
  <2>5. (p \o dz) \o e = p \o (d \o (z \o e))
    BY <2>3, <2>4
  <2> QED BY <2>5 DEF dz
<1> DEFINE all == cells \o e
<1>10. all = p \o (d \o EncodedAll(SubSeq(cs, j + 1, Len(cs))))
  BY <1>2, <1>6, <1>7, <1>9
<1> HIDE DEF all
<1>11. p = EncodedAll(SubSeq(cs, 1, j - 1)) /\ d = Changed(cs[j], n, c)
  BY <1>4, <1>5 DEF p, d
<1>12. n \in 1 .. Len(Encoded[cs[j]]) /\ c # Encoded[cs[j]][n]
  BY <1>2, <1>4
<1>13. SpoiltAt(all, cs, j, n, c)
  BY <1>2, <1>4, <1>10, <1>11, <1>12, Zenon DEF SpoiltAt
<1> QED BY <1>13 DEF IsSpoilt, all, cs, e

-----------------------------------------------------------------------------
(* The files, and where replay is in them. *)

Fine(bs) ==
    Len(bs) <= MaxRecords /\ \A i \in 1 .. Len(bs) : Len(Payload[bs[i]]) <= MaxCells

\* A file that is written to or was closed: its records, but for the damage.
FileUp(cells, bs, d) ==
    Fine(bs) /\ (cells = EncodedAll(bs) \/ (d = "seen" /\ IsSpoilt(cells, bs)))

\* The last one after a stop.
FileDown(cells, bs) == Fine(bs) /\ IsCut(cells, bs)

\* off is behind the first j records.
Position(cells, bs, j, off) ==
    /\ j \in 0 .. Len(bs) /\ off = Len(EncodedAll(SubSeq(bs, 1, j)))
    /\ IsPrefix(EncodedAll(SubSeq(bs, 1, j)), cells)

Stops(cells, bs, g, J) ==
    Breaks(cells, bs, g, J) /\ (J = <<>> => g = Len(bs) /\ cells = EncodedAll(bs))

LEMMA UpStops ==
    ASSUME NEW bs \in Seq(Batches), NEW cells, NEW d, FileUp(cells, bs, d),
           d = "seen" => DamageSeen
    PROVE  \E g, J : Stops(cells, bs, g, J) /\ (d # "seen" => J = <<>>)
<1>1. CASE cells = EncodedAll(bs)
  <2> DEFINE J == <<>>
  <2>1. J \in Cells /\ Len(J) = 0
    BY DEF Cells
  <2>2. EncodedAll(bs) \o J = EncodedAll(bs)
    BY EncodedAllType, JoinNone DEF Cells
  <2>3. SubSeq(bs, 1, Len(bs)) = bs /\ Len(bs) \in 0 .. Len(bs) /\ ~(Len(bs) < Len(bs))
    OBVIOUS
  <2>4. ~BeginsRecord(J)
    <3>1. ~(Len(J) >= HeaderLen)
      BY <2>1 DEF HeaderLen
    <3> HIDE DEF J
    <3> QED BY <3>1, Zenon DEF BeginsRecord
  <2>7. J = <<>>
    OBVIOUS
  <2> HIDE DEF J
  <2>5. Breaks(cells, bs, Len(bs), J)
    BY <1>1, <2>1, <2>2, <2>3, <2>4, Zenon DEF Breaks
  <2>6. Stops(cells, bs, Len(bs), J)
    BY <1>1, <2>5 DEF Stops
  <2> QED BY <2>6, <2>7
<1>2. CASE d = "seen" /\ IsSpoilt(cells, bs)
  <2>1. PICK j, n, c : SpoiltAt(cells, bs, j, n, c)
    BY <1>2 DEF IsSpoilt
  <2>2. Len(bs) <= MaxRecords
    BY DEF FileUp, Fine
  <2>3. PICK J : J # <<>> /\ Breaks(cells, bs, j - 1, J)
    BY <1>2, <2>1, <2>2, SpoiltBreaks
  <2>4. Stops(cells, bs, j - 1, J)
    BY <2>3 DEF Stops
  <2> QED BY <1>2, <2>4
<1> QED BY <1>1, <1>2 DEF FileUp

LEMMA DownStops ==
    ASSUME NEW bs \in Seq(Batches), NEW cells, FileDown(cells, bs)
    PROVE  \E J : Stops(cells, bs, Len(bs), J)
<1>1. PICK J : Breaks(cells, bs, Len(bs), J)
  BY DEF FileDown, IsCut
<1>2. SubSeq(bs, 1, Len(bs)) = bs
  OBVIOUS
<1>3. cells = EncodedAll(bs) \o J
  BY <1>1, <1>2 DEF Breaks
<1>4. J = <<>> => cells = EncodedAll(bs)
  BY <1>3, EncodedAllType, JoinNone DEF Cells
<1> QED BY <1>1, <1>4 DEF Stops

LEMMA PositionIs ==
    ASSUME NEW bs \in Seq(Batches), NEW cells \in Cells, NEW j, NEW off,
           Position(cells, bs, j, off)
    PROVE  /\ j \in 0 .. Len(bs) /\ off \in 0 .. Len(cells)
           /\ off = Len(EncodedAll(SubSeq(bs, 1, j)))
           /\ SubSeq(bs, 1, j) \in Seq(Batches) /\ EncodedAll(SubSeq(bs, 1, j)) \in Cells
           /\ SubSeq(cells, 1, off) = EncodedAll(SubSeq(bs, 1, j))
           /\ SubSeq(cells, off + 1, Len(cells)) \in Cells
           /\ cells = EncodedAll(SubSeq(bs, 1, j)) \o SubSeq(cells, off + 1, Len(cells))
<1> DEFINE f == SubSeq(bs, 1, j)
<1> DEFINE a == EncodedAll(f)
<1>1. j \in 0 .. Len(bs) /\ off = Len(a) /\ IsPrefix(a, cells)
  BY DEF Position
<1>2. f \in Seq(Batches)
  BY <1>1, EncodedSplit
<1>3. a \in Cells
  BY <1>2, EncodedAllType
<1> HIDE DEF a
<1>4. PICK t \in Cells : cells = a \o t
  BY <1>1, <1>3, CellsPrefix
<1>5. SubSeq(cells, 1, off) = a /\ SubSeq(cells, off + 1, Len(cells)) = t
  BY <1>1, <1>3, <1>4, CellsBegin
<1>6. off \in 0 .. Len(cells)
  BY <1>1, <1>3, <1>4, CellsJoinIs
<1> QED BY <1>1, <1>2, <1>3, <1>4, <1>5, <1>6 DEF a

LEMMA LastStop ==
    ASSUME NEW bs \in Seq(Batches), NEW cells \in Cells, NEW j, NEW off,
           Position(cells, bs, j, off), NEW g, NEW J, Breaks(cells, bs, g, J)
    PROVE  j <= g /\ (j = g => SubSeq(cells, off + 1, Len(cells)) = J)
<1> DEFINE rest == SubSeq(cells, off + 1, Len(cells))
<1>1. g \in 0 .. Len(bs) /\ J \in Cells /\ cells = EncodedAll(SubSeq(bs, 1, g)) \o J
      /\ (g < Len(bs) => ~IsPrefix(Encoded[bs[g + 1]], J))
  BY DEF Breaks
<1>2. WholeIn(bs, cells) = g
  BY <1>1, WholeExact
<1>3. j <= g
  BY <1>2, WholeIs DEF Position
<1>4. ASSUME j = g PROVE rest = J
  <2> DEFINE a == EncodedAll(SubSeq(bs, 1, j))
  <2>1. a \in Cells /\ rest \in Cells /\ cells = a \o rest
    BY PositionIs, SMTT(30)
  <2>2. cells = a \o J
    BY <1>1, <1>4
  <2> HIDE DEF a, rest
  <2>3. a \o rest = a \o J
    BY <2>1, <2>2
  <2>4. rest = J
    BY <1>1, <2>1, <2>3, Cancel DEF Cells
  <2> QED BY <2>4
<1> QED BY <1>3, <1>4

LEMMA NextThere ==
    ASSUME NEW bs \in Seq(Batches), NEW cells \in Cells, NEW j, NEW off,
           Position(cells, bs, j, off), NEW g, NEW J, Breaks(cells, bs, g, J), j < g
    PROVE  /\ j < Len(bs) /\ bs[j + 1] \in Batches
           /\ SubSeq(cells, off + 1, Len(cells)) # <<>>
           /\ StartsWith(SubSeq(cells, off + 1, Len(cells)), bs[j + 1])
           /\ Position(cells, bs, j + 1,
                  off + HeaderLen + SubSeq(cells, off + 1, Len(cells))[1])
<1> DEFINE f == SubSeq(bs, 1, g)
<1> DEFINE k == j + 1
<1> DEFINE b == bs[k]
<1> DEFINE e == Encoded[b]
<1> DEFINE a == EncodedAll(SubSeq(bs, 1, j))
<1> DEFINE z == EncodedAll(SubSeq(f, k + 1, Len(f)))
<1> DEFINE rest == SubSeq(cells, off + 1, Len(cells))
<1>1. g \in 0 .. Len(bs) /\ J \in Cells /\ cells = EncodedAll(f) \o J
  BY DEF Breaks
<1>2. f \in Seq(Batches) /\ Len(f) = g /\ \A i \in 1 .. g : f[i] = bs[i]
  BY <1>1, Split
<1>3. j \in 0 .. Len(bs) /\ a \in Cells /\ rest \in Cells /\ cells = a \o rest /\ off = Len(a)
  <2> HIDE DEF k, b, e, z, f
  <2>1. a \in Cells /\ rest \in Cells /\ cells = a \o rest
    <3>1. SubSeq(bs, 1, j) \in Seq(Batches)
      BY PositionIs
    <3>2. a \in Cells
      BY <3>1, EncodedAllType
    <3>3. rest \in Cells
      BY PositionIs
    <3>4. cells = a \o rest
      <4>1. off \in 0 .. Len(cells) /\ SubSeq(cells, 1, off) = a
        BY PositionIs
      <4>2. SubSeq(cells, 1, off) \o rest = cells
        BY <4>1, SplitJoin DEF Cells
      <4> QED BY <4>1, <4>2
    <3> QED BY <3>2, <3>3, <3>4
  <2>2. j \in 0 .. Len(bs) /\ off = Len(a)
    BY DEF Position
  <2> QED BY <2>1, <2>2
<1>4. /\ k \in 1 .. Len(f) /\ k \in 1 .. Len(bs) /\ k \in 1 .. g /\ k - 1 = j
      /\ j < Len(bs) /\ k \in 0 .. Len(f) /\ k \in 0 .. Len(bs) /\ j \in 0 .. g
  BY <1>1, <1>2, <1>3
<1>5. SubSeq(f, 1, j) = SubSeq(bs, 1, j)
  BY <1>1, <1>4, SubBegin
<1>6. f[k] = b
  BY <1>2, <1>4
<1>7. b \in Batches /\ EncodedAll(SubSeq(bs, 1, k)) = a \o e
  <2>1. /\ bs[k] \in Batches
        /\ EncodedAll(SubSeq(bs, 1, k)) = EncodedAll(SubSeq(bs, 1, k - 1)) \o Encoded[bs[k]]
    BY <1>4, EncodedAt
  <2> QED BY <1>4, <2>1
<1>8. z \in Cells
  <2>1. SubSeq(f, k + 1, Len(f)) \in Seq(Batches)
    BY <1>2, <1>4, EncodedSplit
  <2> QED BY <2>1, EncodedAllType
<1>9. EncodedAll(f) = a \o (e \o z)
  <2>1. EncodedAll(f) = EncodedAll(SubSeq(f, 1, k - 1)) \o (Encoded[f[k]] \o z)
    BY <1>2, <1>4, EncodedAt
  <2> QED BY <1>4, <1>5, <1>6, <2>1
<1>10. e \in Cells /\ Len(e) = HeaderLen + Len(Payload[b]) /\ Len(Payload[b]) \in Nat
  BY <1>7, EncodedType, PayloadType
<1> DEFINE all == EncodedAll(SubSeq(bs, 1, k))
<1>21. all = a \o e
  BY <1>7
<1> HIDE DEF a, e, z, b, f, rest, all, k
<1> DEFINE u == z \o J
<1>11. u \in Cells
  BY <1>1, <1>8, CellsJoinIs
<1>12. rest = e \o u
  <2> DEFINE ez == e \o z
  <2>5. ez \in Cells
    BY <1>8, <1>10, CellsJoinIs
  <2>1. ez \in Cells /\ cells = (a \o ez) \o J
    BY <1>1, <1>9, <2>5
  <2>2. ez \o J = e \o u
    BY <1>1, <1>8, <1>10, CellsJoin, ZenonT(60)
  <2> HIDE DEF ez, u
  <2>3. (a \o ez) \o J = a \o (ez \o J)
    BY <1>1, <1>3, <2>1, CellsJoin, ZenonT(40)
  <2> DEFINE eu == e \o u
  <2>4. a \o rest = a \o eu
    BY <1>3, <2>1, <2>2, <2>3
  <2>6. eu \in Cells
    BY <1>10, <1>11, CellsJoinIs
  <2> HIDE DEF eu
  <2>7. rest = eu
    BY <1>3, <2>4, <2>6, Cancel DEF Cells
  <2> QED BY <2>7 DEF eu
<1> HIDE DEF u
<1>13. StartsWith(rest, b)
  <2>1. StartsWith(e \o u, b)
    BY <1>7, <1>11, RecordStarts DEF e
  <2> QED BY <1>12, <2>1
<1>14. rest[1] = Len(Payload[b])
  BY <1>13 DEF StartsWith
<1>15. rest # <<>>
  <2>1. Len(rest) = Len(e) + Len(u) /\ Len(u) \in Nat
    BY <1>10, <1>11, <1>12, CellsJoinIs
  <2>2. Len(rest) # 0
    BY <1>10, <2>1 DEF HeaderLen
  <2> QED BY <2>2
<1>16. IsPrefix(all, cells)
  <2> DEFINE ae == a \o e
  <2>1. cells = ae \o u
    <3>2. a \in Cells /\ e \in Cells /\ u \in Cells
      BY <1>3, <1>10, <1>11
    <3>1. (a \o e) \o u = a \o (e \o u)
      BY <3>2, CellsJoin
    <3> QED BY <1>3, <1>12, <3>1
  <2>2. ae \in Cells
    BY <1>3, <1>10, CellsJoinIs
  <2> HIDE DEF ae
  <2>3. IsPrefix(ae, cells)
    BY <1>11, <2>1, <2>2, CellsBegin
  <2> QED BY <1>21, <2>3 DEF ae
<1> DEFINE next == off + HeaderLen + rest[1]
<1>17. next = Len(all)
  <2> DEFINE lp == Len(Payload[b])
  <2>1. Len(all) = Len(a) + Len(e) /\ Len(a) \in Nat
    BY <1>3, <1>10, <1>21, CellsJoinIs
  <2>2. lp \in Nat /\ Len(e) = HeaderLen + lp /\ rest[1] = lp
    BY <1>10, <1>14
  <2> HIDE DEF lp
  <2>3. HeaderLen \in Nat
    BY DEF HeaderLen
  <2> QED BY <1>3, <2>1, <2>2, <2>3
<1> HIDE DEF next
<1>18. Position(cells, bs, k, next)
  BY <1>4, <1>16, <1>17, Zenon DEF Position, all
<1> QED BY <1>4, <1>7, <1>13, <1>15, <1>18 DEF b, k, rest, next

\* The rest begins with the record behind the j-th.
NextIs(cells, bs, j, off, rest) ==
    /\ j < Len(bs) /\ bs[j + 1] \in Batches /\ StartsWith(rest, bs[j + 1])
    /\ Position(cells, bs, j + 1, off + HeaderLen + rest[1])

\* The rest is what is behind the last whole one.
Broken(j, g, J, rest) == j = g /\ rest = J

\* What replay makes of the rest of a file: nothing left is the end of its
\* records, what it takes for a record is the next one, and what it does not
\* is where they stop.
LEMMA Finds ==
    ASSUME NEW bs \in Seq(Batches), Fine(bs), NEW cells \in Cells, NEW j, NEW off,
           Position(cells, bs, j, off), NEW g, NEW J, Stops(cells, bs, g, J),
           NEW rest, rest = SubSeq(cells, off + 1, Len(cells))
    PROVE  /\ rest = <<>> => j = Len(bs) /\ cells = EncodedAll(bs)
           /\ BeginsRecord(rest) => NextIs(cells, bs, j, off, rest)
           /\ BeginsRecord(rest) \/ Broken(j, g, J, rest)
<1>1. Breaks(cells, bs, g, J) /\ (J = <<>> => g = Len(bs) /\ cells = EncodedAll(bs))
  BY DEF Stops
<1>2. j <= g /\ (j = g => rest = J)
  BY <1>1, LastStop
<1>3. CASE j = g
  <2>1. rest = J /\ ~BeginsRecord(J)
    BY <1>1, <1>2, <1>3 DEF Breaks
  <2> QED BY <1>1, <1>3, <2>1 DEF Broken
<1>4. CASE j # g
  <2>1. j < g
    BY <1>1, <1>2, <1>4 DEF Position, Breaks
  <2>2. /\ j < Len(bs) /\ bs[j + 1] \in Batches
        /\ rest # <<>> /\ StartsWith(rest, bs[j + 1])
        /\ Position(cells, bs, j + 1, off + HeaderLen + rest[1])
    BY <1>1, <2>1, NextThere
  <2>3. j + 1 \in 1 .. Len(bs)
    BY <2>2 DEF Position
  <2>4. BeginsRecord(rest)
    BY <2>2, <2>3 DEF StartsWith, Fine
  <2>5. NextIs(cells, bs, j, off, rest)
    BY <2>2 DEF NextIs
  <2> QED BY <2>2, <2>4, <2>5
<1> QED BY <1>3, <1>4

LEMMA WholeAt ==
    ASSUME NEW bs \in Seq(Batches), NEW cells \in Cells, NEW j, NEW off,
           Position(cells, bs, j, off)
    PROVE  WholeIn(bs, SubSeq(cells, 1, off)) = j
<1> DEFINE a == EncodedAll(SubSeq(bs, 1, j))
<1> DEFINE none == <<>>
<1>1. j \in 0 .. Len(bs) /\ SubSeq(cells, 1, off) = a /\ a \in Cells
  BY PositionIs
<1>2. none \in Cells /\ Len(none) = 0
  BY DEF Cells
<1>3. ASSUME NEW b \in Batches PROVE ~IsPrefix(Encoded[b], none)
  <2>1. Encoded[b] \in Cells /\ Len(Encoded[b]) >= 3
    <3> DEFINE lp == Len(Payload[b])
    <3>1. Encoded[b] \in Cells /\ Len(Encoded[b]) = HeaderLen + lp
      BY EncodedType
    <3>2. lp \in Nat
      BY PayloadType
    <3> HIDE DEF lp
    <3> QED BY <3>1, <3>2 DEF HeaderLen
  <2> QED BY <1>2, <2>1 DEF IsPrefix
<1>4. j < Len(bs) => ~IsPrefix(Encoded[bs[j + 1]], none)
  <2>1. ASSUME j < Len(bs) PROVE bs[j + 1] \in Batches
    <3>1. j + 1 \in 1 .. Len(bs)
      BY <1>1, <2>1
    <3> QED BY <3>1, ElementIs
  <2> HIDE DEF none
  <2> QED BY <1>3, <2>1
<1>5. a = a \o none
  <2> HIDE DEF a
  <2> QED BY <1>1, JoinNone DEF Cells
<1> HIDE DEF none
<1>6. WholeIn(bs, a) = j
  BY <1>1, <1>2, <1>4, <1>5, WholeExact
<1> QED BY <1>1, <1>6

LEMMA PositionStart ==
    ASSUME NEW bs \in Seq(Batches), NEW cells \in Cells
    PROVE  Position(cells, bs, 0, 0)
<1>1. SubSeq(bs, 1, 0) = <<>> /\ 0 \in 0 .. Len(bs)
  OBVIOUS
<1>2. EncodedAll(SubSeq(bs, 1, 0)) = <<>>
  BY <1>1, EncodedNone
<1>3. IsPrefix(<<>>, cells) /\ Len(<<>>) = 0
  BY DEF IsPrefix, Cells
<1> QED BY <1>1, <1>2, <1>3 DEF Position

LEMMA PositionEnd ==
    ASSUME NEW bs \in Seq(Batches)
    PROVE  Position(EncodedAll(bs), bs, Len(bs), Len(EncodedAll(bs)))
<1> DEFINE a == EncodedAll(bs)
<1>1. SubSeq(bs, 1, Len(bs)) = bs /\ Len(bs) \in 0 .. Len(bs)
  OBVIOUS
<1>2. a \in Cells
  BY EncodedAllType
<1> HIDE DEF a
<1>3. IsPrefix(a, a)
  BY <1>2 DEF IsPrefix, Cells
<1> QED BY <1>1, <1>3 DEF Position, a

LEMMA FineBegin ==
    ASSUME NEW bs \in Seq(Batches), Fine(bs), NEW n \in 0 .. Len(bs)
    PROVE  Fine(SubSeq(bs, 1, n))
<1> DEFINE f == SubSeq(bs, 1, n)
<1>1. Len(f) = n /\ n \in Nat /\ Len(bs) \in Nat /\ n <= Len(bs) /\ \A i \in 1 .. n : f[i] = bs[i]
  BY Split
<1> HIDE DEF f
<1>2. Len(f) <= MaxRecords
  BY <1>1, FramingAssumption DEF Fine
<1>3. ASSUME NEW i \in 1 .. Len(f) PROVE Len(Payload[f[i]]) <= MaxCells
  <2>1. i \in 1 .. Len(bs) /\ i \in 1 .. n
    BY <1>1
  <2>2. Len(Payload[bs[i]]) <= MaxCells
    BY <2>1 DEF Fine
  <2> QED BY <1>1, <2>1, <2>2
<1>4. Fine(f)
  BY <1>2, <1>3 DEF Fine
<1> QED BY <1>4 DEF f

LEMMA FineMore ==
    ASSUME NEW bs \in Seq(Batches), Fine(bs), NEW b \in Batches, Len(bs) < MaxRecords,
           Len(Payload[b]) <= MaxCells
    PROVE  Fine(Append(bs, b))
<1> DEFINE cs == Append(bs, b)
<1>1. /\ Len(cs) = Len(bs) + 1 /\ Len(bs) \in Nat /\ cs[Len(bs) + 1] = b
      /\ \A i \in 1 .. Len(bs) : cs[i] = bs[i]
  OBVIOUS
<1> HIDE DEF cs
<1>2. Len(cs) <= MaxRecords
  BY <1>1, FramingAssumption
<1>3. ASSUME NEW i \in 1 .. Len(cs) PROVE Len(Payload[cs[i]]) <= MaxCells
  <2>1. CASE i = Len(bs) + 1
    BY <1>1, <2>1
  <2>2. CASE i # Len(bs) + 1
    <3>1. i \in 1 .. Len(bs)
      BY <1>1, <2>2
    <3>2. Len(Payload[bs[i]]) <= MaxCells
      BY <3>1 DEF Fine
    <3> QED BY <1>1, <3>1, <3>2
  <2> QED BY <2>1, <2>2
<1>4. Fine(cs)
  BY <1>2, <1>3 DEF Fine
<1> QED BY <1>4 DEF cs

\* A log of files that hold their records holds the records of the files.
LEMMA FlattenAll ==
    ASSUME NEW segs \in Seq(Cells), NEW logs \in Seq(Seq(Batches)), Len(segs) = Len(logs),
           \A i \in 1 .. Len(segs) : segs[i] = EncodedAll(logs[i])
    PROVE  FlattenSeq(segs) = EncodedAll(FlattenSeq(logs))
<1>0. segs \in Seq(Seq(Nat)) /\ Len(segs) \in Nat
  BY DEF Cells
<1>1. PICK r \in [0 .. Len(segs) -> Seq(Nat)] :
          /\ r[0] = <<>> /\ r[Len(segs)] = FlattenSeq(segs)
          /\ \A i \in 1 .. Len(segs) : r[i] = r[i - 1] \o segs[i]
  BY <1>0, FlattenRun
<1>2. PICK q \in [0 .. Len(logs) -> Seq(Batches)] :
          /\ q[0] = <<>> /\ q[Len(logs)] = FlattenSeq(logs)
          /\ \A i \in 1 .. Len(logs) : q[i] = q[i - 1] \o logs[i]
  BY FlattenRun
<1> DEFINE G == {i \in 0 .. Len(segs) : r[i] = EncodedAll(q[i])}
<1>3. 0 \in G
  BY <1>0, <1>1, <1>2, EncodedNone
<1>4. ASSUME NEW i \in 1 .. Len(segs), i - 1 \in G PROVE i \in G
  <2>1. i - 1 \in 0 .. Len(logs) /\ i \in 0 .. Len(segs) /\ i \in 1 .. Len(logs)
    BY <1>0
  <2>2. q[i - 1] \in Seq(Batches) /\ logs[i] \in Seq(Batches)
    <3> DEFINE T == Seq(Batches)
    <3>1. logs \in Seq(T) /\ q \in [0 .. Len(logs) -> T]
      BY <1>2
    <3> HIDE DEF T
    <3>2. q[i - 1] \in T /\ logs[i] \in T
      BY <2>1, <3>1, ElementIs
    <3> QED BY <3>2 DEF T
  <2>3. q[i] = q[i - 1] \o logs[i] /\ r[i] = r[i - 1] \o segs[i]
    BY <1>1, <1>2, <2>1
  <2>4. EncodedAll(q[i - 1] \o logs[i]) = EncodedAll(q[i - 1]) \o EncodedAll(logs[i])
    BY <2>2, EncodedJoin
  <2>5. r[i - 1] = EncodedAll(q[i - 1]) /\ segs[i] = EncodedAll(logs[i])
    BY <1>4
  <2>6. r[i] = EncodedAll(q[i])
    BY <2>3, <2>4, <2>5, Zenon
  <2> QED BY <2>1, <2>6
<1> HIDE DEF G
<1>5. Len(segs) \in G
  BY <1>0, <1>3, <1>4, UpTo
<1> QED BY <1>1, <1>2, <1>5 DEF G

\* A file holds no more records than the log.
LEMMA PartFits ==
    ASSUME NEW S, NEW qs \in Seq(Seq(S)), NEW k \in 1 .. Len(qs)
    PROVE  Len(qs[k]) <= Len(FlattenSeq(qs))
<1>1. PICK r \in [0 .. Len(qs) -> Seq(S)] :
          /\ r[0] = <<>> /\ r[Len(qs)] = FlattenSeq(qs)
          /\ \A i \in 1 .. Len(qs) : r[i] = r[i - 1] \o qs[i]
  BY FlattenRun
<1> DEFINE G == {i \in 0 .. Len(qs) : k <= i => Len(qs[k]) <= Len(r[i])}
<1>2. Len(qs) \in Nat /\ k \in Nat /\ k # 0 /\ k <= Len(qs)
  OBVIOUS
<1>3. 0 \in G
  BY <1>2
<1>4. ASSUME NEW i \in 1 .. Len(qs), i - 1 \in G PROVE i \in G
  <2>1. i - 1 \in 0 .. Len(qs) /\ i \in 0 .. Len(qs)
    BY <1>2
  <2>2. r[i - 1] \in Seq(S) /\ qs[i] \in Seq(S) /\ r[i] = r[i - 1] \o qs[i]
    <3> DEFINE T == Seq(S)
    <3>1. qs \in Seq(T) /\ r \in [0 .. Len(qs) -> T]
      BY <1>1
    <3> HIDE DEF T
    <3>2. r[i - 1] \in T /\ qs[i] \in T
      BY <2>1, <3>1, ElementIs
    <3> QED BY <1>1, <3>2 DEF T
  <2>3. Len(r[i - 1] \o qs[i]) = Len(r[i - 1]) + Len(qs[i])
    BY <2>2, JoinIs
  <2>4. Len(r[i - 1]) \in Nat /\ Len(qs[i]) \in Nat /\ Len(r[i]) = Len(r[i - 1]) + Len(qs[i])
    BY <2>2, <2>3
  <2>5. k <= i - 1 => Len(qs[k]) <= Len(r[i - 1])
    BY <1>4
  <2>6. Len(qs[k]) \in Nat
    OBVIOUS
  <2>7. k <= i => Len(qs[k]) <= Len(r[i])
    <3>1. CASE k = i
      <4> DEFINE x == Len(r[i - 1])
      <4> DEFINE y == Len(qs[k])
      <4>1. x \in Nat /\ y \in Nat /\ Len(r[i]) = x + y
        BY <2>4, <2>6, <3>1
      <4> HIDE DEF x, y
      <4>2. y <= Len(r[i])
        BY <4>1
      <4> QED BY <4>2 DEF y
    <3>2. CASE k # i
      <4> DEFINE x == Len(r[i - 1])
      <4> DEFINE y == Len(qs[i])
      <4> DEFINE w == Len(qs[k])
      <4>1. ASSUME k <= i PROVE w <= x
        <5>1. k <= i - 1
          BY <1>2, <3>2, <4>1
        <5> QED BY <2>5, <5>1
      <4>2. x \in Nat /\ y \in Nat /\ w \in Nat /\ Len(r[i]) = x + y
        BY <2>4, <2>6
      <4> HIDE DEF x, y, w
      <4>3. k <= i => w <= Len(r[i])
        BY <4>1, <4>2
      <4> QED BY <4>3 DEF w
    <3> QED BY <3>1, <3>2
  <2> QED BY <2>1, <2>7
<1> HIDE DEF G
<1>5. Len(qs) \in G
  BY <1>2, <1>3, <1>4, UpTo
<1> QED BY <1>1, <1>2, <1>5 DEF G

RecordsOf(bs) == [n \in 1 .. Len(bs) |-> RecordOf[bs[n]]]

LEMMA RecordsMore ==
    ASSUME NEW bs \in Seq(Batches), NEW b \in Batches
    PROVE  RecordsOf(Append(bs, b)) = Append(RecordsOf(bs), RecordOf[b])
<1> DEFINE cs == Append(bs, b)
<1> DEFINE R == {RecordOf[x] : x \in Batches}
<1> DEFINE qs == RecordsOf(bs)
<1> DEFINE ps == RecordsOf(cs)
<1> DEFINE e == RecordOf[b]
<1>1. /\ cs \in Seq(Batches) /\ Len(cs) = Len(bs) + 1 /\ Len(bs) \in Nat
      /\ cs[Len(bs) + 1] = b /\ \A i \in 1 .. Len(bs) : cs[i] = bs[i]
  OBVIOUS
<1> HIDE DEF cs
<1>2. ASSUME NEW xs \in Seq(Batches)
      PROVE  /\ RecordsOf(xs) \in Seq(R) /\ Len(RecordsOf(xs)) = Len(xs)
             /\ \A i \in 1 .. Len(xs) : RecordsOf(xs)[i] = RecordOf[xs[i]]
  <2>1. \A i \in 1 .. Len(xs) : xs[i] \in Batches
    OBVIOUS
  <2>2. RecordsOf(xs) \in [1 .. Len(xs) -> R] /\ Len(xs) \in Nat
    BY <2>1 DEF RecordsOf
  <2> HIDE DEF R
  <2>3. RecordsOf(xs) \in Seq(R) /\ Len(RecordsOf(xs)) = Len(xs)
    BY <2>2
  <2> QED BY <2>3 DEF RecordsOf
<1>3. /\ qs \in Seq(R) /\ Len(qs) = Len(bs)
      /\ \A i \in 1 .. Len(bs) : qs[i] = RecordOf[bs[i]]
  BY <1>2
<1>4. /\ ps \in Seq(R) /\ Len(ps) = Len(cs)
      /\ \A i \in 1 .. Len(cs) : ps[i] = RecordOf[cs[i]]
  BY <1>1, <1>2
<1>5. e \in R
  OBVIOUS
<1>6. RecordOf[cs[Len(bs) + 1]] = e
  BY <1>1
<1> HIDE DEF R, qs, ps, e
<1> DEFINE as == Append(qs, e)
<1>7. /\ as \in Seq(R) /\ Len(as) = Len(qs) + 1 /\ as[Len(qs) + 1] = e
      /\ \A i \in 1 .. Len(qs) : as[i] = qs[i]
  BY <1>3, <1>5
<1> HIDE DEF as
<1>8. ps = as
  <2>1. Len(ps) = Len(as)
    BY <1>1, <1>3, <1>4, <1>7
  <2>2. ASSUME NEW i \in 1 .. Len(ps) PROVE ps[i] = as[i]
    <3>1. i \in 1 .. Len(bs) \/ i = Len(bs) + 1
      BY <1>1, <1>4
    <3>2. ps[i] = RecordOf[cs[i]]
      BY <1>4
    <3>3. CASE i \in 1 .. Len(bs)
      BY <1>1, <1>3, <1>7, <3>2, <3>3
    <3>4. CASE i = Len(bs) + 1
      BY <1>3, <1>6, <1>7, <3>2, <3>4
    <3> QED BY <3>1, <3>3, <3>4
  <2> QED BY <1>4, <1>7, <2>1, <2>2, SameSeq
<1> QED BY <1>8 DEF ps, as, qs, cs, e

-----------------------------------------------------------------------------
(* The bytes of the log. *)

Trusted == damage = "none" \/ (damage = "seen" /\ DamageSeen)

FileFine(i) ==
    IF i = Len(segments) /\ pc \in {"reading", "refused"}
    THEN FileDown(segments[i], logged[i])
    ELSE FileUp(segments[i], logged[i], damage)

\* The records before the j-th of the segment that is being read.
Passed(j) == FlattenSeq(SubSeq(logged, 1, at - 1)) \o SubSeq(logged[at], 1, j)

ReadTo(j) ==
    /\ Position(segments[at], logged[at], j, offset)
    /\ delivered = RecordsOf(Passed(j))
    /\ \A i \in 1 .. at - 1 : segments[i] = EncodedAll(logged[i])

Opened ==
    /\ at = Len(segments) /\ offset = Len(segments[at])
    /\ segments[at] = EncodedAll(logged[at])

\* Unless a checksum failed to tell: every file is its records but for what a
\* stop or the damage left, replay is behind a record, and has handed on those
\* before it.
ByteInv ==
    Trusted =>
        /\ \A i \in 1 .. Len(segments) : FileFine(i)
        /\ pc \in {"reading", "opened"} => \E j : ReadTo(j)
        /\ pc = "opened" => Opened
        /\ damage = "none" => pc # "refused"

LEMMA InitBytes == Init => ByteInv
<1> SUFFICES ASSUME Init PROVE ByteInv
  OBVIOUS
<1>1. /\ segments = << <<>> >> /\ logged = << <<>> >> /\ pc = "up"
  BY DEF Init
<1>2. Len(segments) = 1 /\ segments[1] = <<>> /\ logged[1] = <<>>
  BY <1>1
<1>3. FileUp(<<>>, <<>>, damage)
  BY EncodedNone, FramingAssumption DEF FileUp, Fine
<1>4. \A i \in 1 .. Len(segments) : FileFine(i)
  BY <1>1, <1>2, <1>3 DEF FileFine
<1> QED BY <1>1, <1>4 DEF ByteInv

LEMMA WriteBytes ==
    ASSUME TypeInv, ByteInv, NEW b \in Batches, Write(b)
    PROVE  ByteInv'
<1> DEFINE l == Len(segments)
<1> DEFINE s == segments[l]
<1> DEFINE bs == logged[l]
<1>1. /\ segments' = [segments EXCEPT ![l] = s \o Encoded[b]]
      /\ logged' = [logged EXCEPT ![l] = Append(bs, b)]
      /\ pc = "up" /\ pc' = "up" /\ damage' = damage
      /\ Len(Written) < MaxRecords /\ Len(Payload[b]) <= MaxCells
  BY DEF Write, LastSegment
<1>2. /\ segments \in Seq(Cells) /\ logged \in Seq(Seq(Batches)) /\ Len(logged) = l
      /\ l \in 1 .. l
  <2>1. Len(segments) \in 1 .. Len(segments)
    BY LastIs
  <2> QED BY <2>1 DEF TypeInv
<1>3. bs \in Seq(Batches) /\ s \in Cells
  BY <1>2, ElementIs
<1>4. Len(segments') = l /\ segments'[l] = s \o Encoded[b] /\ logged'[l] = Append(bs, b)
      /\ \A i \in 1 .. l : i # l => segments'[i] = segments[i] /\ logged'[i] = logged[i]
  <2> DEFINE x == s \o Encoded[b]
  <2> DEFINE y == Append(bs, b)
  <2>1. segments' = [segments EXCEPT ![l] = x] /\ logged' = [logged EXCEPT ![l] = y]
    BY <1>1
  <2> HIDE DEF x, y
  <2>2. Len(segments') = l /\ segments'[l] = x /\ logged'[l] = y
    BY <1>2, <2>1
  <2>3. \A i \in 1 .. l : i # l => segments'[i] = segments[i] /\ logged'[i] = logged[i]
    BY <1>2, <2>1
  <2> QED BY <2>2, <2>3 DEF x, y
<1>5. Len(bs) < MaxRecords
  <2>1. Len(bs) <= Len(Written)
    BY <1>2, PartFits DEF Written
  <2>2. Len(bs) \in Nat /\ Len(Written) \in Nat
    <3>1. Written \in Seq(Batches)
      BY <1>2, FlattenType DEF Written
    <3> QED BY <1>3, <3>1
  <2> QED BY <1>1, <2>1, <2>2, FramingAssumption
<1>6. SUFFICES ASSUME Trusted' PROVE \A i \in 1 .. l : FileUp(segments'[i], logged'[i], damage')
  <2>1. (\A i \in 1 .. l : FileUp(segments'[i], logged'[i], damage')) /\ Trusted'
          => \A i \in 1 .. Len(segments') : FileFine(i)'
    BY <1>1, <1>4, ZenonT(40) DEF FileFine
  <2> QED BY <1>1, <1>6, <2>1, SMTT(30) DEF ByteInv
<1>7. \A i \in 1 .. l : FileUp(segments[i], logged[i], damage)
  <2>1. Trusted
    BY <1>1, <1>6 DEF Trusted
  <2> QED BY <1>1, <2>1 DEF ByteInv, FileFine
<1>8. FileUp(s \o Encoded[b], Append(bs, b), damage)
  <2>1. FileUp(s, bs, damage)
    BY <1>2, <1>7
  <2> HIDE DEF s, bs
  <2>2. Fine(Append(bs, b))
    BY <1>1, <1>3, <1>5, <2>1, FineMore DEF FileUp
  <2>3. CASE s = EncodedAll(bs)
    <3>1. s \o Encoded[b] = EncodedAll(Append(bs, b))
      BY <1>3, <2>3, EncodedMore
    <3> QED BY <2>2, <3>1 DEF FileUp
  <2>4. CASE damage = "seen" /\ IsSpoilt(s, bs)
    <3>1. IsSpoilt(s \o Encoded[b], Append(bs, b))
      BY <1>3, <2>4, SpoiltMore
    <3> QED BY <2>2, <2>4, <3>1 DEF FileUp
  <2> QED BY <2>1, <2>3, <2>4 DEF FileUp
<1>9. ASSUME NEW i \in 1 .. l PROVE FileUp(segments'[i], logged'[i], damage')
  <2>1. CASE i = l
    BY <1>1, <1>4, <1>8, <2>1, ZenonT(40)
  <2>2. CASE i # l
    <3>1. segments'[i] = segments[i] /\ logged'[i] = logged[i]
      BY <1>4, <2>2
    <3> QED BY <1>1, <1>7, <3>1
  <2> QED BY <2>1, <2>2, SMTT(30)
<1> QED BY <1>9

LEMMA CreateBytes ==
    ASSUME TypeInv, ByteInv, CreateSegment
    PROVE  ByteInv'
<1> DEFINE l == Len(segments)
<1>1. /\ segments' = Append(segments, <<>>) /\ logged' = Append(logged, <<>>)
      /\ pc \in {"up", "opened"} /\ pc' = "up" /\ damage' = damage
  BY DEF CreateSegment
<1>2. /\ segments \in Seq(Cells) /\ logged \in Seq(Seq(Batches)) /\ Len(logged) = l /\ l \in Nat
  BY DEF TypeInv
<1>3. /\ Len(segments') = l + 1 /\ segments'[l + 1] = <<>> /\ logged'[l + 1] = <<>>
      /\ \A i \in 1 .. l : segments'[i] = segments[i] /\ logged'[i] = logged[i]
  BY <1>1, <1>2
<1>4. SUFFICES ASSUME Trusted'
               PROVE  \A i \in 1 .. l + 1 : FileUp(segments'[i], logged'[i], damage')
  <2>1. (\A i \in 1 .. l + 1 : FileUp(segments'[i], logged'[i], damage')) /\ Trusted'
          => \A i \in 1 .. Len(segments') : FileFine(i)'
    BY <1>1, <1>3 DEF FileFine
  <2> QED BY <1>1, <1>4, <2>1 DEF ByteInv
<1>5. \A i \in 1 .. l : FileUp(segments[i], logged[i], damage)
  <2>1. Trusted
    BY <1>1, <1>4 DEF Trusted
  <2> QED BY <1>1, <2>1 DEF ByteInv, FileFine
<1>6. FileUp(<<>>, <<>>, damage)
  BY EncodedNone, FramingAssumption DEF FileUp, Fine
<1>7. ASSUME NEW i \in 1 .. l + 1 PROVE FileUp(segments'[i], logged'[i], damage')
  <2>1. CASE i = l + 1
    BY <1>1, <1>3, <1>6, <2>1
  <2>2. CASE i # l + 1
    <3>1. i \in 1 .. l
      BY <1>2, <2>2
    <3>2. segments'[i] = segments[i] /\ logged'[i] = logged[i]
      BY <1>3, <3>1
    <3> QED BY <1>1, <1>5, <3>1, <3>2
  <2> QED BY <2>1, <2>2
<1> QED BY <1>7

\* Where the records of a file stop.
LEMMA FileStops ==
    ASSUME TypeInv, Trusted, ByteInv, NEW i \in 1 .. Len(segments)
    PROVE  /\ logged[i] \in Seq(Batches) /\ segments[i] \in Cells /\ Fine(logged[i])
           /\ \E g, J :
                 /\ Stops(segments[i], logged[i], g, J)
                 /\ i # Len(segments) /\ damage # "seen" => J = <<>>
                 /\ i = Len(segments) /\ pc = "reading" => g = Len(logged[i])
<1> DEFINE cells == segments[i]
<1> DEFINE bs == logged[i]
<1>1. bs \in Seq(Batches) /\ cells \in Cells
  <2>1. /\ segments \in Seq(Cells) /\ logged \in Seq(Seq(Batches))
        /\ Len(logged) = Len(segments)
    BY DEF TypeInv
  <2> QED BY <2>1, ElementIs
<1>2. FileFine(i)
  BY DEF ByteInv
<1>3. CASE i = Len(segments) /\ pc \in {"reading", "refused"}
  <2>1. FileDown(cells, bs)
    BY <1>2, <1>3, Zenon DEF FileFine
  <2>2. Fine(bs)
    BY <2>1, Zenon DEF FileDown
  <2> HIDE DEF cells, bs
  <2>3. PICK J : Stops(cells, bs, Len(bs), J)
    BY <1>1, <2>1, DownStops
  <2> QED BY <1>1, <1>3, <2>2, <2>3, Zenon DEF cells, bs
<1>4. CASE ~(i = Len(segments) /\ pc \in {"reading", "refused"})
  <2>1. FileUp(cells, bs, damage)
    BY <1>2, <1>4, Zenon DEF FileFine
  <2>2. Fine(bs)
    BY <2>1, Zenon DEF FileUp
  <2>4. damage = "seen" => DamageSeen
    BY DEF Trusted
  <2>5. ~(i = Len(segments) /\ pc = "reading")
    BY <1>4
  <2> HIDE DEF cells, bs
  <2>3. PICK g, J : Stops(cells, bs, g, J) /\ (damage # "seen" => J = <<>>)
    BY <1>1, <2>1, <2>4, UpStops
  <2> QED BY <1>1, <2>2, <2>3, <2>5, Zenon DEF cells, bs
<1> QED BY <1>3, <1>4

LEMMA StopBytes ==
    ASSUME TearsSeen, TypeInv, ByteInv, NEW n \in 0 .. Len(segments[LastSegment]),
           NEW z \in ZeroTails, StopAndOpen(n, z)
    PROVE  ByteInv'
<1> DEFINE l == Len(segments)
<1> DEFINE cells == segments[l]
<1> DEFINE bs == logged[l]
<1> DEFINE zs == [i \in 1 .. z |-> 0]
<1> DEFINE is == SubSeq(cells, 1, n) \o zs
<1> DEFINE kept == SubSeq(bs, 1, WholeIn(bs, is))
<1>1. /\ segments' = [segments EXCEPT ![l] = is] /\ logged' = [logged EXCEPT ![l] = kept]
      /\ pc' = "reading" /\ at' = 1 /\ offset' = 0 /\ delivered' = <<>>
      /\ damage' = damage /\ (z > 0 => pc = "up" /\ damage = "none")
  BY DEF StopAndOpen, StartReading, LastSegment
<1>2. l \in 1 .. l /\ n \in 0 .. Len(cells) /\ z \in Nat
  BY LastIs, FramingAssumption
<1>3. TypeInv'
  BY StopType
<1>4. SUFFICES ASSUME Trusted'
               PROVE  (\A i \in 1 .. Len(segments') : FileFine(i)') /\ ReadTo(0)'
  BY <1>1, <1>4 DEF ByteInv
<1>5. Trusted
  BY <1>1, <1>4 DEF Trusted
<1>6. bs \in Seq(Batches) /\ cells \in Cells /\ Fine(bs)
  BY <1>2, <1>5, FileStops
<1>7. \E h, K : Breaks(is, bs, h, K)
  <2>1. CASE z = 0
    <3>1. zs = <<>>
      BY <2>1
    <3>2. SubSeq(cells, 1, n) \in Cells
      BY <1>2, <1>6, Split DEF Cells
    <3>3. is = SubSeq(cells, 1, n)
      BY <3>1, <3>2, JoinNone DEF Cells
    <3>4. PICK g, J : Stops(cells, bs, g, J)
      BY <1>2, <1>5, FileStops
    <3>5. Breaks(cells, bs, g, J)
      BY <3>4 DEF Stops
    <3> HIDE DEF cells, bs, zs, is, kept
    <3>6. \E h, K : Breaks(SubSeq(cells, 1, n), bs, h, K)
      BY <1>2, <1>6, <3>5, StopCuts
    <3> QED BY <3>3, <3>6
  <2>2. CASE z # 0
    <3>1. pc = "up" /\ damage = "none"
      BY <1>1, <1>2, <2>2
    <3>2. FileFine(l)
      BY <1>2, <1>5 DEF ByteInv
    <3>3. cells = EncodedAll(bs)
      BY <3>1, <3>2 DEF FileFine, FileUp
    <3>4. n \in 0 .. Len(EncodedAll(bs))
      BY <1>2, <3>3
    <3> HIDE DEF cells, bs
    <3>5. \E h, K : Breaks(SubSeq(EncodedAll(bs), 1, n) \o zs, bs, h, K)
      BY <1>6, <3>4, ZerosCut
    <3> QED BY <3>3, <3>5
  <2> QED BY <2>1, <2>2
<1>8. FileDown(is, kept)
  <2> HIDE DEF is, bs
  <2>1. PICK h, K : Breaks(is, bs, h, K)
    BY <1>7
  <2>2. WholeIn(bs, is) = h /\ IsCut(is, kept)
    <3>1. is \in Cells
      BY LeftType, <1>2 DEF Left, LastSegment, is, cells
    <3> QED BY <1>6, <2>1, <3>1, CutHere
  <2>3. h \in 0 .. Len(bs)
    BY <2>1 DEF Breaks
  <2>4. Fine(kept)
    BY <1>6, <2>2, <2>3, FineBegin
  <2> QED BY <2>2, <2>4 DEF FileDown
<1> HIDE DEF is, kept
<1>9. Len(segments') = l /\ segments'[l] = is /\ logged'[l] = kept
      /\ \A i \in 1 .. l : i # l => segments'[i] = segments[i] /\ logged'[i] = logged[i]
  BY <1>1, <1>2, SMTT(30) DEF TypeInv
<1>10. ASSUME NEW i \in 1 .. Len(segments') PROVE FileFine(i)'
  <2>1. CASE i = l
    BY <1>1, <1>8, <1>9, <2>1, ZenonT(40) DEF FileFine
  <2>2. CASE i # l
    <3>1. i \in 1 .. l /\ segments'[i] = segments[i] /\ logged'[i] = logged[i]
      BY <1>9, <2>2
    <3>2. FileUp(segments[i], logged[i], damage)
      BY <1>5, <2>2, <3>1 DEF ByteInv, FileFine
    <3> QED BY <1>1, <1>9, <2>2, <3>1, <3>2, ZenonT(40) DEF FileFine
  <2> QED BY <2>1, <2>2
<1>11. ReadTo(0)'
  <2>1. segments'[1] \in Cells /\ logged'[1] \in Seq(Batches)
    <3>1. /\ segments' \in Seq(Cells) /\ logged' \in Seq(Seq(Batches))
          /\ 1 \in 1 .. Len(segments') /\ Len(logged') = Len(segments')
      BY <1>1, <1>3 DEF TypeInv
    <3> QED BY <3>1, ElementIs
  <2>2. Position(segments'[1], logged'[1], 0, 0)
    BY <2>1, PositionStart
  <2>3. SubSeq(logged', 1, 1 - 1) = <<>> /\ SubSeq(logged'[1], 1, 0) = <<>>
    <3> DEFINE q == logged'
    <3> DEFINE r == logged'[1]
    <3>1. q \in Seq(Seq(Batches)) /\ r \in Seq(Batches)
      BY <1>3, <2>1 DEF TypeInv
    <3> HIDE DEF q, r
    <3>2. SubSeq(q, 1, 1 - 1) = <<>> /\ SubSeq(r, 1, 0) = <<>>
      BY <3>1
    <3> QED BY <3>2 DEF q, r
  <2>4. FlattenSeq(SubSeq(logged', 1, 1 - 1)) \o SubSeq(logged'[1], 1, 0) = <<>>
    <3>1. FlattenSeq(SubSeq(logged', 1, 1 - 1)) = <<>>
      BY <2>3, FlattenNone, Zenon
    <3>2. <<>> \o <<>> = <<>>
      OBVIOUS
    <3> QED BY <2>3, <3>1, <3>2, Zenon
  <2>5. RecordsOf(<<>>) = <<>>
    BY DEF RecordsOf
  <2>6. \A i \in 1 .. 1 - 1 : segments'[i] = EncodedAll(logged'[i])
    OBVIOUS
  <2> QED BY <1>1, <2>2, <2>4, <2>5, <2>6 DEF ReadTo, Passed
<1> QED BY <1>10, <1>11

LEMMA DamageBytes ==
    ASSUME TypeInv, ByteInv, NEW s \in 1 .. LastSegment, NEW c \in BadCells,
           NEW n \in 1 .. Len(segments[s]), DamageCell(s, n, c) \/ DamageUnseen(s, n, c)
    PROVE  ByteInv'
<1>1. CASE DamageUnseen(s, n, c)
  BY <1>1 DEF DamageUnseen, ByteInv, Trusted
<1>2. CASE DamageCell(s, n, c)
  <2> DEFINE l == Len(segments)
  <2> DEFINE is == [segments[s] EXCEPT ![n] = c]
  <2> DEFINE bs == logged[s]
  <2>1. /\ segments' = [segments EXCEPT ![s] = is] /\ logged' = logged
        /\ pc = "up" /\ pc' = "up" /\ damage = "none" /\ damage' = "seen"
        /\ segments[s][n] # c
    <3>1. segments' = [segments EXCEPT ![s][n] = c]
      BY <1>2 DEF DamageCell
    <3> QED BY <1>2, <3>1 DEF DamageCell
  <2>2. s \in 1 .. l
    BY DEF LastSegment
  <2>3. Trusted
    BY <2>1 DEF Trusted
  <2>4. \A i \in 1 .. l : Fine(logged[i]) /\ segments[i] = EncodedAll(logged[i])
    BY <2>1, <2>3 DEF ByteInv, FileFine, FileUp
  <2>5. bs \in Seq(Batches)
    BY <2>2, <2>3, FileStops
  <2>6. IsSpoilt(is, bs)
    <3>1. segments[s] = EncodedAll(bs)
      BY <2>2, <2>4
    <3>2. n \in 1 .. Len(EncodedAll(bs)) /\ EncodedAll(bs)[n] # c
      BY <2>1, <3>1
    <3> HIDE DEF bs
    <3>3. IsSpoilt([EncodedAll(bs) EXCEPT ![n] = c], bs)
      BY <2>5, <3>2, DamageSpoils
    <3> QED BY <3>1, <3>3
  <2>7. FileUp(is, bs, "seen")
    BY <2>2, <2>4, <2>6 DEF FileUp
  <2> HIDE DEF is
  <2>8. Len(segments') = l /\ segments'[s] = is
        /\ \A i \in 1 .. l : i # s => segments'[i] = segments[i]
    BY <2>1, <2>2 DEF TypeInv
  <2>9. ASSUME NEW i \in 1 .. l PROVE FileUp(segments'[i], logged'[i], damage')
    <3>1. CASE i = s
      BY <2>1, <2>7, <2>8, <3>1
    <3>2. CASE i # s
      BY <2>1, <2>4, <2>8, <3>2 DEF FileUp
    <3> QED BY <3>1, <3>2
  <2>10. \A i \in 1 .. Len(segments') : FileFine(i)'
    BY <2>1, <2>8, <2>9 DEF FileFine
  <2> QED BY <2>1, <2>10 DEF ByteInv
<1> QED BY <1>1, <1>2

\* What replay finds where it is.
LEMMA Found ==
    ASSUME TypeInv, Trusted, ByteInv, pc = "reading"
    PROVE  \E j :
              /\ ReadTo(j) /\ j \in 0 .. Len(logged[at]) /\ WholeRead = j
              /\ logged[at] \in Seq(Batches) /\ Fine(logged[at])
              /\ Rest = <<>> => j = Len(logged[at]) /\ segments[at] = EncodedAll(logged[at])
              /\ Readable =>
                    /\ j < Len(logged[at]) /\ logged[at][j + 1] \in Batches
                    /\ PayloadRead = Payload[logged[at][j + 1]]
                    /\ Position(segments[at], logged[at], j + 1, offset + HeaderLen + PayloadLen)
              /\ Unreadable =>
                    /\ at = Len(segments) => j = Len(logged[at])
                    /\ at = Len(segments) \/ damage = "seen"
<1> DEFINE cells == segments[at]
<1> DEFINE bs == logged[at]
<1>1. PICK j : ReadTo(j)
  BY DEF ByteInv
<1>2. Position(cells, bs, j, offset)
  BY <1>1 DEF ReadTo
<1>3. at \in 1 .. Len(segments)
  BY DEF TypeInv
<1>4. bs \in Seq(Batches) /\ cells \in Cells /\ Fine(bs)
  BY <1>3, FileStops
<1>5. PICK g, J : /\ Stops(cells, bs, g, J)
                  /\ at # Len(segments) /\ damage # "seen" => J = <<>>
                  /\ at = Len(segments) /\ pc = "reading" => g = Len(bs)
  BY <1>3, FileStops
<1>6. Rest = SubSeq(cells, offset + 1, Len(cells))
  BY DEF Rest
<1>7. WholeRead = WholeIn(bs, SubSeq(cells, 1, offset))
  BY DEF WholeRead
<1>13. Readable <=> BeginsRecord(Rest)
  BY DEF Readable
<1> DEFINE rest == Rest
<1> HIDE DEF cells, bs, rest
<1>8. /\ rest = <<>> => j = Len(bs) /\ cells = EncodedAll(bs)
      /\ BeginsRecord(rest) => NextIs(cells, bs, j, offset, rest)
      /\ BeginsRecord(rest) \/ Broken(j, g, J, rest)
  <2>1. rest = SubSeq(cells, offset + 1, Len(cells))
    BY <1>6 DEF rest
  <2>2. /\ bs \in Seq(Batches) /\ Fine(bs) /\ cells \in Cells /\ Position(cells, bs, j, offset)
        /\ Stops(cells, bs, g, J)
    BY <1>2, <1>4, <1>5
  <2>3. rest = <<>> => j = Len(bs) /\ cells = EncodedAll(bs)
    BY <2>1, <2>2, Finds
  <2>4. BeginsRecord(rest) => NextIs(cells, bs, j, offset, rest)
    BY <2>1, <2>2, Finds
  <2>5. BeginsRecord(rest) \/ Broken(j, g, J, rest)
    BY <2>1, <2>2, Finds
  <2> QED BY <2>3, <2>4, <2>5, Zenon
<1>9. WholeRead = j /\ j \in 0 .. Len(bs)
  BY <1>2, <1>4, <1>7, WholeAt, PositionIs
<1>10. Rest = <<>> => j = Len(bs) /\ cells = EncodedAll(bs)
  BY <1>8 DEF rest
<1>11. Readable =>
         /\ j < Len(bs) /\ bs[j + 1] \in Batches
         /\ PayloadRead = Payload[bs[j + 1]]
         /\ Position(cells, bs, j + 1, offset + HeaderLen + PayloadLen)
  BY <1>8, <1>13 DEF rest, NextIs, StartsWith, PayloadRead, PayloadLen
<1>12. Unreadable =>
         /\ at = Len(segments) => j = Len(bs)
         /\ at = Len(segments) \/ damage = "seen"
  <2>1. ASSUME Unreadable PROVE rest # <<>> /\ ~BeginsRecord(rest)
    BY <1>13, <2>1 DEF Unreadable, rest
  <2> QED BY <1>5, <1>8, <2>1 DEF Broken
<1> QED BY <1>1, <1>4, <1>9, <1>10, <1>11, <1>12, Zenon DEF cells, bs

LEMMA PassedType ==
    ASSUME TypeInv
    PROVE  /\ FlattenSeq(SubSeq(logged, 1, at - 1)) \in Seq(Batches)
           /\ logged[at] \in Seq(Batches)
<1> DEFINE T == Seq(Batches)
<1>1. logged \in Seq(T) /\ at \in 1 .. Len(logged)
  BY DEF TypeInv
<1> HIDE DEF T
<1>2. at - 1 \in 0 .. Len(logged)
  BY <1>1
<1>3. SubSeq(logged, 1, at - 1) \in Seq(T) /\ logged[at] \in T
  BY <1>1, <1>2, Split, ElementIs
<1> QED BY <1>3, FlattenType DEF T

LEMMA DeliverBytes ==
    ASSUME TypeInv, ByteInv, Deliver
    PROVE  ByteInv'
<1>1. /\ pc = "reading" /\ Readable /\ Rest # <<>>
      /\ LET d == Decode(PayloadRead) IN
         IF d.ok THEN /\ delivered' = Append(delivered, d.got)
                      /\ offset' = offset + HeaderLen + PayloadLen /\ pc' = pc
                 ELSE pc' = "refused" /\ delivered' = delivered /\ offset' = offset
      /\ segments' = segments /\ at' = at /\ logged' = logged /\ damage' = damage
  BY DEF Deliver
<1>2. SUFFICES ASSUME Trusted' PROVE ByteInv'
  BY DEF ByteInv
<1>3. Trusted
  BY <1>1, <1>2 DEF Trusted
<1> DEFINE bs == logged[at]
<1>4. PICK j : /\ ReadTo(j) /\ j \in 0 .. Len(bs) /\ j < Len(bs) /\ bs[j + 1] \in Batches
               /\ PayloadRead = Payload[bs[j + 1]]
               /\ Position(segments[at], bs, j + 1, offset + HeaderLen + PayloadLen)
  BY <1>1, <1>3, Found
<1> DEFINE k == j + 1
<1> DEFINE b == bs[k]
<1> DEFINE fs == FlattenSeq(SubSeq(logged, 1, at - 1))
<1>5. fs \in Seq(Batches) /\ bs \in Seq(Batches)
  BY PassedType
<1>6. Decode(PayloadRead).ok /\ Decode(PayloadRead).got = RecordOf[b] /\ b \in Batches
  BY <1>4, DecodeIs
<1>7. /\ delivered' = Append(delivered, RecordOf[b])
      /\ offset' = offset + HeaderLen + PayloadLen /\ pc' = pc
  BY <1>1, <1>6
<1>8. Passed(j) = fs \o SubSeq(bs, 1, j) /\ delivered = RecordsOf(Passed(j))
      /\ Passed(k)' = fs \o SubSeq(bs, 1, k)
  BY <1>1, <1>4 DEF ReadTo, Passed
<1>9. Position(segments[at], bs, k, offset')
  BY <1>4, <1>7
<1>10. \A i \in 1 .. at - 1 : segments[i] = EncodedAll(logged[i])
  BY <1>4 DEF ReadTo
<1>11. k \in 1 .. Len(bs) /\ k - 1 = j
  BY <1>4
<1> HIDE DEF k, b, fs
<1>12. delivered' = RecordsOf(fs \o SubSeq(bs, 1, k))
  <2> HIDE DEF bs
  <2> DEFINE f == SubSeq(bs, 1, k - 1)
  <2>1. f \in Seq(Batches) /\ SubSeq(bs, 1, k) = Append(f, b)
    BY <1>5, <1>11, BeginMore DEF b
  <2>2. Passed(j) = fs \o f
    BY <1>8, <1>11
  <2> HIDE DEF f
  <2> DEFINE xs == fs \o f
  <2>3. xs \in Seq(Batches) /\ fs \o Append(f, b) = Append(xs, b)
    BY <1>5, <1>6, <2>1, JoinMore, JoinIs
  <2> HIDE DEF xs
  <2>4. RecordsOf(Append(xs, b)) = Append(RecordsOf(xs), RecordOf[b])
    BY <1>6, <2>3, RecordsMore
  <2> QED BY <1>7, <1>8, <2>1, <2>2, <2>3, <2>4, Zenon DEF xs
<1>13. ReadTo(k)'
  BY <1>1, <1>8, <1>9, <1>10, <1>12 DEF ReadTo
<1>14. \A i \in 1 .. Len(segments) : FileFine(i)'
  <2>1. \A i \in 1 .. Len(segments) : FileFine(i)
    BY <1>3 DEF ByteInv
  <2> QED BY <1>1, <1>7, <2>1 DEF FileFine
<1> QED BY <1>1, <1>7, <1>13, <1>14 DEF ByteInv

LEMMA EndBytes ==
    ASSUME TypeInv, ByteInv, EndOfSegment
    PROVE  ByteInv'
<1> DEFINE bs == logged[at]
<1> DEFINE k == at + 1
<1> DEFINE fs == FlattenSeq(SubSeq(logged, 1, at - 1))
<1>1. /\ pc = "reading" /\ Rest = <<>>
      /\ IF at < Len(segments) THEN at' = at + 1 /\ offset' = 0 /\ pc' = pc
                               ELSE pc' = "opened" /\ at' = at /\ offset' = offset
      /\ segments' = segments /\ delivered' = delivered /\ logged' = logged
      /\ damage' = damage
  BY DEF EndOfSegment, LastSegment
<1>2. SUFFICES ASSUME Trusted' PROVE ByteInv'
  BY DEF ByteInv
<1>3. Trusted
  BY <1>1, <1>2 DEF Trusted
<1>4. PICK j : /\ ReadTo(j) /\ bs \in Seq(Batches) /\ Fine(bs)
               /\ j = Len(bs) /\ segments[at] = EncodedAll(bs)
  BY <1>1, <1>3, Found
<1>5. \A i \in 1 .. Len(segments) : FileFine(i)
  BY <1>3 DEF ByteInv
<1>6. at \in 1 .. Len(segments) /\ Len(logged) = Len(segments) /\ Len(segments) \in Nat
  BY DEF TypeInv
<1>7. SubSeq(bs, 1, Len(bs)) = bs
  BY <1>4
<1>8. CASE at < Len(segments)
  <2>1. /\ at' = k /\ offset' = 0 /\ pc' = pc
    BY <1>1, <1>8
  <2>2. k \in 1 .. Len(segments) /\ k - 1 = at
    BY <1>6, <1>8
  <2>3. segments[k] \in Cells /\ logged[k] \in Seq(Batches)
    BY <1>3, <2>2, FileStops
  <2>4. Position(segments[k], logged[k], 0, 0)
    BY <2>3, PositionStart
  <2> DEFINE T == Seq(Batches)
  <2>5. logged \in Seq(T) /\ fs \in T /\ bs \in T
    BY PassedType DEF TypeInv
  <2> DEFINE c == SubSeq(logged, 1, at - 1)
  <2>6. c \in Seq(T) /\ SubSeq(logged, 1, at) = Append(c, bs)
    <3> HIDE DEF T
    <3>1. at \in 1 .. Len(logged)
      BY <1>6
    <3> QED BY <2>5, <3>1, BeginMore
  <2> HIDE DEF bs, c
  <2>7. FlattenSeq(Append(c, bs)) = FlattenSeq(c) \o bs
    BY <2>5, <2>6, FlattenMore
  <2>8. FlattenSeq(SubSeq(logged, 1, at)) = fs \o bs
    BY <2>6, <2>7 DEF c
  <2>9. Passed(j) = fs \o bs
    BY <1>4, <1>7, Zenon DEF Passed, bs
  <2> HIDE DEF fs
  <2>10. Passed(0)' = fs \o bs
    <3>1. SubSeq(logged[k], 1, 0) = <<>>
      BY <2>3
    <3> DEFINE xs == fs \o bs
    <3>2. xs \in Seq(Batches)
      BY <2>5, JoinIs
    <3>3. xs \o <<>> = xs
      <4> HIDE DEF xs
      <4> QED BY <3>2, JoinNone
    <3>4. Passed(0)' = FlattenSeq(SubSeq(logged, 1, k - 1)) \o SubSeq(logged[k], 1, 0)
      BY <1>1, <2>1 DEF Passed
    <3> HIDE DEF k
    <3> QED BY <2>2, <2>8, <3>1, <3>3, <3>4, Zenon DEF xs
  <2>11. ASSUME NEW i \in 1 .. k - 1 PROVE segments[i] = EncodedAll(logged[i])
    <3>1. i = at \/ i \in 1 .. at - 1
      BY <1>6, <2>2
    <3> QED BY <1>4, <3>1 DEF ReadTo, bs
  <2>12. delivered' = RecordsOf(Passed(0)')
    BY <1>1, <1>4, <2>9, <2>10 DEF ReadTo
  <2> HIDE DEF k
  <2>13. ReadTo(0)'
    BY <1>1, <2>1, <2>4, <2>11, <2>12 DEF ReadTo
  <2>14. \A i \in 1 .. Len(segments) : FileFine(i)'
    BY <1>1, <1>5, <2>1 DEF FileFine
  <2> QED BY <1>1, <2>1, <2>13, <2>14 DEF ByteInv
<1>9. CASE ~(at < Len(segments))
  <2>1. at = Len(segments) /\ pc' = "opened" /\ at' = at /\ offset' = offset
    BY <1>1, <1>6, <1>9
  <2>2. offset = Len(segments[at])
    BY <1>4, <1>7 DEF ReadTo, Position
  <2>3. Opened'
    BY <1>1, <1>4, <2>1, <2>2 DEF Opened
  <2>4. ReadTo(j)'
    BY <1>1, <1>4, <2>1 DEF ReadTo, Passed
  <2>5. FileUp(segments[at], bs, damage)
    BY <1>4 DEF FileUp
  <2>6. \A i \in 1 .. Len(segments) : FileFine(i)'
    BY <1>1, <1>5, <2>1, <2>5 DEF FileFine
  <2> QED BY <1>1, <2>1, <2>3, <2>4, <2>6 DEF ByteInv
<1> QED BY <1>8, <1>9

LEMMA RepairBytes ==
    ASSUME TypeInv, ByteInv, Repair
    PROVE  ByteInv'
<1> DEFINE bs == logged[at]
<1> DEFINE is == SubSeq(segments[at], 1, offset)
<1>1. /\ pc = "reading" /\ Unreadable /\ at = Len(segments)
      /\ segments' = [segments EXCEPT ![at] = is]
      /\ logged' = [logged EXCEPT ![at] = SubSeq(bs, 1, WholeRead)]
      /\ pc' = "opened" /\ at' = at /\ offset' = offset /\ delivered' = delivered
      /\ damage' = damage
  BY DEF Repair, Unreadable, Repairable, LastSegment, replay
<1>2. SUFFICES ASSUME Trusted' PROVE ByteInv'
  BY DEF ByteInv
<1>3. Trusted
  BY <1>1, <1>2 DEF Trusted
<1>4. PICK j : /\ ReadTo(j) /\ bs \in Seq(Batches) /\ Fine(bs)
               /\ j = Len(bs) /\ WholeRead = j
  BY <1>1, <1>3, Found
<1>5. \A i \in 1 .. Len(segments) : FileFine(i)
  BY <1>3 DEF ByteInv
<1>6. /\ at \in 1 .. Len(segments) /\ Len(logged) = Len(segments) /\ segments \in Seq(Cells)
      /\ logged \in Seq(Seq(Batches))
  BY DEF TypeInv
<1>7. SubSeq(bs, 1, Len(bs)) = bs
  BY <1>4
<1>8. segments[at] \in Cells
  BY <1>6, ElementIs
<1>9. is = EncodedAll(bs) /\ offset = Len(EncodedAll(bs))
  <2>1. Position(segments[at], bs, j, offset)
    BY <1>4 DEF ReadTo
  <2>2. is = EncodedAll(SubSeq(bs, 1, j)) /\ offset = Len(EncodedAll(SubSeq(bs, 1, j)))
    BY <1>4, <1>8, <2>1, PositionIs
  <2> QED BY <1>4, <1>7, <2>2
<1>10. logged' = logged
  BY <1>1, <1>4, <1>6, <1>7
<1>11. /\ Len(segments') = Len(segments) /\ segments'[at] = EncodedAll(bs)
       /\ \A i \in 1 .. Len(segments) : i # at => segments'[i] = segments[i]
  <2> HIDE DEF is
  <2> QED BY <1>1, <1>6, <1>9
<1>12. Position(segments'[at], bs, j, offset)
  BY <1>4, <1>9, <1>11, PositionEnd
<1>13. ReadTo(j)'
  <2>1. ASSUME NEW i \in 1 .. at - 1 PROVE segments'[i] = EncodedAll(logged[i])
    <3>1. i \in 1 .. Len(segments) /\ i # at
      BY <1>6
    <3> QED BY <1>4, <1>11, <3>1 DEF ReadTo
  <2>2. delivered = RecordsOf(Passed(j))
    BY <1>4 DEF ReadTo
  <2>3. Passed(j)' = Passed(j)
    BY <1>1, <1>10 DEF Passed
  <2>4. delivered' = RecordsOf(Passed(j)')
    BY <1>1, <2>2, <2>3
  <2> QED BY <1>1, <1>10, <1>12, <2>1, <2>4 DEF ReadTo
<1>14. Opened'
  BY <1>1, <1>9, <1>10, <1>11 DEF Opened
<1>15. ASSUME NEW i \in 1 .. Len(segments) PROVE FileFine(i)'
  <2>1. CASE i = at
    <3>1. FileUp(segments'[at], bs, damage)
      BY <1>4, <1>11 DEF FileUp
    <3> QED BY <1>1, <1>10, <1>11, <2>1, <3>1 DEF FileFine
  <2>2. CASE i # at
    BY <1>1, <1>5, <1>10, <1>11, <2>2 DEF FileFine
  <2> QED BY <2>1, <2>2
<1> QED BY <1>1, <1>11, <1>13, <1>14, <1>15 DEF ByteInv

LEMMA RefuseBytes ==
    ASSUME TypeInv, ByteInv, Refuse
    PROVE  ByteInv'
<1>1. /\ pc = "reading" /\ Unreadable /\ at # Len(segments) /\ pc' = "refused"
      /\ segments' = segments /\ logged' = logged /\ damage' = damage
  BY DEF Refuse, Unreadable, Repairable, LastSegment
<1>2. SUFFICES ASSUME Trusted' PROVE ByteInv'
  BY DEF ByteInv
<1>3. Trusted
  BY <1>1, <1>2 DEF Trusted
<1>4. damage = "seen"
  BY <1>1, <1>3, Found
<1>5. \A i \in 1 .. Len(segments) : FileFine(i)
  BY <1>3 DEF ByteInv
<1>6. \A i \in 1 .. Len(segments) : FileFine(i)'
  BY <1>1, <1>5 DEF FileFine
<1> QED BY <1>1, <1>4, <1>6 DEF ByteInv

LEMMA ByteStep ==
    ASSUME TearsSeen, TypeInv, ByteInv, [Next]_vars
    PROVE  ByteInv'
<1>1. ASSUME NEW b \in Batches, Write(b) PROVE ByteInv'
  BY <1>1, WriteBytes
<1>2. ASSUME CreateSegment PROVE ByteInv'
  BY <1>2, CreateBytes
<1>3. ASSUME NEW n \in 0 .. Len(segments[LastSegment]), NEW z \in ZeroTails,
             StopAndOpen(n, z)
      PROVE  ByteInv'
  BY <1>3, StopBytes
<1>4. ASSUME NEW s \in 1 .. LastSegment, NEW c \in BadCells,
             NEW n \in 1 .. Len(segments[s]), DamageCell(s, n, c) \/ DamageUnseen(s, n, c)
      PROVE  ByteInv'
  BY <1>4, DamageBytes
<1>5. ASSUME Deliver PROVE ByteInv'
  BY <1>5, DeliverBytes
<1>6. ASSUME EndOfSegment PROVE ByteInv'
  BY <1>6, EndBytes
<1>7. ASSUME Repair PROVE ByteInv'
  BY <1>7, RepairBytes
<1>8. ASSUME Refuse PROVE ByteInv'
  BY <1>8, RefuseBytes
<1>9. ASSUME UNCHANGED vars PROVE ByteInv'
  BY <1>9 DEF vars, ByteInv, Trusted, FileFine, ReadTo, Passed, Opened
<1> QED BY <1>1, <1>2, <1>3, <1>4, <1>5, <1>6, <1>7, <1>8, <1>9 DEF Next

LEMMA BytesHold == ASSUME TearsSeen PROVE Spec => [](TypeInv /\ ByteInv)
<1>1. Init => ByteInv
  BY InitBytes
<1>2. TypeInv /\ ByteInv /\ [Next]_vars => ByteInv'
  BY ByteStep
<1> QED BY <1>1, <1>2, TypeHolds, PTL DEF Spec

\* Where no zeros are left the checksum has nothing to tell: the beginning of a
\* record is too short for one.
LEMMA NoZeros == ZeroTails \subseteq {0} => TearsSeen
<1> SUFFICES ASSUME ZeroTails \subseteq {0}, NEW b \in Batches, NEW z \in ZeroTails,
                    NEW k \in 0 .. Len(Encoded[b]) - 1
             PROVE  ~BeginsRecord(SubSeq(Encoded[b], 1, k) \o [i \in 1 .. z |-> 0])
  BY DEF TearsSeen
<1>1. [i \in 1 .. z |-> 0] = <<>>
  <2>1. z = 0
    OBVIOUS
  <2> QED BY <2>1
<1> DEFINE T == SubSeq(Encoded[b], 1, k)
<1>2. T \in Cells /\ ~BeginsRecord(T)
  BY TornIsNone
<1> HIDE DEF T
<1>3. T \o <<>> = T
  BY <1>2, JoinNone DEF Cells
<1> QED BY <1>1, <1>2, <1>3 DEF T

LEMMA ReadWhole ==
    ASSUME TypeInv, NEW j, ReadTo(j)
    PROVE  WholeRead = j
<1>1. /\ segments \in Seq(Cells) /\ logged \in Seq(Seq(Batches))
      /\ at \in 1 .. Len(segments) /\ at \in 1 .. Len(logged)
  BY DEF TypeInv
<1>2. segments[at] \in Cells /\ logged[at] \in Seq(Batches)
  BY <1>1, ElementIs
<1>3. Position(segments[at], logged[at], j, offset)
  BY DEF ReadTo
<1>4. WholeIn(logged[at], SubSeq(segments[at], 1, offset)) = j
  BY <1>2, <1>3, WholeAt
<1> QED BY <1>4 DEF WholeRead

LEMMA Repairs ==
    ASSUME TypeInv, ByteInv
    PROVE  TearsRepaired
<1> SUFFICES ASSUME damage = "none"
             PROVE  pc # "refused" /\ (Unreadable => WholeRead = Len(logged[at]))
  BY DEF TearsRepaired
<1>1. Trusted
  BY DEF Trusted
<1>2. pc # "refused"
  BY <1>1 DEF ByteInv
<1>3. ASSUME Unreadable PROVE WholeRead = Len(logged[at])
  <2>1. pc = "reading"
    BY <1>3 DEF Unreadable
  <2>2. PICK j : WholeRead = j /\ logged[at] \in Seq(Batches)
                 /\ (at = Len(segments) => j = Len(logged[at]))
                 /\ (at = Len(segments) \/ damage = "seen")
    BY <1>1, <1>3, <2>1, Found
  <2> QED BY <2>2
<1> QED BY <1>2, <1>3

LEMMA Delivers ==
    ASSUME DamageSeen, TypeInv, ByteInv
    PROVE  DeliversWritten
<1> SUFFICES ASSUME damage # "unseen", pc \in {"reading", "opened"}
             PROVE  delivered = RecordsOf(Passed(WholeRead))
  BY DEF DeliversWritten, RecordsOf, Passed
<1>1. Trusted
  BY DEF Trusted, TypeInv
<1>2. PICK j : ReadTo(j)
  BY <1>1 DEF ByteInv
<1>3. WholeRead = j
  BY <1>2, ReadWhole
<1> QED BY <1>2, <1>3 DEF ReadTo

LEMMA Opens ==
    ASSUME DamageSeen, TypeInv, ByteInv
    PROVE  OpensClean
<1> SUFFICES ASSUME damage # "unseen", pc = "opened"
             PROVE  FlattenSeq(segments) = EncodedAll(Written)
  BY DEF OpensClean
<1>1. Trusted
  BY DEF Trusted, TypeInv
<1>2. Opened
  BY <1>1 DEF ByteInv
<1>3. PICK j : ReadTo(j)
  BY <1>1 DEF ByteInv
<1>4. /\ segments \in Seq(Cells) /\ logged \in Seq(Seq(Batches))
      /\ Len(segments) = Len(logged) /\ at \in 1 .. Len(segments)
  BY DEF TypeInv
<1>5. ASSUME NEW i \in 1 .. Len(segments) PROVE segments[i] = EncodedAll(logged[i])
  <2>1. i = at \/ i \in 1 .. at - 1
    BY <1>2, <1>4 DEF Opened
  <2> QED BY <1>2, <1>3, <2>1 DEF Opened, ReadTo
<1> QED BY <1>4, <1>5, FlattenAll DEF Written

\* When the checksum tells the beginning of a record with zeros behind it from a
\* record, replay never refuses a log that was only stopped, however often and
\* wherever each stop cut it (reader.rs:53), and repairing it costs no record
\* that was whole: for all batches and all bounds.
THEOREM RepairsTears == TearsSeen => (Spec => []TearsRepaired)
<1> SUFFICES ASSUME TearsSeen PROVE Spec => []TearsRepaired
  OBVIOUS
<1>1. Spec => [](TypeInv /\ ByteInv)
  BY BytesHold
<1>2. TypeInv /\ ByteInv => TearsRepaired
  BY Repairs
<1> QED BY <1>1, <1>2, PTL

\* That needs nothing of the checksum where a stop leaves no zeros: a record cut
\* short is shorter than its header says.
THEOREM RepairsCuts == ZeroTails \subseteq {0} => (Spec => []TearsRepaired)
BY NoZeros, RepairsTears

\* When the checksum also tells a record with a changed cell from a record, what
\* replay hands on is the records that were written, in order, up to where it
\* is: never one behind the damage, and none that was not written.
THEOREM DeliversInOrder == TearsSeen /\ DamageSeen => (Spec => []DeliversWritten)
<1> SUFFICES ASSUME TearsSeen, DamageSeen PROVE Spec => []DeliversWritten
  OBVIOUS
<1>1. Spec => [](TypeInv /\ ByteInv)
  BY BytesHold
<1>2. TypeInv /\ ByteInv => DeliversWritten
  BY Delivers
<1> QED BY <1>1, <1>2, PTL

\* And a log that opens holds those records and nothing else: what replay left
\* in the files is what it handed on, so that the next opening reads the same.
THEOREM LeavesClean == TearsSeen /\ DamageSeen => (Spec => []OpensClean)
<1> SUFFICES ASSUME TearsSeen, DamageSeen PROVE Spec => []OpensClean
  OBVIOUS
<1>1. Spec => [](TypeInv /\ ByteInv)
  BY BytesHold
<1>2. TypeInv /\ ByteInv => OpensClean
  BY Opens
<1> QED BY <1>1, <1>2, PTL
===============================================================================
