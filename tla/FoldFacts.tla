------------------------------- MODULE FoldFacts ------------------------------
(***************************************************************************)
(* Facts about folds and sequences of any kind. FoldLeft and FlattenSeq are*)
(* defined by CHOOSE of a recursive function, so that there is a function  *)
(* to choose needs a proof, once for any fold: then it goes through a run  *)
(* of values, from its base to its result. Induction is by well-foundedness*)
(* of < over sets of numbers, as the provers take no operator for the      *)
(* predicate of an induction theorem.                                      *)
(***************************************************************************)
EXTENDS Integers, SequencesExt, WellFoundedInduction, TLAPS

-----------------------------------------------------------------------------
(* Induction. *)

\* Induction over the numbers, for a set.
LEMMA NatSet ==
    ASSUME NEW S, 0 \in S, \A n \in Nat : n \in S => n + 1 \in S
    PROVE  Nat \subseteq S
<1> DEFINE T == {n \in Nat : n \notin S}
<1>1. SUFFICES ASSUME T # {} PROVE FALSE
  OBVIOUS
<1>2. \E x \in T : \A y \in T : ~ (<<y, x>> \in OpToRel(<, Nat))
  BY <1>1, NatLessThanWellFounded, WFMin, Zenon
<1>3. PICK x \in T : \A y \in T : ~ (<<y, x>> \in OpToRel(<, Nat))
  BY <1>2, Zenon
<1>4. x \in Nat /\ x \notin S /\ x # 0
  OBVIOUS
<1>5. x - 1 \in Nat /\ x - 1 < x
  BY <1>4
<1>6. x - 1 \notin T
  BY <1>3, <1>4, <1>5, Zenon DEF OpToRel
<1>7. x - 1 \in S
  BY <1>5, <1>6
<1>8. (x - 1) + 1 = x
  BY <1>4
<1> QED BY <1>4, <1>5, <1>7, <1>8

\* The same up to n.
LEMMA UpTo ==
    ASSUME NEW n \in Nat, NEW S, 0 \in S, \A i \in 1 .. n : i - 1 \in S => i \in S
    PROVE  n \in S /\ \A i \in 0 .. n : i \in S
<1> DEFINE G == {i \in Nat : i <= n => i \in S}
<1>1. 0 \in G
  OBVIOUS
<1>2. ASSUME NEW i \in Nat, i \in G PROVE i + 1 \in G
  <2>1. ASSUME i + 1 <= n PROVE i + 1 \in S
    <3>1. i + 1 \in 1 .. n /\ (i + 1) - 1 = i /\ i <= n
      BY <2>1
    <3> QED BY <1>2, <3>1
  <2> QED BY <2>1
<1> HIDE DEF G
<1>3. Nat \subseteq G
  BY <1>1, <1>2, NatSet
<1> QED BY <1>3 DEF G

LEMMA AtMost == \A a, b \in Nat : a <= b => a = b \/ a < b
OBVIOUS

\* A set of places has a last one.
LEMMA MaxOf ==
    ASSUME NEW n \in Nat, NEW s \in SUBSET (1 .. n), s # {}
    PROVE  Max(s) \in s /\ \A x \in s : x <= Max(s)
<1> DEFINE P(k) == \A u \in SUBSET (1 .. k) : u # {} => \E x \in u : \A y \in u : x >= y
<1> DEFINE G == {k \in Nat : P(k)}
<1>1. 0 \in G
  <2>1. 1 .. 0 = {}
    OBVIOUS
  <2>2. P(0)
    BY <2>1
  <2> QED BY <2>2
<1>2. \A k \in Nat : k \in G => k + 1 \in G
  <2> SUFFICES ASSUME NEW k \in Nat, P(k), NEW u \in SUBSET (1 .. k + 1), u # {}
               PROVE  \E x \in u : \A y \in u : x >= y
    OBVIOUS
  <2>1. CASE k + 1 \in u
    BY <2>1
  <2>2. CASE k + 1 \notin u
    <3>1. u \in SUBSET (1 .. k)
      BY <2>2
    <3> QED BY <3>1
  <2> QED BY <2>1, <2>2
<1> HIDE DEF G
<1>3. n \in G
  BY <1>1, <1>2, NatSet
<1>4. \E x \in s : \A y \in s : x >= y
  BY <1>3 DEF G
<1>5. Max(s) \in s /\ \A x \in s : Max(s) >= x
  BY <1>4, Zenon DEF Max
<1> QED BY <1>5

\* With n + 1 in a set up to n + 1, that is its last.
LEMMA Ends ==
    ASSUME NEW n \in Nat, NEW s \in SUBSET (1 .. n + 1), n + 1 \in s
    PROVE  Max(s) = n + 1 /\ s \ {Max(s)} \in SUBSET (1 .. n)
<1>1. n + 1 \in Nat /\ s # {}
  OBVIOUS
<1>2. Max(s) \in s /\ \A x \in s : x <= Max(s)
  BY <1>1, MaxOf
<1>3. Max(s) \in 1 .. n + 1 /\ n + 1 <= Max(s)
  BY <1>2
<1>4. Max(s) = n + 1
  BY <1>3
<1> QED BY <1>4

-----------------------------------------------------------------------------
(* Folds. *)

\* F folds elements of U, those of the sequence q, into values of T.
Foldable(T, U, base, F, q) == base \in T /\ F \in [T \X U -> T] /\ q \in Seq(U)

\* it is the iteration FoldLeft is defined with: by sets of places, the last
\* place first. Outside T and U nothing is known of it.
Iteration(it, T, U, base, F, q) ==
    /\ it[{}] = base
    /\ \A s \in SUBSET DOMAIN q :
          s # {} /\ it[s \ {Max(s)}] \in T /\ q[Max(s)] \in U
            => it[s] = F[<<it[s \ {Max(s)}], q[Max(s)]>>]

\* The same, with every value in T and every element in U.
Values(it, T, U, base, F, q) ==
    /\ it \in [SUBSET DOMAIN q -> T] /\ it[{}] = base
    /\ \A s \in SUBSET DOMAIN q :
          s # {} => /\ it[s \ {Max(s)}] \in T /\ q[Max(s)] \in U
                    /\ it[s] = F[<<it[s \ {Max(s)}], q[Max(s)]>>]

\* r has the values of a fold element by element.
Run(r, T, U, base, F, q) ==
    /\ r \in [0 .. Len(q) -> T] /\ r[0] = base
    /\ \A i \in 1 .. Len(q) :
          r[i - 1] \in T /\ q[i] \in U /\ r[i] = F[<<r[i - 1], q[i]>>]

\* There is an iteration to choose.
LEMMA Iterates ==
    ASSUME NEW T, NEW U, NEW base, NEW F, NEW q, Foldable(T, U, base, F, q)
    PROVE  \E it : Values(it, T, U, base, F, q)
<1>f. base \in T /\ F \in [T \X U -> T] /\ q \in Seq(U)
  BY DEF Foldable
<1> DEFINE Val(g, s) == g[s] = IF s = {} THEN base
    ELSE F[<<g[s \ {Max(s)}], q[Max(s)]>>]
<1> DEFINE Has(n) ==
      \E g \in [SUBSET (1 .. n) -> T] : \A s \in SUBSET (1 .. n) : Val(g, s)
<1> DEFINE G == {n \in Nat : n <= Len(q) => Has(n)}
<1>1. 0 \in G
  <2> DEFINE g == [s \in SUBSET (1 .. 0) |-> base]
  <2>1. 1 .. 0 = {}
    OBVIOUS
  <2>2. g \in [SUBSET (1 .. 0) -> T] /\ \A s \in SUBSET (1 .. 0) : Val(g, s)
    BY <1>f, <2>1
  <2> QED BY <2>2
<1>2. ASSUME NEW n \in Nat, n \in G PROVE n + 1 \in G
  <2> HIDE DEF Has
  <2> SUFFICES ASSUME n + 1 <= Len(q) PROVE Has(n + 1)
    OBVIOUS
  <2>0. Has(n)
    BY <1>2
  <2>1. PICK h \in [SUBSET (1 .. n) -> T] : \A s \in SUBSET (1 .. n) : Val(h, s)
    BY <2>0 DEF Has
  <2> HIDE DEF G
  <2> DEFINE g == [s \in SUBSET (1 .. n + 1) |->
                     IF n + 1 \in s THEN F[<<h[s \ {n + 1}], q[n + 1]>>] ELSE h[s]]
  <2>2. \A s \in SUBSET (1 .. n + 1) : n + 1 \notin s => s \in SUBSET (1 .. n)
    OBVIOUS
  <2>3. \A s \in SUBSET (1 .. n + 1) : s \ {n + 1} \in SUBSET (1 .. n)
    OBVIOUS
  <2>4. q[n + 1] \in U
    BY <1>f
  <2>5. g \in [SUBSET (1 .. n + 1) -> T]
    BY <1>f, <2>2, <2>3, <2>4
  <2>6. ASSUME NEW s \in SUBSET (1 .. n + 1) PROVE Val(g, s)
    <3>1. CASE n + 1 \in s
      <4>2. Max(s) = n + 1 /\ s # {}
        BY <3>1, Ends
      <4>3. s \ {n + 1} \in SUBSET (1 .. n + 1) /\ n + 1 \notin s \ {n + 1}
        OBVIOUS
      <4>4. g[s \ {n + 1}] = h[s \ {n + 1}]
        BY <4>3
      <4>5. g[s] = F[<<h[s \ {n + 1}], q[n + 1]>>]
        BY <3>1
      <4> HIDE DEF g
      <4> QED BY <4>2, <4>4, <4>5
    <3>2. CASE n + 1 \notin s
      <4>1. s \in SUBSET (1 .. n) /\ g[s] = h[s]
        BY <2>2, <3>2
      <4>2. Val(h, s)
        BY <2>1, <4>1
      <4>3. s \ {Max(s)} \in SUBSET (1 .. n + 1) /\ n + 1 \notin s \ {Max(s)}
        BY <3>2
      <4>4. g[s \ {Max(s)}] = h[s \ {Max(s)}]
        BY <4>3
      <4> HIDE DEF g
      <4> QED BY <4>1, <4>2, <4>4
    <3> QED BY <3>1, <3>2
  <2> HIDE DEF g
  <2> QED BY <2>5, <2>6 DEF Has
<1> HIDE DEF G, Has
<1>3. Len(q) \in Nat /\ DOMAIN q = 1 .. Len(q)
  BY <1>f
<1>4. Len(q) \in G
  BY <1>1, <1>2, <1>3, NatSet
<1>5. Has(Len(q))
  BY <1>4 DEF G
<1>6. PICK g \in [SUBSET DOMAIN q -> T] : \A s \in SUBSET DOMAIN q : Val(g, s)
  BY <1>3, <1>5 DEF Has
<1>7. ASSUME NEW s \in SUBSET DOMAIN q, s # {}
      PROVE  g[s \ {Max(s)}] \in T /\ q[Max(s)] \in U
  <2>1. Max(s) \in DOMAIN q
    BY <1>3, <1>7, MaxOf
  <2> QED BY <1>f, <2>1
<1> QED BY <1>6, <1>7 DEF Values

\* An iteration goes through the values of a run.
LEMMA Unrolled ==
    ASSUME NEW T, NEW U, NEW base, NEW F, NEW q, Foldable(T, U, base, F, q),
           NEW it, Iteration(it, T, U, base, F, q)
    PROVE  \E r : Run(r, T, U, base, F, q) /\ r[Len(q)] = it[DOMAIN q]
<1>f. base \in T /\ F \in [T \X U -> T] /\ q \in Seq(U)
  BY DEF Foldable
<1> DEFINE G == {i \in Nat : i <= Len(q) => it[1 .. i] \in T}
<1>0. Len(q) \in Nat /\ DOMAIN q = 1 .. Len(q) /\ 1 .. 0 = {}
  BY <1>f
<1>1. ASSUME NEW i \in Nat, i + 1 <= Len(q), it[1 .. i] \in T
      PROVE  it[1 .. i + 1] = F[<<it[1 .. i], q[i + 1]>>] /\ it[1 .. i + 1] \in T
  <2>1. 1 .. i + 1 \in SUBSET DOMAIN q /\ i + 1 \in 1 .. i + 1 /\ q[i + 1] \in U
    BY <1>f, <1>0, <1>1
  <2>2. Max(1 .. i + 1) = i + 1
    BY <2>1, Ends
  <2>3. (1 .. i + 1) \ {i + 1} = 1 .. i
    OBVIOUS
  <2>4. it[1 .. i + 1] = F[<<it[1 .. i], q[i + 1]>>]
    BY <1>1, <2>1, <2>2, <2>3 DEF Iteration
  <2> QED BY <1>f, <1>1, <2>1, <2>4
<1>2. 0 \in G
  BY <1>f, <1>0 DEF Iteration
<1>3. ASSUME NEW i \in Nat, i \in G PROVE i + 1 \in G
  <2>1. i + 1 <= Len(q) => i <= Len(q)
    BY <1>0
  <2>2. ASSUME i + 1 <= Len(q) PROVE it[1 .. i + 1] \in T
    BY <1>1, <1>3, <2>1, <2>2
  <2> QED BY <2>2
<1> HIDE DEF G
<1>a. Nat \subseteq G
  BY <1>2, <1>3, NatSet
<1>4. \A i \in 0 .. Len(q) : it[1 .. i] \in T
  BY <1>0, <1>a DEF G
<1> DEFINE r == [i \in 0 .. Len(q) |-> it[1 .. i]]
<1>5. r \in [0 .. Len(q) -> T] /\ r[0] = base /\ r[Len(q)] = it[DOMAIN q]
  BY <1>0, <1>4 DEF Iteration
<1>6. ASSUME NEW i \in 1 .. Len(q)
      PROVE  r[i - 1] \in T /\ q[i] \in U /\ r[i] = F[<<r[i - 1], q[i]>>]
  <2>1. i - 1 \in Nat /\ (i - 1) + 1 = i /\ i - 1 \in 0 .. Len(q)
    BY <1>0
  <2>2. it[1 .. i] = F[<<it[1 .. i - 1], q[i]>>]
    BY <1>0, <1>1, <1>4, <2>1
  <2> QED BY <1>f, <1>0, <1>4, <2>1, <2>2
<1> HIDE DEF r
<1>7. Run(r, T, U, base, F, q)
  BY <1>5, <1>6 DEF Run
<1> QED BY <1>5, <1>7

\* A fold has a run.
LEMMA HasRun ==
    ASSUME NEW T, NEW U, NEW base, NEW F, NEW q, Foldable(T, U, base, F, q)
    PROVE  \E r : Run(r, T, U, base, F, q)
<1>1. PICK it : Values(it, T, U, base, F, q)
  BY Iterates
<1>2. Iteration(it, T, U, base, F, q)
  BY <1>1 DEF Values, Iteration
<1> QED BY <1>2, Unrolled

-----------------------------------------------------------------------------
(* Sequences put end to end. *)

LEMMA FunctionIsSeq ==
    ASSUME NEW S, NEW n \in Nat, NEW f \in [1 .. n -> S]
    PROVE  f \in Seq(S)
OBVIOUS

\* Sequences with the same elements are the same.
LEMMA SameSeq ==
    ASSUME NEW S, NEW a \in Seq(S), NEW b \in Seq(S), Len(a) = Len(b),
           \A i \in 1 .. Len(a) : a[i] = b[i]
    PROVE  a = b
OBVIOUS

\* Two sequences in one.
LEMMA JoinIs ==
    ASSUME NEW S, NEW a \in Seq(S), NEW b \in Seq(S)
    PROVE  /\ a \o b \in Seq(S) /\ Len(a \o b) = Len(a) + Len(b)
           /\ DOMAIN (a \o b) = 1 .. Len(a) + Len(b)
           /\ \A i \in 1 .. Len(a) : (a \o b)[i] = a[i]
           /\ \A i \in 1 .. Len(b) : (a \o b)[Len(a) + i] = b[i]
OBVIOUS

\* Nothing added to a sequence.
LEMMA JoinNone ==
    ASSUME NEW S, NEW a \in Seq(S)
    PROVE  a \o <<>> = a /\ <<>> \o a = a
OBVIOUS

\* Three sequences, and an element at the end, in any grouping.
LEMMA JoinJoin ==
    ASSUME NEW S, NEW a \in Seq(S), NEW b \in Seq(S), NEW c \in Seq(S)
    PROVE  (a \o b) \o c = a \o (b \o c)
<1> DEFINE x == (a \o b) \o c
<1> DEFINE y == a \o (b \o c)
<1>1. /\ a \o b \in Seq(S) /\ Len(a \o b) = Len(a) + Len(b)
      /\ b \o c \in Seq(S) /\ Len(b \o c) = Len(b) + Len(c)
      /\ Len(a) \in Nat /\ Len(b) \in Nat /\ Len(c) \in Nat
  OBVIOUS
<1>2. /\ x \in Seq(S) /\ Len(x) = Len(a) + Len(b) + Len(c)
      /\ y \in Seq(S) /\ Len(y) = Len(a) + (Len(b) + Len(c))
  BY <1>1
<1>3. ASSUME NEW i \in 1 .. Len(x) PROVE x[i] = y[i]
  <2>1. CASE i <= Len(a)
    <3>1. i \in 1 .. Len(a) /\ i \in 1 .. Len(a \o b)
      BY <1>1, <1>2, <2>1
    <3>2. x[i] = (a \o b)[i] /\ (a \o b)[i] = a[i] /\ y[i] = a[i]
      BY <1>1, <3>1, JoinIs
    <3> QED BY <3>2
  <2>2. CASE i > Len(a) /\ i <= Len(a) + Len(b)
    <3> DEFINE j == i - Len(a)
    <3>1. j \in 1 .. Len(b) /\ j \in 1 .. Len(b \o c) /\ i \in 1 .. Len(a \o b)
          /\ i = Len(a) + j
      BY <1>1, <1>2, <2>2
    <3> HIDE DEF j
    <3>2. x[i] = (a \o b)[i] /\ (a \o b)[i] = b[j]
      BY <1>1, <3>1, JoinIs
    <3>3. y[i] = (b \o c)[j] /\ (b \o c)[j] = b[j]
      BY <1>1, <3>1, JoinIs
    <3> QED BY <3>2, <3>3
  <2>3. CASE i > Len(a) + Len(b)
    <3> DEFINE j == i - (Len(a) + Len(b))
    <3>1. j \in 1 .. Len(c) /\ i = Len(a \o b) + j
          /\ Len(b) + j \in 1 .. Len(b \o c) /\ i = Len(a) + (Len(b) + j)
      BY <1>1, <1>2, <2>3
    <3> HIDE DEF j
    <3>2. x[i] = c[j]
      BY <1>1, <3>1, JoinIs
    <3>3. y[i] = (b \o c)[Len(b) + j] /\ (b \o c)[Len(b) + j] = c[j]
      BY <1>1, <3>1, JoinIs
    <3> QED BY <3>2, <3>3
  <2> QED BY <1>1, <1>2, <2>1, <2>2, <2>3
<1> HIDE DEF x, y
<1>4. Len(x) = Len(y)
  BY <1>1, <1>2
<1>5. x \in Seq(S) /\ y \in Seq(S)
  BY <1>2
<1>6. x = y
  BY <1>3, <1>4, <1>5, SameSeq
<1> QED BY <1>6 DEF x, y

LEMMA AppendJoins ==
    ASSUME NEW S, NEW a \in Seq(S), NEW x \in S
    PROVE  Append(a, x) = a \o <<x>> /\ <<x>> \in Seq(S)
<1> DEFINE e == <<x>>
<1>1. e \in Seq(S) /\ Len(e) = 1 /\ e[1] = x
  OBVIOUS
<1> HIDE DEF e
<1>0. /\ Append(a, x) \in Seq(S) /\ Len(Append(a, x)) = Len(a) + 1 /\ Len(a) \in Nat
      /\ \A i \in 1 .. Len(a) + 1 :
            Append(a, x)[i] = IF i = Len(a) + 1 THEN x ELSE a[i]
  OBVIOUS
<1>2. /\ a \o e \in Seq(S) /\ Len(a \o e) = Len(a) + 1
      /\ \A i \in 1 .. Len(a) : (a \o e)[i] = a[i]
      /\ (a \o e)[Len(a) + 1] = e[1]
  BY <1>0, <1>1, JoinIs
<1>3. ASSUME NEW i \in 1 .. Len(a) + 1 PROVE Append(a, x)[i] = (a \o e)[i]
  BY <1>0, <1>1, <1>2
<1>4. Append(a, x) = a \o e
  BY <1>0, <1>2, <1>3, SameSeq
<1> QED BY <1>1, <1>4 DEF e

LEMMA JoinMore ==
    ASSUME NEW S, NEW a \in Seq(S), NEW b \in Seq(S), NEW x \in S
    PROVE  a \o Append(b, x) = Append(a \o b, x)
<1>1. Append(b, x) = b \o <<x>> /\ <<x>> \in Seq(S)
  BY AppendJoins
<1>2. a \o b \in Seq(S)
  OBVIOUS
<1>3. Append(a \o b, x) = (a \o b) \o <<x>>
  BY <1>2, AppendJoins
<1> QED BY <1>1, <1>3, JoinJoin

\* The first i elements.
LEMMA BeginMore ==
    ASSUME NEW S, NEW b \in Seq(S), NEW i \in 1 .. Len(b)
    PROVE  LET c == SubSeq(b, 1, i - 1) IN
           c \in Seq(S) /\ SubSeq(b, 1, i) = Append(c, b[i])
<1> DEFINE c == SubSeq(b, 1, i - 1)
<1> DEFINE x == SubSeq(b, 1, i)
<1> DEFINE y == Append(c, b[i])
<1>1. Len(b) \in Nat /\ i \in Nat /\ b[i] \in S
  OBVIOUS
<1>2. /\ c \in Seq(S) /\ Len(c) = i - 1 /\ \A j \in 1 .. i - 1 : c[j] = b[j]
      /\ x \in Seq(S) /\ Len(x) = i /\ \A j \in 1 .. i : x[j] = b[j]
  BY <1>1
<1> HIDE DEF c, x
<1>3. y \in Seq(S) /\ Len(y) = i /\ \A j \in 1 .. i : y[j] = b[j]
  BY <1>1, <1>2
<1> HIDE DEF y
<1>4. x = y
  BY <1>1, <1>2, <1>3, SameSeq
<1> QED BY <1>2, <1>4 DEF c, x, y

\* A sequence in two parts.
LEMMA Split ==
    ASSUME NEW S, NEW b \in Seq(S), NEW n \in 0 .. Len(b)
    PROVE  /\ SubSeq(b, 1, n) \in Seq(S) /\ Len(SubSeq(b, 1, n)) = n
           /\ \A i \in 1 .. n : SubSeq(b, 1, n)[i] = b[i]
           /\ SubSeq(b, n + 1, Len(b)) \in Seq(S)
           /\ Len(SubSeq(b, n + 1, Len(b))) = Len(b) - n
           /\ DOMAIN SubSeq(b, n + 1, Len(b)) = 1 .. Len(b) - n
           /\ \A i \in 1 .. Len(b) - n : SubSeq(b, n + 1, Len(b))[i] = b[n + i]
           /\ Len(b) \in Nat /\ n \in Nat /\ n <= Len(b) /\ DOMAIN b = 1 .. Len(b)
OBVIOUS

\* A part of a sequence.
LEMMA MiddleMore ==
    ASSUME NEW S, NEW b \in Seq(S), NEW a \in Nat, NEW i \in 1 .. Len(b)
    PROVE  LET c == SubSeq(b, a + 1, i - 1) IN
           /\ c \in Seq(S) /\ SubSeq(b, a + 1, i) \in Seq(S)
           /\ a < i => SubSeq(b, a + 1, i) = Append(c, b[i])
           /\ i <= a => SubSeq(b, a + 1, i) = <<>>
<1> DEFINE c == SubSeq(b, a + 1, i - 1)
<1> DEFINE x == SubSeq(b, a + 1, i)
<1> DEFINE y == Append(c, b[i])
<1>1. Len(b) \in Nat /\ i \in Nat /\ b[i] \in S
  OBVIOUS
<1>2. c \in Seq(S) /\ x \in Seq(S)
  BY <1>1
<1>3. ASSUME a < i PROVE x = y
  <2>1. /\ Len(c) = i - 1 - a /\ \A j \in 1 .. i - 1 - a : c[j] = b[a + j]
        /\ Len(x) = i - a /\ \A j \in 1 .. i - a : x[j] = b[a + j]
    BY <1>1, <1>3
  <2> HIDE DEF c, x
  <2> DEFINE n == i - a
  <2>2. n \in Nat /\ n - 1 = i - 1 - a /\ a + n = i /\ n >= 1
    BY <1>1, <1>3
  <2> HIDE DEF n
  <2> DEFINE x0 == b[i]
  <2> HIDE DEF x0
  <2>6. /\ Append(c, x0) \in Seq(S) /\ Len(Append(c, x0)) = Len(c) + 1
        /\ Append(c, x0)[Len(c) + 1] = x0 /\ \A j \in 1 .. Len(c) : Append(c, x0)[j] = c[j]
    <3>1. x0 \in S
      BY <1>1 DEF x0
    <3> QED BY <1>2, <3>1
  <2>7. Len(c) = n - 1 /\ n - 1 + 1 = n
    BY <2>1, <2>2
  <2>8. y = Append(c, x0)
    BY DEF x0
  <2> HIDE DEF y
  <2>3. y \in Seq(S) /\ Len(y) = n /\ y[n] = b[i] /\ \A j \in 1 .. n - 1 : y[j] = b[a + j]
    <3>1. y \in Seq(S) /\ Len(y) = n /\ y[n] = x0 /\ \A j \in 1 .. n - 1 : y[j] = c[j]
      BY <2>6, <2>7, <2>8, Zenon
    <3>2. \A j \in 1 .. n - 1 : c[j] = b[a + j]
      BY <2>1, <2>2
    <3> QED BY <3>1, <3>2 DEF x0
  <2>4. Len(x) = n /\ \A j \in 1 .. n : x[j] = b[a + j]
    BY <2>1 DEF n
  <2>5. \A j \in 1 .. n : x[j] = y[j]
    <3> SUFFICES ASSUME NEW j \in 1 .. n PROVE x[j] = y[j]
      OBVIOUS
    <3>1. CASE j = n
      BY <2>2, <2>3, <2>4, <3>1
    <3>2. CASE j # n
      <4>1. j \in 1 .. n - 1
        BY <2>2, <3>2
      <4> QED BY <2>3, <2>4, <4>1
    <3> QED BY <3>1, <3>2
  <2> QED BY <1>2, <2>3, <2>4, <2>5, SameSeq
<1>4. i <= a => x = <<>>
  BY <1>1
<1> QED BY <1>2, <1>3, <1>4

\* FlattenSeq sequence by sequence.
LEMMA FlattenRun ==
    ASSUME NEW S, NEW qs \in Seq(Seq(S))
    PROVE  \E r \in [0 .. Len(qs) -> Seq(S)] :
               /\ r[0] = <<>> /\ r[Len(qs)] = FlattenSeq(qs)
               /\ \A i \in 1 .. Len(qs) : r[i] = r[i - 1] \o qs[i]
<1> DEFINE T == Seq(S)
<1> DEFINE F == [p \in T \X T |-> p[1] \o p[2]]
<1> DEFINE Eq(f) == f = [i \in 1 .. Len(qs) |-> IF i = 1 THEN qs[i]
    ELSE f[i - 1] \o qs[i]]
<1> DEFINE it == CHOOSE f : Eq(f)
<1>1. F \in [T \X T -> T] /\ <<>> \in T
  OBVIOUS
<1>2. \A a \in T, b \in T : F[<<a, b>>] = a \o b
  OBVIOUS
<1> HIDE DEF F
<1>3. qs \in Seq(T) /\ Len(qs) \in Nat
  OBVIOUS
<1>4. Foldable(T, T, <<>>, F, qs)
  BY <1>1, <1>3, Zenon DEF Foldable
<1>5. PICK r : Run(r, T, T, <<>>, F, qs)
  BY <1>4, HasRun
<1>6. ASSUME NEW i \in 1 .. Len(qs)
      PROVE  r[i - 1] \in T /\ qs[i] \in T /\ r[i] = r[i - 1] \o qs[i]
  <2>1. r[i - 1] \in T /\ qs[i] \in T /\ r[i] = F[<<r[i - 1], qs[i]>>]
    BY <1>5 DEF Run
  <2> QED BY <1>2, <2>1
<1>7. r \in [0 .. Len(qs) -> T] /\ r[0] = <<>>
  BY <1>5 DEF Run
<1>8. Eq(it)
  <2> DEFINE f == [i \in 1 .. Len(qs) |-> r[i]]
  <2>1. ASSUME NEW i \in 1 .. Len(qs)
        PROVE  f[i] = IF i = 1 THEN qs[i] ELSE f[i - 1] \o qs[i]
    <3>1. CASE i = 1
      <4>1. r[1] = r[1 - 1] \o qs[1] /\ qs[1] \in Seq(S)
        BY <1>6, <3>1
      <4>2. r[1 - 1] = <<>> /\ <<>> \o qs[1] = qs[1]
        BY <1>7, <4>1
      <4> QED BY <3>1, <4>1, <4>2
    <3>2. CASE i # 1
      <4>1. i - 1 \in 1 .. Len(qs)
        BY <1>3, <3>2
      <4> QED BY <1>6, <3>2, <4>1
    <3> QED BY <3>1, <3>2
  <2>2. Eq(f)
    BY <2>1, Zenon
  <2> QED BY <2>2, Zenon
<1> HIDE DEF it
<1>9. \A i \in 1 .. Len(qs) : it[i] = IF i = 1 THEN qs[i] ELSE it[i - 1] \o qs[i]
  BY <1>8
<1>10. \A i \in 0 .. Len(qs) : i \in {k \in 0 .. Len(qs) : k = 0 \/ it[k] = r[k]}
  <2> DEFINE G == {k \in 0 .. Len(qs) : k = 0 \/ it[k] = r[k]}
  <2>1. 0 \in G
    BY <1>3
  <2>2. ASSUME NEW i \in 1 .. Len(qs), i - 1 \in G PROVE i \in G
    <3>1. CASE i = 1
      <4>1. r[1] = r[1 - 1] \o qs[1] /\ qs[1] \in Seq(S)
        BY <1>6, <3>1
      <4>2. r[1 - 1] = <<>> /\ <<>> \o qs[1] = qs[1]
        BY <1>7, <4>1
      <4> QED BY <1>9, <3>1, <4>1, <4>2
    <3>2. CASE i # 1
      <4>1. i - 1 # 0 /\ it[i - 1] = r[i - 1]
        BY <2>2, <3>2
      <4>2. it[i] = it[i - 1] \o qs[i] /\ r[i] = r[i - 1] \o qs[i]
        BY <1>6, <1>9, <3>2
      <4>3. it[i] = r[i]
        BY <4>1, <4>2
      <4> QED BY <4>3
    <3> QED BY <3>1, <3>2
  <2> HIDE DEF G
  <2>3. \A i \in 0 .. Len(qs) : i \in G
    BY <1>3, <2>1, <2>2, UpTo
  <2> QED BY <2>3 DEF G
<1>11. r[Len(qs)] = FlattenSeq(qs)
  <2>1. FlattenSeq(qs) = IF Len(qs) = 0 THEN qs ELSE it[Len(qs)]
    BY DEF FlattenSeq, it
  <2>2. CASE Len(qs) = 0
    BY <1>7, <2>1, <2>2
  <2>3. CASE Len(qs) # 0
    BY <1>3, <1>10, <2>1, <2>3
  <2> QED BY <2>2, <2>3
<1> QED BY <1>6, <1>7, <1>11

LEMMA FlattenType ==
    ASSUME NEW S, NEW qs \in Seq(Seq(S))
    PROVE  FlattenSeq(qs) \in Seq(S)
<1>1. Len(qs) \in 0 .. Len(qs)
  OBVIOUS
<1>2. PICK r \in [0 .. Len(qs) -> Seq(S)] : r[Len(qs)] = FlattenSeq(qs)
  BY FlattenRun
<1> QED BY <1>1, <1>2

LEMMA FlattenNone == FlattenSeq(<<>>) = <<>>
<1>1. <<>> \in Seq(Seq(Nat)) /\ Len(<<>>) = 0
  OBVIOUS
<1>2. PICK r : r[0] = <<>> /\ r[Len(<<>>)] = FlattenSeq(<<>>)
  BY <1>1, FlattenRun
<1> QED BY <1>1, <1>2

\* One more sequence.
LEMMA FlattenMore ==
    ASSUME NEW S, NEW qs \in Seq(Seq(S)), NEW q \in Seq(S)
    PROVE  FlattenSeq(Append(qs, q)) = FlattenSeq(qs) \o q
<1> DEFINE ps == Append(qs, q)
<1>1. /\ Len(qs) \in Nat /\ ps \in Seq(Seq(S)) /\ Len(ps) = Len(qs) + 1
      /\ ps[Len(qs) + 1] = q /\ \A i \in 1 .. Len(qs) : ps[i] = qs[i]
  OBVIOUS
<1> HIDE DEF ps
<1>2. PICK r \in [0 .. Len(qs) -> Seq(S)] :
               /\ r[0] = <<>> /\ r[Len(qs)] = FlattenSeq(qs)
               /\ \A i \in 1 .. Len(qs) : r[i] = r[i - 1] \o qs[i]
  BY FlattenRun
<1>3. PICK t \in [0 .. Len(ps) -> Seq(S)] :
               /\ t[0] = <<>> /\ t[Len(ps)] = FlattenSeq(ps)
               /\ \A i \in 1 .. Len(ps) : t[i] = t[i - 1] \o ps[i]
  BY <1>1, FlattenRun
<1> DEFINE G == {i \in 0 .. Len(qs) : t[i] = r[i]}
<1>4. 0 \in G
  BY <1>1, <1>2, <1>3
<1>5. ASSUME NEW i \in 1 .. Len(qs), i - 1 \in G PROVE i \in G
  <2>1. t[i - 1] = r[i - 1] /\ i \in 1 .. Len(ps) /\ i \in 0 .. Len(qs)
    BY <1>1, <1>5
  <2> QED BY <1>1, <1>2, <1>3, <2>1
<1> HIDE DEF G
<1>6. Len(qs) \in G
  BY <1>1, <1>4, <1>5, UpTo
<1>7. t[Len(qs)] = FlattenSeq(qs)
  BY <1>2, <1>6 DEF G
<1> DEFINE k == Len(qs) + 1
<1>8. k \in 1 .. Len(ps) /\ k - 1 = Len(qs) /\ k = Len(ps) /\ ps[k] = q
  BY <1>1
<1> HIDE DEF k
<1>9. t[k] = t[k - 1] \o ps[k]
  BY <1>3, <1>8
<1>10. FlattenSeq(ps) = FlattenSeq(qs) \o q
  BY <1>3, <1>7, <1>8, <1>9, Zenon
<1> QED BY <1>10 DEF ps

\* Every part of a sequence of sequences is in it.
LEMMA FlattenParts ==
    ASSUME NEW S, NEW qs \in Seq(Seq(S)), NEW n \in 1 .. Len(qs),
           NEW j \in 1 .. Len(qs[n])
    PROVE  \E k \in 1 .. Len(FlattenSeq(qs)) : FlattenSeq(qs)[k] = qs[n][j]
<1>1. Len(qs) \in Nat /\ \A i \in 1 .. Len(qs) : qs[i] \in Seq(S)
  OBVIOUS
<1>2. PICK r \in [0 .. Len(qs) -> Seq(S)] :
               /\ r[0] = <<>> /\ r[Len(qs)] = FlattenSeq(qs)
               /\ \A i \in 1 .. Len(qs) : r[i] = r[i - 1] \o qs[i]
  BY FlattenRun
<1> DEFINE x == qs[n][j]
<1> DEFINE G == {i \in 0 .. Len(qs) : n <= i => \E k \in 1 .. Len(r[i]) : r[i][k] = x}
<1>3. 0 \in G
  BY <1>1
<1>4. ASSUME NEW i \in 1 .. Len(qs), i - 1 \in G PROVE i \in G
  <2>0. /\ i \in 0 .. Len(qs) /\ i - 1 \in 0 .. Len(qs)
        /\ n <= i - 1 => \E k \in 1 .. Len(r[i - 1]) : r[i - 1][k] = x
    <3> HIDE DEF x
    <3> QED BY <1>1, <1>4
  <2>1. /\ i \in 0 .. Len(qs) /\ i - 1 \in 0 .. Len(qs) /\ r[i] = r[i - 1] \o qs[i]
        /\ r[i - 1] \in Seq(S) /\ qs[i] \in Seq(S)
        /\ n <= i - 1 => \E k \in 1 .. Len(r[i - 1]) : r[i - 1][k] = x
    <3> HIDE DEF x
    <3> QED BY <1>1, <1>2, <2>0
  <2> DEFINE a == r[i - 1]
  <2> DEFINE b == qs[i]
  <2> HIDE DEF G
  <2>2. a \in Seq(S) /\ b \in Seq(S) /\ r[i] = a \o b
    BY <2>1
  <2>3. /\ Len(a) \in Nat /\ Len(b) \in Nat /\ Len(r[i]) = Len(a) + Len(b)
        /\ \A k \in 1 .. Len(a) : r[i][k] = a[k]
        /\ \A k \in 1 .. Len(b) : r[i][Len(a) + k] = b[k]
    <3> HIDE DEF a, b
    <3> QED BY <2>2, JoinIs
  <2>4. CASE n <= i - 1
    <3>1. PICK k \in 1 .. Len(a) : a[k] = x
      BY <2>1, <2>4
    <3> HIDE DEF a, b, x
    <3>2. k \in 1 .. Len(r[i])
      BY <2>3, <3>1
    <3>3. r[i][k] = a[k]
      BY <2>3
    <3> QED BY <2>1, <3>1, <3>2, <3>3 DEF G
  <2>5. CASE n = i
    <3>1. j \in 1 .. Len(b) /\ b[j] = x
      BY <2>5
    <3> HIDE DEF a, b, x
    <3>2. Len(a) + j \in 1 .. Len(r[i]) /\ r[i][Len(a) + j] = x
      BY <2>3, <3>1
    <3> QED BY <2>1, <3>2 DEF G
  <2>6. CASE n > i
    <3>1. ~(n <= i) /\ i \in 0 .. Len(qs)
      BY <1>1, <2>1, <2>6
    <3> QED BY <3>1, Zenon DEF G
  <2> QED BY <2>4, <2>5, <2>6
<1> HIDE DEF G
<1>5. Len(qs) \in G
  BY <1>1, <1>3, <1>4, UpTo
<1>6. \E k \in 1 .. Len(r[Len(qs)]) : r[Len(qs)][k] = x
  BY <1>1, <1>5 DEF G
<1> QED BY <1>2, <1>6
===============================================================================
