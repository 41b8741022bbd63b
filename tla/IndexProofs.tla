------------------------------ MODULE IndexProofs ------------------------------
(***************************************************************************)
(* Proofs about modules SortedLists and Index. For any two ascending lists *)
(* each loop returns the ascending list of exactly the ids its name        *)
(* promises; with that, for any names, values and label sets, any number   *)
(* of series and any lists of matchers, a resolve selects what it should.  *)
(***************************************************************************)
EXTENDS Index, TLAPS

-----------------------------------------------------------------------------
(* The loops of SortedLists. *)

Ops == {"union", "difference", "intersect"}

\* What is left of q from position n on.
Rest(q, n) == {q[x] : x \in n .. Len(q)}

\* q is the ascending list of the set S.
Lists(q, S) == q \in Seq(Nat) /\ Ascending(q) /\ Range(q) = S

AscendingFrom(q, n) == \A x, y \in n .. Len(q) : x < y => q[x] < q[y]

Below(S, T) == \A x \in S, y \in T : x < y

-----------------------------------------------------------------------------
(* Lists. *)

LEMMA RangeOfSeq ==
    ASSUME NEW q \in Seq(Nat)
    PROVE  Range(q) = {q[x] : x \in 1 .. Len(q)}
    BY DEF Range

LEMMA AppendLists ==
    ASSUME NEW S, NEW q, Lists(q, S), NEW x \in Nat, Below(S, {x})
    PROVE  Lists(Append(q, x), S \cup {x})
<1> DEFINE r == Append(q, x)
<1>0. q \in Seq(Nat) /\ Ascending(q) /\ Range(q) = S
    BY DEF Lists
<1>1. /\ r \in Seq(Nat) /\ Len(r) = Len(q) + 1
      /\ \A n \in 1 .. Len(q) : r[n] = q[n]
      /\ r[Len(q) + 1] = x
    BY <1>0
<1>2. \A n \in 1 .. Len(q) : q[n] \in S
    BY <1>0 DEF Range
<1>3. Ascending(r)
  <2> SUFFICES ASSUME NEW m \in 1 .. Len(r), NEW n \in 1 .. Len(r), m < n
               PROVE  r[m] < r[n]
      BY <1>1 DEF Ascending
  <2>1. CASE n = Len(q) + 1
      BY <2>1, <1>0, <1>1, <1>2 DEF Below
  <2>2. CASE n # Len(q) + 1
    <3>1. m \in 1 .. Len(q) /\ n \in 1 .. Len(q)
        BY <2>2, <1>0, <1>1
    <3>2. q[m] < q[n]
        BY <3>1, <1>0 DEF Ascending
    <3>q. QED
        BY <3>1, <3>2, <1>0, <1>1
  <2>q. QED
      BY <2>1, <2>2
<1>4. Range(r) = S \cup {x}
  <2>1. Range(r) = {r[n] : n \in 1 .. Len(q) + 1}
      BY <1>1, RangeOfSeq
  <2>2. S = {q[n] : n \in 1 .. Len(q)}
      BY <1>0, RangeOfSeq
  <2>q. QED
      BY <2>1, <2>2, <1>0, <1>1
<1>q. QED
    BY <1>1, <1>3, <1>4 DEF Lists

LEMMA TailLists ==
    ASSUME NEW q \in Seq(Nat), NEW n \in 1 .. Len(q) + 1, AscendingFrom(q, n)
    PROVE  Lists(SubSeq(q, n, Len(q)), Rest(q, n))
<1> DEFINE r == SubSeq(q, n, Len(q))
<1>1. r \in Seq(Nat) /\ Len(r) = Len(q) - n + 1
    OBVIOUS
<1>2. \A x \in 1 .. Len(r) : r[x] = q[x + n - 1]
    OBVIOUS
<1> HIDE DEF r
<1>3. Len(q) \in Nat /\ n \in Nat /\ Len(r) = Len(q) - n + 1
    BY <1>1
<1>4. ASSUME NEW x \in 1 .. Len(r)
      PROVE  \E u \in n .. Len(q) : u = x + n - 1 /\ r[x] = q[u]
  <2>1. x + n - 1 \in n .. Len(q)
      BY <1>3
  <2>q. QED
      BY <2>1, <1>2
<1>5. Ascending(r)
  <2> SUFFICES ASSUME NEW x \in 1 .. Len(r), NEW y \in 1 .. Len(r), x < y
               PROVE  r[x] < r[y]
      BY DEF Ascending
  <2>1. PICK u \in n .. Len(q) : u = x + n - 1 /\ r[x] = q[u]
      BY <1>4
  <2>2. PICK v \in n .. Len(q) : v = y + n - 1 /\ r[y] = q[v]
      BY <1>4
  <2>3. u < v
      BY <2>1, <2>2, <1>3
  <2>q. QED
      BY <2>1, <2>2, <2>3 DEF AscendingFrom
<1>6. Range(r) = Rest(q, n)
  <2>1. Range(r) = {r[x] : x \in 1 .. Len(r)}
      BY <1>1, RangeOfSeq
  <2>2. ASSUME NEW x \in 1 .. Len(r) PROVE r[x] \in Rest(q, n)
      BY <1>4 DEF Rest
  <2>3. ASSUME NEW x \in n .. Len(q) PROVE q[x] \in Range(r)
    <3>1. x - n + 1 \in 1 .. Len(r) /\ x - n + 1 + n - 1 = x
        BY <1>3
    <3>2. r[x - n + 1] = q[x]
        BY <3>1, <1>2
    <3>q. QED
        BY <3>1, <3>2, <2>1
  <2>q. QED
      BY <2>1, <2>2, <2>3 DEF Rest
<1>q. QED
    BY <1>1, <1>5, <1>6 DEF Lists, r

LEMMA ConcatLists ==
    ASSUME NEW S, NEW T, NEW p, NEW q, Lists(p, S), Lists(q, T), Below(S, T)
    PROVE  Lists(p \o q, S \cup T)
<1> DEFINE r == p \o q
<1>0. /\ p \in Seq(Nat) /\ Ascending(p) /\ Range(p) = S
      /\ q \in Seq(Nat) /\ Ascending(q) /\ Range(q) = T
    BY DEF Lists
<1>1. r \in Seq(Nat) /\ Len(r) = Len(p) + Len(q)
    BY <1>0
<1>2. /\ \A n \in 1 .. Len(p) : r[n] = p[n]
      /\ \A n \in 1 .. Len(q) : r[n + Len(p)] = q[n]
    BY <1>0
<1> HIDE DEF r
<1>3. Len(p) \in Nat /\ Len(q) \in Nat /\ Len(r) = Len(p) + Len(q)
    BY <1>0, <1>1
<1>4. /\ \A n \in 1 .. Len(p) : p[n] \in S
      /\ \A n \in 1 .. Len(q) : q[n] \in T
    BY <1>0, RangeOfSeq
\* A position in r is one in p or one in q.
<1>5. ASSUME NEW n \in 1 .. Len(r), n \notin 1 .. Len(p)
      PROVE  \E u \in 1 .. Len(q) : n = u + Len(p)
  <2>1. n - Len(p) \in 1 .. Len(q) /\ n = n - Len(p) + Len(p)
      BY <1>3, <1>5
  <2>q. QED
      BY <2>1
<1>6. Ascending(r)
  <2> SUFFICES ASSUME NEW m \in 1 .. Len(r), NEW n \in 1 .. Len(r), m < n
               PROVE  r[m] < r[n]
      BY DEF Ascending
  <2>1. CASE m \in 1 .. Len(p) /\ n \in 1 .. Len(p)
    <3>1. p[m] < p[n]
        BY <2>1, <1>0 DEF Ascending
    <3>q. QED
        BY <2>1, <3>1, <1>2
  <2>2. CASE m \in 1 .. Len(p) /\ n \notin 1 .. Len(p)
    <3>1. PICK v \in 1 .. Len(q) : n = v + Len(p)
        BY <2>2, <1>5
    <3>2. p[m] < q[v]
        BY <2>2, <1>4 DEF Below
    <3>q. QED
        BY <2>2, <3>1, <3>2, <1>2
  <2>3. CASE m \notin 1 .. Len(p)
    <3>1. n \notin 1 .. Len(p)
        BY <2>3, <1>3
    <3>2. PICK u \in 1 .. Len(q) : m = u + Len(p)
        BY <2>3, <1>5
    <3>3. PICK v \in 1 .. Len(q) : n = v + Len(p)
        BY <3>1, <1>5
    <3>4. u < v
        BY <3>2, <3>3, <1>3
    <3>5. q[u] < q[v]
        BY <3>4, <1>0 DEF Ascending
    <3>q. QED
        BY <3>2, <3>3, <3>5, <1>2
  <2>q. QED
      BY <2>1, <2>2, <2>3
<1>7. Range(r) = S \cup T
  <2>1. Range(r) = {r[n] : n \in 1 .. Len(r)}
      BY <1>1, RangeOfSeq
  <2>2. ASSUME NEW n \in 1 .. Len(r) PROVE r[n] \in S \cup T
    <3>1. CASE n \in 1 .. Len(p)
        BY <3>1, <1>2, <1>4
    <3>2. CASE n \notin 1 .. Len(p)
      <4>1. PICK u \in 1 .. Len(q) : n = u + Len(p)
          BY <3>2, <1>5
      <4>q. QED
          BY <4>1, <1>2, <1>4
    <3>q. QED
        BY <3>1, <3>2
  <2>3. ASSUME NEW x \in S PROVE x \in Range(r)
    <3>1. PICK n \in 1 .. Len(p) : x = p[n]
        BY <2>3, <1>0, RangeOfSeq
    <3>2. n \in 1 .. Len(r)
        BY <1>3
    <3>q. QED
        BY <3>1, <3>2, <2>1, <1>2
  <2>4. ASSUME NEW x \in T PROVE x \in Range(r)
    <3>1. PICK n \in 1 .. Len(q) : x = q[n]
        BY <2>4, <1>0, RangeOfSeq
    <3>2. n + Len(p) \in 1 .. Len(r)
        BY <1>3
    <3>q. QED
        BY <3>1, <3>2, <2>1, <1>2
  <2>q. QED
      BY <2>1, <2>2, <2>3, <2>4
<1>q. QED
    BY <1>1, <1>6, <1>7 DEF Lists, r

\* The head of a rest is less than all that follows it.
LEMMA RestSplits ==
    ASSUME NEW q \in Seq(Nat), NEW n \in 1 .. Len(q), AscendingFrom(q, n)
    PROVE  /\ q[n] \in Nat
           /\ Rest(q, n) = {q[n]} \cup Rest(q, n + 1)
           /\ Below({q[n]}, Rest(q, n + 1))
           /\ q[n] \notin Rest(q, n + 1)
           /\ AscendingFrom(q, n + 1)
<1>1. q[n] \in Nat
    OBVIOUS
<1>2. n .. Len(q) = {n} \cup (n + 1 .. Len(q))
    OBVIOUS
<1>3. Rest(q, n) = {q[n]} \cup Rest(q, n + 1)
    BY <1>2 DEF Rest
<1>4. \A x \in n + 1 .. Len(q) : q[n] < q[x] /\ q[x] \in Nat
    BY DEF AscendingFrom
<1>5. Below({q[n]}, Rest(q, n + 1)) /\ q[n] \notin Rest(q, n + 1)
    BY <1>1, <1>4 DEF Below, Rest
<1>6. AscendingFrom(q, n + 1)
    BY DEF AscendingFrom
<1>q. QED
    BY <1>1, <1>3, <1>5, <1>6

LEMMA RestOfNat ==
    ASSUME NEW q \in Seq(Nat), NEW n \in 1 .. Len(q) + 1
    PROVE  Rest(q, n) \subseteq Nat
    BY DEF Rest

-----------------------------------------------------------------------------
(* The loop invariant: what is out lists a set, all of it less than what is  *)
(* left of either argument, and with what the operation makes of the rests   *)
(* it is the set that is wanted.                                             *)

LoopAt(o, p, q, m, n, out, S) ==
    /\ o \in Ops /\ p \in Seq(Nat) /\ q \in Seq(Nat)
    /\ m \in 1 .. Len(p) + 1 /\ n \in 1 .. Len(q) + 1
    /\ AscendingFrom(p, m) /\ AscendingFrom(q, n)
    /\ Lists(out, Range(out))
    /\ Below(Range(out), Rest(p, m)) /\ Below(Range(out), Rest(q, n))
    /\ S = Range(out) \cup Wanted(o, Rest(p, m), Rest(q, n))

\* The list is overwritten only where it has been read.
InPlace == write \in 0 .. i - 1

LoopInv == LoopAt(op, a, b, i, j, Out, wanted) /\ InPlace

\* What each operation makes of a head that is in one of the sets, or in both.
LEMMA WantedLess ==
    ASSUME NEW o \in Ops, NEW A, NEW B, NEW x, x \notin B
    PROVE  /\ o = "intersect" => Wanted(o, {x} \cup A, B) = Wanted(o, A, B)
           /\ o # "intersect" =>
                Wanted(o, {x} \cup A, B) = {x} \cup Wanted(o, A, B)
    BY DEF Ops, Wanted

LEMMA WantedGreater ==
    ASSUME NEW o \in Ops, NEW A, NEW B, NEW x, x \notin A
    PROVE  /\ o # "union" => Wanted(o, A, {x} \cup B) = Wanted(o, A, B)
           /\ o = "union" =>
                Wanted(o, A, {x} \cup B) = {x} \cup Wanted(o, A, B)
    BY DEF Ops, Wanted

\* An id x, less than both rests, is put out.
LEMMA PutOut ==
    ASSUME NEW out, Lists(out, Range(out)), NEW x \in Nat, NEW A, NEW B,
           Below(Range(out), {x}), Below({x}, A), Below({x}, B),
           Below(Range(out), A), Below(Range(out), B)
    PROVE  /\ Lists(Append(out, x), Range(Append(out, x)))
           /\ Range(Append(out, x)) = Range(out) \cup {x}
           /\ Below(Range(Append(out, x)), A)
           /\ Below(Range(Append(out, x)), B)
<1>1. Lists(Append(out, x), Range(out) \cup {x})
    BY AppendLists
<1>2. Range(Append(out, x)) = Range(out) \cup {x}
    BY <1>1 DEF Lists
<1>q. QED
    BY <1>1, <1>2 DEF Below

LEMMA LessKeeps ==
    ASSUME NEW o, NEW p, NEW q, NEW m, NEW n, NEW out, NEW S,
           LoopAt(o, p, q, m, n, out, S),
           m <= Len(p), n <= Len(q), p[m] < q[n]
    PROVE  LoopAt(o, p, q, m + 1, n,
                  IF o = "intersect" THEN out ELSE Append(out, p[m]), S)
<1>0. /\ o \in Ops /\ p \in Seq(Nat) /\ q \in Seq(Nat)
      /\ m \in 1 .. Len(p) /\ n \in 1 .. Len(q)
      /\ AscendingFrom(p, m) /\ AscendingFrom(q, n)
    BY DEF LoopAt
<1>1. /\ Lists(out, Range(out))
      /\ Below(Range(out), Rest(p, m)) /\ Below(Range(out), Rest(q, n))
      /\ S = Range(out) \cup Wanted(o, Rest(p, m), Rest(q, n))
    BY DEF LoopAt
<1>2. /\ p[m] \in Nat /\ Rest(p, m) = {p[m]} \cup Rest(p, m + 1)
      /\ Below({p[m]}, Rest(p, m + 1)) /\ AscendingFrom(p, m + 1)
    BY <1>0, RestSplits
<1>3. /\ q[n] \in Nat /\ Rest(q, n) = {q[n]} \cup Rest(q, n + 1)
      /\ Below({q[n]}, Rest(q, n + 1))
    BY <1>0, RestSplits
<1>4. Rest(q, n + 1) \subseteq Nat
  <2>1. q \in Seq(Nat) /\ n + 1 \in 1 .. Len(q) + 1
      BY <1>0
  <2>q. QED
      BY <2>1, RestOfNat
<1>5. Below({p[m]}, Rest(q, n)) /\ p[m] \notin Rest(q, n)
  <2>1. \A y \in Rest(q, n) : y \in Nat /\ p[m] < y
      BY <1>2, <1>3, <1>4 DEF Below
  <2>q. QED
      BY <2>1, <1>2 DEF Below
<1>6. /\ Below(Range(out), {p[m]}) /\ Below(Range(out), Rest(p, m + 1))
    BY <1>1, <1>2 DEF Below
<1>7. /\ o = "intersect" =>
           Wanted(o, Rest(p, m), Rest(q, n)) = Wanted(o, Rest(p, m + 1), Rest(q, n))
      /\ o # "intersect" =>
           Wanted(o, Rest(p, m), Rest(q, n))
             = {p[m]} \cup Wanted(o, Rest(p, m + 1), Rest(q, n))
  <2>1. o \in Ops
      BY <1>0
  <2>q. QED
      BY <2>1, <1>2, <1>5, WantedLess
<1>8. m + 1 \in 1 .. Len(p) + 1
    BY <1>0
<1>11. n \in 1 .. Len(q) + 1
    BY <1>0
<1>9. CASE o = "intersect"
  <2>1. S = Range(out) \cup Wanted(o, Rest(p, m + 1), Rest(q, n))
      BY Zenon, <1>9, <1>1, <1>7
  <2>q. QED
      BY Zenon, <1>0, <1>1, <1>2, <1>3, <1>6, <1>8, <1>9, <1>11, <2>1 DEF LoopAt
<1>10. CASE o # "intersect"
  <2>1. /\ Lists(Append(out, p[m]), Range(Append(out, p[m])))
        /\ Range(Append(out, p[m])) = Range(out) \cup {p[m]}
        /\ Below(Range(Append(out, p[m])), Rest(p, m + 1))
        /\ Below(Range(Append(out, p[m])), Rest(q, n))
      BY <1>1, <1>2, <1>5, <1>6, PutOut
  <2>2. S = Range(Append(out, p[m])) \cup Wanted(o, Rest(p, m + 1), Rest(q, n))
      BY <1>10, <1>1, <1>7, <2>1
  <2>q. QED
      BY Zenon, <1>0, <1>2, <1>8, <1>10, <1>11, <2>1, <2>2 DEF LoopAt
<1>q. QED
    BY <1>9, <1>10
LEMMA GreaterKeeps ==
    ASSUME NEW o, NEW p, NEW q, NEW m, NEW n, NEW out, NEW S,
           LoopAt(o, p, q, m, n, out, S),
           m <= Len(p), n <= Len(q), q[n] < p[m]
    PROVE  LoopAt(o, p, q, m, n + 1,
                  IF o = "union" THEN Append(out, q[n]) ELSE out, S)
<1>0. /\ o \in Ops /\ p \in Seq(Nat) /\ q \in Seq(Nat)
      /\ m \in 1 .. Len(p) /\ n \in 1 .. Len(q)
      /\ AscendingFrom(p, m) /\ AscendingFrom(q, n)
    BY DEF LoopAt
<1>1. /\ Lists(out, Range(out))
      /\ Below(Range(out), Rest(p, m)) /\ Below(Range(out), Rest(q, n))
      /\ S = Range(out) \cup Wanted(o, Rest(p, m), Rest(q, n))
    BY DEF LoopAt
<1>2. /\ p[m] \in Nat /\ Rest(p, m) = {p[m]} \cup Rest(p, m + 1)
      /\ Below({p[m]}, Rest(p, m + 1))
    BY <1>0, RestSplits
<1>3. /\ q[n] \in Nat /\ Rest(q, n) = {q[n]} \cup Rest(q, n + 1)
      /\ Below({q[n]}, Rest(q, n + 1)) /\ AscendingFrom(q, n + 1)
    BY <1>0, RestSplits
<1>4. Rest(p, m + 1) \subseteq Nat
  <2>1. p \in Seq(Nat) /\ m + 1 \in 1 .. Len(p) + 1
      BY <1>0
  <2>q. QED
      BY <2>1, RestOfNat
<1>5. Below({q[n]}, Rest(p, m)) /\ q[n] \notin Rest(p, m)
  <2>1. \A y \in Rest(p, m) : y \in Nat /\ q[n] < y
      BY <1>2, <1>3, <1>4 DEF Below
  <2>q. QED
      BY <2>1, <1>3 DEF Below
<1>6. Below(Range(out), {q[n]}) /\ Below(Range(out), Rest(q, n + 1))
    BY <1>1, <1>3 DEF Below
<1>7. /\ o # "union" =>
           Wanted(o, Rest(p, m), Rest(q, n)) = Wanted(o, Rest(p, m), Rest(q, n + 1))
      /\ o = "union" =>
           Wanted(o, Rest(p, m), Rest(q, n))
             = {q[n]} \cup Wanted(o, Rest(p, m), Rest(q, n + 1))
  <2>1. o \in Ops
      BY <1>0
  <2>q. QED
      BY <2>1, <1>3, <1>5, WantedGreater
<1>8. n + 1 \in 1 .. Len(q) + 1
    BY <1>0
<1>9. m \in 1 .. Len(p) + 1
    BY <1>0
<1>10. CASE o # "union"
  <2>1. S = Range(out) \cup Wanted(o, Rest(p, m), Rest(q, n + 1))
      BY Zenon, <1>10, <1>1, <1>7
  <2>q. QED
      BY Zenon, <1>0, <1>1, <1>3, <1>6, <1>8, <1>9, <1>10, <2>1 DEF LoopAt
<1>11. CASE o = "union"
  <2>1. /\ Lists(Append(out, q[n]), Range(Append(out, q[n])))
        /\ Range(Append(out, q[n])) = Range(out) \cup {q[n]}
        /\ Below(Range(Append(out, q[n])), Rest(p, m))
        /\ Below(Range(Append(out, q[n])), Rest(q, n + 1))
      BY <1>1, <1>3, <1>5, <1>6, PutOut
  <2>2. S = Range(Append(out, q[n])) \cup Wanted(o, Rest(p, m), Rest(q, n + 1))
      BY <1>11, <1>1, <1>7, <2>1
  <2>q. QED
      BY Zenon, <1>0, <1>3, <1>8, <1>9, <1>11, <2>1, <2>2 DEF LoopAt
<1>q. QED
    BY Zenon, <1>10, <1>11

\* r is p with some position before m + 1 overwritten.
LEMMA SameKeeps ==
    ASSUME NEW o, NEW p, NEW q, NEW m, NEW n, NEW out, NEW S,
           LoopAt(o, p, q, m, n, out, S),
           m <= Len(p), n <= Len(q), p[m] = q[n],
           NEW r \in Seq(Nat), Len(r) = Len(p),
           \A x \in m + 1 .. Len(p) : r[x] = p[x]
    PROVE  LoopAt(o, r, q, m + 1, n + 1,
                  IF o = "difference" THEN out ELSE Append(out, p[m]), S)
<1>0. /\ o \in Ops /\ p \in Seq(Nat) /\ q \in Seq(Nat)
      /\ m \in 1 .. Len(p) /\ n \in 1 .. Len(q)
      /\ AscendingFrom(p, m) /\ AscendingFrom(q, n)
    BY DEF LoopAt
<1>1. /\ Lists(out, Range(out))
      /\ Below(Range(out), Rest(p, m)) /\ Below(Range(out), Rest(q, n))
      /\ S = Range(out) \cup Wanted(o, Rest(p, m), Rest(q, n))
    BY DEF LoopAt
<1>2. /\ p[m] \in Nat /\ Rest(p, m) = {p[m]} \cup Rest(p, m + 1)
      /\ Below({p[m]}, Rest(p, m + 1)) /\ AscendingFrom(p, m + 1)
      /\ p[m] \notin Rest(p, m + 1)
    BY <1>0, RestSplits
<1>3. /\ Rest(q, n) = {p[m]} \cup Rest(q, n + 1)
      /\ Below({p[m]}, Rest(q, n + 1)) /\ AscendingFrom(q, n + 1)
      /\ p[m] \notin Rest(q, n + 1)
    BY <1>0, RestSplits
<1>4. Rest(r, m + 1) = Rest(p, m + 1) /\ AscendingFrom(r, m + 1)
  <2>1. Rest(r, m + 1) = Rest(p, m + 1)
      BY DEF Rest
  <2>2. AscendingFrom(r, m + 1)
      BY <1>2 DEF AscendingFrom
  <2>q. QED
      BY <2>1, <2>2
<1>5. /\ Below(Range(out), {p[m]})
      /\ Below(Range(out), Rest(p, m + 1)) /\ Below(Range(out), Rest(q, n + 1))
    BY <1>1, <1>2, <1>3 DEF Below
<1>6. /\ o = "difference" =>
           Wanted(o, Rest(p, m), Rest(q, n))
             = Wanted(o, Rest(p, m + 1), Rest(q, n + 1))
      /\ o # "difference" =>
           Wanted(o, Rest(p, m), Rest(q, n))
             = {p[m]} \cup Wanted(o, Rest(p, m + 1), Rest(q, n + 1))
  <2>1. o \in Ops
      BY <1>0
  <2>2. p[m] \notin Rest(p, m + 1) /\ p[m] \notin Rest(q, n + 1)
      BY <1>2, <1>3
  <2>3. /\ Rest(p, m) = {p[m]} \cup Rest(p, m + 1)
        /\ Rest(q, n) = {p[m]} \cup Rest(q, n + 1)
      BY <1>2, <1>3
  <2>q. QED
      BY <2>1, <2>2, <2>3 DEF Ops, Wanted
<1>7. m + 1 \in 1 .. Len(r) + 1 /\ n + 1 \in 1 .. Len(q) + 1
    BY <1>0
<1>8. CASE o = "difference"
  <2>1. S = Range(out) \cup Wanted(o, Rest(r, m + 1), Rest(q, n + 1))
      BY Zenon, <1>8, <1>1, <1>4, <1>6
  <2>q. QED
      BY Zenon, <1>0, <1>1, <1>3, <1>4, <1>5, <1>7, <1>8, <2>1 DEF LoopAt
<1>9. CASE o # "difference"
  <2>1. /\ Lists(Append(out, p[m]), Range(Append(out, p[m])))
        /\ Range(Append(out, p[m])) = Range(out) \cup {p[m]}
        /\ Below(Range(Append(out, p[m])), Rest(p, m + 1))
        /\ Below(Range(Append(out, p[m])), Rest(q, n + 1))
      BY <1>1, <1>2, <1>3, <1>5, PutOut
  <2>2. S = Range(Append(out, p[m]))
            \cup Wanted(o, Rest(r, m + 1), Rest(q, n + 1))
      BY <1>9, <1>1, <1>4, <1>6, <2>1
  <2>q. QED
      BY Zenon, <1>0, <1>3, <1>4, <1>7, <1>9, <2>1, <2>2 DEF LoopAt
<1>q. QED
    BY Zenon, <1>8, <1>9
-----------------------------------------------------------------------------
(* The steps. *)

LEMMA RestOfWhole ==
    ASSUME NEW q \in Seq(Nat), Ascending(q)
    PROVE  Rest(q, 1) = Range(q) /\ AscendingFrom(q, 1)
    BY RangeOfSeq DEF Rest, Ascending, AscendingFrom

\* Element v is overwritten.
Overwritten(q, v, z) == [q EXCEPT ![v] = z]

LEMMA Overwriting ==
    ASSUME NEW q \in Seq(Nat), NEW v \in 1 .. Len(q), NEW z \in Nat,
           NEW r, r = Overwritten(q, v, z)
    PROVE  /\ r \in Seq(Nat) /\ Len(r) = Len(q)
           /\ \A x \in 1 .. Len(q) : x # v => r[x] = q[x]
           /\ SubSeq(r, 1, v) = Append(SubSeq(q, 1, v - 1), z)
<1> DEFINE s == SubSeq(r, 1, v)
           t == Append(SubSeq(q, 1, v - 1), z)
<1>1. r \in Seq(Nat) /\ Len(r) = Len(q)
    BY DEF Overwritten
<1>2. r[v] = z /\ \A x \in 1 .. Len(q) : x # v => r[x] = q[x]
    BY DEF Overwritten
<1>3. /\ s \in Seq(Nat) /\ Len(s) = v
      /\ \A x \in 1 .. v : s[x] = r[x]
  <2>1. v \in 1 .. Len(r) /\ r \in Seq(Nat)
      BY <1>1
  <2>2. s \in Seq(Nat)
      BY <2>1
  <2>3. Len(s) = v
      BY <2>1
  <2>4. \A x \in 1 .. v : s[x] = r[x]
      BY <2>1
  <2>q. QED
      BY <2>2, <2>3, <2>4
<1>4. t \in Seq(Nat) /\ Len(t) = v
    OBVIOUS
<1>5. t[v] = z /\ \A x \in 1 .. v - 1 : t[x] = q[x]
    OBVIOUS
<1> HIDE DEF s, t
<1>6. ASSUME NEW x \in 1 .. v PROVE s[x] = t[x]
  <2>1. CASE x = v
      BY <2>1, <1>2, <1>3, <1>5
  <2>2. CASE x # v
    <3>1. x \in 1 .. v - 1 /\ x \in 1 .. Len(q)
        BY <2>2
    <3>q. QED
        BY <3>1, <2>2, <1>2, <1>3, <1>5
  <2>q. QED
      BY <2>1, <2>2
<1>7. s \in [1 .. v -> Nat] /\ t \in [1 .. v -> Nat]
  <2>1. ASSUME NEW u \in Seq(Nat), Len(u) = v PROVE u \in [1 .. v -> Nat]
      BY <2>1
  <2>q. QED
      BY <1>3, <1>4, <2>1
<1>8. s = t
    BY <1>6, <1>7
<1>q. QED
    BY <1>1, <1>2, <1>8 DEF s, t

LEMMA EmptyLists == Lists(<<>>, {})
    BY DEF Lists, Ascending, Range

LEMMA CallStarts ==
    ASSUME NEW o \in Ops, NEW x, NEW y, NEW S, NEW T,
           Lists(x, S), Lists(y, T), Call(o, x, y)
    PROVE  LoopInv' /\ op' = o /\ wanted' = Wanted(o, S, T)
<1>0. /\ x \in Seq(Nat) /\ Ascending(x) /\ Range(x) = S
      /\ y \in Seq(Nat) /\ Ascending(y) /\ Range(y) = T
    BY DEF Lists
<1>1. /\ op' = o /\ a' = x /\ b' = y /\ i' = 1 /\ j' = 1
      /\ write' = 0 /\ result' = <<>> /\ wanted' = Wanted(o, S, T)
    BY <1>0 DEF Call
<1>2. Out' = <<>>
    BY <1>0, <1>1 DEF Out
<1>3. Range(<<>>) = {} /\ Lists(<<>>, {})
    BY EmptyLists DEF Lists
<1>4. /\ Rest(x, 1) = S /\ AscendingFrom(x, 1)
      /\ Rest(y, 1) = T /\ AscendingFrom(y, 1)
    BY <1>0, RestOfWhole
<1>5. 1 \in 1 .. Len(x) + 1 /\ 1 \in 1 .. Len(y) + 1
    BY <1>0
<1>6. Below({}, S) /\ Below({}, T)
    BY DEF Below
<1>7. LoopAt(o, x, y, 1, 1, <<>>, Wanted(o, S, T))
    BY <1>0, <1>3, <1>4, <1>5, <1>6 DEF LoopAt
<1>8. InPlace'
    BY <1>1 DEF InPlace
<1>q. QED
    BY <1>1, <1>2, <1>7, <1>8 DEF LoopInv

LEMMA TurnKeeps ==
    ASSUME LoopInv, Turn
    PROVE  LoopInv' /\ op' = op /\ wanted' = wanted
<1>1. LoopAt(op, a, b, i, j, Out, wanted) /\ InPlace
    BY DEF LoopInv
<1>2. op \in Ops /\ a \in Seq(Nat) /\ b \in Seq(Nat)
    BY <1>1 DEF LoopAt
<1>3. i \in 1 .. Len(a) + 1 /\ j \in 1 .. Len(b) + 1
    BY <1>1 DEF LoopAt
<1>4. write \in 0 .. i - 1 /\ i \in Nat
    BY <1>1, <1>2, <1>3 DEF InPlace
<1>5. CASE Less
  <2>1. /\ op' = op /\ a' = a /\ b' = b /\ i' = i + 1 /\ j' = j
        /\ write' = write /\ wanted' = wanted
        /\ i <= Len(a) /\ j <= Len(b) /\ a[i] < b[j]
        /\ result' = IF op = "intersect" THEN result ELSE Append(result, a[i])
      BY <1>5 DEF Less, Looping
  <2>2. Out' = IF op = "intersect" THEN Out ELSE Append(Out, a[i])
      BY <2>1 DEF Out
  <2>3. LoopAt(op, a, b, i + 1, j, Out', wanted)
      BY <1>1, <2>1, <2>2, LessKeeps
  <2>4. InPlace'
      BY <1>4, <2>1 DEF InPlace
  <2>q. QED
      BY <2>1, <2>3, <2>4 DEF LoopInv
<1>6. CASE Greater
  <2>1. /\ op' = op /\ a' = a /\ b' = b /\ i' = i /\ j' = j + 1
        /\ write' = write /\ wanted' = wanted
        /\ i <= Len(a) /\ j <= Len(b) /\ a[i] > b[j]
        /\ result' = IF op = "union" THEN Append(result, b[j]) ELSE result
      BY <1>6 DEF Greater, Looping
  <2>2. Out' = IF op = "union" THEN Append(Out, b[j]) ELSE Out
      BY <2>1 DEF Out
  <2>3. b[j] < a[i]
      BY <1>2, <1>3, <2>1
  <2>4. LoopAt(op, a, b, i, j + 1, Out', wanted)
      BY <1>1, <2>1, <2>2, <2>3, GreaterKeeps
  <2>5. InPlace'
      BY <1>4, <2>1 DEF InPlace
  <2>q. QED
      BY <2>1, <2>4, <2>5 DEF LoopInv
<1>7. CASE Same
  <2>1. /\ op' = op /\ b' = b /\ i' = i + 1 /\ j' = j + 1 /\ wanted' = wanted
        /\ i <= Len(a) /\ j <= Len(b) /\ a[i] = b[j]
      BY <1>7 DEF Same, Looping
  <2>2. CASE op = "intersect"
    <3>1. /\ write' = write + 1 /\ result' = result
          /\ a' = [a EXCEPT ![write + 1] = a[i]]
        BY <2>2, <1>7 DEF Same
    <3>2. i \in 1 .. Len(a) /\ Len(a) \in Nat
        BY <1>2, <1>3, <2>1
    <3>3. /\ write \in Nat /\ write + 1 \in 1 .. Len(a) /\ write + 1 <= i
        BY <1>4, <3>2
    <3>4. a[i] \in Nat
        BY <1>2, <3>2
    <3>5. /\ a' \in Seq(Nat) /\ Len(a') = Len(a)
          /\ \A x \in 1 .. Len(a) : x # write + 1 => a'[x] = a[x]
          /\ SubSeq(a', 1, write + 1) = Append(SubSeq(a, 1, write), a[i])
      <4> DEFINE v == write + 1
      <4>1. v \in 1 .. Len(a) /\ v - 1 = write
          BY <3>3
      <4>2. a' = Overwritten(a, v, a[i])
          BY <3>1 DEF Overwritten
      <4>3. a \in Seq(Nat)
          BY <1>2
      <4> HIDE DEF v
      <4>4. /\ a' \in Seq(Nat) /\ Len(a') = Len(a)
            /\ \A x \in 1 .. Len(a) : x # v => a'[x] = a[x]
            /\ SubSeq(a', 1, v) = Append(SubSeq(a, 1, v - 1), a[i])
        <5> DEFINE z == a[i]
        <5>1. z \in Nat
            BY <3>4
        <5> HIDE DEF z
        <5>2. a' = Overwritten(a, v, z)
            BY <4>2 DEF z
        <5>3. v \in 1 .. Len(a)
            BY <4>1
        <5>4. /\ a' \in Seq(Nat) /\ Len(a') = Len(a)
              /\ \A x \in 1 .. Len(a) : x # v => a'[x] = a[x]
              /\ SubSeq(a', 1, v) = Append(SubSeq(a, 1, v - 1), z)
            BY <5>1, <5>2, <5>3, <4>3, Overwriting
        <5>q. QED
            BY <5>4 DEF z
      <4>5. SubSeq(a', 1, v) = Append(SubSeq(a, 1, write), a[i])
          BY <4>1, <4>4
      <4>q. QED
          BY <4>4, <4>5 DEF v
    <3>6. \A x \in i + 1 .. Len(a) : x \in 1 .. Len(a) /\ x # write + 1
        BY <3>2, <3>3
    <3>7. \A x \in i + 1 .. Len(a) : a'[x] = a[x]
        BY <3>5, <3>6
    <3>8. Out' = Append(Out, a[i])
        BY <3>5, <2>1, <2>2, <3>1 DEF Out
    <3>9. LoopAt(op, a', b, i + 1, j + 1, Out', wanted)
        BY <1>1, <2>1, <2>2, <3>5, <3>7, <3>8, SameKeeps
    <3>10. InPlace'
        BY <1>4, <2>1, <3>1 DEF InPlace
    <3>q. QED
        BY <2>1, <3>9, <3>10 DEF LoopInv
  <2>3. CASE op # "intersect"
    <3>1. /\ write' = write /\ a' = a
          /\ result' = IF op = "union" THEN Append(result, a[i]) ELSE result
        BY <2>3, <1>7 DEF Same
    <3>2. Out' = IF op = "difference" THEN Out ELSE Append(Out, a[i])
        BY <1>2, <2>1, <2>3, <3>1 DEF Out, Ops
    <3>3. LoopAt(op, a, b, i + 1, j + 1, Out', wanted)
        BY <1>1, <1>2, <2>1, <3>2, SameKeeps
    <3>4. InPlace'
        BY <1>4, <2>1, <3>1 DEF InPlace
    <3>q. QED
        BY <2>1, <3>1, <3>3, <3>4 DEF LoopInv
  <2>q. QED
      BY <2>2, <2>3
<1>q. QED
    BY <1>5, <1>6, <1>7 DEF Turn

\* Every loop returns the ascending list of what is wanted.
THEOREM LoopReturns ==
    ASSUME LoopInv, ~Looping
    PROVE  Lists(Returned, wanted)
<1>1. LoopAt(op, a, b, i, j, Out, wanted)
    BY DEF LoopInv
<1>2. op \in Ops /\ a \in Seq(Nat) /\ b \in Seq(Nat)
    BY <1>1 DEF LoopAt
<1>3. i \in 1 .. Len(a) + 1 /\ j \in 1 .. Len(b) + 1
    BY <1>1 DEF LoopAt
<1>4. /\ Lists(Out, Range(Out))
      /\ Below(Range(Out), Rest(a, i)) /\ Below(Range(Out), Rest(b, j))
      /\ wanted = Range(Out) \cup Wanted(op, Rest(a, i), Rest(b, j))
    BY <1>1 DEF LoopAt
<1>5. AscendingFrom(a, i) /\ AscendingFrom(b, j)
    BY <1>1 DEF LoopAt
<1>6. /\ Lists(SubSeq(a, i, Len(a)), Rest(a, i))
      /\ Lists(SubSeq(b, j, Len(b)), Rest(b, j))
    BY <1>2, <1>3, <1>5, TailLists
<1>7. Rest(a, i) = {} \/ Rest(b, j) = {}
  <2>1. i > Len(a) \/ j > Len(b)
      BY <1>2, <1>3 DEF Looping
  <2>q. QED
      BY <2>1, <1>2, <1>3 DEF Rest
<1>8. Lists(Out \o SubSeq(a, i, Len(a)), Range(Out) \cup Rest(a, i))
    BY <1>4, <1>6, ConcatLists
<1>9. CASE op = "union"
  <2>1. Below(Range(Out) \cup Rest(a, i), Rest(b, j))
      BY <1>4, <1>7 DEF Below
  <2>2. Lists((Out \o SubSeq(a, i, Len(a))) \o SubSeq(b, j, Len(b)),
              (Range(Out) \cup Rest(a, i)) \cup Rest(b, j))
      BY <1>6, <1>8, <2>1, ConcatLists
  <2>3. Returned = (Out \o SubSeq(a, i, Len(a))) \o SubSeq(b, j, Len(b))
      BY <1>9 DEF Returned, Out
  <2>4. wanted = (Range(Out) \cup Rest(a, i)) \cup Rest(b, j)
      BY <1>9, <1>4 DEF Wanted
  <2>q. QED
      BY <2>2, <2>3, <2>4
<1>10. CASE op = "difference"
  <2>1. Returned = Out \o SubSeq(a, i, Len(a))
      BY <1>10 DEF Returned, Out
  <2>2. wanted = Range(Out) \cup Rest(a, i)
      BY <1>10, <1>4, <1>7 DEF Wanted
  <2>q. QED
      BY <1>8, <2>1, <2>2
<1>11. CASE op = "intersect"
  <2>1. Returned = Out
      BY <1>11 DEF Returned, Out
  <2>2. wanted = Range(Out)
      BY <1>11, <1>4, <1>7 DEF Wanted
  <2>q. QED
      BY <1>4, <2>1, <2>2
<1>q. QED
    BY <1>2, <1>9, <1>10, <1>11 DEF Ops

-----------------------------------------------------------------------------
(* The invariant. The index: ids count up from 0, and each list holds what   *)
(* IndexExact says.                                                          *)

IndexInv ==
    /\ nextId \in Nat
    /\ DOMAIN forward = 0 .. nextId - 1
    /\ \A n \in Names, v \in Values : Lists(posting[n][v], WithValue(n, v))
    /\ \A id \in DOMAIN forward : forward[id] \in LabelSets
    /\ Lists(allIds, DOMAIN forward)
    /\ DOMAIN inverted = Range(forward)
    /\ \A l \in DOMAIN inverted :
         inverted[l] \in DOMAIN forward /\ forward[inverted[l]] = l

(* The resolve: what each of its lists holds, by where it is. *)

HasLabel == {id \in DOMAIN forward : This.name \in DOMAIN forward[id]}

\* Those whose value union_all has merged.
Seen == {id \in HasLabel : forward[id][This.name] \notin values}

Differs == {id \in HasLabel : forward[id][This.name] # This.value}

Lacks == DOMAIN forward \ HasLabel

MatchThis == {id \in DOMAIN forward : Matches(forward[id], This)}

Looped == {"with", "drop", "without", "join", "narrow"}
Negative == {"fold", "with", "drop", "without", "join"}
Busy == {"match", "fold"} \cup Looped

\* At a matcher, with what the ones before it select.
AtMatcher ==
    /\ matchers \in Seq(Matchers) /\ k \in 1 .. Len(matchers)
    /\ k # 1 => Lists(candidates, Selected(k - 1))

AtFold == Lists(withLabel, Seen)
AtWith == wanted = Seen
AtDrop == Lists(withLabel, HasLabel) /\ wanted = Differs
AtWithout == This.value # Empty /\ Lists(kept, Differs) /\ wanted = Lacks
AtJoin == wanted = MatchThis
AtNarrow == wanted = Selected(k)
AtAnswer == Lists(candidates, Selected(Len(matchers)))

ResolveInv ==
    /\ pc \in {"idle", "answered"} \cup Busy
    /\ pc \in Busy => AtMatcher
    /\ pc \in Negative => This.operator = "!="
    /\ pc \in Looped => LoopInv
    /\ pc \in {"fold", "with"} => values \subseteq Values
    /\ pc = "fold" => AtFold
    /\ pc = "with" => AtWith
    /\ pc = "drop" => AtDrop
    /\ pc = "without" => AtWithout
    /\ pc = "join" => AtJoin
    /\ pc = "narrow" => AtNarrow
    /\ pc = "answered" => AtAnswer

Inv == IndexInv /\ ResolveInv

-----------------------------------------------------------------------------
(* The index. *)

LEMMA InitInv == Init => Inv
<1> SUFFICES ASSUME Init PROVE Inv
    OBVIOUS
<1>1. /\ nextId = 0 /\ forward = <<>> /\ inverted = <<>> /\ allIds = <<>>
      /\ posting = [n \in Names |-> [v \in Values |-> <<>>]] /\ pc = "idle"
    BY DEF Init
<1>2. DOMAIN forward = {} /\ DOMAIN inverted = {} /\ Range(forward) = {}
    BY <1>1 DEF Range
<1>3. \A n \in Names, v \in Values : WithValue(n, v) = {} /\ posting[n][v] = <<>>
    BY <1>1, <1>2 DEF WithValue
<1>4. IndexInv
  <2>1. \A n \in Names, v \in Values : Lists(posting[n][v], WithValue(n, v))
      BY <1>3, EmptyLists
  <2>2. Lists(allIds, DOMAIN forward)
      BY <1>1, <1>2, EmptyLists
  <2>3. nextId \in Nat /\ 0 .. nextId - 1 = {}
      BY <1>1
  <2>q. QED
      BY <1>2, <2>1, <2>2, <2>3 DEF IndexInv
<1>5. ResolveInv
    BY <1>1 DEF ResolveInv, Busy, Negative, Looped
<1>q. QED
    BY <1>4, <1>5 DEF Inv

LEMMA EncodeKeeps ==
    ASSUME Inv, NEW labels \in LabelSets, Encode(labels)
    PROVE  Inv'
<1>0. /\ nextId \in Nat
      /\ DOMAIN forward = 0 .. nextId - 1
      /\ \A id \in DOMAIN forward : forward[id] \in LabelSets
      /\ DOMAIN inverted = Range(forward)
      /\ \A l \in DOMAIN inverted :
           inverted[l] \in DOMAIN forward /\ forward[inverted[l]] = l
    BY DEF Inv, IndexInv
<1>1. /\ \A n \in Names, v \in Values : Lists(posting[n][v], WithValue(n, v))
      /\ Lists(allIds, DOMAIN forward)
    BY DEF Inv, IndexInv
<1>2. /\ pc = "idle" /\ pc' = pc /\ labels \notin DOMAIN inverted
      /\ inverted' = [l \in DOMAIN inverted \cup {labels} |->
                        IF l = labels THEN nextId ELSE inverted[l]]
      /\ forward' = [id \in DOMAIN forward \cup {nextId} |->
                       IF id = nextId THEN labels ELSE forward[id]]
      /\ allIds' = Append(allIds, nextId)
      /\ posting' = [n \in Names |-> [v \in Values |->
                       IF n \in DOMAIN labels /\ labels[n] = v
                         THEN Append(posting[n][v], nextId) ELSE posting[n][v]]]
      /\ nextId' = nextId + 1
    BY DEF Encode
<1>3. nextId \notin DOMAIN forward
    BY <1>0
<1>4. /\ DOMAIN forward' = DOMAIN forward \cup {nextId}
      /\ forward'[nextId] = labels
      /\ \A id \in DOMAIN forward : forward'[id] = forward[id]
    BY <1>2, <1>3
<1>5. DOMAIN forward' = 0 .. nextId' - 1 /\ nextId' \in Nat
    BY <1>0, <1>2, <1>4
<1>6. \A id \in DOMAIN forward' : forward'[id] \in LabelSets
    BY <1>0, <1>4
<1>7. \A S \in SUBSET (DOMAIN forward) : Below(S, {nextId})
    BY <1>0 DEF Below
<1>8. Lists(allIds', DOMAIN forward')
  <2>1. Below(DOMAIN forward, {nextId})
      BY <1>7
  <2>q. QED
      BY <2>1, <1>0, <1>1, <1>2, <1>4, AppendLists
<1>9. \A n \in Names, v \in Values : Lists(posting'[n][v], WithValue(n, v)')
  <2> SUFFICES ASSUME NEW n \in Names, NEW v \in Values
               PROVE  Lists(posting'[n][v], WithValue(n, v)')
      OBVIOUS
  <2>1. posting'[n][v] = IF n \in DOMAIN labels /\ labels[n] = v
                           THEN Append(posting[n][v], nextId) ELSE posting[n][v]
      BY <1>2
  <2>2. Lists(posting[n][v], WithValue(n, v))
      BY <1>1
  <2>3. CASE n \in DOMAIN labels /\ labels[n] = v
    <3>1. WithValue(n, v)' = WithValue(n, v) \cup {nextId}
        BY <2>3, <1>3, <1>4 DEF WithValue
    <3>2. Below(WithValue(n, v), {nextId})
        BY <1>7 DEF WithValue
    <3>3. Lists(Append(posting[n][v], nextId), WithValue(n, v) \cup {nextId})
        BY <2>2, <3>2, <1>0, AppendLists
    <3>q. QED
        BY <2>1, <2>3, <3>1, <3>3
  <2>4. CASE ~(n \in DOMAIN labels /\ labels[n] = v)
    <3>1. WithValue(n, v)' = WithValue(n, v)
        BY <2>4, <1>3, <1>4 DEF WithValue
    <3>q. QED
        BY <2>1, <2>2, <2>4, <3>1
  <2>q. QED
      BY <2>3, <2>4
<1>10. DOMAIN inverted' = Range(forward')
  <2>1. DOMAIN inverted' = DOMAIN inverted \cup {labels}
      BY <1>2
  <2>2. Range(forward') = Range(forward) \cup {labels}
      BY <1>4 DEF Range
  <2>q. QED
      BY <2>1, <2>2, <1>0
<1>11. \A l \in DOMAIN inverted' :
         inverted'[l] \in DOMAIN forward' /\ forward'[inverted'[l]] = l
  <2> SUFFICES ASSUME NEW l \in DOMAIN inverted'
               PROVE  inverted'[l] \in DOMAIN forward' /\ forward'[inverted'[l]] = l
      OBVIOUS
  <2>1. CASE l = labels
      BY <2>1, <1>2, <1>4
  <2>2. CASE l # labels
    <3>1. l \in DOMAIN inverted /\ inverted'[l] = inverted[l]
        BY <2>2, <1>2
    <3>q. QED
        BY <3>1, <1>0, <1>4
  <2>q. QED
      BY <2>1, <2>2
<1>12. IndexInv'
    BY <1>5, <1>6, <1>8, <1>9, <1>10, <1>11 DEF IndexInv
<1>13. ResolveInv'
    BY <1>2 DEF ResolveInv, Busy, Negative, Looped
<1>q. QED
    BY <1>12, <1>13 DEF Inv
-----------------------------------------------------------------------------
(* The resolve. *)

LEMMA IndexStands == IndexInv /\ UNCHANGED index => IndexInv'
<1> SUFFICES ASSUME IndexInv, UNCHANGED index PROVE IndexInv'
    OBVIOUS
<1>1. /\ inverted' = inverted /\ forward' = forward /\ posting' = posting
      /\ allIds' = allIds /\ nextId' = nextId
    BY DEF index
<1>2. \A n, v : WithValue(n, v)' = WithValue(n, v)
    BY <1>1 DEF WithValue
<1>q. QED
    BY Zenon, <1>1, <1>2 DEF IndexInv

LEMMA SelectedStands ==
    ASSUME UNCHANGED <<index, matchers>>
    PROVE  \A n : Selected(n)' = Selected(n)
<1>1. forward' = forward /\ matchers' = matchers
    BY DEF index
<1>q. QED
    BY <1>1 DEF Selected

LEMMA SelectedFirst == k = 1 => Selected(k) = MatchThis
    BY DEF Selected, MatchThis, This

LEMMA SelectedNext ==
    ASSUME k \in Nat, k # 0
    PROVE  Selected(k) = Selected(k - 1) \cap MatchThis
<1>1. 1 .. k = (1 .. k - 1) \cup {k}
    OBVIOUS
<1>q. QED
    BY <1>1 DEF Selected, MatchThis, This

LEMMA ThisIsMatcher == AtMatcher => This \in Matchers /\ k \in Nat /\ k # 0
    BY DEF AtMatcher, This

\* On to the next matcher, or the answer.
LEMMA GoOnKeeps ==
    ASSUME AtMatcher, GoOn, UNCHANGED <<index, matchers>>,
           Lists(candidates', Selected(k))
    PROVE  ResolveInv'
<1>1. matchers \in Seq(Matchers) /\ k \in 1 .. Len(matchers) /\ Len(matchers) \in Nat
    BY DEF AtMatcher
<1>2. matchers' = matchers /\ k' = k + 1 /\ k' - 1 = k
    BY <1>1 DEF GoOn
<1>4. CASE k = Len(matchers)
  <2>1. pc' = "answered"
      BY <1>4 DEF GoOn
  <2>2. Selected(Len(matchers))' = Selected(k)
      BY <1>2, <1>4, SelectedStands
  <2>3. AtAnswer'
      BY <2>2 DEF AtAnswer
  <2>q. QED
      BY <2>1, <2>3 DEF ResolveInv, Busy, Looped, Negative
<1>5. CASE k # Len(matchers)
  <2>1. pc' = "match"
      BY <1>5 DEF GoOn
  <2>2. k' \in 1 .. Len(matchers')
      BY <1>1, <1>2, <1>5
  <2>3. Selected(k - 1)' = Selected(k)
      BY <1>2, SelectedStands
  <2>4. AtMatcher'
      BY <1>1, <1>2, <2>2, <2>3 DEF AtMatcher
  <2>q. QED
      BY <2>1, <2>4 DEF ResolveInv, Busy, Looped, Negative
<1>q. QED
    BY <1>4, <1>5

LEMMA FoundKeeps ==
    ASSUME AtMatcher, NEW ids, Lists(ids, MatchThis), Found(ids),
           UNCHANGED <<index, matchers>>
    PROVE  ResolveInv'
<1>1. k \in Nat /\ k # 0
    BY ThisIsMatcher
<1>2. CASE k = 1
  <2>1. candidates' = ids /\ GoOn
      BY <1>2 DEF Found
  <2>2. Lists(candidates', Selected(k))
      BY <1>2, <2>1, SelectedFirst
  <2>q. QED
      BY <2>1, <2>2, GoOnKeeps
<1>3. CASE k # 1
  <2>1. /\ Call("intersect", candidates, ids)
        /\ pc' = "narrow" /\ candidates' = candidates /\ k' = k
      BY <1>3 DEF Found
  <2>2. Lists(candidates, Selected(k - 1))
      BY <1>3 DEF AtMatcher
  <2>3. LoopInv' /\ wanted' = Wanted("intersect", Selected(k - 1), MatchThis)
      BY <2>1, <2>2, CallStarts DEF Ops
  <2>4. wanted' = Selected(k)
      BY <1>1, <2>3, SelectedNext DEF Wanted
  <2>5. Selected(k)' = Selected(k) /\ Selected(k - 1)' = Selected(k - 1)
      BY <2>1, SelectedStands
  <2>6. AtNarrow'
      BY <2>4, <2>5 DEF AtNarrow
  <2>7. AtMatcher'
      BY <2>1, <2>5 DEF AtMatcher
  <2>q. QED
      BY <2>1, <2>3, <2>6, <2>7 DEF ResolveInv, Busy, Looped, Negative
<1>q. QED
    BY <1>2, <1>3

LEMMA ResolveKeeps ==
    ASSUME Inv, NEW ms \in MatcherLists, Resolve(ms)
    PROVE  ResolveInv'
<1>1. ms \in Seq(Matchers)
    BY IndexAssumption
<1>2. matchers' = ms /\ k' = 1 /\ UNCHANGED index
    BY DEF Resolve
<1>3. CASE ms = <<>>
  <2>1. pc' = "answered" /\ candidates' = allIds /\ matchers' = <<>>
      BY <1>2, <1>3 DEF Resolve
  <2>2. Lists(allIds, DOMAIN forward)
      BY DEF Inv, IndexInv
  <2>3. Selected(Len(matchers))' = DOMAIN forward
    <3>1. forward' = forward /\ Len(<<>>) = 0 /\ 1 .. 0 = {}
        BY <1>2 DEF index
    <3>q. QED
        BY <2>1, <3>1 DEF Selected
  <2>4. AtAnswer'
      BY <2>1, <2>2, <2>3 DEF AtAnswer
  <2>q. QED
      BY <2>1, <2>4 DEF ResolveInv, Busy, Looped, Negative
<1>4. CASE ms # <<>>
  <2>1. pc' = "match"
      BY <1>4 DEF Resolve
  <2>2. 1 \in 1 .. Len(ms)
      BY <1>1, <1>4
  <2>3. AtMatcher'
      BY <1>1, <1>2, <2>2 DEF AtMatcher
  <2>q. QED
      BY <2>1, <2>3 DEF ResolveInv, Busy, Looped, Negative
<1>q. QED
    BY <1>3, <1>4

LEMMA EqualKeeps ==
    ASSUME Inv, Equal
    PROVE  ResolveInv'
<1>1. /\ pc = "match" /\ This.operator = "=" /\ Found(ThisPosting)
      /\ UNCHANGED <<index, matchers>>
    BY DEF Equal
<1>2. AtMatcher
    BY <1>1 DEF Inv, ResolveInv, Busy
<1>3. This \in Matchers
    BY <1>2, ThisIsMatcher
<1>4. Lists(ThisPosting, WithValue(This.name, This.value))
    BY <1>3 DEF Inv, IndexInv, Matchers, ThisPosting
<1>5. WithValue(This.name, This.value) = MatchThis
    BY <1>1 DEF WithValue, MatchThis, Matches
<1>q. QED
    BY <1>1, <1>2, <1>4, <1>5, FoundKeeps
\* union_all has merged nothing, and every value left has ids.
LEMMA NotEqualKeeps ==
    ASSUME Inv, NotEqual
    PROVE  ResolveInv'
<1>1. /\ pc = "match" /\ This.operator = "!="
      /\ values' = {v \in Values : posting[This.name][v] # <<>>}
      /\ withLabel' = <<>> /\ pc' = "fold"
      /\ forward' = forward /\ posting' = posting
      /\ UNCHANGED <<index, matchers, k, candidates>>
    BY DEF NotEqual, index
<1>2. AtMatcher
    BY <1>1 DEF Inv, ResolveInv, Busy
<1>3. This \in Matchers
    BY <1>2, ThisIsMatcher
<1>4. This' = This
    BY <1>1 DEF This
<1>5. AtMatcher'
    BY <1>1, <1>2, SelectedStands DEF AtMatcher
<1>6. Seen' = {}
  <2> SUFFICES ASSUME NEW id \in DOMAIN forward, This.name \in DOMAIN forward[id]
               PROVE  forward[id][This.name] \in values'
      BY <1>1, <1>4 DEF Seen, HasLabel
  <2> DEFINE v == forward[id][This.name]
  <2>1. forward[id] \in LabelSets
      BY DEF Inv, IndexInv
  <2>2. v \in Values
      BY <2>1, IndexAssumption
  <2>3. id \in WithValue(This.name, v)
      BY DEF WithValue
  <2>4. Range(posting[This.name][v]) = WithValue(This.name, v)
      BY <1>3, <2>2 DEF Inv, IndexInv, Lists, Matchers
  <2>5. posting[This.name][v] # <<>>
      BY <2>3, <2>4 DEF Range
  <2>q. QED
      BY <1>1, <2>2, <2>5
<1>7. AtFold'
    BY <1>1, <1>6, EmptyLists DEF AtFold
<1>8. values' \subseteq Values
    BY <1>1
<1>q. QED
    BY <1>1, <1>4, <1>5, <1>7, <1>8 DEF ResolveInv, Busy, Looped, Negative

LEMMA FoldKeeps ==
    ASSUME Inv, Fold
    PROVE  ResolveInv'
<1>1. PICK v \in values : /\ Call("union", withLabel, posting[This.name][v])
                          /\ values' = values \ {v}
    BY DEF Fold
<1>2. /\ pc = "fold" /\ pc' = "with" /\ forward' = forward
      /\ UNCHANGED <<index, matchers, k, candidates>>
    BY DEF Fold, index
<1>3. AtMatcher /\ This.operator = "!=" /\ values \subseteq Values
    BY <1>2 DEF Inv, ResolveInv, Busy, Negative
<1>4. This \in Matchers
    BY <1>3, ThisIsMatcher
<1>5. This' = This
    BY <1>2 DEF This
<1>6. AtMatcher'
    BY <1>2, <1>3, SelectedStands DEF AtMatcher
<1>7. Lists(withLabel, Seen)
    BY <1>2 DEF Inv, ResolveInv, AtFold
<1>8. Lists(posting[This.name][v], WithValue(This.name, v))
    BY <1>1, <1>3, <1>4 DEF Inv, IndexInv, Matchers
<1>9. LoopInv' /\ wanted' = Wanted("union", Seen, WithValue(This.name, v))
    BY <1>1, <1>7, <1>8, CallStarts DEF Ops
<1>10. Seen' = Seen \cup WithValue(This.name, v)
    BY <1>1, <1>2, <1>5 DEF Seen, HasLabel, WithValue
<1>11. AtWith'
    BY <1>9, <1>10 DEF AtWith, Wanted
<1>12. values' \subseteq Values
    BY <1>1, <1>3
<1>q. QED
    BY <1>2, <1>3, <1>5, <1>6, <1>9, <1>11, <1>12
       DEF ResolveInv, Busy, Looped, Negative

LEMMA FoldedKeeps ==
    ASSUME Inv, Folded
    PROVE  ResolveInv'
<1>1. /\ pc = "with" /\ ~Looping /\ withLabel' = Returned /\ pc' = "fold"
      /\ values' = values /\ forward' = forward
      /\ UNCHANGED <<index, matchers, k, candidates>>
    BY DEF Folded, index
<1>2. /\ AtMatcher /\ This.operator = "!=" /\ values \subseteq Values
      /\ LoopInv /\ wanted = Seen
    BY <1>1 DEF Inv, ResolveInv, Busy, Looped, Negative, AtWith
<1>3. This' = This
    BY <1>1 DEF This
<1>4. AtMatcher'
    BY <1>1, <1>2, SelectedStands DEF AtMatcher
<1>5. Lists(Returned, Seen)
    BY <1>1, <1>2, LoopReturns
<1>6. Seen' = Seen
    BY <1>1, <1>3 DEF Seen, HasLabel
<1>7. AtFold'
    BY <1>1, <1>5, <1>6 DEF AtFold
<1>q. QED
    BY <1>1, <1>2, <1>3, <1>4, <1>7 DEF ResolveInv, Busy, Looped, Negative

LEMMA UnionAllKeeps ==
    ASSUME Inv, UnionAll
    PROVE  ResolveInv'
<1>1. /\ pc = "fold" /\ values = {} /\ pc' = "drop"
      /\ Call("difference", withLabel, ThisPosting)
      /\ withLabel' = withLabel /\ forward' = forward
      /\ UNCHANGED <<index, matchers, k, candidates>>
    BY DEF UnionAll, index
<1>2. AtMatcher /\ This.operator = "!="
    BY <1>1 DEF Inv, ResolveInv, Busy, Negative
<1>3. This \in Matchers
    BY <1>2, ThisIsMatcher
<1>4. This' = This
    BY <1>1 DEF This
<1>5. AtMatcher'
    BY <1>1, <1>2, SelectedStands DEF AtMatcher
<1>6. Seen = HasLabel
    BY <1>1 DEF Seen
<1>7. Lists(withLabel, HasLabel)
    BY <1>1, <1>6 DEF Inv, ResolveInv, AtFold
<1>8. Lists(ThisPosting, WithValue(This.name, This.value))
    BY <1>3 DEF Inv, IndexInv, Matchers, ThisPosting
<1>9. /\ LoopInv'
      /\ wanted' = Wanted("difference", HasLabel, WithValue(This.name, This.value))
    BY <1>1, <1>7, <1>8, CallStarts DEF Ops
<1>10. HasLabel \ WithValue(This.name, This.value) = Differs
    BY DEF HasLabel, WithValue, Differs
<1>11. HasLabel' = HasLabel /\ Differs' = Differs
    BY <1>1, <1>4 DEF HasLabel, Differs
<1>12. AtDrop'
    BY <1>1, <1>7, <1>9, <1>10, <1>11 DEF AtDrop, Wanted
<1>q. QED
    BY <1>1, <1>2, <1>4, <1>5, <1>9, <1>12 DEF ResolveInv, Busy, Looped, Negative
LEMMA DroppedKeeps ==
    ASSUME Inv, Dropped
    PROVE  ResolveInv'
<1>1. /\ pc = "drop" /\ ~Looping /\ forward' = forward
      /\ UNCHANGED <<index, matchers>>
    BY DEF Dropped, index
<1>2. /\ AtMatcher /\ This.operator = "!=" /\ LoopInv
      /\ Lists(withLabel, HasLabel) /\ wanted = Differs
    BY <1>1 DEF Inv, ResolveInv, Busy, Looped, Negative, AtDrop
<1>3. Lists(Returned, Differs)
    BY <1>1, <1>2, LoopReturns
<1>4. CASE This.value = Empty
  <2>1. Found(Returned)
      BY <1>4 DEF Dropped
  <2>2. Differs = MatchThis
      BY <1>2, <1>4 DEF Differs, HasLabel, MatchThis, Matches
  <2>q. QED
      BY <1>1, <1>2, <1>3, <2>1, <2>2, FoundKeeps
<1>5. CASE This.value # Empty
  <2>1. /\ kept' = Returned /\ Call("difference", allIds, withLabel)
        /\ pc' = "without" /\ UNCHANGED <<candidates, k>>
      BY <1>5 DEF Dropped
  <2>2. This' = This
      BY <1>1, <2>1 DEF This
  <2>3. AtMatcher'
      BY <1>1, <1>2, <2>1, SelectedStands DEF AtMatcher
  <2>4. Lists(allIds, DOMAIN forward)
      BY DEF Inv, IndexInv
  <2>5. LoopInv' /\ wanted' = Wanted("difference", DOMAIN forward, HasLabel)
      BY <1>2, <2>1, <2>4, CallStarts DEF Ops
  <2>6. Differs' = Differs /\ Lacks' = Lacks
      BY <1>1, <2>2 DEF Differs, Lacks, HasLabel
  <2>7. AtWithout'
      BY <1>3, <1>5, <2>1, <2>2, <2>5, <2>6 DEF AtWithout, Lacks, Wanted
  <2>q. QED
      BY <1>2, <2>1, <2>2, <2>3, <2>5, <2>7
         DEF ResolveInv, Busy, Looped, Negative
<1>q. QED
    BY <1>4, <1>5

LEMMA WithoutKeeps ==
    ASSUME Inv, Without
    PROVE  ResolveInv'
<1>1. /\ pc = "without" /\ ~Looping /\ Call("union", kept, Returned)
      /\ pc' = "join" /\ forward' = forward
      /\ UNCHANGED <<index, matchers, k, candidates>>
    BY DEF Without, index, call
<1>2. /\ AtMatcher /\ This.operator = "!=" /\ This.value # Empty /\ LoopInv
      /\ Lists(kept, Differs) /\ wanted = Lacks
    BY <1>1 DEF Inv, ResolveInv, Busy, Looped, Negative, AtWithout
<1>3. Lists(Returned, Lacks)
    BY <1>1, <1>2, LoopReturns
<1>4. This' = This
    BY <1>1 DEF This
<1>5. AtMatcher'
    BY <1>1, <1>2, SelectedStands DEF AtMatcher
<1>6. LoopInv' /\ wanted' = Wanted("union", Differs, Lacks)
    BY <1>1, <1>2, <1>3, CallStarts DEF Ops
<1>7. Differs \cup Lacks = MatchThis
    BY <1>2 DEF Differs, Lacks, HasLabel, MatchThis, Matches
<1>8. MatchThis' = MatchThis
    BY <1>1, <1>4 DEF MatchThis
<1>9. AtJoin'
    BY <1>6, <1>7, <1>8 DEF AtJoin, Wanted
<1>q. QED
    BY <1>1, <1>2, <1>4, <1>5, <1>6, <1>9 DEF ResolveInv, Busy, Looped, Negative

LEMMA JoinedKeeps ==
    ASSUME Inv, Joined
    PROVE  ResolveInv'
<1>1. /\ pc = "join" /\ ~Looping /\ Found(Returned)
      /\ UNCHANGED <<index, matchers>>
    BY DEF Joined
<1>2. AtMatcher /\ LoopInv /\ wanted = MatchThis
    BY <1>1 DEF Inv, ResolveInv, Busy, Looped, AtJoin
<1>3. Lists(Returned, MatchThis)
    BY <1>1, <1>2, LoopReturns
<1>q. QED
    BY <1>1, <1>2, <1>3, FoundKeeps

\* With no candidate left no further matcher can select one.
LEMMA NarrowedKeeps ==
    ASSUME Inv, Narrowed
    PROVE  ResolveInv'
<1>1. /\ pc = "narrow" /\ ~Looping /\ candidates' = Returned
      /\ UNCHANGED <<index, matchers>>
    BY DEF Narrowed
<1>2. AtMatcher /\ LoopInv /\ wanted = Selected(k)
    BY <1>1 DEF Inv, ResolveInv, Busy, Looped, AtNarrow
<1>3. Lists(Returned, Selected(k))
    BY <1>1, <1>2, LoopReturns
<1>4. CASE Returned = <<>>
  <2>1. pc' = "answered"
      BY <1>4 DEF Narrowed
  <2>2. Selected(k) = {}
      BY <1>3, <1>4 DEF Lists, Range
  <2>3. k \in 1 .. Len(matchers) /\ Len(matchers) \in Nat
      BY <1>2 DEF AtMatcher
  <2>4. 1 .. k \subseteq 1 .. Len(matchers)
      BY <2>3
  <2>5. Selected(Len(matchers)) \subseteq Selected(k)
      BY <2>4 DEF Selected
  <2>6. Selected(Len(matchers))' = Selected(Len(matchers))
      BY <1>1, SelectedStands
  <2>7. AtAnswer'
      BY <1>1, <1>4, <2>2, <2>5, <2>6, EmptyLists DEF AtAnswer
  <2>q. QED
      BY <2>1, <2>7 DEF ResolveInv, Busy, Looped, Negative
<1>5. CASE Returned # <<>>
  <2>1. GoOn
      BY <1>5 DEF Narrowed
  <2>q. QED
      BY <1>1, <1>2, <1>3, <2>1, GoOnKeeps
<1>q. QED
    BY <1>4, <1>5

LEMMA LoopKeeps ==
    ASSUME Inv, Loop
    PROVE  ResolveInv'
<1>1. pc \in Looped /\ Turn /\ UNCHANGED <<index, pc, call>>
    BY DEF Loop, Looped
<1>2. /\ forward' = forward /\ pc' = pc /\ matchers' = matchers /\ k' = k
      /\ candidates' = candidates /\ values' = values
      /\ withLabel' = withLabel /\ kept' = kept /\ UNCHANGED <<index, matchers>>
    BY <1>1 DEF index, call
<1>3. LoopInv' /\ wanted' = wanted
    BY <1>1, TurnKeeps DEF Inv, ResolveInv
<1>4. This' = This
    BY <1>2 DEF This
<1>5. AtMatcher'
    BY <1>1, <1>2, SelectedStands DEF AtMatcher, Inv, ResolveInv, Busy
<1>6. HasLabel' = HasLabel
    BY <1>2, <1>4 DEF HasLabel
<1>7. Seen' = Seen /\ Differs' = Differs /\ Lacks' = Lacks
    BY <1>2, <1>4, <1>6 DEF Seen, Differs, Lacks
<1>8. MatchThis' = MatchThis /\ Selected(k)' = Selected(k)
    BY <1>2, <1>4, SelectedStands DEF MatchThis
<1>9. /\ pc = "with" => AtWith'
      /\ pc = "drop" => AtDrop'
    BY <1>2, <1>3, <1>6, <1>7 DEF Inv, ResolveInv, AtWith, AtDrop
<1>10. pc = "without" => AtWithout'
    BY <1>2, <1>3, <1>4, <1>7 DEF Inv, ResolveInv, AtWithout
<1>11. /\ pc = "join" => AtJoin'
       /\ pc = "narrow" => AtNarrow'
    BY <1>2, <1>3, <1>8 DEF Inv, ResolveInv, AtJoin, AtNarrow
<1>12. /\ pc' \in Negative => This'.operator = "!="
       /\ pc' \in {"fold", "with"} => values' \subseteq Values
    BY <1>1, <1>2, <1>4 DEF Inv, ResolveInv
<1>q. QED
    BY <1>1, <1>2, <1>3, <1>5, <1>9, <1>10, <1>11, <1>12
       DEF ResolveInv, Busy, Looped

-----------------------------------------------------------------------------
LEMMA NextKeeps == Inv /\ [Next]_vars => Inv'
<1> SUFFICES ASSUME Inv, [Next]_vars PROVE Inv'
    OBVIOUS
<1>1. ASSUME NEW l \in LabelSets, Encode(l) PROVE Inv'
    BY <1>1, EncodeKeeps
<1>2. ASSUME NEW ms \in MatcherLists, Resolve(ms) PROVE Inv'
  <2>1. UNCHANGED index
      BY <1>2 DEF Resolve
  <2>q. QED
      BY <1>2, <2>1, IndexStands, ResolveKeeps DEF Inv
<1>3. CASE Step
  <2>1. UNCHANGED index
      BY <1>3 DEF Step, Equal, NotEqual, Fold, Folded, UnionAll, Dropped,
         Without, Joined, Narrowed, Loop
  <2>2. ResolveInv'
      BY <1>3, EqualKeeps, NotEqualKeeps, FoldKeeps, FoldedKeeps, UnionAllKeeps,
         DroppedKeeps, WithoutKeeps, JoinedKeeps, NarrowedKeeps, LoopKeeps
         DEF Step
  <2>q. QED
      BY <2>1, <2>2, IndexStands DEF Inv
<1>4. CASE Return
  <2>1. UNCHANGED index /\ pc' = "idle"
      BY <1>4 DEF Return
  <2>2. ResolveInv'
      BY <2>1 DEF ResolveInv, Busy, Looped, Negative
  <2>q. QED
      BY <2>1, <2>2, IndexStands DEF Inv
<1>5. CASE UNCHANGED vars
  <2>1. UNCHANGED index
      BY <1>5 DEF vars
  <2>2. ResolveInv'
    <3>1. /\ pc' = pc /\ forward' = forward /\ UNCHANGED <<index, call, frame>>
        BY <1>5 DEF vars, index
    <3>2. /\ matchers' = matchers /\ k' = k /\ candidates' = candidates
          /\ values' = values /\ withLabel' = withLabel /\ kept' = kept
        BY <3>1 DEF call
    <3>3. /\ op' = op /\ a' = a /\ b' = b /\ i' = i /\ j' = j
          /\ write' = write /\ result' = result /\ wanted' = wanted
        BY <3>1 DEF frame
    <3>4. LoopInv' = LoopInv
        BY <3>3 DEF LoopInv, LoopAt, InPlace, Out
    <3>5. This' = This /\ Selected(k)' = Selected(k)
        BY <3>1, <3>2 DEF This, Selected
    <3>6. AtMatcher' = AtMatcher /\ AtAnswer' = AtAnswer
        BY <3>1, <3>2 DEF AtMatcher, AtAnswer, Selected
    <3>7. HasLabel' = HasLabel /\ MatchThis' = MatchThis
        BY <3>1, <3>5 DEF HasLabel, MatchThis
    <3>8. Seen' = Seen /\ Differs' = Differs /\ Lacks' = Lacks
        BY <3>1, <3>2, <3>5, <3>7 DEF Seen, Differs, Lacks
    <3>q. QED
        BY <3>1, <3>2, <3>3, <3>4, <3>5, <3>6, <3>7, <3>8
           DEF Inv, ResolveInv, AtFold, AtWith, AtDrop, AtWithout, AtJoin, AtNarrow
  <2>q. QED
      BY <2>1, <2>2, IndexStands DEF Inv
<1>q. QED
    BY <1>1, <1>2, <1>3, <1>4, <1>5 DEF Next

THEOREM IndexInvariant == Spec => []Inv
    BY InitInv, NextKeeps, PTL DEF Spec

\* Every posting list is exact at every moment, whatever is encoded.
THEOREM IndexIsExact == Spec => []IndexExact
<1>1. Inv => IndexExact
    BY DEF Inv, IndexInv, IndexExact, Lists
<1>q. QED
    BY <1>1, IndexInvariant, PTL

\* Each of the three loops returns what its name says, in place or not.
THEOREM MergesAreExact == Spec => []MergeExact
<1>1. Inv => MergeExact
    BY LoopReturns DEF Inv, ResolveInv, Looped, MergeExact, Lists
<1>q. QED
    BY <1>1, IndexInvariant, PTL

\* Index::resolve answers with exactly the series its matchers select.
THEOREM ResolveIsExact == Spec => []ResolveExact
<1>1. Inv => ResolveExact
    BY DEF Inv, ResolveInv, AtAnswer, ResolveExact, Lists
<1>q. QED
    BY <1>1, IndexInvariant, PTL

================================================================================
