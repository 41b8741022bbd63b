------------------------------ MODULE SortedLists ------------------------------
(***************************************************************************)
(* The loops over ascending lists of series ids in storage/index.rs, one   *)
(* turn of a loop a step: union_sorted, difference_sorted and              *)
(* intersect_in_place, which writes the list it is still reading. The      *)
(* frame is that of the call under way; code counts from 0, this from 1.   *)
(***************************************************************************)
EXTENDS Integers, Sequences, Functions

VARIABLES
    op,       \* "union", "difference" or "intersect"
    a, b,     \* the arguments, ascending
    i, j,     \* where they are read next
    write,    \* how many ids intersect_in_place has written to a
    result,   \* what the other two have pushed
    wanted    \* ghost: the set of ids that the call is to return

frame == <<op, a, b, i, j, write, result, wanted>>

Ascending(q) == \A x, y \in 1 .. Len(q) : x < y => q[x] < q[y]

Wanted(o, A, B) ==
    CASE o = "union"      -> A \cup B
      [] o = "difference" -> A \ B
      [] o = "intersect"  -> A \cap B

\* The call of o(x, y).
Call(o, x, y) ==
    /\ op' = o /\ a' = x /\ b' = y
    /\ i' = 1 /\ j' = 1 /\ write' = 0 /\ result' = <<>>
    /\ wanted' = Wanted(o, Range(x), Range(y))

Looping == i <= Len(a) /\ j <= Len(b)

-----------------------------------------------------------------------------
(* Mistakes this code could have made. *)

\* An id in both lists is passed over in the second only.
MistakenSame ==
    /\ Looping /\ a[i] = b[j]
    /\ j' = j + 1
    /\ IF op = "intersect"
         THEN /\ write' = write + 1 /\ a' = [a EXCEPT ![write + 1] = a[i]]
              /\ UNCHANGED result
         ELSE /\ result' = IF op = "union" THEN Append(result, a[i]) ELSE result
              /\ UNCHANGED <<a, write>>
    /\ UNCHANGED <<op, b, i, wanted>>

\* The larger id is waited for.
MistakenGreater ==
    /\ Looping /\ a[i] > b[j]
    /\ result' = IF op = "union" THEN Append(result, b[j]) ELSE result
    /\ j' = IF op = "intersect" THEN j ELSE j + 1
    /\ UNCHANGED <<op, a, b, i, write, wanted>>

-----------------------------------------------------------------------------
\* Ordering::Less, Greater and Equal.
Less ==
    /\ Looping /\ a[i] < b[j]
    /\ result' = IF op = "intersect" THEN result ELSE Append(result, a[i])
    /\ i' = i + 1
    /\ UNCHANGED <<op, a, b, j, write, wanted>>

Greater ==
    /\ Looping /\ a[i] > b[j]
    /\ result' = IF op = "union" THEN Append(result, b[j]) ELSE result
    /\ j' = j + 1
    /\ UNCHANGED <<op, a, b, i, write, wanted>>

Same ==
    /\ Looping /\ a[i] = b[j]
    /\ i' = i + 1 /\ j' = j + 1
    /\ IF op = "intersect"
         THEN /\ write' = write + 1 /\ a' = [a EXCEPT ![write + 1] = a[i]]
              /\ UNCHANGED result
         ELSE /\ result' = IF op = "union" THEN Append(result, a[i]) ELSE result
              /\ UNCHANGED <<a, write>>
    /\ UNCHANGED <<op, b, wanted>>

Turn == Less \/ Greater \/ Same

\* What has been put out so far.
Out == IF op = "intersect" THEN SubSeq(a, 1, write) ELSE result

\* What the call returns once the loop has ended: a list that is left over is
\* copied, or the list in place is truncated.
Returned ==
    CASE op = "union"      -> result \o SubSeq(a, i, Len(a)) \o SubSeq(b, j, Len(b))
      [] op = "difference" -> result \o SubSeq(a, i, Len(a))
      [] op = "intersect"  -> SubSeq(a, 1, write)

================================================================================
