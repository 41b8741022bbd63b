---------------------------------- MODULE Tsdb ---------------------------------
(***************************************************************************)
(* What the database promises its clients, with no log, buffer or file: a  *)
(* query, whenever it is answered, shows every sample of the batches       *)
(* written so far that was newer than the ones before it in its series. A  *)
(* stop may take back the newest batches, never an acknowledged one.       *)
(***************************************************************************)
EXTENDS Integers, Sequences, SequencesExt

CONSTANTS Labels, Batches

VARIABLES
    hist,    \* the batches written, oldest first
    acked,   \* how many of them have been acknowledged before the last stop
    answer   \* what a query shows now, per series, or Unavailable

vars == <<hist, acked, answer>>

\* The samples <<timestamp, batch>> submitted for one series.
Submitted(h, l) ==
    FlattenSeq([n \in DOMAIN h |->
      FlattenSeq([i \in DOMAIN h[n] |->
        IF h[n][i].labels = l
          THEN [j \in DOMAIN h[n][i].samples |-> <<h[n][i].samples[j], n>>]
          ELSE <<>>])])

\* Those newer than every one before them.
Newer(ss) ==
    FoldLeft(LAMBDA acc, s :
               IF acc # <<>> /\ s[1] <= Last(acc)[1] THEN acc ELSE Append(acc, s),
             <<>>, ss)

Answer(h) == [l \in Labels |-> Newer(Submitted(h, l))]

Unavailable == [l \in {} |-> <<>>]

Init == hist = <<>> /\ acked = 0 /\ answer = Unavailable

Write ==
    /\ \E b \in Batches : hist' = Append(hist, b)
    /\ answer' \in {Unavailable, Answer(hist')}
    /\ UNCHANGED acked

\* Opening, flushing and failing: queries wait, or answer as they should.
Change ==
    /\ answer' \in {Unavailable, Answer(hist)}
    /\ UNCHANGED <<hist, acked>>

Stop ==
    /\ \E n \in acked .. Len(hist) :
         /\ hist' = SubSeq(hist, 1, n)
         /\ acked' \in acked .. n
    /\ answer' = Unavailable

Next == Write \/ Change \/ Stop

Spec == Init /\ [][Next]_vars
================================================================================
