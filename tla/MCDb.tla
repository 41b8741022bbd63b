---------------------------------- MODULE MCDb ---------------------------------
(* The database on small instances. *)
EXTENDS Db

CONSTANTS a, b   \* two label sets

E(l, ts) == [labels |-> l, samples |-> ts]

\* A series of its own, too large to log, then used again.
BigBatches == {<<E(b, <<1, 2>>)>>}

\* One series in order and late, both series at once, one series twice.
SmallBatches ==
    {<<E(a, <<1>>)>>, <<E(b, <<1>>), E(a, <<2>>)>>, <<E(a, <<2>>), E(a, <<3, 1>>)>>}

AllBatches == SmallBatches \cup BigBatches
================================================================================
