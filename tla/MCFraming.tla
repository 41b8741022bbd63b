------------------------------- MODULE MCFraming -------------------------------
(* The log's bytes on small instances. *)
EXTENDS Framing

Label(n, v) == [name |-> n, value |-> v]
Series(id, ls) == [id |-> <<id, 0>>, labels |-> ls]
Samples(id, n) == [id |-> <<id, 0>>, samples |-> [k \in 1 .. n |-> <<k, 0, 5, 5>>]]

\* Nothing; series as short as the decoder allows, without labels and with an
\* empty one; labels out of order and given twice; samples behind an entry that
\* has none, in a record of the largest size; a record that is larger.
SomeBatches ==
    {[series |-> <<>>, samples |-> <<Samples(1, 0)>>],
     [series |-> <<Series(1, <<>>), Series(2, <<Label(<<>>, <<>>)>>)>>, samples |-> <<>>],
     [series |-> <<Series(2, <<Label(<<2>>, <<>>), Label(<<1>>, <<>>), Label(<<2>>, <<3>>)>>)>>,
      samples |-> <<>>],
     [series |-> <<>>, samples |-> <<Samples(1, 0), Samples(2, 2)>>],
     [series |-> <<Series(1, <<>>)>>, samples |-> <<Samples(1, 2)>>]}

\* The stand-in for the checksum tells these batches from torn and damaged ones.
ASSUME ChecksumTells == TearsSeen /\ DamageSeen
================================================================================
