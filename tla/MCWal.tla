--------------------------------- MODULE MCWal ---------------------------------
(* The write-ahead log on small instances, and as an implementation of WalLog. *)
EXTENDS Wal, TLC

Symmetry == Permutations(Clients)

Log == INSTANCE WalLog WITH
    stored  <- end - Len(buf) - Len(Hand),
    durable <- {n \in 1 .. end : Durable(n)},
    saved   <- flushed

\* Wal keeps the promise of WalLog: in particular records become durable in
\* the order of their appends, so that no power failure leaves a hole.
LogSpec == Log!Spec
================================================================================
