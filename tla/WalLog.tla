-------------------------------- MODULE WalLog ---------------------------------
(***************************************************************************)
(* What the write-ahead log promises, without threads, files or buffers: a *)
(* log that grows at one end, is stored in order, becomes durable in order *)
(* and never forgets a durable record. The owner may save all of it        *)
(* elsewhere once all of it is stored.                                     *)
(***************************************************************************)
EXTENDS Integers

VARIABLES
    end,      \* records appended
    closed,   \* no more will be
    stored,   \* records handed to the operating system
    durable,  \* the set of records that survive a power failure
    saved     \* records the owner has saved elsewhere

vars == <<end, closed, stored, durable, saved>>

Init == end = 0 /\ closed = FALSE /\ stored = 0 /\ durable = {} /\ saved = 0

Append ==
    /\ ~closed
    /\ end' = end + 1
    /\ UNCHANGED <<closed, stored, durable, saved>>

Store ==
    /\ \E n \in stored + 1 .. end : stored' = n
    /\ UNCHANGED <<end, closed, durable, saved>>

MakeDurable ==
    /\ \E n \in 1 .. stored : durable' = durable \cup 1 .. n
    /\ UNCHANGED <<end, closed, stored, saved>>

Save ==
    /\ stored = end
    /\ saved' = end /\ durable' = 1 .. end
    /\ UNCHANGED <<end, closed, stored>>

Close ==
    /\ closed' = TRUE
    /\ UNCHANGED <<end, stored, durable, saved>>

Next == Append \/ Store \/ MakeDurable \/ Save \/ Close

Spec == Init /\ [][Next]_vars
================================================================================
