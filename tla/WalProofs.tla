------------------------------- MODULE WalProofs ------------------------------
(***************************************************************************)
(* What module Wal promises, proved for any number of clients and any      *)
(* bounds, in three parts, each on the invariants of those before it: what *)
(* becomes of each record; order, cuts and closing; and that Wal           *)
(* implements WalLog. Each part of an inductive invariant is a fact about  *)
(* one hand-over: buffer to flusher, flusher to file, file to client, file *)
(* to syncer, file to owner.                                               *)
(***************************************************************************)
EXTENDS MCWal, FiniteSetTheorems, TLAPS

-----------------------------------------------------------------------------
(***************************************************************************)
(* Part 1: records. Types come first.                                      *)
(***************************************************************************)

-----------------------------------------------------------------------------
(* Types and the waiter count, which keep each other: a count that could     *)
(* fall below 0 would not be a natural number.                               *)

Waiting == {c \in Clients : cpc[c] \in {"unpark", "waiting"}}

\* The parts of TypeOK, by who owns them.
Flags ==
    /\ closed \in BOOLEAN /\ token \in BOOLEAN /\ closing \in BOOLEAN
    /\ cutting \in BOOLEAN /\ requested \in BOOLEAN /\ stoken \in BOOLEAN

BufferType ==
    /\ buf \in Seq(Nat) /\ end \in Nat /\ written \in Nat /\ waiters \in Nat

FilesType ==
    /\ DOMAIN recs \subseteq Nat
    /\ recs \in [DOMAIN recs -> Seq(Nat)] /\ synced \in [DOMAIN recs -> Nat]

FlusherType ==
    /\ seg \in Nat \ {0} /\ fpc \in FlusherPcs
    /\ spare \in Seq(Nat) /\ taken \in Nat

SharedType == syncFile \in Nat /\ active \in Nat /\ cutId \in Nat

ClientsType ==
    /\ cpc \in [Clients -> {"idle", "kick", "appended", "enter", "unpark",
                           "waiting", "acked"}]
    /\ lsn \in [Clients -> Nat]

OwnerType ==
    /\ opc \in {"idle", "cut", "flush", "remove", "failed", "join", "flusher",
               "syncer", "ended"}
    /\ doomed \in Nat /\ flushed \in Nat

SyncerType ==
    /\ spc \in {"top", "parked", "clone", "sync", "exited"}
    /\ sw \in Nat /\ sfile \in Nat /\ slast \in Nat

LEMMA TypeParts ==
    TypeOK <=> /\ Flags /\ BufferType /\ FilesType /\ FlusherType
               /\ SharedType /\ ClientsType /\ OwnerType /\ SyncerType
    BY Zenon DEF TypeOK, Flags, BufferType, FilesType, FlusherType, SharedType,
       ClientsType, OwnerType, SyncerType

LEMMA InitType == Init => TypeOK
<1> SUFFICES ASSUME Init PROVE TypeOK
    OBVIOUS
<1>1. Flags
    BY Zenon DEF Init, Flags
<1>2. BufferType /\ FlusherType /\ SharedType
    BY DEF Init, BufferType, FlusherType, SharedType, FlusherPcs
<1>3. FilesType
    BY DEF Init, FilesType
<1>4. ClientsType
    BY DEF Init, ClientsType
<1>5. OwnerType /\ SyncerType
    BY DEF Init, OwnerType, SyncerType
<1>q. QED
    BY <1>1, <1>2, <1>3, <1>4, <1>5, TypeParts

\* A client inside Progress::wait is counted.
LEMMA WaiterIsCounted ==
    ASSUME BufferType, WaitersCount, NEW c \in Clients, cpc[c] = "waiting"
    PROVE  waiters - 1 \in Nat
<1>1. IsFiniteSet(Waiting)
    BY WalAssumption, FS_Subset DEF Waiting
<1>2. c \in Waiting
    BY DEF Waiting
<1>3. Cardinality(Waiting) # 0
    BY <1>1, <1>2, FS_EmptySet
<1>q. QED
    BY <1>3 DEF WaitersCount, Waiting, BufferType

\* The flags are only ever set, reset or copied from one another.
LEMMA NextFlags == Flags /\ [Next]_vars => Flags'
<1> SUFFICES ASSUME Flags, [Next]_vars PROVE Flags'
    OBVIOUS
<1> USE DEF Flags, bufVars, progress, files, flusher, shared, clientVars, owner,
            syncer
<1>1. ASSUME NEW c \in Clients, Client(c) PROVE Flags'
    BY <1>1, Zenon DEF Client, WaitStep, WriterAppend, AppendNothing, KickFlusher,
       ReturnEarly, WaitCheck, WaitEnter, WaitUnpark, WaitDone, WaitCancel
<1>2. ASSUME \/ ReadClosing \/ ReadCutting \/ TakeSome \/ TakeNone
             \/ TakeNoneForCut \/ RotateSync \/ RotateCreate \/ RotateSwap
      PROVE  Flags'
    BY <1>2, Zenon DEF ReadClosing, ReadCutting, TakeSome, TakeNone,
       TakeNoneForCut, RotateSync, RotateCreate, RotateSwap, EndOfRound
<1>3. ASSUME \/ RotateStore \/ WriteBatch \/ PublishWritten \/ Decide \/ Park
             \/ ParkTimeout \/ Finish \/ Exit
      PROVE  Flags'
    BY <1>3, Zenon DEF RotateStore, WriteBatch, PublishWritten, Decide, Park,
       ParkTimeout, Finish, Exit, EndOfRound
<1>4. ASSUME Owner PROVE Flags'
    BY <1>4, Zenon DEF Owner, OwnerStep, CutRequest, CutDone, FlushDone,
       FlushFails, Remove, RemoveEnds, Close, JoinFlusher, JoinSyncer, CloseEnds
<1>5. ASSUME Syncer PROVE Flags'
    BY <1>5, Zenon DEF Syncer, SyncTop, SyncWake, SyncTick, SyncClone, SyncData
<1>6. ASSUME UNCHANGED vars PROVE Flags'
    BY <1>6, Zenon DEF vars
<1>q. QED
    BY <1>1, <1>2, <1>3, <1>4, <1>5, <1>6 DEF Next, Step, Flusher, Ended

LEMMA NextBuffer ==
    BufferType /\ FlusherType /\ WaitersCount /\ [Next]_vars => BufferType'
<1> SUFFICES ASSUME BufferType, FlusherType, WaitersCount, [Next]_vars
             PROVE  BufferType'
    OBVIOUS
<1> USE DEF bufVars, progress, files, flusher, shared, clientVars, owner, syncer
<1>1. ASSUME NEW c \in Clients, WriterAppend(c) PROVE BufferType'
    BY <1>1 DEF WriterAppend, BufferType
<1>2. ASSUME NEW c \in Clients, WaitEnter(c) PROVE BufferType'
    BY <1>2 DEF WaitEnter, BufferType
<1>3. ASSUME NEW c \in Clients, WaitDone(c) \/ WaitCancel(c) PROVE BufferType'
    <2>1. waiters - 1 \in Nat
        BY <1>3, WaiterIsCounted DEF WaitDone, WaitCancel
    <2>q. QED
        BY <1>3, <2>1 DEF WaitDone, WaitCancel, BufferType
<1>4. ASSUME NEW c \in Clients,
             \/ AppendNothing(c) \/ KickFlusher(c) \/ ReturnEarly(c)
             \/ WaitCheck(c) \/ WaitUnpark(c)
      PROVE  UNCHANGED <<buf, end, written, waiters>>
    BY <1>4 DEF AppendNothing, KickFlusher, ReturnEarly, WaitCheck, WaitUnpark
<1>5. ASSUME TakeSome \/ PublishWritten PROVE BufferType'
    BY <1>5 DEF TakeSome, PublishWritten, BufferType, FlusherType
<1>6. ASSUME \/ ReadClosing \/ ReadCutting \/ TakeNone \/ TakeNoneForCut
             \/ RotateSync \/ RotateCreate \/ RotateSwap \/ RotateStore
             \/ WriteBatch \/ Decide \/ Park \/ ParkTimeout \/ Finish \/ Exit
      PROVE  UNCHANGED <<buf, end, written, waiters>>
    BY <1>6 DEF ReadClosing, ReadCutting, TakeNone, TakeNoneForCut, RotateSync,
       RotateCreate, RotateSwap, RotateStore, WriteBatch, Decide, Park,
       ParkTimeout, Finish, Exit
<1>7. ASSUME Owner \/ Syncer \/ UNCHANGED vars
      PROVE  UNCHANGED <<buf, end, written, waiters>>
    BY <1>7 DEF Owner, OwnerStep, CutRequest, CutDone, FlushDone, FlushFails,
       Remove, RemoveEnds, Close, JoinFlusher, JoinSyncer, CloseEnds, Syncer,
       SyncTop, SyncWake, SyncTick, SyncClone, SyncData, vars
<1>8. ASSUME UNCHANGED <<buf, end, written, waiters>> PROVE BufferType'
    BY <1>8 DEF BufferType
<1>q. QED
    BY <1>1, <1>2, <1>3, <1>4, <1>5, <1>6, <1>7, <1>8
       DEF Next, Step, Client, WaitStep, Flusher, Ended

LEMMA NextFiles == FilesType /\ FlusherType /\ [Next]_vars => FilesType'
<1> SUFFICES ASSUME FilesType, FlusherType, [Next]_vars PROVE FilesType'
    OBVIOUS
<1> USE DEF bufVars, progress, files, flusher, shared, clientVars, owner, syncer
<1>1. ASSUME NEW id, Fdatasync(id) PROVE FilesType'
    BY <1>1 DEF Fdatasync, FilesType
<1>2. ASSUME RotateSync \/ Exit \/ SyncData PROVE FilesType'
    BY <1>1, <1>2 DEF RotateSync, Exit, SyncData
<1>3. ASSUME RotateCreate PROVE FilesType'
    BY <1>3 DEF RotateCreate, CreateSegment, FilesType, FlusherType
<1>4. ASSUME WriteBatch PROVE FilesType'
    <2>1. DOMAIN recs' = DOMAIN recs /\ synced' = synced
        BY <1>4 DEF WriteBatch
    <2>2. ASSUME NEW s \in DOMAIN recs PROVE recs'[s] \in Seq(Nat)
        BY <1>4 DEF WriteBatch, FilesType, FlusherType
    <2>3. recs' = [s \in DOMAIN recs' |-> recs'[s]]
        BY <1>4 DEF WriteBatch
    <2>q. QED
        BY <2>1, <2>2, <2>3 DEF FilesType
<1>5. ASSUME Remove PROVE FilesType'
    BY <1>5 DEF Remove, FilesType
<1>6. ASSUME NEW c \in Clients, Client(c) PROVE UNCHANGED <<recs, synced>>
    BY <1>6 DEF Client, WaitStep, WriterAppend, AppendNothing, KickFlusher,
       ReturnEarly, WaitCheck, WaitEnter, WaitUnpark, WaitDone, WaitCancel
<1>7. ASSUME \/ ReadClosing \/ ReadCutting \/ TakeSome \/ TakeNone
             \/ TakeNoneForCut \/ RotateSwap \/ RotateStore \/ PublishWritten
             \/ Decide \/ Park \/ ParkTimeout \/ Finish
      PROVE  UNCHANGED <<recs, synced>>
    BY <1>7 DEF ReadClosing, ReadCutting, TakeSome, TakeNone, TakeNoneForCut,
       RotateSwap, RotateStore, PublishWritten, Decide, Park, ParkTimeout, Finish
<1>8. ASSUME \/ CutRequest \/ CutDone \/ FlushDone \/ FlushFails \/ RemoveEnds
             \/ Close \/ JoinFlusher \/ JoinSyncer \/ CloseEnds
             \/ SyncTop \/ SyncWake \/ SyncTick \/ SyncClone \/ UNCHANGED vars
      PROVE  UNCHANGED <<recs, synced>>
    BY <1>8 DEF CutRequest, CutDone, FlushDone, FlushFails, RemoveEnds, Close,
       JoinFlusher, JoinSyncer, CloseEnds, SyncTop, SyncWake, SyncTick,
       SyncClone, vars
<1>9. ASSUME UNCHANGED <<recs, synced>> PROVE FilesType'
    BY <1>9 DEF FilesType
<1>q. QED
    BY <1>2, <1>3, <1>4, <1>5, <1>6, <1>7, <1>8, <1>9
       DEF Next, Step, Flusher, Owner, OwnerStep, Syncer, Ended

LEMMA NextFlusher ==
    FlusherType /\ BufferType /\ [Next]_vars => FlusherType'
<1> SUFFICES ASSUME FlusherType, BufferType, [Next]_vars PROVE FlusherType'
    OBVIOUS
<1> USE DEF bufVars, progress, files, flusher, shared, clientVars, owner, syncer
<1>1. ASSUME TakeSome PROVE FlusherType'
    BY <1>1 DEF TakeSome, FlusherType, BufferType, FlusherPcs
<1>2. ASSUME RotateCreate PROVE FlusherType'
    BY <1>2 DEF RotateCreate, FlusherType, FlusherPcs
<1>3. ASSUME \/ ReadClosing \/ ReadCutting \/ TakeNoneForCut \/ RotateSync
             \/ RotateSwap \/ RotateStore \/ WriteBatch \/ PublishWritten
             \/ Park \/ ParkTimeout \/ Exit
      PROVE  fpc' \in FlusherPcs /\ UNCHANGED <<seg, spare, taken>>
    BY <1>3 DEF ReadClosing, ReadCutting, TakeNoneForCut, RotateSync, RotateSwap,
       RotateStore, WriteBatch, PublishWritten, Park, ParkTimeout, Exit,
       FlusherPcs
<1>4. ASSUME TakeNone \/ Finish \/ Decide
      PROVE  /\ fpc' \in FlusherPcs /\ seg' = seg /\ taken' = 0
             /\ spare' = spare \/ spare' = <<>>
    BY <1>4 DEF TakeNone, Finish, Decide, EndOfRound, FlusherPcs
<1>5. ASSUME NEW c \in Clients, Client(c)
      PROVE  UNCHANGED <<seg, fpc, spare, taken>>
    BY <1>5 DEF Client, WaitStep, WriterAppend, AppendNothing, KickFlusher,
       ReturnEarly, WaitCheck, WaitEnter, WaitUnpark, WaitDone, WaitCancel
<1>6. ASSUME Owner \/ Syncer \/ UNCHANGED vars
      PROVE  UNCHANGED <<seg, fpc, spare, taken>>
    BY <1>6 DEF Owner, OwnerStep, CutRequest, CutDone, FlushDone, FlushFails,
       Remove, RemoveEnds, Close, JoinFlusher, JoinSyncer, CloseEnds, Syncer,
       SyncTop, SyncWake, SyncTick, SyncClone, SyncData, vars
<1>7. ASSUME fpc' \in FlusherPcs, seg' = seg, taken' = taken \/ taken' = 0,
             spare' = spare \/ spare' = <<>>
      PROVE  FlusherType'
    <2>1. spare' \in Seq(Nat)
        <3>1. spare \in Seq(Nat) /\ <<>> \in Seq(Nat)
            BY DEF FlusherType
        <3>q. QED
            BY <1>7, <3>1, Zenon
    <2>2. seg' \in Nat \ {0} /\ taken' \in Nat
        BY <1>7 DEF FlusherType
    <2>q. QED
        BY <1>7, <2>1, <2>2 DEF FlusherType
<1>8. fpc \in FlusherPcs
    BY DEF FlusherType
<1>q. QED
    BY <1>1, <1>2, <1>3, <1>4, <1>5, <1>6, <1>7, <1>8
       DEF Next, Step, Flusher, Ended

LEMMA NextShared == SharedType /\ FlusherType /\ [Next]_vars => SharedType'
<1> SUFFICES ASSUME SharedType, FlusherType, [Next]_vars PROVE SharedType'
    OBVIOUS
<1> USE DEF bufVars, progress, files, flusher, shared, clientVars, owner, syncer
<1>1. ASSUME RotateSwap \/ RotateStore \/ Finish \/ CutRequest \/ CutDone
      PROVE  SharedType'
    BY <1>1 DEF RotateSwap, RotateStore, Finish, EndOfRound, CutRequest, CutDone,
       SharedType, FlusherType
<1>2. ASSUME NEW c \in Clients, Client(c) PROVE UNCHANGED <<syncFile, active, cutId>>
    BY <1>2 DEF Client, WaitStep, WriterAppend, AppendNothing, KickFlusher,
       ReturnEarly, WaitCheck, WaitEnter, WaitUnpark, WaitDone, WaitCancel
<1>3. ASSUME \/ ReadClosing \/ ReadCutting \/ TakeSome \/ TakeNone
             \/ TakeNoneForCut \/ RotateSync \/ RotateCreate \/ WriteBatch
             \/ PublishWritten \/ Decide \/ Park \/ ParkTimeout \/ Exit
      PROVE  UNCHANGED <<syncFile, active, cutId>>
    BY <1>3 DEF ReadClosing, ReadCutting, TakeSome, TakeNone, TakeNoneForCut,
       RotateSync, RotateCreate, WriteBatch, PublishWritten, Decide, Park,
       ParkTimeout, Exit
<1>4. ASSUME \/ FlushDone \/ FlushFails \/ Remove \/ RemoveEnds \/ Close
             \/ JoinFlusher \/ JoinSyncer \/ CloseEnds \/ Syncer \/ UNCHANGED vars
      PROVE  UNCHANGED <<syncFile, active, cutId>>
    BY <1>4 DEF FlushDone, FlushFails, Remove, RemoveEnds, Close, JoinFlusher,
       JoinSyncer, CloseEnds, Syncer, SyncTop, SyncWake, SyncTick, SyncClone,
       SyncData, vars
<1>5. ASSUME UNCHANGED <<syncFile, active, cutId>> PROVE SharedType'
    BY <1>5 DEF SharedType
<1>q. QED
    BY <1>1, <1>2, <1>3, <1>4, <1>5
       DEF Next, Step, Flusher, Owner, OwnerStep, Ended

LEMMA NextClients == ClientsType /\ BufferType /\ [Next]_vars => ClientsType'
<1> SUFFICES ASSUME ClientsType, BufferType, [Next]_vars PROVE ClientsType'
    OBVIOUS
<1> USE DEF bufVars, progress, files, flusher, shared, clientVars, owner, syncer
<1>1. ASSUME NEW c \in Clients, NEW p, cpc' = [cpc EXCEPT ![c] = p],
             p \in {"idle", "kick", "appended", "enter", "unpark", "waiting",
                    "acked"},
             NEW n \in Nat, lsn' = [lsn EXCEPT ![c] = n] \/ lsn' = lsn
      PROVE  ClientsType'
    BY <1>1 DEF ClientsType
<1>2. ASSUME NEW c \in Clients, WriterAppend(c) PROVE ClientsType'
    <2>1. end + 1 \in Nat
        BY DEF BufferType
    <2>2. lsn' = [lsn EXCEPT ![c] = end + 1]
        BY <1>2 DEF WriterAppend
    <2>3. \E p \in {"kick", "appended"} : cpc' = [cpc EXCEPT ![c] = p]
        BY <1>2 DEF WriterAppend
    <2>q. QED
        BY <1>1, <2>1, <2>2, <2>3
<1>3. ASSUME NEW c \in Clients, AppendNothing(c) PROVE ClientsType'
    <2>1. end \in Nat
        BY DEF BufferType
    <2>q. QED
        BY <1>1, <1>3, <2>1 DEF AppendNothing
<1>4. ASSUME NEW c \in Clients, ReturnEarly(c) \/ WaitCancel(c)
      PROVE  ClientsType'
    BY <1>1, <1>4 DEF ReturnEarly, WaitCancel
<1>5. ASSUME NEW c \in Clients, WaitStep(c) PROVE ClientsType'
    <2>1. \E p \in {"appended", "acked", "enter", "unpark", "waiting"} :
            cpc' = [cpc EXCEPT ![c] = p] /\ lsn' = lsn
        BY <1>5 DEF WaitStep, KickFlusher, WaitCheck, WaitEnter, WaitUnpark,
           WaitDone
    <2>q. QED
        BY <1>1, <2>1
<1>6. ASSUME Flusher \/ ParkTimeout PROVE UNCHANGED <<cpc, lsn>>
    BY <1>6 DEF Flusher, ParkTimeout, ReadClosing, ReadCutting, TakeSome,
       TakeNone, TakeNoneForCut, RotateSync, RotateCreate, RotateSwap,
       RotateStore, WriteBatch, PublishWritten, Decide, Park, Finish, Exit
<1>7. ASSUME Owner \/ Syncer \/ UNCHANGED vars PROVE UNCHANGED <<cpc, lsn>>
    BY <1>7 DEF Owner, OwnerStep, CutRequest, CutDone, FlushDone, FlushFails,
       Remove, RemoveEnds, Close, JoinFlusher, JoinSyncer, CloseEnds, Syncer,
       SyncTop, SyncWake, SyncTick, SyncClone, SyncData, vars
<1>8. ASSUME UNCHANGED <<cpc, lsn>> PROVE ClientsType'
    BY <1>8 DEF ClientsType
<1>q. QED
    BY <1>2, <1>3, <1>4, <1>5, <1>6, <1>7, <1>8 DEF Next, Step, Client, Ended

LEMMA NextOwner ==
    OwnerType /\ SharedType /\ BufferType /\ [Next]_vars => OwnerType'
<1> SUFFICES ASSUME OwnerType, SharedType, BufferType, [Next]_vars
             PROVE  OwnerType'
    OBVIOUS
<1> USE DEF bufVars, progress, files, flusher, shared, clientVars, owner, syncer
<1>1. ASSUME \/ CutRequest \/ CutDone \/ FlushDone \/ FlushFails \/ Remove
      PROVE  OwnerType'
    BY <1>1 DEF CutRequest, CutDone, FlushDone, FlushFails, Remove, OwnerType,
       SharedType, BufferType
<1>2. ASSUME RemoveEnds \/ Close \/ JoinFlusher \/ JoinSyncer \/ CloseEnds
      PROVE  OwnerType'
    BY <1>2 DEF RemoveEnds, Close, JoinFlusher, JoinSyncer, CloseEnds, OwnerType
<1>3. ASSUME NEW c \in Clients, Client(c) PROVE UNCHANGED owner
    BY <1>3 DEF Client, WaitStep, WriterAppend, AppendNothing, KickFlusher,
       ReturnEarly, WaitCheck, WaitEnter, WaitUnpark, WaitDone, WaitCancel
<1>4. ASSUME Flusher \/ ParkTimeout PROVE UNCHANGED owner
    BY <1>4 DEF Flusher, ParkTimeout, ReadClosing, ReadCutting, TakeSome,
       TakeNone, TakeNoneForCut, RotateSync, RotateCreate, RotateSwap,
       RotateStore, WriteBatch, PublishWritten, Decide, Park, Finish, Exit
<1>5. ASSUME Syncer \/ UNCHANGED vars PROVE UNCHANGED owner
    BY <1>5 DEF Syncer, SyncTop, SyncWake, SyncTick, SyncClone, SyncData, vars
<1>6. ASSUME UNCHANGED owner PROVE OwnerType'
    BY <1>6 DEF OwnerType
<1>q. QED
    BY <1>1, <1>2, <1>3, <1>4, <1>5, <1>6 DEF Next, Step, Owner, OwnerStep, Ended

LEMMA NextSyncer ==
    SyncerType /\ SharedType /\ BufferType /\ [Next]_vars => SyncerType'
<1> SUFFICES ASSUME SyncerType, SharedType, BufferType, [Next]_vars
             PROVE  SyncerType'
    OBVIOUS
<1> USE DEF bufVars, progress, files, flusher, shared, clientVars, owner, syncer
<1>1. ASSUME SyncTop \/ SyncWake \/ SyncTick \/ SyncClone \/ SyncData
      PROVE  SyncerType'
    BY <1>1 DEF SyncTop, SyncWake, SyncTick, SyncClone, SyncData, SyncerType,
       SharedType, BufferType
<1>2. ASSUME NEW c \in Clients, Client(c) PROVE UNCHANGED <<spc, sw, sfile, slast>>
    BY <1>2 DEF Client, WaitStep, WriterAppend, AppendNothing, KickFlusher,
       ReturnEarly, WaitCheck, WaitEnter, WaitUnpark, WaitDone, WaitCancel
<1>3. ASSUME Flusher \/ ParkTimeout PROVE UNCHANGED <<spc, sw, sfile, slast>>
    BY <1>3 DEF Flusher, ParkTimeout, ReadClosing, ReadCutting, TakeSome,
       TakeNone, TakeNoneForCut, RotateSync, RotateCreate, RotateSwap,
       RotateStore, WriteBatch, PublishWritten, Decide, Park, Finish, Exit
<1>4. ASSUME Owner \/ UNCHANGED vars PROVE UNCHANGED <<spc, sw, sfile, slast>>
    BY <1>4 DEF Owner, OwnerStep, CutRequest, CutDone, FlushDone, FlushFails,
       Remove, RemoveEnds, Close, JoinFlusher, JoinSyncer, CloseEnds, vars
<1>5. ASSUME UNCHANGED <<spc, sw, sfile, slast>> PROVE SyncerType'
    BY <1>5 DEF SyncerType
<1>q. QED
    BY <1>1, <1>2, <1>3, <1>4, <1>5 DEF Next, Step, Syncer, Ended

LEMMA NextType == TypeOK /\ WaitersCount /\ [Next]_vars => TypeOK'
<1> SUFFICES ASSUME TypeOK, WaitersCount, [Next]_vars PROVE TypeOK'
    OBVIOUS
<1>1. /\ Flags' /\ BufferType' /\ FilesType' /\ FlusherType'
      /\ SharedType' /\ ClientsType' /\ OwnerType' /\ SyncerType'
    BY TypeParts, NextFlags, NextBuffer, NextFiles, NextFlusher, NextShared,
       NextClients, NextOwner, NextSyncer
<1>q. QED
    BY <1>1, Zenon DEF TypeOK, Flags, BufferType, FilesType, FlusherType,
       SharedType, ClientsType, OwnerType, SyncerType

LEMMA InitWaiters == Init => WaitersCount
<1> SUFFICES ASSUME Init PROVE WaitersCount
    OBVIOUS
<1>1. Waiting = {}
    BY DEF Waiting, Init
<1>q. QED
    BY <1>1, FS_EmptySet DEF Waiting, WaitersCount, Init

LEMMA NextWaiters == TypeOK /\ WaitersCount /\ [Next]_vars => WaitersCount'
<1> SUFFICES ASSUME TypeOK, WaitersCount, [Next]_vars PROVE WaitersCount'
    OBVIOUS
<1> USE DEF bufVars, progress, files, flusher, shared, clientVars, owner, syncer
<1>1. IsFiniteSet(Waiting) /\ waiters = Cardinality(Waiting)
    BY WalAssumption, FS_Subset DEF Waiting, WaitersCount
<1>2. DOMAIN cpc = Clients
    BY DEF TypeOK
<1>3. ASSUME Waiting' = Waiting, waiters' = waiters PROVE WaitersCount'
    BY <1>1, <1>3 DEF Waiting, WaitersCount
<1>4. ASSUME NEW c \in Clients, WaitEnter(c) PROVE WaitersCount'
    <2>1. c \notin Waiting /\ Waiting' = Waiting \cup {c}
        BY <1>4, <1>2 DEF WaitEnter, Waiting
    <2>2. Cardinality(Waiting') = Cardinality(Waiting) + 1
        BY <2>1, <1>1, FS_AddElement
    <2>q. QED
        BY <2>2, <1>1, <1>4 DEF WaitEnter, Waiting, WaitersCount
<1>5. ASSUME NEW c \in Clients, WaitDone(c) \/ WaitCancel(c)
      PROVE  WaitersCount'
    <2>1. c \in Waiting /\ Waiting' = Waiting \ {c}
        BY <1>5, <1>2 DEF WaitDone, WaitCancel, Waiting
    <2>2. Cardinality(Waiting') = Cardinality(Waiting) - 1
        BY <2>1, <1>1, FS_RemoveElement
    <2>3. waiters' = waiters - 1
        BY <1>5 DEF WaitDone, WaitCancel
    <2>q. QED
        BY <2>2, <2>3, <1>1 DEF Waiting, WaitersCount
<1>6. ASSUME NEW c \in Clients,
             \/ WriterAppend(c) \/ AppendNothing(c) \/ KickFlusher(c)
             \/ ReturnEarly(c) \/ WaitCheck(c) \/ WaitUnpark(c)
      PROVE  Waiting' = Waiting /\ waiters' = waiters
    BY <1>6, <1>2 DEF Waiting, WriterAppend, AppendNothing, KickFlusher,
       ReturnEarly, WaitCheck, WaitUnpark, Quiet
<1>7. ASSUME Flusher \/ ParkTimeout PROVE UNCHANGED <<cpc, waiters>>
    BY <1>7 DEF Flusher, ParkTimeout, ReadClosing, ReadCutting, TakeSome,
       TakeNone, TakeNoneForCut, RotateSync, RotateCreate, RotateSwap,
       RotateStore, WriteBatch, PublishWritten, Decide, Park, Finish, Exit
<1>8. ASSUME Owner \/ Syncer \/ UNCHANGED vars PROVE UNCHANGED <<cpc, waiters>>
    BY <1>8 DEF Owner, OwnerStep, CutRequest, CutDone, FlushDone, FlushFails,
       Remove, RemoveEnds, Close, JoinFlusher, JoinSyncer, CloseEnds, Syncer,
       SyncTop, SyncWake, SyncTick, SyncClone, SyncData, vars
<1>q. QED
    BY <1>3, <1>4, <1>5, <1>6, <1>7, <1>8
       DEF Next, Step, Client, WaitStep, Ended, Waiting

\* The state of the log is always of its type: no counter runs below 0, no
\* thread is at a point the code does not have.
THEOREM TypeCorrect == Spec => []TypeOK
<1>1. Init => TypeOK /\ WaitersCount
    BY InitType, InitWaiters
<1>2. (TypeOK /\ WaitersCount) /\ [Next]_vars => (TypeOK /\ WaitersCount)'
    BY NextType, NextWaiters
<1>q. QED
    BY <1>1, <1>2, PTL DEF Spec

\* Progress.waiters counts the clients inside Progress::wait, however waits
\* end: the count the flusher decides by is never stale.
THEOREM WaitersCounted == Spec => []WaitersCount
<1>1. Init => TypeOK /\ WaitersCount
    BY InitType, InitWaiters
<1>2. (TypeOK /\ WaitersCount) /\ [Next]_vars => (TypeOK /\ WaitersCount)'
    BY NextType, NextWaiters
<1>q. QED
    BY <1>1, <1>2, PTL DEF Spec


-----------------------------------------------------------------------------
(* The inductive invariant. *)

\* Files: the flusher's segment exists and is the newest; every older one is
\* synced, and so is the one about to make way for a new one.
FilesOK ==
    /\ seg \in DOMAIN recs
    /\ \A s \in DOMAIN recs : s <= seg
    /\ \A s \in DOMAIN recs : s < seg => synced[s] = Len(recs[s])
    /\ fpc = "create" => synced[seg] = Len(recs[seg])
    /\ active <= seg

\* The handle the syncer takes is the newest segment's, except while that is
\* still empty.
HandleOK ==
    /\ fpc = "swap" => recs[seg] = <<>>
    /\ fpc # "swap" => syncFile = seg

\* The spare buffer is empty when the flusher takes the next batch.
SpareOK ==
    fpc \in {"closing", "cutting", "take", "park", "finish", "exit", "exited"}
        => spare = <<>>

\* The log is trimmed only when all of it is saved.
SavedOK == opc = "remove" => flushed = end

\* What is pending is newer than the batch in hand.
LsnOK ==
    /\ taken <= end /\ written <= end /\ flushed <= end
    /\ \A i \in DOMAIN buf : buf[i] > taken

\* What is published is in a file or saved.
PublishedOK == \A n \in 1 .. written : n <= flushed \/ OnFile(n)

\* Only what is published is acknowledged.
AckOK == \A c \in Clients : cpc[c] = "acked" => lsn[c] <= written

\* What the syncer is about to count as synced is durable or in the file it
\* syncs.
SyncOK ==
    /\ slast <= written
    /\ spc \in {"clone", "sync"} => sw <= written
    /\ spc = "sync" =>
         \A n \in 1 .. sw :
            Durable(n) \/ (sfile \in DOMAIN recs /\ In(n, recs[sfile]))

Inv ==
    /\ TypeOK /\ WaitersCount
    /\ FilesOK /\ HandleOK /\ SpareOK /\ SavedOK /\ NoLoss
    /\ LsnOK /\ PublishedOK /\ AckOK /\ SyncOK /\ SyncClaim

-----------------------------------------------------------------------------
(* What each thread leaves alone. *)

LEMMA ClientFrame ==
    ASSUME NEW c \in Clients, Client(c)
    PROVE  UNCHANGED <<closed, written, recs, synced, seg, fpc, closing, cutting,
                       spare, taken, syncFile, active, requested, cutId, opc,
                       doomed, flushed, spc, sw, sfile, slast>>
    BY DEF Client, WaitStep, WriterAppend, AppendNothing, KickFlusher,
       ReturnEarly, WaitCheck, WaitEnter, WaitUnpark, WaitDone, WaitCancel,
       bufVars, progress, files, flusher, shared, clientVars, owner, syncer

LEMMA FlusherFrame ==
    ASSUME Flusher \/ ParkTimeout
    PROVE  UNCHANGED <<end, closed, waiters, cpc, lsn, opc, doomed, flushed, spc,
                       sw, sfile, slast>>
    BY DEF Flusher, ParkTimeout, ReadClosing, ReadCutting, TakeSome, TakeNone,
       TakeNoneForCut, RotateSync, RotateCreate, RotateSwap, RotateStore,
       WriteBatch, PublishWritten, Decide, Park, Finish, Exit, bufVars,
       progress, files, flusher, shared, clientVars, owner, syncer

LEMMA OwnerFrame ==
    ASSUME Owner
    PROVE  UNCHANGED <<buf, end, written, waiters, seg, fpc, closing, cutting,
                       spare, taken, syncFile, active, cpc, lsn, spc, sw, sfile,
                       slast>>
    BY DEF Owner, OwnerStep, CutRequest, CutDone, FlushDone, FlushFails, Remove,
       RemoveEnds, Close, JoinFlusher, JoinSyncer, CloseEnds, bufVars, progress,
       files, flusher, shared, clientVars, owner, syncer

LEMMA SyncerFrame ==
    ASSUME Syncer
    PROVE  UNCHANGED <<buf, end, closed, written, waiters, token, recs, seg, fpc,
                       closing, cutting, spare, taken, syncFile, active,
                       requested, cutId, cpc, lsn, opc, doomed, flushed>>
    BY DEF Syncer, SyncTop, SyncWake, SyncTick, SyncClone, SyncData, Fdatasync,
       bufVars, progress, files, flusher, shared, clientVars, owner, syncer

\* The steps by what they do to the files.
LEMMA FileSteps ==
    ASSUME [Next]_vars
    PROVE  \/ RotateSync \/ Exit \/ SyncData \/ RotateCreate \/ WriteBatch
           \/ Remove \/ UNCHANGED files
<1> USE DEF bufVars, progress, files, flusher, shared, clientVars, owner, syncer
<1>1. ASSUME NEW c \in Clients, Client(c) PROVE UNCHANGED files
    BY <1>1, ClientFrame
<1>2. ASSUME Flusher \/ ParkTimeout
      PROVE  RotateSync \/ Exit \/ RotateCreate \/ WriteBatch \/ UNCHANGED files
    BY <1>2 DEF Flusher, ParkTimeout, ReadClosing, ReadCutting, TakeSome,
       TakeNone, TakeNoneForCut, RotateSwap, RotateStore, PublishWritten,
       Decide, Park, Finish
<1>3. ASSUME Owner PROVE Remove \/ UNCHANGED files
    BY <1>3 DEF Owner, OwnerStep, CutRequest, CutDone, FlushDone, FlushFails,
       RemoveEnds, Close, JoinFlusher, JoinSyncer, CloseEnds
<1>4. ASSUME Syncer PROVE SyncData \/ UNCHANGED files
    BY <1>4 DEF Syncer, SyncTop, SyncWake, SyncTick, SyncClone
<1>5. ASSUME UNCHANGED vars PROVE UNCHANGED files
    BY <1>5 DEF vars
<1>q. QED
    BY <1>1, <1>2, <1>3, <1>4, <1>5 DEF Next, Step, Ended

\* What happens to flushed and to end.
LEMMA CounterSteps ==
    ASSUME Inv, [Next]_vars
    PROVE  /\ end' = end \/ (end' = end + 1 /\ \E c \in Clients : WriterAppend(c))
           /\ flushed' = flushed \/ (FlushDone /\ flushed' = end)
<1> USE DEF bufVars, progress, files, flusher, shared, clientVars, owner, syncer
<1>1. ASSUME NEW c \in Clients, Client(c)
      PROVE  /\ end' = end \/ (end' = end + 1 /\ WriterAppend(c))
             /\ flushed' = flushed
    BY <1>1 DEF Client, WaitStep, WriterAppend, AppendNothing, KickFlusher,
       ReturnEarly, WaitCheck, WaitEnter, WaitUnpark, WaitDone, WaitCancel
<1>2. ASSUME Flusher \/ ParkTimeout PROVE UNCHANGED <<end, flushed>>
    BY <1>2, FlusherFrame
<1>3. ASSUME Owner
      PROVE  end' = end /\ (flushed' = flushed \/ (FlushDone /\ flushed' = end))
    BY <1>3 DEF Owner, OwnerStep, CutRequest, CutDone, FlushDone, FlushFails,
       Remove, RemoveEnds, Close, JoinFlusher, JoinSyncer, CloseEnds
<1>4. ASSUME Syncer PROVE UNCHANGED <<end, flushed>>
    BY <1>4, SyncerFrame
<1>5. ASSUME UNCHANGED vars PROVE UNCHANGED <<end, flushed>>
    BY <1>5 DEF vars
<1>q. QED
    BY <1>1, <1>2, <1>3, <1>4, <1>5 DEF Next, Step, Ended

-----------------------------------------------------------------------------
(* Files only grow, but for segments whose records are saved. *)

LEMMA Concatenated ==
    ASSUME NEW q \in Seq(Nat), NEW r \in Seq(Nat)
    PROVE  /\ Len(q \o r) = Len(q) + Len(r)
           /\ \A i \in DOMAIN q : i \in DOMAIN (q \o r) /\ (q \o r)[i] = q[i]
           /\ \A i \in DOMAIN r : /\ Len(q) + i \in DOMAIN (q \o r)
                                  /\ (q \o r)[Len(q) + i] = r[i]
    OBVIOUS

LEMMA InConcatenated ==
    ASSUME NEW q \in Seq(Nat), NEW r \in Seq(Nat), NEW n
    PROVE  In(n, q) \/ In(n, r) => In(n, q \o r)
<1>1. ASSUME NEW i \in DOMAIN q, q[i] = n PROVE In(n, q \o r)
    <2>1. i \in DOMAIN (q \o r) /\ (q \o r)[i] = n
        BY <1>1, Concatenated
    <2>q. QED
        BY <2>1, Zenon DEF In
<1>2. ASSUME NEW i \in DOMAIN r, r[i] = n PROVE In(n, q \o r)
    <2>1. Len(q) + i \in DOMAIN (q \o r) /\ (q \o r)[Len(q) + i] = n
        BY <1>2, Concatenated
    <2>q. QED
        BY <2>1, Zenon DEF In
<1>q. QED
    BY <1>1, <1>2, Zenon DEF In

LEMMA InAppended ==
    ASSUME NEW q \in Seq(Nat), NEW m \in Nat, NEW n
    PROVE  In(n, q) => In(n, Append(q, m))
<1>1. ASSUME NEW i \in DOMAIN q, q[i] = n PROVE In(n, Append(q, m))
    <2>1. i \in DOMAIN Append(q, m) /\ Append(q, m)[i] = n
        BY <1>1
    <2>q. QED
        BY <2>1, Zenon DEF In
<1>q. QED
    BY <1>1, Zenon DEF In

\* The step that writes the batch in hand.
LEMMA Written ==
    ASSUME Inv, WriteBatch
    PROVE  /\ DOMAIN recs' = DOMAIN recs /\ synced' = synced
           /\ \A s \in DOMAIN recs : s # seg => recs'[s] = recs[s]
           /\ recs'[seg] = recs[seg] \o spare
           /\ recs[seg] \in Seq(Nat) /\ spare \in Seq(Nat)
<1>1. recs' = [recs EXCEPT ![seg] = recs[seg] \o spare] /\ synced' = synced
    BY DEF WriteBatch
<1>2. seg \in DOMAIN recs
    BY DEF Inv, FilesOK
<1>3. recs \in [DOMAIN recs -> Seq(Nat)] /\ spare \in Seq(Nat)
    BY TypeParts DEF Inv, FilesType, FlusherType
<1>q. QED
    BY <1>1, <1>2, <1>3

\* The step that starts a new file.
LEMMA Created ==
    ASSUME Inv, RotateCreate
    PROVE  /\ seg + 1 \notin DOMAIN recs /\ DOMAIN recs' = DOMAIN recs \cup {seg + 1}
           /\ \A s \in DOMAIN recs : recs'[s] = recs[s] /\ synced'[s] = synced[s]
           /\ recs'[seg + 1] = <<>> /\ synced'[seg + 1] = 0
<1>1. seg \in Nat /\ \A s \in DOMAIN recs : s \in Nat /\ s <= seg
    BY TypeParts DEF Inv, FilesOK, FilesType, FlusherType
<1>2. seg + 1 \notin DOMAIN recs
    BY <1>1
<1>q. QED
    BY <1>2 DEF RotateCreate, CreateSegment

\* A step that syncs one file.
LEMMA FileSynced ==
    ASSUME Inv, NEW id, Fdatasync(id)
    PROVE  /\ recs' = recs
           /\ \A s \in DOMAIN recs :
                 synced'[s] = IF s = id THEN Len(recs[s]) ELSE synced[s]
    BY DEF Fdatasync

\* The step that removes one file.
LEMMA Removed ==
    ASSUME Inv, Remove
    PROVE  /\ \E s \in Removable : DOMAIN recs' = DOMAIN recs \ {s}
           /\ \A s \in DOMAIN recs' : recs'[s] = recs[s] /\ synced'[s] = synced[s]
           /\ flushed = end /\ seg \in DOMAIN recs'
<1>1. flushed = end
    BY DEF Inv, SavedOK, Remove
<1>2. PICK s \in Removable :
          /\ recs' = [t \in DOMAIN recs \ {s} |-> recs[t]]
          /\ synced' = [t \in DOMAIN recs \ {s} |-> synced[t]]
    BY DEF Remove
<1>3. s # seg
    BY TypeParts DEF Inv, Removable, FilesOK, SharedType, FlusherType, FilesType
<1>q. QED
    BY <1>1, <1>2, <1>3 DEF Inv, FilesOK

\* Nothing stored is lost and nothing durable stops being so.
LEMMA Kept ==
    ASSUME Inv, [Next]_vars, NEW n \in 1 .. end
    PROVE  /\ n <= flushed \/ OnFile(n) => n <= flushed' \/ OnFile(n)'
           /\ Durable(n) => Durable(n)'
<1>1. n <= flushed => n <= flushed'
    BY CounterSteps, TypeParts DEF Inv, LsnOK, OwnerType, BufferType
<1>2. ASSUME UNCHANGED files
      PROVE  (OnFile(n) => OnFile(n)') /\ (Durable(n) => Durable(n)')
    BY <1>1, <1>2 DEF files, OnFile, Durable, In
<1>3. ASSUME NEW id, Fdatasync(id)
      PROVE  (OnFile(n) => OnFile(n)') /\ (Durable(n) => Durable(n)')
    <2>1. recs \in [DOMAIN recs -> Seq(Nat)]
        BY TypeParts DEF Inv, FilesType
    <2>2. ASSUME NEW s \in DOMAIN recs, NEW i \in DOMAIN recs[s], i <= synced[s]
          PROVE  i <= synced'[s]
        <3>1. recs[s] \in Seq(Nat)
            BY <2>1
        <3>2. i <= Len(recs[s])
            BY <3>1, <2>2
        <3>3. CASE s = id
            <4>1. synced'[s] = Len(recs[s])
                BY <1>3, <3>3, FileSynced, Zenon
            <4>q. QED
                BY <3>2, <4>1, Zenon
        <3>4. CASE s # id
            <4>1. synced'[s] = synced[s]
                BY <1>3, <3>4, FileSynced, Zenon
            <4>q. QED
                BY <2>2, <4>1, Zenon
        <3>q. QED
            BY <3>3, <3>4, Zenon
    <2>q. QED
        BY <1>1, <1>3, <2>2, FileSynced DEF OnFile, Durable, In
<1>4. ASSUME RotateCreate
      PROVE  (OnFile(n) => OnFile(n)') /\ (Durable(n) => Durable(n)')
    BY <1>1, <1>4, Created DEF OnFile, Durable, In
<1>5. ASSUME WriteBatch
      PROVE  (OnFile(n) => OnFile(n)') /\ (Durable(n) => Durable(n)')
    <2>1. \A i \in DOMAIN recs[seg] :
            i \in DOMAIN recs'[seg] /\ recs'[seg][i] = recs[seg][i]
        <3>1. /\ recs[seg] \in Seq(Nat) /\ spare \in Seq(Nat)
              /\ recs'[seg] = recs[seg] \o spare
            BY <1>5, Written
        <3>q. QED
            BY <3>1, Concatenated
    <2>2. \A s \in DOMAIN recs : s # seg => recs'[s] = recs[s]
        BY <1>5, Written
    <2>3. \A s \in DOMAIN recs : \A i \in DOMAIN recs[s] :
            i \in DOMAIN recs'[s] /\ recs'[s][i] = recs[s][i]
        BY <2>1, <2>2, Zenon
    <2>4. DOMAIN recs' = DOMAIN recs /\ synced' = synced
        BY <1>5, Written
    <2>q. QED
        BY <1>1, <2>3, <2>4 DEF OnFile, Durable, In
<1>6. ASSUME Remove PROVE n <= flushed'
    <2>1. flushed' = flushed
        BY <1>6 DEF Remove, owner
    <2>q. QED
        BY <1>6, <2>1, Removed
<1>q. QED
    BY <1>1, <1>2, <1>3, <1>4, <1>5, <1>6, FileSteps
       DEF RotateSync, Exit, SyncData, Durable

-----------------------------------------------------------------------------
(* Each part holds after every step. *)

\* The types after a step.
LEMMA PartsAfter ==
    ASSUME Inv, [Next]_vars
    PROVE  BufferType' /\ FilesType' /\ FlusherType' /\ OwnerType' /\ SyncerType'
    BY TypeParts, NextBuffer, NextFiles, NextFlusher, NextOwner, NextSyncer
       DEF Inv

\* The flusher's own steps, by what they do to what it shares.
LEMMA FlusherSteps ==
    ASSUME [Next]_vars
    PROVE  /\ seg' = seg \/ RotateCreate
           /\ active' = active \/ RotateStore
           /\ syncFile' = syncFile \/ RotateSwap
           /\ written' = written \/ PublishWritten
           /\ Flusher \/ ParkTimeout \/ UNCHANGED <<seg, fpc, spare, taken>>
<1> USE DEF bufVars, progress, files, flusher, shared, clientVars, owner, syncer
<1>1. ASSUME NEW c \in Clients, Client(c)
      PROVE  UNCHANGED <<seg, fpc, spare, taken, active, syncFile, written>>
    BY <1>1, ClientFrame
<1>2. ASSUME Owner \/ Syncer
      PROVE  UNCHANGED <<seg, fpc, spare, taken, active, syncFile, written>>
    BY <1>2, OwnerFrame, SyncerFrame
<1>3. ASSUME UNCHANGED vars
      PROVE  UNCHANGED <<seg, fpc, spare, taken, active, syncFile, written>>
    BY <1>3 DEF vars
<1>4. ASSUME Flusher \/ ParkTimeout
      PROVE  /\ seg' = seg \/ RotateCreate
             /\ active' = active \/ RotateStore
             /\ syncFile' = syncFile \/ RotateSwap
             /\ written' = written \/ PublishWritten
    BY <1>4 DEF Flusher, ParkTimeout, ReadClosing, ReadCutting, TakeSome,
       TakeNone, TakeNoneForCut, RotateSync, RotateCreate, RotateSwap,
       RotateStore, WriteBatch, PublishWritten, Decide, Park, Finish, Exit
<1>q. QED
    BY <1>1, <1>2, <1>3, <1>4 DEF Next, Step, Ended

\* A thread that is not the flusher, or one of its steps that leaves the files
\* alone, brings it no closer to "create".
LEMMA NotCreate ==
    ASSUME [Next]_vars, ~RotateSync
    PROVE  fpc' = "create" => fpc = "create"
<1>1. ASSUME Flusher \/ ParkTimeout PROVE fpc' # "create"
    BY <1>1 DEF Flusher, ParkTimeout, ReadClosing, ReadCutting, TakeSome,
       TakeNone, TakeNoneForCut, RotateCreate, RotateSwap,
       RotateStore, WriteBatch, PublishWritten, Decide, Park, Finish, Exit
<1>q. QED
    BY <1>1, FlusherSteps

LEMMA NextFilesOK == Inv /\ [Next]_vars => FilesOK'
<1> SUFFICES ASSUME Inv, [Next]_vars PROVE FilesOK'
    OBVIOUS
<1>1. /\ seg \in DOMAIN recs /\ seg \in Nat /\ active \in Nat /\ active <= seg
      /\ \A s \in DOMAIN recs : s \in Nat /\ s <= seg
      /\ \A s \in DOMAIN recs : s < seg => synced[s] = Len(recs[s])
      /\ fpc = "create" => synced[seg] = Len(recs[seg])
    BY TypeParts DEF Inv, FilesOK, FilesType, FlusherType, SharedType
<1>2. CASE RotateCreate
    <2>1. /\ seg' = seg + 1 /\ active' = active /\ fpc = "create"
          /\ fpc' = "swap"
        BY <1>2 DEF RotateCreate, shared
    <2>2. \A s \in DOMAIN recs : recs'[s] = recs[s] /\ synced'[s] = synced[s]
        BY <1>2, Created
    <2>3. DOMAIN recs' = DOMAIN recs \cup {seg + 1}
        BY <1>2, Created
    <2>4. ASSUME NEW s \in DOMAIN recs', s < seg' PROVE synced'[s] = Len(recs'[s])
        <3>1. s \in DOMAIN recs
            BY <2>1, <2>3, <2>4, <1>1
        <3>2. s < seg \/ s = seg
            BY <2>1, <2>4, <1>1, <3>1
        <3>3. synced[s] = Len(recs[s])
            BY <1>1, <2>1, <3>1, <3>2, Zenon
        <3>q. QED
            BY <2>2, <3>1, <3>3
    <2>5. \A s \in DOMAIN recs' : s <= seg'
        BY <1>1, <2>1, <2>3
    <2>q. QED
        BY <1>1, <2>1, <2>3, <2>4, <2>5 DEF FilesOK
<1>3. ASSUME ~RotateCreate
      PROVE  seg' = seg /\ active' <= seg /\ active' \in Nat
    BY <1>1, <1>3, FlusherSteps DEF RotateStore
<1>4. CASE Remove
    <2>1. fpc' = fpc /\ seg' = seg /\ active' = active
        BY <1>4 DEF Remove, flusher, shared
    <2>2. /\ DOMAIN recs' \subseteq DOMAIN recs /\ seg \in DOMAIN recs'
          /\ \A s \in DOMAIN recs' : recs'[s] = recs[s] /\ synced'[s] = synced[s]
        BY <1>4, Removed
    <2>q. QED
        BY <1>1, <2>1, <2>2 DEF FilesOK
<1>5. CASE WriteBatch
    <2>1. fpc' = "publish" /\ seg' = seg /\ active' = active
        BY <1>5 DEF WriteBatch, shared
    <2>2. /\ DOMAIN recs' = DOMAIN recs /\ synced' = synced
          /\ \A s \in DOMAIN recs : s # seg => recs'[s] = recs[s]
        BY <1>5, Written
    <2>q. QED
        BY <1>1, <2>1, <2>2 DEF FilesOK
<1>6. ASSUME NEW id, Fdatasync(id), ~RotateCreate,
             fpc' = "create" => fpc = "create" \/ id = seg
      PROVE  FilesOK'
    <2>1. recs' = recs
        BY <1>6, FileSynced
    <2>2. ASSUME NEW s \in DOMAIN recs
          PROVE  synced'[s] = Len(recs[s]) \/ (synced'[s] = synced[s] /\ s # id)
        <3>1. synced'[s] = IF s = id THEN Len(recs[s]) ELSE synced[s]
            BY <1>6, FileSynced
        <3>q. QED
            BY <3>1
    <2>q. QED
        BY <1>1, <1>3, <1>6, <2>1, <2>2 DEF FilesOK
<1>7. CASE RotateSync \/ Exit \/ SyncData
    <2>1. \E id : /\ Fdatasync(id)
                  /\ fpc' = "create" => fpc = "create" \/ id = seg
        BY <1>7 DEF RotateSync, Exit, SyncData, flusher
    <2>2. ~RotateCreate
        BY <1>7 DEF RotateSync, Exit, SyncData, RotateCreate, flusher
    <2>q. QED
        BY <1>6, <2>1, <2>2
<1>8. CASE UNCHANGED files /\ ~RotateSync /\ ~RotateCreate
    BY <1>1, <1>3, <1>8, NotCreate DEF FilesOK, files
<1>q. QED
    BY <1>2, <1>4, <1>5, <1>7, <1>8, FileSteps

LEMMA NextHandleOK == Inv /\ [Next]_vars => HandleOK'
<1> SUFFICES ASSUME Inv, [Next]_vars PROVE HandleOK'
    OBVIOUS
<1>1. HandleOK /\ seg \in DOMAIN recs
    BY DEF Inv, FilesOK
<1>2. ASSUME RotateCreate PROVE HandleOK'
    <2>1. fpc' = "swap" /\ seg' = seg + 1
        BY <1>2 DEF RotateCreate
    <2>q. QED
        BY <1>2, <2>1, Created DEF HandleOK
<1>3. ASSUME RotateSwap PROVE HandleOK'
    BY <1>3 DEF RotateSwap, HandleOK, flusher
<1>4. ASSUME Flusher \/ ParkTimeout, ~RotateCreate, ~RotateSwap
      PROVE  fpc # "swap" /\ fpc' # "swap" /\ seg' = seg /\ syncFile' = syncFile
    BY <1>4 DEF Flusher, ParkTimeout, ReadClosing, ReadCutting, TakeSome,
       TakeNone, TakeNoneForCut, RotateSync, RotateStore, WriteBatch,
       PublishWritten, Decide, Park, Finish, Exit, bufVars, progress, files,
       flusher, shared
<1>5. ASSUME ~(Flusher \/ ParkTimeout)
      PROVE  fpc' = fpc /\ seg' = seg /\ syncFile' = syncFile /\ recs'[seg] = recs[seg]
    <2>1. fpc' = fpc /\ seg' = seg /\ syncFile' = syncFile
        BY <1>5, FlusherSteps DEF Flusher
    <2>2. SyncData \/ Remove \/ UNCHANGED files
        BY <1>5, FileSteps DEF Flusher
    <2>3. ASSUME SyncData PROVE recs' = recs
        BY <2>3 DEF SyncData, Fdatasync
    <2>4. ASSUME Remove PROVE recs'[seg] = recs[seg]
        BY <2>4, Removed
    <2>q. QED
        BY <2>1, <2>2, <2>3, <2>4 DEF files
<1>q. QED
    BY <1>1, <1>2, <1>3, <1>4, <1>5 DEF HandleOK

LEMMA NextSpareOK == Inv /\ [Next]_vars => SpareOK'
<1> SUFFICES ASSUME Inv, [Next]_vars PROVE SpareOK'
    OBVIOUS
<1>1. SpareOK
    BY DEF Inv
<1>2. ASSUME Flusher \/ ParkTimeout PROVE SpareOK'
    BY <1>1, <1>2 DEF Flusher, ParkTimeout, ReadClosing, ReadCutting, TakeSome,
       TakeNone, TakeNoneForCut, RotateSync, RotateCreate, RotateSwap,
       RotateStore, WriteBatch, PublishWritten, Decide, Park, Finish, Exit,
       SpareOK
<1>q. QED
    BY <1>1, <1>2, FlusherSteps DEF SpareOK

LEMMA NextSavedOK == Inv /\ [Next]_vars => SavedOK'
<1> SUFFICES ASSUME Inv, [Next]_vars PROVE SavedOK'
    OBVIOUS
<1>1. SavedOK
    BY DEF Inv
<1>2. ASSUME Owner PROVE SavedOK'
    BY <1>1, <1>2 DEF Owner, OwnerStep, CutRequest, CutDone, FlushDone,
       FlushFails, Remove, RemoveEnds, Close, JoinFlusher, JoinSyncer,
       CloseEnds, SavedOK, bufVars, owner
<1>3. ASSUME NEW c \in Clients, Client(c) PROVE SavedOK'
    <2>1. opc' = opc /\ flushed' = flushed
        BY <1>3, ClientFrame
    <2>2. end' = end \/ opc # "remove"
        BY <1>3 DEF Client, WaitStep, WriterAppend, AppendNothing, KickFlusher,
           ReturnEarly, WaitCheck, WaitEnter, WaitUnpark, WaitDone, WaitCancel,
           LockFree, bufVars
    <2>q. QED
        BY <1>1, <2>1, <2>2 DEF SavedOK
<1>4. ASSUME Flusher \/ ParkTimeout \/ Syncer \/ UNCHANGED vars
      PROVE  UNCHANGED <<opc, flushed, end>>
    BY <1>4, FlusherFrame, SyncerFrame DEF vars, bufVars, owner
<1>q. QED
    BY <1>1, <1>2, <1>3, <1>4 DEF Next, Step, Ended, SavedOK

LEMMA NextLsnOK == Inv /\ [Next]_vars => LsnOK'
<1> SUFFICES ASSUME Inv, [Next]_vars PROVE LsnOK'
    OBVIOUS
<1> USE DEF bufVars, progress, files, flusher, shared, clientVars, owner, syncer
<1>1. LsnOK
    BY DEF Inv
<1>2. /\ buf \in Seq(Nat) /\ end \in Nat /\ written \in Nat /\ taken \in Nat
      /\ flushed \in Nat
    BY TypeParts DEF Inv, BufferType, FlusherType, OwnerType
<1>3. ASSUME NEW c \in Clients, WriterAppend(c) PROVE LsnOK'
    <2>1. /\ buf' = Append(buf, end + 1) /\ end' = end + 1
          /\ UNCHANGED <<written, taken, flushed>>
        BY <1>3 DEF WriterAppend
    <2>q. QED
        BY <1>1, <1>2, <2>1 DEF LsnOK
<1>4. ASSUME NEW c \in Clients, Client(c), ~WriterAppend(c)
      PROVE  UNCHANGED <<buf, end, written, taken, flushed>>
    BY <1>4 DEF Client, WaitStep, AppendNothing, KickFlusher,
       ReturnEarly, WaitCheck, WaitEnter, WaitUnpark, WaitDone, WaitCancel
<1>5. CASE TakeSome
    <2>1. buf' = spare /\ spare = <<>>
        BY <1>5 DEF TakeSome, Inv, SpareOK
    <2>2. taken' = end /\ UNCHANGED <<end, written, flushed>>
        BY <1>5 DEF TakeSome
    <2>q. QED
        BY <1>1, <1>2, <2>1, <2>2 DEF LsnOK
<1>6. CASE PublishWritten
    BY <1>1, <1>2, <1>6 DEF PublishWritten, LsnOK
<1>7. ASSUME Flusher \/ ParkTimeout, ~TakeSome, ~PublishWritten
      PROVE  /\ UNCHANGED <<buf, end, written, flushed>>
             /\ taken' = taken \/ taken' = 0
    BY <1>7 DEF Flusher, ParkTimeout, ReadClosing, ReadCutting,
       TakeNone, TakeNoneForCut, RotateSync, RotateCreate, RotateSwap,
       RotateStore, WriteBatch, Decide, Park, Finish, Exit, EndOfRound
<1>8. CASE FlushDone
    BY <1>1, <1>2, <1>8 DEF FlushDone, LsnOK
<1>9. ASSUME Owner, ~FlushDone
      PROVE  UNCHANGED <<buf, end, written, taken, flushed>>
    BY <1>9 DEF Owner, OwnerStep, CutRequest, CutDone, FlushFails, Remove,
       RemoveEnds, Close, JoinFlusher, JoinSyncer, CloseEnds
<1>10. ASSUME Syncer \/ UNCHANGED vars
       PROVE  UNCHANGED <<buf, end, written, taken, flushed>>
    BY <1>10, SyncerFrame DEF vars
<1>11. ASSUME UNCHANGED <<buf, end, written, flushed>>, taken' = taken \/ taken' = 0
       PROVE  LsnOK'
    <2>1. \A i \in DOMAIN buf : buf[i] \in Nat /\ buf[i] > taken
        BY <1>1, <1>2 DEF LsnOK
    <2>2. \A i \in DOMAIN buf : buf[i] > 0
        BY <2>1, <1>2
    <2>q. QED
        BY <1>1, <1>2, <1>11, <2>1, <2>2 DEF LsnOK
<1>q. QED
    BY <1>3, <1>4, <1>5, <1>6, <1>7, <1>8, <1>9, <1>10, <1>11
       DEF Next, Step, Ended

\* A record still in memory stays there or goes to a file.
LEMMA InMemory ==
    ASSUME Inv, [Next]_vars, NEW n \in 1 .. end, In(n, Hand) \/ In(n, buf)
    PROVE  OnFile(n)' \/ In(n, Hand') \/ In(n, buf')
<1> USE DEF bufVars, progress, files, flusher, shared, clientVars, owner, syncer
<1>1. buf \in Seq(Nat) /\ spare \in Seq(Nat) /\ end \in Nat
    BY TypeParts DEF Inv, BufferType, FlusherType
<1>2. ASSUME NEW c \in Clients, Client(c) PROVE In(n, Hand') \/ In(n, buf')
    <2>1. Hand' = Hand
        BY <1>2, ClientFrame DEF Hand
    <2>2. buf' = buf \/ buf' = Append(buf, end + 1)
        BY <1>2 DEF Client, WaitStep, WriterAppend, AppendNothing, KickFlusher,
           ReturnEarly, WaitCheck, WaitEnter, WaitUnpark, WaitDone, WaitCancel
    <2>3. ASSUME In(n, buf) PROVE In(n, Append(buf, end + 1))
        BY <1>1, <2>3, InAppended
    <2>q. QED
        BY <2>1, <2>2, <2>3
<1>3. CASE TakeSome
    <2>1. Hand = <<>> /\ Hand' = buf
        BY <1>3 DEF TakeSome, Hand
    <2>q. QED
        BY <2>1 DEF In
<1>4. CASE WriteBatch
    <2>1. Hand = spare /\ buf' = buf
        BY <1>4 DEF WriteBatch, Hand
    <2>2. /\ recs[seg] \in Seq(Nat) /\ recs'[seg] = recs[seg] \o spare
          /\ seg \in DOMAIN recs' /\ DOMAIN recs' = DOMAIN recs
        BY <1>4, Written DEF Inv, FilesOK
    <2>3. ASSUME In(n, spare) PROVE In(n, recs'[seg])
        BY <1>1, <2>2, <2>3, InConcatenated
    <2>q. QED
        BY <2>1, <2>2, <2>3 DEF OnFile
<1>5. ASSUME RotateStore
      PROVE  buf' = buf /\ (Hand' = Hand \/ Hand = <<>>)
    BY <1>5 DEF RotateStore, Hand
<1>6. ASSUME \/ ReadClosing \/ ReadCutting \/ TakeNone \/ TakeNoneForCut
             \/ PublishWritten \/ Decide \/ Park \/ ParkTimeout \/ Finish \/ Exit
      PROVE  buf' = buf /\ Hand = <<>>
    BY <1>6 DEF ReadClosing, ReadCutting, TakeNone, TakeNoneForCut,
       PublishWritten, Decide, Park, ParkTimeout, Finish, Exit, Hand
<1>7. ASSUME RotateSync \/ RotateCreate \/ RotateSwap
      PROVE  buf' = buf /\ Hand' = Hand
    BY <1>7 DEF RotateSync, RotateCreate, RotateSwap, Hand
<1>8. ASSUME Owner \/ Syncer PROVE buf' = buf /\ Hand' = Hand
    BY <1>8, OwnerFrame, SyncerFrame DEF Hand
<1>9. ASSUME UNCHANGED vars PROVE buf' = buf /\ Hand' = Hand
    BY <1>9 DEF vars, Hand
<1>q. QED
    BY <1>2, <1>3, <1>4, <1>5, <1>6, <1>7, <1>8, <1>9
       DEF Next, Step, Ended, Flusher, In

LEMMA NextNoLoss == Inv /\ [Next]_vars => NoLoss'
<1> SUFFICES ASSUME Inv, [Next]_vars, NEW n \in 1 .. end'
             PROVE  n <= flushed' \/ OnFile(n)' \/ In(n, Hand') \/ In(n, buf')
    BY DEF NoLoss, OnFile, In, Hand
<1>1. buf \in Seq(Nat) /\ end \in Nat
    BY TypeParts DEF Inv, BufferType
<1>2. CASE n \in 1 .. end
    <2>1. n <= flushed \/ OnFile(n) \/ In(n, Hand) \/ In(n, buf)
        BY <1>2 DEF Inv, NoLoss
    <2>q. QED
        BY <1>2, <2>1, Kept, InMemory
<1>3. CASE n \notin 1 .. end
    <2>1. end' = end + 1 /\ n = end + 1 /\ \E c \in Clients : WriterAppend(c)
        BY <1>1, <1>3, CounterSteps
    <2>2. buf' = Append(buf, n)
        BY <2>1 DEF WriterAppend
    <2>3. Len(buf) + 1 \in DOMAIN Append(buf, n)
          /\ Append(buf, n)[Len(buf) + 1] = n
        BY <1>1
    <2>q. QED
        BY <2>2, <2>3 DEF In
<1>q. QED
    BY <1>2, <1>3

LEMMA NextPublishedOK == Inv /\ [Next]_vars => PublishedOK'
<1> SUFFICES ASSUME Inv, [Next]_vars, NEW n \in 1 .. written'
             PROVE  n <= flushed' \/ OnFile(n)'
    BY DEF PublishedOK, OnFile, In
<1>1. /\ end \in Nat /\ written \in Nat /\ taken \in Nat
      /\ written <= end /\ taken <= end
      /\ \A i \in DOMAIN buf : buf[i] > taken
    BY TypeParts DEF Inv, BufferType, FlusherType, LsnOK
<1>2. CASE n \in 1 .. written
    <2>1. n \in 1 .. end
        BY <1>1, <1>2
    <2>2. n <= flushed \/ OnFile(n)
        BY <1>2 DEF Inv, PublishedOK
    <2>q. QED
        BY <2>1, <2>2, Kept
<1>3. CASE n \notin 1 .. written
    <2>1. PublishWritten
        BY <1>3, FlusherSteps
    <2>2. n <= taken /\ n \in 1 .. end
        BY <1>1, <1>3, <2>1 DEF PublishWritten
    <2>3. Hand = <<>>
        BY <2>1 DEF PublishWritten, Hand
    <2>4. ~In(n, buf)
        <3>1. SUFFICES ASSUME NEW i \in DOMAIN buf, buf[i] = n PROVE FALSE
            BY DEF In
        <3>2. n > taken
            BY <1>1, <3>1, Zenon
        <3>q. QED
            BY <1>1, <2>2, <3>2
    <2>5. n <= flushed \/ OnFile(n)
        BY <2>2, <2>3, <2>4 DEF Inv, NoLoss, In
    <2>q. QED
        BY <2>2, <2>5, Kept
<1>q. QED
    BY <1>2, <1>3

LEMMA NextAckOK == Inv /\ [Next]_vars => AckOK'
<1> SUFFICES ASSUME Inv, [Next]_vars, NEW c \in Clients, cpc'[c] = "acked"
             PROVE  lsn'[c] <= written'
    BY DEF AckOK
<1> USE DEF bufVars, progress, files, flusher, shared, clientVars, owner, syncer
<1>1. /\ written \in Nat /\ taken \in Nat /\ end \in Nat
      /\ lsn \in [Clients -> Nat] /\ DOMAIN cpc = Clients
    BY TypeParts DEF Inv, BufferType, ClientsType, FlusherType
<1>2. written' \in Nat /\ written <= written'
    BY <1>1, FlusherSteps DEF PublishWritten
<1>3. cpc[c] = "acked" => lsn[c] <= written
    BY DEF Inv, AckOK
<1>4. ASSUME NEW d \in Clients, Client(d)
      PROVE  lsn'[c] = lsn[c] /\ (cpc[c] = "acked" \/ lsn[c] <= written)
    <2>1. ASSUME \/ WriterAppend(d) \/ AppendNothing(d) \/ ReturnEarly(d)
                 \/ WaitCancel(d) \/ KickFlusher(d) \/ WaitEnter(d)
                 \/ WaitUnpark(d)
          PROVE  c # d /\ lsn'[c] = lsn[c] /\ cpc'[c] = cpc[c]
        BY <1>1, <2>1 DEF WriterAppend, AppendNothing, ReturnEarly, WaitCancel,
           KickFlusher, WaitEnter, WaitUnpark
    <2>2. ASSUME WaitCheck(d) \/ WaitDone(d)
          PROVE  lsn' = lsn /\ (cpc'[c] = cpc[c] \/ written >= lsn[c])
        BY <1>1, <2>2 DEF WaitCheck, WaitDone
    <2>q. QED
        BY <1>1, <1>4, <2>1, <2>2 DEF Client, WaitStep
<1>5. ASSUME Flusher \/ ParkTimeout \/ Owner \/ Syncer \/ UNCHANGED vars
      PROVE  UNCHANGED <<cpc, lsn>>
    BY <1>5, FlusherFrame, OwnerFrame, SyncerFrame DEF vars
<1>6. lsn'[c] = lsn[c] /\ lsn[c] <= written
    BY <1>3, <1>4, <1>5 DEF Next, Step, Ended
<1>q. QED
    BY <1>1, <1>2, <1>6

\* A record in a file stays in that file while the log needs it.
LEMMA InFile ==
    ASSUME Inv, [Next]_vars, NEW n \in 1 .. end, NEW s \in DOMAIN recs,
           In(n, recs[s])
    PROVE  n <= flushed' \/ (s \in DOMAIN recs' /\ In(n, recs'[s]))
<1>1. ASSUME \/ RotateSync \/ Exit \/ SyncData \/ UNCHANGED files
      PROVE  recs' = recs
    BY <1>1 DEF RotateSync, Exit, SyncData, Fdatasync, files
<1>2. ASSUME RotateCreate PROVE s \in DOMAIN recs' /\ recs'[s] = recs[s]
    BY <1>2, Created
<1>3. ASSUME WriteBatch PROVE s \in DOMAIN recs' /\ In(n, recs'[s])
    <2>1. /\ DOMAIN recs' = DOMAIN recs
          /\ recs'[s] = recs[s] \/ (s = seg /\ recs'[s] = recs[s] \o spare)
          /\ recs[seg] \in Seq(Nat) /\ spare \in Seq(Nat)
        BY <1>3, Written
    <2>q. QED
        BY <2>1, InConcatenated
<1>4. ASSUME Remove PROVE n <= flushed'
    <2>1. flushed' = flushed /\ flushed = end
        BY <1>4, Removed DEF Remove, owner
    <2>q. QED
        BY <2>1
<1>q. QED
    BY <1>1, <1>2, <1>3, <1>4, FileSteps

\* What the syncer is about to sync, or has: the file it takes holds every
\* published record that is not durable yet.
LEMMA HandleCovers ==
    ASSUME Inv, NEW n \in 1 .. written
    PROVE  Durable(n) \/ (syncFile \in DOMAIN recs /\ In(n, recs[syncFile]))
<1>1. n <= flushed \/ OnFile(n)
    BY DEF Inv, PublishedOK
<1>2. ASSUME NEW s \in DOMAIN recs, NEW i \in DOMAIN recs[s], recs[s][i] = n
      PROVE  Durable(n) \/ (syncFile \in DOMAIN recs /\ In(n, recs[syncFile]))
    <2>1. /\ s \in Nat /\ seg \in Nat /\ s <= seg /\ recs[s] \in Seq(Nat)
          /\ s < seg => synced[s] = Len(recs[s])
        BY TypeParts DEF Inv, FilesOK, FilesType, FlusherType
    <2>2. CASE s < seg
        <3>1. i <= synced[s]
            BY <2>1, <2>2
        <3>q. QED
            BY <1>2, <3>1 DEF Durable
    <2>3. CASE s = seg
        <3>1. fpc # "swap"
            BY <1>2, <2>3 DEF Inv, HandleOK
        <3>2. syncFile = s
            BY <2>3, <3>1 DEF Inv, HandleOK
        <3>q. QED
            BY <1>2, <3>2 DEF In
    <2>q. QED
        BY <2>1, <2>2, <2>3
<1>q. QED
    BY <1>1, <1>2 DEF OnFile, In, Durable

\* What the syncer has synced is durable.
LEMMA SyncedNow ==
    ASSUME Inv, SyncData, NEW n \in Nat, sfile \in DOMAIN recs,
           In(n, recs[sfile])
    PROVE  Durable(n)'
<1>1. PICK i \in DOMAIN recs[sfile] : recs[sfile][i] = n
    BY DEF In
<1>2. recs' = recs /\ synced'[sfile] = Len(recs[sfile])
    BY FileSynced DEF SyncData
<1>3. i <= Len(recs[sfile])
    <2>1. recs[sfile] \in Seq(Nat)
        BY TypeParts DEF Inv, FilesType
    <2>q. QED
        BY <2>1
<1>q. QED
    BY <1>1, <1>2, <1>3 DEF Durable

LEMMA NextSyncOK == Inv /\ [Next]_vars => SyncOK'
<1> SUFFICES ASSUME Inv, [Next]_vars PROVE SyncOK'
    OBVIOUS
<1>1. /\ end \in Nat /\ written \in Nat /\ written <= end
      /\ slast \in Nat /\ sw \in Nat /\ slast <= written
      /\ spc \in {"clone", "sync"} => sw <= written
    BY TypeParts DEF Inv, BufferType, SyncerType, LsnOK, SyncOK
<1>2. written' \in Nat /\ written <= written'
    <2>1. taken \in Nat
        BY TypeParts DEF Inv, FlusherType
    <2>q. QED
        BY <1>1, <2>1, FlusherSteps DEF PublishWritten
<1>3. slast' <= written' /\ (spc' \in {"clone", "sync"} => sw' <= written')
    <2>1. ASSUME Syncer PROVE /\ written' = written
                              /\ slast' = slast \/ (slast' = sw /\ spc = "sync")
                              /\ spc' \in {"clone", "sync"} =>
                                   \/ sw' = written
                                   \/ sw' = sw /\ spc \in {"clone", "sync"}
        BY <2>1 DEF Syncer, SyncTop, SyncWake, SyncTick, SyncClone, SyncData,
           progress
    <2>2. ASSUME ~Syncer PROVE UNCHANGED <<spc, sw, sfile, slast>>
        BY <2>2, ClientFrame, FlusherFrame, OwnerFrame
           DEF Next, Step, Ended, vars, syncer
    <2>q. QED
        BY <1>1, <1>2, <2>1, <2>2
<1>4. ASSUME spc' = "sync", NEW n \in 1 .. sw'
      PROVE  Durable(n)' \/ (sfile' \in DOMAIN recs' /\ In(n, recs'[sfile']))
    <2>1. CASE SyncClone
        <3>1. /\ n \in 1 .. written /\ sfile' = syncFile /\ recs' = recs
              /\ synced' = synced /\ flushed' = flushed
            BY <1>1, <1>4, <2>1 DEF SyncClone, files, owner
        <3>q. QED
            BY <3>1, HandleCovers DEF Durable
    <2>2. CASE ~SyncClone
        <3>1. spc = "sync" /\ sw' = sw /\ sfile' = sfile
            <4>1. ASSUME Syncer PROVE FALSE
                BY <1>4, <2>2, <4>1 DEF Syncer, SyncTop, SyncWake, SyncTick,
                   SyncData
            <4>2. UNCHANGED <<spc, sw, sfile>>
                BY <4>1, ClientFrame, FlusherFrame, OwnerFrame
                   DEF Next, Step, Ended, vars, syncer
            <4>q. QED
                BY <1>4, <4>2
        <3>2. n \in 1 .. end
            BY <1>1, <1>4, <3>1
        <3>3. Durable(n) \/ (sfile \in DOMAIN recs /\ In(n, recs[sfile]))
            BY <1>4, <3>1 DEF Inv, SyncOK
        <3>q. QED
            BY <3>1, <3>2, <3>3, Kept, InFile DEF Durable
    <2>q. QED
        BY <2>1, <2>2
<1>q. QED
    BY <1>3, <1>4 DEF SyncOK, Durable, In

LEMMA NextSyncClaim == Inv /\ [Next]_vars => SyncClaim'
<1> SUFFICES ASSUME Inv, [Next]_vars, NEW n \in 1 .. slast' PROVE Durable(n)'
    BY DEF SyncClaim, Durable
<1>1. /\ end \in Nat /\ written \in Nat /\ written <= end
      /\ slast \in Nat /\ sw \in Nat /\ slast <= written
      /\ spc \in {"clone", "sync"} => sw <= written
    BY TypeParts DEF Inv, BufferType, SyncerType, LsnOK, SyncOK
<1>2. CASE SyncData
    <2>1. spc = "sync" /\ n \in 1 .. sw /\ n \in 1 .. end
        BY <1>1, <1>2 DEF SyncData
    <2>2. Durable(n) \/ (sfile \in DOMAIN recs /\ In(n, recs[sfile]))
        BY <2>1 DEF Inv, SyncOK
    <2>q. QED
        BY <1>2, <2>1, <2>2, Kept, SyncedNow
<1>3. CASE ~SyncData
    <2>1. slast' = slast
        <3>1. ASSUME Syncer PROVE slast' = slast
            BY <1>3, <3>1 DEF Syncer, SyncTop, SyncWake, SyncTick, SyncClone
        <3>q. QED
            BY <3>1, ClientFrame, FlusherFrame, OwnerFrame
               DEF Next, Step, Ended, vars, syncer
    <2>2. n \in 1 .. slast /\ n \in 1 .. end
        BY <1>1, <2>1
    <2>3. Durable(n)
        BY <2>2 DEF Inv, SyncClaim
    <2>q. QED
        BY <2>2, <2>3, Kept
<1>q. QED
    BY <1>2, <1>3

LEMMA InitInv == Init => Inv
<1> SUFFICES ASSUME Init PROVE Inv
    OBVIOUS
<1>1. TypeOK /\ WaitersCount
    BY InitType, InitWaiters
<1>2. FilesOK /\ HandleOK /\ SpareOK /\ SavedOK
    BY DEF Init, FilesOK, HandleOK, SpareOK, SavedOK
<1>3. LsnOK /\ AckOK
    BY DEF Init, LsnOK, AckOK
<1>4. NoLoss /\ PublishedOK /\ SyncOK /\ SyncClaim
    BY DEF Init, NoLoss, PublishedOK, SyncOK, SyncClaim
<1>q. QED
    BY <1>1, <1>2, <1>3, <1>4, Zenon DEF Inv

LEMMA NextInv == Inv /\ [Next]_vars => Inv'
<1> SUFFICES ASSUME Inv, [Next]_vars PROVE Inv'
    OBVIOUS
<1>1. TypeOK' /\ WaitersCount'
    BY NextType, NextWaiters DEF Inv
<1>2. FilesOK' /\ HandleOK' /\ SpareOK' /\ SavedOK'
    BY NextFilesOK, NextHandleOK, NextSpareOK, NextSavedOK
<1>3. NoLoss' /\ LsnOK' /\ PublishedOK' /\ AckOK' /\ SyncOK' /\ SyncClaim'
    BY NextNoLoss, NextLsnOK, NextPublishedOK, NextAckOK, NextSyncOK,
       NextSyncClaim
<1>q. QED
    BY <1>1, <1>2, <1>3, Zenon DEF Inv

-----------------------------------------------------------------------------
(* The theorems. *)

\* Every hand-over of a record, buffer to flusher, flusher to file, file to
\* client, syncer and owner, keeps its promise at every step of every thread.
THEOREM InvCorrect == Spec => []Inv
    BY InitInv, NextInv, PTL DEF Spec

\* A record is never lost between the buffer, the flusher's hand, the segments
\* and the .seg files, however the four threads interleave.
THEOREM NothingLost == Spec => []NoLoss
<1>1. Inv => NoLoss
    BY DEF Inv
<1>q. QED
    BY <1>1, InvCorrect, PTL

\* Progress::wait returns only when the record, and every earlier one, is in a
\* file or saved.
THEOREM AckedIsOnDisk == Spec => []AckedOnDisk
<1>1. ASSUME Inv, NEW c \in Clients, cpc[c] = "acked", NEW n \in 1 .. lsn[c]
      PROVE  n <= flushed \/ OnFile(n)
    <2>1. lsn[c] \in Nat /\ written \in Nat /\ lsn[c] <= written
        BY <1>1, TypeParts DEF Inv, ClientsType, BufferType, AckOK
    <2>2. n \in 1 .. written
        BY <1>1, <2>1
    <2>q. QED
        BY <1>1, <2>2 DEF Inv, PublishedOK
<1>2. Inv => AckedOnDisk
    BY <1>1 DEF AckedOnDisk
<1>q. QED
    BY <1>2, InvCorrect, PTL

\* sync_loop's last_synced is never ahead of what is durable, although the
\* flusher may rotate between its three steps.
THEOREM SyncClaimed == Spec => []SyncClaim
<1>1. Inv => SyncClaim
    BY DEF Inv
<1>q. QED
    BY <1>1, InvCorrect, PTL

\* Every segment but the newest is fdatasynced, so a power failure tears only
\* the one recovery is willing to truncate.
THEOREM OnlyLastIsUnsynced == Spec => []OnlyLastUnsynced
<1>1. ASSUME Inv, NEW s \in DOMAIN recs, NEW t \in DOMAIN recs, s < t
      PROVE  synced[s] = Len(recs[s])
    <2>1. s \in Nat /\ t \in Nat /\ seg \in Nat /\ t <= seg
        BY <1>1, TypeParts DEF Inv, FilesOK, FilesType, FlusherType
    <2>2. s < seg
        BY <1>1, <2>1
    <2>q. QED
        BY <1>1, <2>2 DEF Inv, FilesOK
<1>2. Inv => OnlyLastUnsynced
    BY <1>1 DEF OnlyLastUnsynced
<1>q. QED
    BY <1>2, InvCorrect, PTL

-----------------------------------------------------------------------------
(***************************************************************************)
(* Part 2: replay reads the records as they were appended, a cut covers    *)
(* all of them, and a closed log is on disk.                               *)
(***************************************************************************)

-----------------------------------------------------------------------------
(* The inductive invariant, on top of that of part 1. *)

\* The records handed to the operating system: what is neither pending nor in
\* the flusher's hand.
Stored == end - Len(buf) - Len(Hand)

\* The parts of LogInOrder.
FilesAscend ==
    \A s, t \in DOMAIN recs : \A i \in DOMAIN recs[s], j \in DOMAIN recs[t] :
        s < t \/ (s = t /\ i < j) => recs[s][i] < recs[t][j]

FilesStored == \A s \in DOMAIN recs : \A i \in DOMAIN recs[s] : recs[s][i] <= Stored

HandFollows == \A i \in DOMAIN Hand : Hand[i] = Stored + i

BufFollows == \A i \in DOMAIN buf : buf[i] = end - Len(buf) + i

\* No more of a file is synced than has been written to it.
SyncedWritten == \A s \in DOMAIN recs : synced[s] <= Len(recs[s])

\* A rotation leaves the new segment empty until its end.
NewEmpty == fpc \in {"swap", "store", "finish"} => recs[seg] = <<>>

\* All of the log is in the segments before the flusher's, which sits between
\* two batches: the state in which a cut is answered.
Drained ==
    /\ buf = <<>> /\ recs[seg] = <<>>
    /\ fpc \in {"closing", "cutting", "take", "park", "exit", "exited"}

\* From the request of a cut to the end of the removal nobody appends, so what
\* the flusher finds drained stays so.
CutOK ==
    /\ requested => opc = "cut" /\ cutId = 0
    /\ cutting => requested
    /\ fpc \in {"rotate", "create", "swap", "store", "finish"} /\ spare = <<>>
         => cutting /\ buf = <<>>
    /\ cutId # 0 => opc = "cut" /\ cutId = seg - 1 /\ Drained
    /\ opc \in {"flush", "remove"} => doomed = seg - 1 /\ Drained

\* The flusher leaves only when the log is closed and drained, and syncs last.
ClosedOK ==
    /\ closing => closed
    /\ fpc \in {"exit", "exited"} => closed /\ buf = <<>>
    /\ fpc = "exited" => \A s \in DOMAIN recs : synced[s] = Len(recs[s])
    /\ opc \in {"syncer", "ended"} => fpc = "exited"

OrderInv ==
    /\ Inv
    /\ FilesAscend /\ FilesStored /\ HandFollows /\ BufFollows
    /\ SyncedWritten /\ NewEmpty /\ CutOK /\ ClosedOK

-----------------------------------------------------------------------------
(* What a step does to the log as a whole. *)

LEMMA LogTypes ==
    ASSUME Inv
    PROVE  /\ end \in Nat /\ buf \in Seq(Nat) /\ spare \in Seq(Nat)
           /\ Hand \in Seq(Nat) /\ seg \in Nat /\ seg \in DOMAIN recs
           /\ Len(buf) \in Nat /\ Len(Hand) \in Nat /\ Stored \in Int
           /\ DOMAIN recs \subseteq Nat
           /\ \A s \in DOMAIN recs : recs[s] \in Seq(Nat) /\ synced[s] \in Nat
<1>1. buf \in Seq(Nat) /\ end \in Nat /\ spare \in Seq(Nat) /\ seg \in Nat
    BY TypeParts DEF Inv, BufferType, FlusherType
<1>2. Hand \in Seq(Nat)
    BY <1>1 DEF Hand
<1>3. /\ DOMAIN recs \subseteq Nat /\ seg \in DOMAIN recs
      /\ \A s \in DOMAIN recs : recs[s] \in Seq(Nat) /\ synced[s] \in Nat
    BY TypeParts DEF Inv, FilesType, FilesOK
<1>4. Len(buf) \in Nat /\ Len(Hand) \in Nat
    BY <1>1, <1>2
<1>q. QED
    BY <1>1, <1>2, <1>3, <1>4 DEF Stored

LEMMA CellTypes ==
    ASSUME Inv, NEW s \in DOMAIN recs, NEW i \in DOMAIN recs[s]
    PROVE  /\ s \in Nat /\ s <= seg /\ Len(recs[s]) \in Nat
           /\ i \in 1 .. Len(recs[s]) /\ recs[s][i] \in Nat
<1>1. recs[s] \in Seq(Nat) /\ s \in Nat /\ s <= seg
    BY LogTypes DEF Inv, FilesOK
<1>q. QED
    BY <1>1

\* The steps that move records; all others leave the log as it is.
LEMMA LogSteps ==
    ASSUME Inv, [Next]_vars
    PROVE  \/ \E c \in Clients : WriterAppend(c)
           \/ TakeSome \/ WriteBatch \/ RotateCreate \/ Remove
           \/ UNCHANGED <<end, buf, recs, Hand>>
<1> USE DEF bufVars, progress, files, flusher, shared, clientVars, owner, syncer
<1>1. ASSUME NEW c \in Clients, Client(c)
      PROVE  WriterAppend(c) \/ UNCHANGED <<end, buf, recs, Hand>>
    BY <1>1 DEF Client, WaitStep, AppendNothing, KickFlusher, ReturnEarly,
       WaitCheck, WaitEnter, WaitUnpark, WaitDone, WaitCancel, Hand
<1>2. ASSUME \/ ReadClosing \/ ReadCutting \/ TakeNone \/ PublishWritten
             \/ Decide \/ Park \/ ParkTimeout \/ Finish
      PROVE  UNCHANGED <<end, buf, recs, Hand>>
    BY <1>2 DEF ReadClosing, ReadCutting, TakeNone, PublishWritten, Decide, Park,
       ParkTimeout, Finish, Hand
<1>3. ASSUME RotateSync \/ RotateSwap \/ RotateStore \/ Exit
      PROVE  UNCHANGED <<end, buf, recs, Hand>>
    BY <1>3 DEF RotateSync, RotateSwap, RotateStore, Exit, Fdatasync, Hand
<1>4. ASSUME TakeNoneForCut PROVE UNCHANGED <<end, buf, recs, Hand>>
    BY <1>4 DEF TakeNoneForCut, Hand, Inv, SpareOK
<1>5. ASSUME Owner PROVE Remove \/ UNCHANGED <<end, buf, recs, Hand>>
    BY <1>5 DEF Owner, OwnerStep, CutRequest, CutDone, FlushDone, FlushFails,
       RemoveEnds, Close, JoinFlusher, JoinSyncer, CloseEnds, Hand
<1>6. ASSUME Syncer PROVE UNCHANGED <<end, buf, recs, Hand>>
    BY <1>6, SyncerFrame DEF Hand
<1>7. ASSUME UNCHANGED vars PROVE UNCHANGED <<end, buf, recs, Hand>>
    BY <1>7 DEF vars, Hand
<1>q. QED
    BY <1>1, <1>2, <1>3, <1>4, <1>5, <1>6, <1>7 DEF Next, Step, Ended, Flusher

\* An append puts the next record at the end of the buffer.
LEMMA Appended ==
    ASSUME Inv, NEW c \in Clients, WriterAppend(c)
    PROVE  /\ end' = end + 1 /\ buf' = Append(buf, end + 1)
           /\ recs' = recs /\ Hand' = Hand /\ Stored' = Stored
<1>1. /\ end' = end + 1 /\ buf' = Append(buf, end + 1)
      /\ recs' = recs /\ Hand' = Hand
    BY DEF WriterAppend, Hand, files, flusher
<1>2. Len(buf') = Len(buf) + 1
    BY <1>1, LogTypes
<1>q. QED
    BY <1>1, <1>2, LogTypes DEF Stored

\* A take moves the whole buffer to the flusher's hand.
LEMMA Took ==
    ASSUME Inv, TakeSome
    PROVE  /\ end' = end /\ buf' = <<>> /\ recs' = recs
           /\ Hand = <<>> /\ Hand' = buf /\ Stored' = Stored
<1>1. /\ end' = end /\ buf' = <<>> /\ recs' = recs
      /\ Hand = <<>> /\ Hand' = buf
    BY DEF TakeSome, Hand, Inv, SpareOK, files
<1>q. QED
    BY <1>1, LogTypes DEF Stored

\* A write moves the whole hand to the newest file.
LEMMA Wrote ==
    ASSUME Inv, WriteBatch
    PROVE  /\ end' = end /\ buf' = buf /\ Hand = spare /\ Hand' = <<>>
           /\ Stored' = Stored + Len(spare)
<1>1. end' = end /\ buf' = buf /\ Hand = spare /\ Hand' = <<>>
    BY DEF WriteBatch, Hand, bufVars
<1>q. QED
    BY <1>1, LogTypes DEF Stored

\* Starting a file or removing one moves no record.
LEMMA NoneMoved ==
    ASSUME RotateCreate \/ Remove
    PROVE  /\ end' = end /\ buf' = buf /\ Hand' = Hand /\ Stored' = Stored
<1>1. end' = end /\ buf' = buf /\ Hand' = Hand
    BY DEF RotateCreate, Remove, Hand, bufVars, flusher
<1>q. QED
    BY <1>1 DEF Stored

-----------------------------------------------------------------------------
(* The order of the log. *)

LEMMA NextBufFollows ==
    ASSUME OrderInv, [Next]_vars PROVE BufFollows'
<1>1. Inv /\ BufFollows
    BY DEF OrderInv
<1>2. ASSUME NEW c \in Clients, WriterAppend(c) PROVE BufFollows'
    <2>1. /\ end' = end + 1 /\ buf' = Append(buf, end + 1)
          /\ end \in Nat /\ buf \in Seq(Nat)
        BY <1>1, <1>2, Appended, LogTypes
    <2>2. Len(buf') = Len(buf) + 1 /\ Len(buf) \in Nat
        BY <2>1
    <2>3. ASSUME NEW i \in DOMAIN buf' PROVE buf'[i] = end' - Len(buf') + i
        <3>1. CASE i \in DOMAIN buf
            <4>1. buf'[i] = buf[i] /\ buf[i] = end - Len(buf) + i /\ i \in Nat
                BY <1>1, <2>1, <3>1 DEF BufFollows
            <4>q. QED
                BY <2>1, <2>2, <4>1
        <3>2. CASE i \notin DOMAIN buf
            <4>1. i = Len(buf) + 1 /\ buf'[i] = end + 1
                BY <2>1, <2>2, <3>2
            <4>q. QED
                BY <2>1, <2>2, <4>1
        <3>q. QED
            BY <3>1, <3>2
    <2>q. QED
        BY <2>3 DEF BufFollows
<1>3. ASSUME TakeSome PROVE BufFollows'
    BY <1>1, <1>3, Took DEF BufFollows
<1>4. ASSUME UNCHANGED <<buf, end>> PROVE BufFollows'
    BY <1>1, <1>4 DEF BufFollows
<1>q. QED
    BY <1>1, <1>2, <1>3, <1>4, LogSteps, Wrote, NoneMoved

LEMMA NextHandFollows ==
    ASSUME OrderInv, [Next]_vars PROVE HandFollows'
<1>1. Inv /\ HandFollows /\ BufFollows
    BY DEF OrderInv
<1>2. ASSUME TakeSome PROVE HandFollows'
    <2>1. /\ Hand' = buf /\ Hand = <<>> /\ Stored' = Stored
          /\ end \in Nat /\ Len(buf) \in Nat
        BY <1>1, <1>2, Took, LogTypes
    <2>2. Stored = end - Len(buf)
        BY <2>1 DEF Stored
    <2>q. QED
        BY <1>1, <2>1, <2>2 DEF HandFollows, BufFollows
<1>3. ASSUME WriteBatch PROVE HandFollows'
    BY <1>1, <1>3, Wrote DEF HandFollows
<1>4. ASSUME Hand' = Hand, Stored' = Stored PROVE HandFollows'
    BY <1>1, <1>4 DEF HandFollows
<1>5. ASSUME UNCHANGED <<end, buf, recs, Hand>> PROVE Stored' = Stored
    BY <1>5 DEF Stored
<1>q. QED
    BY <1>1, <1>2, <1>3, <1>4, <1>5, LogSteps, Appended, NoneMoved

\* Every file of the next state is one of this state, possibly with the batch
\* in hand appended, or new and empty.
LEMMA NextFile ==
    ASSUME Inv, [Next]_vars, NEW s \in DOMAIN recs'
    PROVE  \/ s \in DOMAIN recs /\ recs'[s] = recs[s]
           \/ s = seg /\ WriteBatch /\ recs'[s] = recs[s] \o spare
           \/ RotateCreate /\ s = seg + 1 /\ recs'[s] = <<>>
<1>1. CASE WriteBatch
    BY <1>1, Written
<1>2. CASE RotateCreate
    BY <1>2, Created
<1>3. CASE Remove
    BY <1>3, Removed
<1>4. ASSUME \/ \E c \in Clients : WriterAppend(c)
             \/ TakeSome \/ UNCHANGED <<end, buf, recs, Hand>>
      PROVE  recs' = recs
    BY <1>4, Appended, Took
<1>q. QED
    BY <1>1, <1>2, <1>3, <1>4, LogSteps

\* A record of a file after a step was in that file before, or comes from the
\* batch in hand.
LEMMA RecordFrom ==
    ASSUME OrderInv, [Next]_vars, NEW s \in DOMAIN recs', NEW i \in DOMAIN recs'[s]
    PROVE  \/ s \in DOMAIN recs /\ i \in DOMAIN recs[s] /\ recs'[s][i] = recs[s][i]
           \/ /\ WriteBatch /\ s = seg /\ i \notin DOMAIN recs[s]
              /\ i - Len(recs[s]) \in DOMAIN Hand
              /\ recs'[s][i] = Stored + (i - Len(recs[s]))
<1>1. Inv /\ HandFollows
    BY DEF OrderInv
<1>2. CASE WriteBatch /\ s = seg /\ recs'[s] = recs[s] \o spare
    <2>1. recs[s] \in Seq(Nat) /\ spare \in Seq(Nat) /\ Hand = spare
        BY <1>1, <1>2, Written, Wrote
    <2>2. i \in 1 .. Len(recs[s]) + Len(spare)
        BY <1>2, <2>1
    <2>3. CASE i \in DOMAIN recs[s]
        <3>1. recs'[s][i] = recs[s][i]
            BY <1>2, <2>1, <2>3, Concatenated
        <3>q. QED
            BY <1>1, <1>2, <2>3, <3>1, LogTypes
    <2>4. CASE i \notin DOMAIN recs[s]
        <3>1. i - Len(recs[s]) \in DOMAIN spare
            BY <2>1, <2>2, <2>4
        <3>2. recs'[s][i] = spare[i - Len(recs[s])]
            BY <1>2, <2>1, <2>2, <2>4
        <3>3. recs'[s][i] = Stored + (i - Len(recs[s]))
            BY <1>1, <2>1, <3>1, <3>2 DEF HandFollows
        <3>q. QED
            BY <1>2, <2>1, <2>4, <3>1, <3>3
    <2>q. QED
        BY <2>3, <2>4
<1>3. CASE s \in DOMAIN recs /\ recs'[s] = recs[s]
    BY <1>3
<1>4. CASE recs'[s] = <<>>
    BY <1>4
<1>q. QED
    BY <1>1, <1>2, <1>3, <1>4, NextFile

LEMMA NextFilesStored ==
    ASSUME OrderInv, [Next]_vars PROVE FilesStored'
<1>1. Inv /\ FilesStored
    BY DEF OrderInv
<1>2. Stored \in Int /\ Stored' \in Int /\ Stored <= Stored'
    <2>1. ASSUME WriteBatch PROVE Stored' = Stored + Len(spare) /\ Len(spare) \in Nat
        BY <1>1, <2>1, Wrote, LogTypes
    <2>2. ASSUME UNCHANGED <<end, buf, recs, Hand>> PROVE Stored' = Stored
        BY <2>2 DEF Stored
    <2>q. QED
        BY <1>1, <2>1, <2>2, LogSteps, LogTypes, Appended, Took, NoneMoved
<1>3. ASSUME NEW s \in DOMAIN recs', NEW i \in DOMAIN recs'[s]
      PROVE  recs'[s][i] <= Stored'
    <2>1. CASE s \in DOMAIN recs /\ i \in DOMAIN recs[s] /\ recs'[s][i] = recs[s][i]
        <3>1. recs[s][i] <= Stored /\ recs[s][i] \in Nat
            BY <1>1, <2>1, CellTypes, Zenon DEF FilesStored
        <3>q. QED
            BY <1>2, <2>1, <3>1
    <2>2. CASE /\ WriteBatch /\ i - Len(recs[s]) \in DOMAIN Hand
               /\ recs'[s][i] = Stored + (i - Len(recs[s]))
        <3>1. i - Len(recs[s]) \in 1 .. Len(Hand) /\ Len(Hand) \in Nat
            <4>1. Hand \in Seq(Nat)
                BY <1>1, LogTypes
            <4>q. QED
                BY <2>2, <4>1
        <3>2. Stored' = Stored + Len(Hand)
            BY <1>1, <2>2, Wrote
        <3>q. QED
            BY <1>2, <2>2, <3>1, <3>2
    <2>q. QED
        BY <2>1, <2>2, RecordFrom
<1>q. QED
    BY <1>3 DEF FilesStored

LEMMA LaterIsMore ==
    ASSUME NEW a \in Int, NEW l \in Nat, NEW i \in Nat, NEW j \in Nat, i < j
    PROVE  a + (i - l) < a + (j - l)
    OBVIOUS

LEMMA NextFilesAscend ==
    ASSUME OrderInv, [Next]_vars PROVE FilesAscend'
<1>1. Inv /\ FilesAscend /\ FilesStored
    BY DEF OrderInv
<1>2. SUFFICES ASSUME NEW s \in DOMAIN recs', NEW t \in DOMAIN recs',
                      NEW i \in DOMAIN recs'[s], NEW j \in DOMAIN recs'[t],
                      s < t \/ (s = t /\ i < j)
               PROVE  recs'[s][i] < recs'[t][j]
    BY DEF FilesAscend
<1>3. CASE /\ s \in DOMAIN recs /\ i \in DOMAIN recs[s] /\ recs'[s][i] = recs[s][i]
           /\ t \in DOMAIN recs /\ j \in DOMAIN recs[t] /\ recs'[t][j] = recs[t][j]
    BY <1>1, <1>2, <1>3 DEF FilesAscend
<1>4. CASE /\ s \in DOMAIN recs /\ i \in DOMAIN recs[s] /\ recs'[s][i] = recs[s][i]
           /\ WriteBatch /\ j - Len(recs[t]) \in DOMAIN Hand
           /\ recs'[t][j] = Stored + (j - Len(recs[t]))
    <2>1. recs[s][i] <= Stored
        BY <1>1, <1>4, Zenon DEF FilesStored
    <2>2. recs[s][i] \in Nat /\ Stored \in Int
        BY <1>1, <1>4, CellTypes, LogTypes, Zenon
    <2>3. j - Len(recs[t]) \in Nat \ {0}
        <3>1. Hand \in Seq(Nat)
            BY <1>1, LogTypes
        <3>q. QED
            BY <1>4, <3>1
    <2>q. QED
        BY <1>4, <2>1, <2>2, <2>3
<1>5. CASE /\ WriteBatch /\ s = seg /\ i \notin DOMAIN recs[s]
           /\ recs'[s][i] = Stored + (i - Len(recs[s]))
    <2>1. DOMAIN recs' = DOMAIN recs
        BY <1>1, <1>5, Written
    <2>2. t \in DOMAIN recs /\ t <= seg /\ t \in Nat /\ seg \in Nat
        <3>1. t \in DOMAIN recs
            BY <2>1, Zenon
        <3>2. \A r \in DOMAIN recs : r <= seg
            BY <1>1, Zenon DEF Inv, FilesOK
        <3>3. DOMAIN recs \subseteq Nat /\ seg \in Nat
            BY <1>1, LogTypes, Zenon
        <3>q. QED
            BY <3>1, <3>2, <3>3
    <2>3. s = t /\ i < j
        BY <1>2, <1>5, <2>2
    <2>4. recs[s] \in Seq(Nat) /\ recs'[s] \in Seq(Nat)
        <3>1. /\ recs[seg] \in Seq(Nat) /\ spare \in Seq(Nat)
              /\ recs'[seg] = recs[seg] \o spare
            BY <1>1, <1>5, Written, Zenon
        <3>2. recs'[seg] \in Seq(Nat)
            BY <3>1
        <3>q. QED
            BY <1>5, <3>1, <3>2, Zenon
    <2>5. /\ Len(recs[s]) \in Nat /\ i \in Nat \ {0} /\ j \in Nat \ {0}
          /\ i > Len(recs[s])
        <3>1. i \in 1 .. Len(recs'[s]) /\ j \in 1 .. Len(recs'[s])
            BY <2>3, <2>4
        <3>2. Len(recs'[s]) \in Nat /\ Len(recs[s]) \in Nat
              /\ i \notin 1 .. Len(recs[s])
            BY <1>5, <2>4
        <3>q. QED
            BY <3>1, <3>2
    <2>6. j \notin DOMAIN recs[t]
        BY <2>3, <2>4, <2>5
    <2>7. recs'[t][j] = Stored + (j - Len(recs[t])) /\ Stored \in Int
        BY <1>1, <2>6, RecordFrom, LogTypes, Zenon
    <2>8. Stored + (i - Len(recs[s])) < Stored + (j - Len(recs[s]))
        <3>1. /\ Stored \in Int /\ i < j /\ i \in Nat /\ j \in Nat
              /\ Len(recs[s]) \in Nat
            BY <2>3, <2>5, <2>7
        <3>q. QED
            BY <3>1, LaterIsMore, Zenon
    <2>q. QED
        BY <1>5, <2>3, <2>7, <2>8, Zenon
<1>6. \/ s \in DOMAIN recs /\ i \in DOMAIN recs[s] /\ recs'[s][i] = recs[s][i]
      \/ /\ WriteBatch /\ s = seg /\ i \notin DOMAIN recs[s]
         /\ recs'[s][i] = Stored + (i - Len(recs[s]))
    BY RecordFrom, Zenon
<1>7. \/ t \in DOMAIN recs /\ j \in DOMAIN recs[t] /\ recs'[t][j] = recs[t][j]
      \/ /\ WriteBatch /\ j - Len(recs[t]) \in DOMAIN Hand
         /\ recs'[t][j] = Stored + (j - Len(recs[t]))
    BY RecordFrom, Zenon
<1>q. QED
    BY <1>3, <1>4, <1>5, <1>6, <1>7, Zenon

LEMMA InitOrder ==
    ASSUME Init PROVE FilesAscend /\ FilesStored /\ HandFollows /\ BufFollows
<1>1. /\ buf = <<>> /\ Hand = <<>>
      /\ \A s \in DOMAIN recs : recs[s] = <<>>
    BY DEF Init, Hand
<1>q. QED
    BY <1>1 DEF FilesAscend, FilesStored, HandFollows, BufFollows

-----------------------------------------------------------------------------
(* Files while they are synced and rotated. *)

LEMMA NextSyncedWritten ==
    ASSUME OrderInv, [Next]_vars PROVE SyncedWritten'
<1>1. Inv /\ SyncedWritten
    BY DEF OrderInv
<1>2. \A s \in DOMAIN recs : /\ Len(recs[s]) \in Nat /\ synced[s] \in Nat
                             /\ synced[s] <= Len(recs[s])
    BY <1>1, LogTypes DEF SyncedWritten
<1>3. ASSUME NEW id, Fdatasync(id) PROVE SyncedWritten'
    BY <1>1, <1>2, <1>3, FileSynced DEF SyncedWritten
<1>4. ASSUME RotateCreate PROVE SyncedWritten'
    BY <1>1, <1>2, <1>4, Created DEF SyncedWritten
<1>5. ASSUME WriteBatch, NEW s \in DOMAIN recs PROVE synced'[s] <= Len(recs'[s])
    <2>1. /\ synced' = synced /\ recs[seg] \in Seq(Nat) /\ spare \in Seq(Nat)
          /\ recs'[seg] = recs[seg] \o spare
          /\ s # seg => recs'[s] = recs[s]
        BY <1>1, <1>5, Written
    <2>2. Len(recs'[seg]) = Len(recs[seg]) + Len(spare) /\ Len(spare) \in Nat
        BY <2>1
    <2>q. QED
        BY <1>2, <2>1, <2>2
<1>6. ASSUME WriteBatch PROVE SyncedWritten'
    <2>1. DOMAIN recs' = DOMAIN recs
        BY <1>1, <1>6, Written
    <2>q. QED
        BY <1>5, <1>6, <2>1 DEF SyncedWritten
<1>7. ASSUME Remove PROVE SyncedWritten'
    BY <1>1, <1>2, <1>7, Removed DEF SyncedWritten
<1>8. ASSUME UNCHANGED files PROVE SyncedWritten'
    BY <1>1, <1>8 DEF SyncedWritten, files
<1>q. QED
    BY <1>3, <1>4, <1>6, <1>7, <1>8, FileSteps DEF RotateSync, Exit, SyncData

\* Only the flusher writes to the newest file.
LEMMA NewestFile ==
    ASSUME Inv, [Next]_vars, ~RotateCreate, ~WriteBatch
    PROVE  seg' = seg /\ recs'[seg] = recs[seg]
<1>1. seg' = seg
    BY FlusherSteps
<1>2. seg \in DOMAIN recs'
    <2>1. ASSUME Remove PROVE seg \in DOMAIN recs'
        BY <2>1, Removed
    <2>2. ASSUME \/ \E c \in Clients : WriterAppend(c)
                 \/ TakeSome \/ UNCHANGED <<end, buf, recs, Hand>>
          PROVE  recs' = recs
        BY <2>2, Appended, Took
    <2>q. QED
        BY <2>1, <2>2, LogSteps, LogTypes
<1>q. QED
    BY <1>1, <1>2, NextFile

\* Where a flusher's step leads.
LEMMA FlusherGoes ==
    ASSUME Flusher \/ ParkTimeout
    PROVE  /\ fpc' = "swap" => RotateCreate
           /\ fpc' = "store" => fpc = "swap" /\ RotateSwap
           /\ fpc' = "finish" => fpc = "store" /\ RotateStore
           /\ fpc # "exited"
    BY DEF Flusher, ParkTimeout, ReadClosing, ReadCutting, TakeSome, TakeNone,
       TakeNoneForCut, RotateSync, RotateCreate, RotateSwap, RotateStore,
       WriteBatch, PublishWritten, Decide, Park, Finish, Exit

LEMMA NextNewEmpty ==
    ASSUME OrderInv, [Next]_vars PROVE NewEmpty'
<1>1. Inv /\ NewEmpty
    BY DEF OrderInv
<1>2. CASE RotateCreate
    <2>1. seg' = seg + 1 /\ recs'[seg + 1] = <<>>
        BY <1>1, <1>2, Created DEF RotateCreate
    <2>q. QED
        BY <2>1 DEF NewEmpty
<1>3. CASE WriteBatch
    BY <1>3 DEF WriteBatch, NewEmpty
<1>4. CASE ~RotateCreate /\ ~WriteBatch
    <2>1. seg' = seg /\ recs'[seg] = recs[seg]
        BY <1>1, <1>4, NewestFile
    <2>2. fpc' \in {"swap", "store", "finish"} => fpc \in {"swap", "store", "finish"}
        BY <1>4, FlusherGoes, FlusherSteps
    <2>q. QED
        BY <1>1, <2>1, <2>2 DEF NewEmpty
<1>q. QED
    BY <1>2, <1>3, <1>4

-----------------------------------------------------------------------------
(* Cuts. *)

\* A drained log stays drained: nobody appends, and the flusher finds nothing
\* to take.
LEMMA StaysDrained ==
    ASSUME Inv, [Next]_vars, Drained, ~cutting,
           \A c \in Clients : ~WriterAppend(c)
    PROVE  Drained' /\ seg' = seg
<1>1. ~RotateCreate /\ ~WriteBatch /\ ~TakeSome
    BY DEF Drained, RotateCreate, WriteBatch, TakeSome
<1>2. seg' = seg /\ recs'[seg] = <<>>
    BY <1>1, NewestFile DEF Drained
<1>3. buf' = <<>>
    <2>1. ASSUME Remove PROVE buf' = buf
        BY <2>1, NoneMoved
    <2>q. QED
        BY <1>1, <2>1, LogSteps DEF Drained
<1>4. fpc' \in {"closing", "cutting", "take", "park", "exit", "exited"}
    <2>1. ASSUME Flusher \/ ParkTimeout
          PROVE  fpc' \in {"closing", "cutting", "take", "park", "exit", "exited"}
        BY <2>1 DEF Drained, Flusher, ParkTimeout, ReadClosing, ReadCutting,
           TakeSome, TakeNone, TakeNoneForCut, RotateSync, RotateCreate,
           RotateSwap, RotateStore, WriteBatch, PublishWritten, Decide, Park,
           Finish, Exit
    <2>q. QED
        BY <2>1, FlusherSteps DEF Drained
<1>q. QED
    BY <1>2, <1>3, <1>4 DEF Drained

\* The request and its answer, as the owner and the flusher pass them on.
CutPassed ==
    /\ requested => opc = "cut" /\ cutId = 0
    /\ cutting => requested
    /\ fpc \in {"rotate", "create", "swap", "store", "finish"} /\ spare = <<>>
         => cutting /\ buf = <<>>
    /\ cutId # 0 => opc = "cut"

LEMMA NextCutPassed ==
    ASSUME OrderInv, [Next]_vars PROVE CutPassed'
<1>1. CutPassed /\ SpareOK /\ (cutting => opc = "cut")
    BY DEF OrderInv, CutOK, CutPassed, Inv
<1> USE DEF bufVars, progress, files, flusher, shared, clientVars, owner, syncer
<1>2. ASSUME NEW c \in Clients, WriterAppend(c) PROVE CutPassed'
    <2>1. opc # "cut" /\ UNCHANGED <<requested, cutting, fpc, spare, opc, cutId>>
        BY <1>2 DEF WriterAppend, LockFree
    <2>q. QED
        BY <1>1, <2>1 DEF CutPassed
<1>3. ASSUME NEW c \in Clients, Client(c), ~WriterAppend(c)
      PROVE  UNCHANGED <<requested, cutting, fpc, spare, opc, cutId, buf>>
    BY <1>3 DEF Client, WaitStep, AppendNothing, KickFlusher, ReturnEarly,
       WaitCheck, WaitEnter, WaitUnpark, WaitDone, WaitCancel
<1>4. ASSUME \/ ReadClosing \/ ReadCutting \/ TakeSome \/ TakeNone
             \/ TakeNoneForCut \/ Park \/ ParkTimeout \/ Finish \/ Exit
      PROVE  CutPassed'
    BY <1>1, <1>4 DEF CutPassed, SpareOK, ReadClosing, ReadCutting, TakeSome,
       TakeNone, TakeNoneForCut, Park, ParkTimeout, Finish, Exit, EndOfRound
<1>5. ASSUME \/ RotateSync \/ RotateCreate \/ RotateSwap \/ RotateStore
             \/ WriteBatch \/ PublishWritten \/ Decide
      PROVE  CutPassed'
    BY <1>1, <1>5 DEF CutPassed, RotateSync, RotateCreate, RotateSwap,
       RotateStore, WriteBatch, PublishWritten, Decide, EndOfRound
<1>6. ASSUME Owner PROVE CutPassed'
    BY <1>1, <1>6 DEF CutPassed, Owner, OwnerStep, CutRequest, CutDone,
       FlushDone, FlushFails, Remove, RemoveEnds, Close, JoinFlusher,
       JoinSyncer, CloseEnds
<1>7. ASSUME Syncer \/ UNCHANGED vars
      PROVE  UNCHANGED <<requested, cutting, fpc, spare, opc, cutId, buf>>
    BY <1>7, SyncerFrame DEF vars
<1>8. ASSUME UNCHANGED <<requested, cutting, fpc, spare, opc, cutId, buf>>
      PROVE  CutPassed'
    BY <1>1, <1>8 DEF CutPassed
<1>q. QED
    BY <1>2, <1>3, <1>4, <1>5, <1>6, <1>7, <1>8 DEF Next, Step, Ended, Flusher

LEMMA NextCutOK ==
    ASSUME OrderInv, [Next]_vars PROVE CutOK'
<1>1. Inv /\ CutOK /\ NewEmpty
    BY DEF OrderInv
<1> USE DEF bufVars, progress, files, flusher, shared, clientVars, owner, syncer
<1>2. CutPassed'
    BY NextCutPassed
<1>3. ASSUME opc \in {"flush", "remove"} \/ cutId # 0
      PROVE  /\ Drained' /\ seg' = seg /\ ~cutting
             /\ \A c \in Clients : ~WriterAppend(c)
    <2>1. Drained /\ ~cutting /\ \A c \in Clients : ~WriterAppend(c)
        BY <1>1, <1>3 DEF CutOK, WriterAppend, LockFree
    <2>q. QED
        BY <1>1, <2>1, StaysDrained
<1>4. cutId' # 0 => cutId' = seg' - 1 /\ Drained'
    <2>1. CASE Finish
        <3>1. buf = <<>> /\ recs[seg] = <<>>
            BY <1>1, <2>1 DEF Finish, CutOK, NewEmpty, Inv, SpareOK
        <3>2. /\ cutId' = seg - 1 /\ fpc' = "closing"
              /\ UNCHANGED <<buf, recs, seg>>
            BY <2>1 DEF Finish
        <3>q. QED
            BY <3>1, <3>2 DEF Drained
    <2>2. CASE ~Finish
        <3>1. cutId' # 0 => cutId' = cutId
            <4>1. ASSUME NEW c \in Clients, Client(c) PROVE cutId' = cutId
                BY <4>1, ClientFrame
            <4>2. ASSUME Flusher \/ ParkTimeout PROVE cutId' = cutId
                BY <2>2, <4>2 DEF Flusher, ParkTimeout, ReadClosing, ReadCutting,
                   TakeSome, TakeNone, TakeNoneForCut, RotateSync, RotateCreate,
                   RotateSwap, RotateStore, WriteBatch, PublishWritten, Decide,
                   Park, Exit
            <4>3. ASSUME Owner PROVE cutId' = cutId \/ cutId' = 0
                BY <4>3 DEF Owner, OwnerStep, CutRequest, CutDone, FlushDone,
                   FlushFails, Remove, RemoveEnds, Close, JoinFlusher,
                   JoinSyncer, CloseEnds
            <4>4. ASSUME Syncer \/ UNCHANGED vars PROVE cutId' = cutId
                BY <4>4, SyncerFrame DEF vars
            <4>q. QED
                BY <4>1, <4>2, <4>3, <4>4 DEF Next, Step, Ended
        <3>q. QED
            BY <1>1, <1>3, <3>1 DEF CutOK
    <2>q. QED
        BY <2>1, <2>2
<1>5. opc' \in {"flush", "remove"} => doomed' = seg' - 1 /\ Drained'
    <2>1. CASE CutDone
        <3>1. cutId # 0 /\ doomed' = cutId
            BY <2>1 DEF CutDone
        <3>q. QED
            BY <1>1, <1>3, <3>1 DEF CutOK
    <2>2. CASE ~CutDone
        <3>1. opc' \in {"flush", "remove"} =>
                opc \in {"flush", "remove"} /\ doomed' = doomed
            <4>1. ASSUME NEW c \in Clients, Client(c) PROVE UNCHANGED <<opc, doomed>>
                BY <4>1, ClientFrame
            <4>2. ASSUME Owner
                  PROVE  opc' \in {"flush", "remove"} =>
                            opc \in {"flush", "remove"} /\ doomed' = doomed
                BY <2>2, <4>2 DEF Owner, OwnerStep, CutRequest, FlushDone,
                   FlushFails, Remove, RemoveEnds, Close, JoinFlusher,
                   JoinSyncer, CloseEnds
            <4>3. ASSUME Flusher \/ ParkTimeout \/ Syncer \/ UNCHANGED vars
                  PROVE  UNCHANGED <<opc, doomed>>
                BY <4>3, FlusherFrame, SyncerFrame DEF vars
            <4>q. QED
                BY <4>1, <4>2, <4>3 DEF Next, Step, Ended
        <3>q. QED
            BY <1>1, <1>3, <3>1 DEF CutOK
    <2>q. QED
        BY <2>1, <2>2
<1>q. QED
    BY <1>2, <1>4, <1>5 DEF CutOK, CutPassed, Drained

-----------------------------------------------------------------------------
(* Closing. *)

\* Nobody undoes a close, and the flusher that has seen it and drained the
\* buffer has nothing more to do than its last sync.
LEMMA NextClosing ==
    ASSUME OrderInv, [Next]_vars
    PROVE  /\ closing' => closed'
           /\ fpc' \in {"exit", "exited"} => closed' /\ buf' = <<>>
<1>1. ClosedOK
    BY DEF OrderInv
<1> USE DEF bufVars, progress, files, flusher, shared, clientVars, owner, syncer
<1>2. ASSUME NEW c \in Clients, Client(c)
      PROVE  /\ UNCHANGED <<closing, closed, fpc>>
             /\ buf' = buf \/ ~closed
    BY <1>2 DEF Client, WaitStep, WriterAppend, AppendNothing, KickFlusher,
       ReturnEarly, WaitCheck, WaitEnter, WaitUnpark, WaitDone, WaitCancel
<1>3. ASSUME Flusher \/ ParkTimeout
      PROVE  /\ closed' = closed
             /\ closing' => closing \/ closed
             /\ fpc' \in {"exit", "exited"} =>
                  /\ buf' = buf
                  /\ fpc = "exit" \/ (closing /\ buf = <<>>)
    BY <1>3 DEF Flusher, ParkTimeout, ReadClosing, ReadCutting, TakeSome,
       TakeNone, TakeNoneForCut, RotateSync, RotateCreate, RotateSwap,
       RotateStore, WriteBatch, PublishWritten, Decide, Park, Finish, Exit,
       EndOfRound
<1>4. ASSUME Owner PROVE UNCHANGED <<closing, buf, fpc>> /\ (closed => closed')
    BY <1>4 DEF Owner, OwnerStep, CutRequest, CutDone, FlushDone, FlushFails,
       Remove, RemoveEnds, Close, JoinFlusher, JoinSyncer, CloseEnds
<1>5. ASSUME Syncer \/ UNCHANGED vars PROVE UNCHANGED <<closing, closed, buf, fpc>>
    BY <1>5, SyncerFrame DEF vars
<1>q. QED
    BY <1>1, <1>2, <1>3, <1>4, <1>5 DEF ClosedOK, Next, Step, Ended

LEMMA NextExited ==
    ASSUME OrderInv, [Next]_vars, fpc' = "exited", NEW s \in DOMAIN recs'
    PROVE  synced'[s] = Len(recs'[s])
<1>1. Inv /\ ClosedOK
    BY DEF OrderInv
<1>2. CASE Exit
    <2>1. Fdatasync(seg)
        BY <1>2 DEF Exit
    <2>2. recs' = recs /\ s \in DOMAIN recs
        BY <2>1 DEF Fdatasync
    <2>3. s <= seg /\ s \in Nat /\ seg \in Nat
        BY <1>1, <2>2, LogTypes DEF Inv, FilesOK
    <2>4. s < seg => synced[s] = Len(recs[s])
        BY <1>1, <2>2 DEF Inv, FilesOK
    <2>q. QED
        BY <1>1, <2>1, <2>2, <2>3, <2>4, FileSynced
<1>3. CASE ~Exit
    <2>1. ~(Flusher \/ ParkTimeout)
        BY <1>3 DEF Flusher, ParkTimeout, ReadClosing, ReadCutting, TakeSome,
           TakeNone, TakeNoneForCut, RotateSync, RotateCreate, RotateSwap,
           RotateStore, WriteBatch, PublishWritten, Decide, Park, Finish
    <2>2. fpc = "exited"
        BY <2>1, FlusherSteps
    <2>3. \A t \in DOMAIN recs : synced[t] = Len(recs[t])
        BY <1>1, <2>2 DEF ClosedOK
    <2>4. ASSUME SyncData PROVE synced'[s] = Len(recs'[s])
        <3>1. Fdatasync(sfile) /\ recs' = recs
            BY <2>4 DEF SyncData, Fdatasync
        <3>q. QED
            BY <1>1, <2>3, <3>1, FileSynced
    <2>5. ASSUME Remove PROVE synced'[s] = Len(recs'[s])
        <3>1. s \in DOMAIN recs
            BY <1>1, <2>5, Removed
        <3>q. QED
            BY <1>1, <2>3, <2>5, <3>1, Removed
    <2>6. ASSUME UNCHANGED files PROVE synced'[s] = Len(recs'[s])
        BY <2>3, <2>6 DEF files
    <2>q. QED
        BY <1>3, <2>1, <2>4, <2>5, <2>6, FileSteps DEF Flusher
<1>q. QED
    BY <1>2, <1>3

LEMMA NextClosedOK ==
    ASSUME OrderInv, [Next]_vars PROVE ClosedOK'
<1>1. ClosedOK
    BY DEF OrderInv
<1>2. opc' \in {"syncer", "ended"} => fpc' = "exited"
    <2>1. ASSUME NEW c \in Clients, Client(c) PROVE UNCHANGED <<opc, fpc>>
        BY <2>1, ClientFrame
    <2>2. ASSUME Flusher \/ ParkTimeout PROVE opc' = opc /\ fpc # "exited"
        BY <2>2, FlusherFrame, FlusherGoes
    <2>3. ASSUME Owner
          PROVE  /\ fpc' = fpc
                 /\ opc' \in {"syncer", "ended"} => fpc = "exited" \/ opc = "syncer"
        BY <2>3, OwnerFrame DEF Owner, OwnerStep, CutRequest, CutDone, FlushDone,
           FlushFails, Remove, RemoveEnds, Close, JoinFlusher, JoinSyncer,
           CloseEnds, owner
    <2>4. ASSUME Syncer \/ UNCHANGED vars PROVE UNCHANGED <<opc, fpc>>
        BY <2>4, SyncerFrame DEF vars, owner, flusher
    <2>q. QED
        BY <1>1, <2>1, <2>2, <2>3, <2>4 DEF ClosedOK, Next, Step, Ended
<1>q. QED
    BY <1>2, NextClosing, NextExited DEF ClosedOK

-----------------------------------------------------------------------------
(* The theorems. *)

LEMMA InitOrderInv == Init => OrderInv
<1> SUFFICES ASSUME Init PROVE OrderInv
    OBVIOUS
<1>1. SyncedWritten /\ NewEmpty
    BY DEF Init, SyncedWritten, NewEmpty
<1>2. CutOK /\ ClosedOK
    BY DEF Init, CutOK, ClosedOK
<1>q. QED
    BY <1>1, <1>2, InitInv, InitOrder DEF OrderInv

LEMMA NextOrderInv == OrderInv /\ [Next]_vars => OrderInv'
<1> SUFFICES ASSUME OrderInv, [Next]_vars PROVE OrderInv'
    OBVIOUS
<1>1. Inv'
    BY NextInv DEF OrderInv
<1>2. FilesAscend' /\ FilesStored' /\ HandFollows' /\ BufFollows'
    BY NextFilesAscend, NextFilesStored, NextHandFollows, NextBufFollows
<1>3. SyncedWritten' /\ NewEmpty' /\ CutOK' /\ ClosedOK'
    BY NextSyncedWritten, NextNewEmpty, NextCutOK, NextClosedOK
<1>q. QED
    BY <1>1, <1>2, <1>3, Zenon DEF OrderInv

\* The files hold the records in the order of their appends, whatever the
\* threads do; a cut is answered and a close returns only when it is safe.
THEOREM OrderInvCorrect == Spec => []OrderInv
    BY InitOrderInv, NextOrderInv, PTL DEF Spec

\* Reading the segments by id, then the batch in hand, then the buffer, gives
\* every record once and in the order of its append: rotations, cuts, removals
\* and the swap of the two buffers never reorder or repeat one.
THEOREM LogIsInOrder == Spec => []LogInOrder
<1>1. OrderInv => LogInOrder
    BY DEF OrderInv, LogInOrder, FilesAscend, FilesStored, HandFollows,
       BufFollows, Stored
<1>q. QED
    BY <1>1, OrderInvCorrect, PTL

\* When Wal::cut has returned, every record is in a segment up to the returned
\* id and none is in memory, until the flush and the removal it was for end:
\* no append slips in, and no removal takes the file the flusher writes to.
THEOREM CutCoversAll == Spec => []CutCovers
<1>1. ASSUME OrderInv PROVE CutCovers
    <2>1. seg \in DOMAIN recs /\ seg \in Nat /\ DOMAIN recs \subseteq Nat
        BY <1>1, LogTypes DEF OrderInv
    <2>2. ASSUME opc \in {"flush", "remove"}
          PROVE  /\ doomed = seg - 1 /\ buf = <<>> /\ Hand = <<>>
                 /\ recs[seg] = <<>>
        BY <1>1, <2>2 DEF OrderInv, CutOK, Drained, Hand
    <2>3. \A s \in DOMAIN recs : s <= seg
        BY <1>1 DEF OrderInv, Inv, FilesOK
    <2>4. ASSUME opc \in {"flush", "remove"}, NEW s \in DOMAIN recs,
                 recs[s] # <<>>
          PROVE  s <= doomed
        BY <2>1, <2>2, <2>3, <2>4
    <2>q. QED
        BY <2>1, <2>2, <2>4 DEF CutCovers
<1>2. OrderInv => CutCovers
    BY <1>1
<1>q. QED
    BY <1>2, OrderInvCorrect, PTL

\* When Wal::close has returned, every record ever appended is fdatasynced or
\* saved in a .seg file.
THEOREM ClosedIsDurable == Spec => []ClosedDurable
<1>1. ASSUME OrderInv, opc = "ended"
      PROVE  buf = <<>> /\ Hand = <<>> /\ \A n \in 1 .. end : Durable(n)
    <2>1. /\ fpc = "exited" /\ buf = <<>>
          /\ \A s \in DOMAIN recs : synced[s] = Len(recs[s])
        BY <1>1 DEF OrderInv, ClosedOK
    <2>2. Hand = <<>>
        BY <2>1 DEF Hand
    <2>3. ASSUME NEW n \in 1 .. end, n > flushed PROVE Durable(n)
        <3>1. OnFile(n)
            <4>1. n <= flushed \/ OnFile(n) \/ In(n, Hand) \/ In(n, buf)
                BY <1>1 DEF OrderInv, Inv, NoLoss
            <4>2. ~In(n, Hand) /\ ~In(n, buf)
                BY <2>1, <2>2 DEF In
            <4>3. ~(n <= flushed)
                BY <1>1, <2>3, TypeParts DEF OrderInv, Inv, OwnerType
            <4>q. QED
                BY <4>1, <4>2, <4>3
        <3>2. PICK s \in DOMAIN recs : In(n, recs[s])
            BY <3>1 DEF OnFile
        <3>3. PICK i \in DOMAIN recs[s] : recs[s][i] = n
            BY <3>2 DEF In
        <3>4. i <= synced[s]
            BY <1>1, <2>1, CellTypes DEF OrderInv
        <3>q. QED
            BY <3>3, <3>4 DEF Durable
    <2>4. ASSUME NEW n \in 1 .. end, ~(n > flushed) PROVE Durable(n)
        <3>1. flushed \in Nat
            BY <1>1, TypeParts DEF OrderInv, Inv, OwnerType
        <3>q. QED
            BY <2>4, <3>1 DEF Durable
    <2>q. QED
        BY <2>1, <2>2, <2>3, <2>4
<1>2. OrderInv => ClosedDurable
    BY <1>1 DEF ClosedDurable
<1>q. QED
    BY <1>2, OrderInvCorrect, PTL

-----------------------------------------------------------------------------
(***************************************************************************)
(* Part 3: with its threads, buffers, segments and cuts Wal is a log that  *)
(* grows at one end, is stored in order, becomes durable in order and      *)
(* forgets nothing durable. The refinement mapping is the one of MCWal,    *)
(* which TLC checks.                                                       *)
(***************************************************************************)

\* What WalLog's variable durable stands for.
DurableSet == {n \in 1 .. end : Durable(n)}

-----------------------------------------------------------------------------
(* Which records become durable. *)

\* Everything stored is a record; what is in memory comes after it.
LEMMA InMemoryIsLater ==
    ASSUME OrderInv, NEW n \in Nat, In(n, Hand) \/ In(n, buf)
    PROVE  n > Stored
<1>1. Inv /\ HandFollows /\ BufFollows
    BY DEF OrderInv
<1>2. /\ end \in Nat /\ Stored \in Int /\ Stored = end - Len(buf) - Len(Hand)
      /\ Len(buf) \in Nat /\ Len(Hand) \in Nat
      /\ buf \in Seq(Nat) /\ Hand \in Seq(Nat)
    BY <1>1, LogTypes DEF Stored
<1>3. ASSUME NEW i \in DOMAIN Hand, Hand[i] = n PROVE n > Stored
    <2>1. i \in Nat \ {0}
        BY <1>2
    <2>2. n = Stored + i
        BY <1>1, <1>3 DEF HandFollows
    <2>q. QED
        BY <1>2, <2>1, <2>2
<1>4. ASSUME NEW i \in DOMAIN buf, buf[i] = n PROVE n > Stored
    <2>1. i \in Nat \ {0}
        BY <1>2
    <2>2. n = end - Len(buf) + i
        BY <1>1, <1>4 DEF BufFollows
    <2>q. QED
        BY <1>2, <2>1, <2>2
<1>q. QED
    BY <1>3, <1>4 DEF In

\* Fdatasync of a file makes everything up to its last record durable: what
\* is older is in an older file, which is synced, or saved.
LEMMA SyncedUpTo ==
    ASSUME OrderInv, NEW id \in DOMAIN recs, Fdatasync(id), flushed' = flushed,
           NEW n \in 1 .. end, NEW k \in DOMAIN recs[id], n <= recs[id][k]
    PROVE  Durable(n)'
<1>1. Inv /\ FilesAscend /\ FilesStored
    BY DEF OrderInv
<1>2. /\ recs' = recs
      /\ \A s \in DOMAIN recs :
            synced'[s] = IF s = id THEN Len(recs[s]) ELSE synced[s]
    BY <1>1, FileSynced
<1>3. ASSUME n <= flushed PROVE Durable(n)'
    BY <1>3 DEF Durable
<1>4. ASSUME NEW s \in DOMAIN recs, NEW i \in DOMAIN recs[s], recs[s][i] = n
      PROVE  Durable(n)'
    <2>1. /\ s \in Nat /\ id \in Nat /\ seg \in Nat /\ id <= seg
          /\ i <= Len(recs[s]) /\ recs[id][k] \in Nat
        BY <1>1, CellTypes, LogTypes
    <2>2. ~(id < s)
        <3>1. ASSUME id < s PROVE recs[id][k] < recs[s][i]
            BY <1>1, <3>1, Zenon DEF FilesAscend
        <3>q. QED
            BY <1>4, <2>1, <3>1
    <2>3. i <= synced'[s]
        <3>1. CASE s = id
            BY <1>2, <2>1, <3>1
        <3>2. CASE s # id
            <4>1. s < seg
                BY <2>1, <2>2, <3>2
            <4>2. synced[s] = Len(recs[s])
                BY <1>1, <4>1 DEF Inv, FilesOK
            <4>q. QED
                BY <1>2, <2>1, <3>2, <4>2
        <3>q. QED
            BY <3>1, <3>2
    <2>q. QED
        BY <1>2, <1>4, <2>3 DEF Durable
<1>5. ~In(n, Hand) /\ ~In(n, buf)
    <2>1. recs[id][k] <= Stored /\ recs[id][k] \in Nat /\ Stored \in Int
        BY <1>1, CellTypes, LogTypes DEF FilesStored
    <2>2. n \in Nat /\ ~(n > Stored)
        BY <2>1
    <2>q. QED
        BY <2>2, InMemoryIsLater
<1>q. QED
    BY <1>1, <1>3, <1>4, <1>5 DEF Inv, NoLoss, OnFile, In

\* And nothing after it.
LEMMA SyncedNoMore ==
    ASSUME OrderInv, NEW id, Fdatasync(id), flushed' = flushed,
           NEW n \in 1 .. end, Durable(n)', ~Durable(n)
    PROVE  id \in DOMAIN recs /\ In(n, recs[id])
<1>1. /\ recs' = recs
      /\ \A s \in DOMAIN recs :
            synced'[s] = IF s = id THEN Len(recs[s]) ELSE synced[s]
    BY FileSynced DEF OrderInv
<1>2. PICK s \in DOMAIN recs : \E i \in DOMAIN recs[s] :
          i <= synced'[s] /\ recs[s][i] = n
    BY <1>1 DEF Durable
<1>3. s = id
    BY <1>1, <1>2 DEF Durable
<1>q. QED
    BY <1>2, <1>3 DEF In

\* So an fdatasync, of whichever file, makes a prefix of the log durable.
LEMMA SyncsPrefix ==
    ASSUME OrderInv, [Next]_vars, NEW id, Fdatasync(id), flushed' = flushed,
           end' = end
    PROVE  \/ DurableSet' = DurableSet
           \/ \E m \in 1 .. Stored : DurableSet' = DurableSet \cup 1 .. m
<1>1. Inv /\ FilesAscend /\ FilesStored
    BY DEF OrderInv
<1>2. /\ DurableSet = {n \in 1 .. end : Durable(n)}
      /\ DurableSet' = {n \in 1 .. end : Durable(n)'}
      /\ end \in Nat /\ Stored \in Int /\ Stored <= end
    BY <1>1, LogTypes DEF DurableSet, Stored
<1>3. \A n \in 1 .. end : Durable(n) => Durable(n)'
    BY <1>1, Kept
<1>4. CASE \A n \in 1 .. end : Durable(n)' => Durable(n)
    BY <1>2, <1>3, <1>4
<1>5. ASSUME NEW n \in 1 .. end, Durable(n)', ~Durable(n)
      PROVE  \E m \in 1 .. Stored : DurableSet' = DurableSet \cup 1 .. m
    <2>1. id \in DOMAIN recs /\ In(n, recs[id])
        BY <1>5, SyncedNoMore
    <2>2. PICK i \in DOMAIN recs[id] : recs[id][i] = n
        BY <2>1 DEF In
    <2> DEFINE l == Len(recs[id])
               m == recs[id][l]
    <2>3. /\ l \in DOMAIN recs[id] /\ l \in Nat /\ m \in Nat
          /\ \A j \in DOMAIN recs[id] : j \in Nat /\ j <= l
        <3>1. recs[id] \in Seq(Nat)
            BY <1>1, <2>1, LogTypes
        <3>q. QED
            BY <2>2, <3>1
    <2>4. \A j \in DOMAIN recs[id] : recs[id][j] <= m /\ recs[id][j] \in Nat
        <3>1. ASSUME NEW j \in DOMAIN recs[id], j < l PROVE recs[id][j] < m
            BY <1>1, <2>1, <2>3, <3>1, Zenon DEF FilesAscend
        <3>2. \A j \in DOMAIN recs[id] : recs[id][j] \in Nat
            BY <1>1, <2>1, CellTypes
        <3>q. QED
            BY <2>3, <3>1, <3>2
    <2>5. m \in 1 .. Stored
        <3>1. n <= m
            BY <2>2, <2>4
        <3>2. m <= Stored
            BY <1>1, <2>1, <2>3 DEF FilesStored
        <3>q. QED
            BY <1>2, <2>3, <3>1, <3>2
    <2>6. \A p \in 1 .. m : p \in 1 .. end /\ Durable(p)'
        <3>1. \A p \in 1 .. m : p \in 1 .. end /\ p <= recs[id][l]
            BY <1>2, <2>5
        <3>q. QED
            BY <2>1, <2>3, <3>1, SyncedUpTo
    <2>7. \A p \in 1 .. end : Durable(p)' => Durable(p) \/ p \in 1 .. m
        <3>1. ASSUME NEW p \in 1 .. end, In(p, recs[id]) PROVE p \in 1 .. m
            BY <2>3, <2>4, <3>1 DEF In
        <3>q. QED
            BY <3>1, SyncedNoMore
    <2>8. DurableSet' = DurableSet \cup 1 .. m
        BY <1>2, <1>3, <2>6, <2>7
    <2>q. QED
        BY <2>5, <2>8
<1>q. QED
    BY <1>4, <1>5

\* Writing, rotating and removing make nothing durable and cost nothing of it.
LEMMA SameDurable ==
    ASSUME OrderInv, [Next]_vars, end' = end, flushed' = flushed,
           RotateCreate \/ WriteBatch \/ Remove \/ UNCHANGED files
    PROVE  DurableSet' = DurableSet
<1>1. Inv /\ SyncedWritten
    BY DEF OrderInv
<1>2. ASSUME NEW n \in 1 .. end, NEW s \in DOMAIN recs', NEW i \in DOMAIN recs'[s],
             i <= synced'[s], recs'[s][i] = n
      PROVE  Durable(n)
    <2>1. CASE RotateCreate
        <3>1. CASE s = seg + 1
            BY <1>1, <2>1, <3>1, Created
        <3>2. CASE s # seg + 1
            BY <1>1, <1>2, <2>1, <3>2, Created DEF Durable
        <3>q. QED
            BY <3>1, <3>2
    <2>2. CASE WriteBatch
        <3>1. s \in DOMAIN recs /\ synced' = synced
            BY <1>1, <2>2, Written
        <3>2. CASE s # seg
            <4>1. recs'[s] = recs[s]
                BY <1>1, <2>2, <3>1, <3>2, Written
            <4>q. QED
                BY <1>2, <3>1, <4>1 DEF Durable
        <3>3. CASE s = seg
            <4>1. /\ recs[s] \in Seq(Nat) /\ spare \in Seq(Nat)
                  /\ recs'[s] = recs[s] \o spare
                BY <1>1, <2>2, <3>3, Written
            <4>2. /\ synced[s] \in Nat /\ synced[s] <= Len(recs[s])
                BY <1>1, <3>1, LogTypes DEF SyncedWritten
            <4>3. i \in DOMAIN recs[s]
                <5>1. i \in Nat \ {0} /\ Len(recs[s]) \in Nat
                    BY <4>1
                <5>2. i <= Len(recs[s])
                    BY <1>2, <3>1, <4>2, <5>1
                <5>q. QED
                    BY <4>1, <5>1, <5>2
            <4>4. recs[s][i] = n
                BY <1>2, <4>1, <4>3, Concatenated
            <4>q. QED
                BY <1>2, <3>1, <4>3, <4>4 DEF Durable
        <3>q. QED
            BY <3>2, <3>3
    <2>3. CASE Remove
        BY <1>1, <1>2, <2>3, Removed DEF Durable
    <2>4. CASE UNCHANGED files
        BY <1>2, <2>4 DEF Durable, files
    <2>q. QED
        BY <2>1, <2>2, <2>3, <2>4
<1>3. \A n \in 1 .. end : Durable(n)' => Durable(n)
    BY <1>2 DEF Durable
<1>4. \A n \in 1 .. end : Durable(n) => Durable(n)'
    BY <1>1, Kept
<1>q. QED
    BY <1>3, <1>4 DEF DurableSet

-----------------------------------------------------------------------------
(* Each step of Wal is a step of WalLog or leaves its variables alone. *)

LEMMA Mapped ==
    /\ Log!vars = <<end, closed, Stored, DurableSet, flushed>>
    /\ Log!vars' = <<end', closed', Stored', DurableSet', flushed'>>
    BY DEF Log!vars, Stored, DurableSet

\* The steps that matter to WalLog.
LEMMA VisibleSteps ==
    ASSUME [Next]_vars
    PROVE  \/ \E c \in Clients : WriterAppend(c)
           \/ FlushDone \/ Close
           \/ UNCHANGED <<end, closed, flushed>>
<1> USE DEF bufVars, progress, files, flusher, shared, clientVars, owner, syncer
<1>1. ASSUME NEW c \in Clients, Client(c)
      PROVE  WriterAppend(c) \/ UNCHANGED <<end, closed, flushed>>
    BY <1>1 DEF Client, WaitStep, AppendNothing, KickFlusher, ReturnEarly,
       WaitCheck, WaitEnter, WaitUnpark, WaitDone, WaitCancel
<1>2. ASSUME Flusher \/ ParkTimeout \/ Syncer
      PROVE  UNCHANGED <<end, closed, flushed>>
    BY <1>2, FlusherFrame, SyncerFrame
<1>3. ASSUME Owner PROVE FlushDone \/ Close \/ UNCHANGED <<end, closed, flushed>>
    BY <1>3 DEF Owner, OwnerStep, CutRequest, CutDone, FlushFails, Remove,
       RemoveEnds, JoinFlusher, JoinSyncer, CloseEnds
<1>4. ASSUME UNCHANGED vars PROVE UNCHANGED <<end, closed, flushed>>
    BY <1>4 DEF vars
<1>q. QED
    BY <1>1, <1>2, <1>3, <1>4 DEF Next, Step, Ended

\* An append adds one record that is neither stored nor durable.
LEMMA AppendRefines ==
    ASSUME OrderInv, [Next]_vars, NEW c \in Clients, WriterAppend(c)
    PROVE  Log!Append
<1>1. Inv /\ FilesStored
    BY DEF OrderInv
<1>2. end' = end + 1 /\ Stored' = Stored
    BY <1>1, Appended
<1>3. /\ ~closed /\ closed' = closed /\ flushed' = flushed
      /\ recs' = recs /\ synced' = synced
    BY DEF WriterAppend, files, owner
<1>4. ~Durable(end + 1)
    <2>1. end \in Nat /\ flushed \in Nat /\ flushed <= end
        BY <1>1, TypeParts DEF Inv, BufferType, OwnerType, LsnOK
    <2>2. ASSUME NEW s \in DOMAIN recs, NEW i \in DOMAIN recs[s]
          PROVE  recs[s][i] # end + 1
        <3>1. recs[s][i] <= Stored /\ recs[s][i] \in Nat
            BY <1>1, CellTypes DEF FilesStored
        <3>2. Stored \in Int /\ Stored <= end
            BY <1>1, LogTypes DEF Stored
        <3>q. QED
            BY <2>1, <3>1, <3>2
    <2>q. QED
        BY <2>1, <2>2 DEF Durable
<1>5. DurableSet' = DurableSet
    <2>1. end \in Nat
        BY <1>1, LogTypes
    <2>2. \A n \in 1 .. end' : Durable(n)' <=> Durable(n)
        BY <1>3 DEF Durable
    <2>q. QED
        BY <1>2, <1>4, <2>1, <2>2 DEF DurableSet
<1>q. QED
    BY <1>2, <1>3, <1>5 DEF Log!Append, Stored, DurableSet

\* A saved log was stored to its end, because the flush follows a cut.
LEMMA FlushRefines ==
    ASSUME OrderInv, FlushDone PROVE Log!Save
<1>1. buf = <<>> /\ Hand = <<>> /\ end \in Nat
    BY LogTypes DEF OrderInv, CutOK, Drained, FlushDone, Hand
<1>2. Stored = end
    BY <1>1 DEF Stored
<1>3. /\ end' = end /\ closed' = closed /\ flushed' = end /\ Stored' = Stored
    BY DEF FlushDone, bufVars, flusher, Stored, Hand
<1>4. DurableSet' = 1 .. end
    BY <1>1, <1>3 DEF DurableSet, Durable
<1>q. QED
    BY <1>2, <1>3, <1>4 DEF Log!Save, Stored, DurableSet

LEMMA CloseRefines ==
    ASSUME Close PROVE Log!Close
<1>1. /\ closed' = TRUE /\ end' = end /\ flushed' = flushed
      /\ Stored' = Stored
      /\ recs' = recs /\ synced' = synced
    BY DEF Close, owner, files, flusher, Stored, Hand
<1>2. DurableSet' = DurableSet
    BY <1>1 DEF DurableSet, Durable
<1>q. QED
    BY <1>1, <1>2 DEF Log!Close, Stored, DurableSet

\* The steps that move records or sync them, with nothing appended, saved or
\* closed.
LEMMA FileRefines ==
    ASSUME OrderInv, [Next]_vars, UNCHANGED <<end, closed, flushed>>
    PROVE  Log!Store \/ Log!MakeDurable \/ UNCHANGED Log!vars
<1>1. Inv
    BY DEF OrderInv
<1>2. CASE WriteBatch
    <2>1. DurableSet' = DurableSet
        BY <1>2, SameDurable
    <2>2. Stored' = Stored + Len(spare) /\ Hand = spare
        BY <1>1, <1>2, Wrote
    <2>3. /\ Stored \in Int /\ Len(spare) \in Nat /\ Len(buf) \in Nat /\ end \in Nat
          /\ Stored + Len(spare) = end - Len(buf)
        BY <1>1, <2>2, LogTypes DEF Stored
    <2>4. CASE Len(spare) = 0
        BY <2>1, <2>2, <2>3, <2>4, Mapped
    <2>5. CASE Len(spare) # 0
        <3>1. Stored' \in Stored + 1 .. end
            BY <2>2, <2>3, <2>5
        <3>q. QED
            BY <2>1, <3>1 DEF Log!Store, Stored, DurableSet
    <2>q. QED
        BY <2>4, <2>5
<1>3. CASE ~WriteBatch
    <2>1. Stored' = Stored
        <3>1. ASSUME UNCHANGED <<end, buf, recs, Hand>> PROVE Stored' = Stored
            BY <3>1 DEF Stored
        <3>q. QED
            BY <1>1, <1>3, <3>1, LogSteps, Appended, Took, NoneMoved
    <2>2. ASSUME NEW id, Fdatasync(id)
          PROVE  \/ DurableSet' = DurableSet
                 \/ \E m \in 1 .. Stored : DurableSet' = DurableSet \cup 1 .. m
        BY <2>2, SyncsPrefix
    <2>3. \/ DurableSet' = DurableSet
          \/ \E m \in 1 .. Stored : DurableSet' = DurableSet \cup 1 .. m
        BY <2>2, FileSteps, SameDurable DEF RotateSync, Exit, SyncData
    <2>4. CASE DurableSet' = DurableSet
        BY <2>1, <2>4, Mapped
    <2>5. ASSUME NEW m \in 1 .. Stored, DurableSet' = DurableSet \cup 1 .. m
          PROVE  Log!MakeDurable
        BY <2>1, <2>5 DEF Log!MakeDurable, Stored, DurableSet
    <2>q. QED
        BY <2>3, <2>4, <2>5
<1>q. QED
    BY <1>2, <1>3

LEMMA InitRefines == Init => Log!Init
<1> SUFFICES ASSUME Init PROVE Log!Init
    OBVIOUS
<1>1. /\ end = 0 /\ closed = FALSE /\ flushed = 0 /\ buf = <<>> /\ Hand = <<>>
    BY DEF Init, Hand
<1>2. {n \in 1 .. end : Durable(n)} = {}
    <2>1. 1 .. end = {}
        BY <1>1
    <2>q. QED
        BY <2>1, Zenon
<1>3. end - Len(buf) - Len(Hand) = 0
    <2>1. end = 0 /\ Len(buf) = 0 /\ Len(Hand) = 0
        BY <1>1
    <2>q. QED
        BY <2>1
<1>q. QED
    BY <1>1, <1>2, <1>3, Zenon DEF Log!Init

LEMMA NextRefines == OrderInv /\ [Next]_vars => [Log!Next]_(Log!vars)
<1> SUFFICES ASSUME OrderInv, [Next]_vars PROVE [Log!Next]_(Log!vars)
    OBVIOUS
<1>q. QED
    BY VisibleSteps, AppendRefines, FlushRefines, CloseRefines, FileRefines
       DEF Log!Next

-----------------------------------------------------------------------------
(* The theorem. *)

\* The write-ahead log keeps the promise of WalLog. Above all its records
\* become durable in the order of their appends, although two threads sync two
\* files at times of their own: what a power failure leaves is a prefix of the
\* log, so replay never sees a hole.
THEOREM WalImplementsLog == Spec => LogSpec
<1>1. Init => Log!Init
    BY InitRefines
<1>2. OrderInv /\ [Next]_vars => [Log!Next]_(Log!vars)
    BY NextRefines
<1>q. QED
    BY <1>1, <1>2, OrderInvCorrect, PTL DEF Spec, LogSpec, Log!Spec
===============================================================================
