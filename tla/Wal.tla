---------------------------------- MODULE Wal ----------------------------------
(***************************************************************************)
(* The write-ahead log while the process runs (src/src/storage/wal): the   *)
(* shared buffer, the flusher thread that writes it to the active segment  *)
(* and rotates, the syncer thread that fdatasyncs on a timer, the clients  *)
(* that append and wait for their record to be written, and the owner of   *)
(* the log (Db), which cuts it, saves the samples elsewhere, removes the   *)
(* covered segments and finally closes it.                                 *)
(*                                                                         *)
(* An action is one step between two points where another thread can see   *)
(* or change shared state: a critical section, an atomic, a system call.   *)
(* A record is its LSN, so every record has length 1 and an LSN counts     *)
(* records instead of bytes; bytes on disk are sequences of LSNs.          *)
(***************************************************************************)
EXTENDS Integers, Sequences, FiniteSets

CONSTANTS
    Clients,         \* tasks that write through the log
    FlushThreshold,  \* WalConfig.flush_threshold
    SegmentMax,      \* WalConfig.segment_max_bytes
    MaxRecords,      \* bound: records appended in a behaviour
    MaxSegment       \* bound: the owner starts no cut at this segment id

ASSUME WalAssumption ==
    /\ IsFiniteSet(Clients)
    /\ FlushThreshold \in Nat \ {0}
    /\ SegmentMax \in Nat \ {0}
    /\ MaxRecords \in Nat
    /\ MaxSegment \in Nat

VARIABLES
    buf, end, closed,               \* WalBuffer: pending bytes, LSN, closed
    written, waiters,               \* Progress: published LSN, waiter count
    token,                          \* the flusher's park token
    recs, synced,                   \* files: segment id -> records, and
                                    \*   how many of them are fdatasynced
    seg, fpc, closing, cutting,     \* flusher: active segment, loop locals,
    spare, taken,                   \*   the batch in hand and its LSN
    syncFile, active,               \* Shared.sync_file, .active_segment
    requested, cutId,               \* CutState (0 is None)
    cpc, lsn,                       \* per client: where it is, its LSN
    opc, doomed, flushed,           \* owner: step, id to remove through;
                                    \*   ghost: records saved in .seg files
    spc, sw, sfile, slast, stoken   \* syncer: step, locals, park token

bufVars    == <<buf, end, closed>>
progress   == <<written, waiters, token>>
flusher    == <<seg, fpc, closing, cutting, spare, taken>>
shared     == <<syncFile, active, requested, cutId>>
clientVars == <<cpc, lsn>>
owner      == <<opc, doomed, flushed>>
syncer     == <<spc, sw, sfile, slast, stoken>>
files      == <<recs, synced>>
vars == <<bufVars, progress, files, flusher, shared, clientVars, owner,
          syncer>>

\* ActiveSegment::create: a new, empty file.
CreateSegment(id) ==
    /\ recs' = [s \in DOMAIN recs \cup {id} |-> IF s = id THEN <<>> ELSE recs[s]]
    /\ synced' = [s \in DOMAIN recs \cup {id} |-> IF s = id THEN 0 ELSE synced[s]]

\* fdatasync of one segment; the handle of a removed file syncs nothing.
Fdatasync(id) ==
    /\ synced' = [s \in DOMAIN recs |-> IF s = id THEN Len(recs[s]) ELSE synced[s]]
    /\ UNCHANGED recs

Init ==
    /\ buf = <<>> /\ end = 0 /\ closed = FALSE
    /\ written = 0 /\ waiters = 0 /\ token = FALSE
    /\ recs = [s \in {1} |-> <<>>] /\ synced = [s \in {1} |-> 0]
    /\ seg = 1 /\ fpc = "closing" /\ closing = FALSE /\ cutting = FALSE
    /\ spare = <<>> /\ taken = 0
    /\ syncFile = 1 /\ active = 1
    /\ requested = FALSE /\ cutId = 0
    /\ cpc = [c \in Clients |-> "idle"] /\ lsn = [c \in Clients |-> 0]
    /\ opc = "idle" /\ doomed = 0 /\ flushed = 0
    /\ spc = "top" /\ sw = 0 /\ sfile = 0 /\ slast = 0 /\ stoken = FALSE

\* Nobody is inside Db::write or DbState::flush, and Db has not failed.
LockFree ==
    /\ opc \notin {"cut", "flush", "remove", "failed"}
    /\ \A c \in Clients : cpc[c] # "kick"

-----------------------------------------------------------------------------
(* Mistakes this code could have made: each is the action it is named after  *)
(* with one slip, and the properties at the end tell it from the real one.   *)

\* The guard does not count the waiter.
MistakenWaitEnter(c) ==
    /\ cpc[c] = "enter"
    /\ cpc' = [cpc EXCEPT ![c] = "unpark"]
    /\ UNCHANGED <<bufVars, progress, files, flusher, shared, lsn, owner, syncer>>

\* Only the first of those who wait wakes the flusher.
MistakenFirstWaiter(c) ==
    /\ cpc[c] = "enter"
    /\ waiters' = waiters + 1
    /\ cpc' = [cpc EXCEPT ![c] = IF waiters = 0 THEN "unpark" ELSE "waiting"]
    /\ UNCHANGED <<bufVars, written, token, files, flusher, shared, lsn, owner,
                   syncer>>

\* A dropped future keeps its count.
MistakenWaitCancel(c) ==
    /\ cpc[c] = "waiting"
    /\ cpc' = [cpc EXCEPT ![c] = "idle"]
    /\ lsn' = [lsn EXCEPT ![c] = 0]
    /\ UNCHANGED <<bufVars, progress, files, flusher, shared, owner, syncer>>

\* A cut is served before the buffer is drained.
MistakenTakeNoneForCut ==
    /\ fpc = "take" /\ cutting
    /\ fpc' = "rotate"
    /\ UNCHANGED <<bufVars, progress, files, seg, closing, cutting, spare,
                   taken, shared, clientVars, owner, syncer>>

\* The closed segment is left to the page cache.
MistakenRotateSync ==
    /\ fpc = "rotate"
    /\ fpc' = "create"
    /\ UNCHANGED <<bufVars, progress, files, seg, closing, cutting, spare, taken,
                   shared, clientVars, owner, syncer>>

\* The buffer's end is published, not the LSN of the batch.
MistakenPublishWritten ==
    /\ fpc = "publish"
    /\ written' = end
    /\ fpc' = "decide"
    /\ UNCHANGED <<bufVars, waiters, token, files, seg, closing, cutting, spare,
                   taken, shared, clientVars, owner, syncer>>

\* The written batch is not cleared, and the next take swaps it back in.
MistakenDecide ==
    /\ fpc = "decide"
    /\ fpc' = "closing"
    /\ closing' = FALSE /\ cutting' = FALSE /\ taken' = 0
    /\ UNCHANGED <<bufVars, progress, files, seg, spare, shared, clientVars,
                   owner, syncer>>

\* The flusher leaves without its last fdatasync.
MistakenExit ==
    /\ fpc = "exit"
    /\ fpc' = "exited"
    /\ UNCHANGED <<bufVars, progress, files, seg, closing, cutting, spare, taken,
                   shared, clientVars, owner, syncer>>

\* The flusher is not told of the cut.
MistakenCutRequest ==
    /\ opc = "idle" /\ LockFree /\ ~closed /\ seg < MaxSegment
    /\ opc' = "cut"
    /\ requested' = TRUE /\ cutId' = 0
    /\ UNCHANGED <<bufVars, progress, files, flusher, syncFile, active,
                   clientVars, doomed, flushed, syncer>>

\* The log is trimmed although the flush failed.
MistakenFlushFails ==
    /\ opc = "flush"
    /\ opc' = "remove"
    /\ UNCHANGED <<bufVars, progress, files, flusher, shared, clientVars,
                   doomed, flushed, syncer>>

\* The syncer is joined without being woken.
MistakenJoinSyncer ==
    /\ opc = "flusher" /\ fpc = "exited"
    /\ opc' = "syncer"
    /\ UNCHANGED <<bufVars, progress, files, flusher, shared, clientVars,
                   doomed, flushed, syncer>>

\* One record too few is not worth a sync.
MistakenSyncTick ==
    /\ spc = "parked"
    /\ IF written > slast + 1
         THEN sw' = written /\ spc' = "clone"
         ELSE sw' = sw /\ spc' = "top"
    /\ stoken' = FALSE
    /\ UNCHANGED <<bufVars, progress, files, flusher, shared, clientVars, owner,
                   sfile, slast>>

\* The published LSN is read after the sync it is to stand for.
MistakenSyncData ==
    /\ spc = "sync"
    /\ Fdatasync(sfile)
    /\ slast' = written
    /\ spc' = "top"
    /\ sw' = 0 /\ sfile' = 0
    /\ UNCHANGED <<bufVars, progress, flusher, shared, clientVars, owner,
                   stoken>>

-----------------------------------------------------------------------------
(* Clients: WalWriter::append under Db's write lock, Progress::wait outside. *)

Quiet == {"idle", "acked"}

\* WalBuffer::append, one critical section. The append that crosses the
\* threshold wakes the flusher, after it has unlocked the buffer.
WriterAppend(c) ==
    /\ cpc[c] \in Quiet /\ LockFree
    /\ ~closed /\ end < MaxRecords
    /\ buf' = Append(buf, end + 1)
    /\ end' = end + 1
    /\ lsn' = [lsn EXCEPT ![c] = end + 1]
    /\ cpc' = [cpc EXCEPT ![c] =
                 IF Len(buf) < FlushThreshold /\ Len(buf) + 1 >= FlushThreshold
                   THEN "kick" ELSE "appended"]
    /\ UNCHANGED <<closed, progress, files, flusher, shared, owner, syncer>>

\* A batch with nothing to log gets the buffer's end, open or closed.
AppendNothing(c) ==
    /\ cpc[c] \in Quiet /\ LockFree
    /\ lsn' = [lsn EXCEPT ![c] = end]
    /\ cpc' = [cpc EXCEPT ![c] = "appended"]
    /\ UNCHANGED <<bufVars, progress, files, flusher, shared, owner, syncer>>

KickFlusher(c) ==
    /\ cpc[c] = "kick"
    /\ token' = TRUE
    /\ cpc' = [cpc EXCEPT ![c] = "appended"]
    /\ UNCHANGED <<bufVars, written, waiters, files, flusher, shared, lsn,
                   owner, syncer>>

\* Durability::None: the caller goes on at once.
ReturnEarly(c) ==
    /\ cpc[c] = "appended"
    /\ cpc' = [cpc EXCEPT ![c] = "idle"]
    /\ lsn' = [lsn EXCEPT ![c] = 0]
    /\ UNCHANGED <<bufVars, progress, files, flusher, shared, owner, syncer>>

WaitCheck(c) ==
    /\ cpc[c] = "appended"
    /\ cpc' = [cpc EXCEPT ![c] = IF written >= lsn[c] THEN "acked" ELSE "enter"]
    /\ UNCHANGED <<bufVars, progress, files, flusher, shared, lsn, owner,
                   syncer>>

WaitEnter(c) ==
    /\ cpc[c] = "enter"
    /\ waiters' = waiters + 1
    /\ cpc' = [cpc EXCEPT ![c] = "unpark"]
    /\ UNCHANGED <<bufVars, written, token, files, flusher, shared, lsn, owner,
                   syncer>>

WaitUnpark(c) ==
    /\ cpc[c] = "unpark"
    /\ token' = TRUE
    /\ cpc' = [cpc EXCEPT ![c] = "waiting"]
    /\ UNCHANGED <<bufVars, written, waiters, files, flusher, shared, lsn,
                   owner, syncer>>

\* The future ends, or its caller drops it; either way WaiterGuard is dropped.
WaitDone(c) ==
    /\ cpc[c] = "waiting" /\ written >= lsn[c]
    /\ waiters' = waiters - 1
    /\ cpc' = [cpc EXCEPT ![c] = "acked"]
    /\ UNCHANGED <<bufVars, written, token, files, flusher, shared, lsn, owner,
                   syncer>>

WaitCancel(c) ==
    /\ cpc[c] = "waiting"
    /\ waiters' = waiters - 1
    /\ cpc' = [cpc EXCEPT ![c] = "idle"]
    /\ lsn' = [lsn EXCEPT ![c] = 0]
    /\ UNCHANGED <<bufVars, written, token, files, flusher, shared, owner,
                   syncer>>

WaitStep(c) ==
    \/ KickFlusher(c) \/ WaitCheck(c) \/ WaitEnter(c) \/ WaitUnpark(c)
    \/ WaitDone(c)

Client(c) ==
    \/ WriterAppend(c) \/ AppendNothing(c) \/ ReturnEarly(c) \/ WaitCancel(c)
    \/ WaitStep(c)

-----------------------------------------------------------------------------
(* The flusher: flush_loop, write_batch and rotate. *)

ReadClosing ==
    /\ fpc = "closing"
    /\ closing' = closed
    /\ fpc' = "cutting"
    /\ UNCHANGED <<bufVars, progress, files, seg, cutting, spare, taken, shared,
                   clientVars, owner, syncer>>

\* The commit delay that may follow only sleeps.
ReadCutting ==
    /\ fpc = "cutting"
    /\ cutting' = requested
    /\ fpc' = "take"
    /\ UNCHANGED <<bufVars, progress, files, seg, closing, spare, taken, shared,
                   clientVars, owner, syncer>>

\* WalBuffer::take swaps the pending bytes with the spare Vec.
TakeSome ==
    /\ fpc = "take" /\ buf # <<>>
    /\ spare' = buf /\ buf' = spare /\ taken' = end
    /\ fpc' = IF Len(recs[seg]) >= SegmentMax THEN "rotate" ELSE "write"
    /\ UNCHANGED <<end, closed, progress, files, seg, closing, cutting, shared,
                   clientVars, owner, syncer>>

TakeNoneForCut ==
    /\ fpc = "take" /\ buf = <<>> /\ cutting
    /\ fpc' = "rotate"
    /\ UNCHANGED <<bufVars, progress, files, seg, closing, cutting, spare,
                   taken, shared, clientVars, owner, syncer>>

\* The locals of a round of the loop go out of scope.
EndOfRound == closing' = FALSE /\ cutting' = FALSE /\ taken' = 0

TakeNone ==
    /\ fpc = "take" /\ buf = <<>> /\ ~cutting
    /\ fpc' = IF closing THEN "exit" ELSE "park"
    /\ EndOfRound
    /\ UNCHANGED <<bufVars, progress, files, seg, spare, shared, clientVars,
                   owner, syncer>>

RotateSync ==
    /\ fpc = "rotate"
    /\ Fdatasync(seg)
    /\ fpc' = "create"
    /\ UNCHANGED <<bufVars, progress, seg, closing, cutting, spare, taken,
                   shared, clientVars, owner, syncer>>

RotateCreate ==
    /\ fpc = "create"
    /\ CreateSegment(seg + 1)
    /\ seg' = seg + 1
    /\ fpc' = "swap"
    /\ UNCHANGED <<bufVars, progress, closing, cutting, spare, taken, shared,
                   clientVars, owner, syncer>>

RotateSwap ==
    /\ fpc = "swap"
    /\ syncFile' = seg
    /\ fpc' = "store"
    /\ UNCHANGED <<bufVars, progress, files, seg, closing, cutting, spare,
                   taken, active, requested, cutId, clientVars, owner, syncer>>

\* A rotation that makes room goes on to the batch, one that serves a cut
\* has none in hand.
RotateStore ==
    /\ fpc = "store"
    /\ active' = seg
    /\ fpc' = IF spare = <<>> THEN "finish" ELSE "write"
    /\ UNCHANGED <<bufVars, progress, files, seg, closing, cutting, spare,
                   taken, syncFile, requested, cutId, clientVars, owner, syncer>>

WriteBatch ==
    /\ fpc = "write"
    /\ recs' = [recs EXCEPT ![seg] = @ \o spare]
    /\ fpc' = "publish"
    /\ UNCHANGED <<bufVars, progress, synced, seg, closing, cutting, spare, taken,
                   shared, clientVars, owner, syncer>>

PublishWritten ==
    /\ fpc = "publish"
    /\ written' = IF taken > written THEN taken ELSE written
    /\ fpc' = "decide"
    /\ UNCHANGED <<bufVars, waiters, token, files, seg, closing, cutting, spare,
                   taken, shared, clientVars, owner, syncer>>

\* spare.clear(), then loop at once or park.
Decide ==
    /\ fpc = "decide"
    /\ spare' = <<>>
    /\ fpc' = IF \/ closing \/ cutting
                 \/ Len(spare) >= FlushThreshold
                 \/ waiters > 0
                THEN "closing" ELSE "park"
    /\ EndOfRound
    /\ UNCHANGED <<bufVars, progress, files, seg, shared, clientVars, owner,
                   syncer>>

Park ==
    /\ fpc = "park" /\ token
    /\ token' = FALSE
    /\ fpc' = "closing"
    /\ UNCHANGED <<bufVars, written, waiters, files, seg, closing, cutting,
                   spare, taken, shared, clientVars, owner, syncer>>

\* flush_interval has passed.
ParkTimeout ==
    /\ fpc = "park" /\ ~token
    /\ fpc' = "closing"
    /\ UNCHANGED <<bufVars, progress, files, seg, closing, cutting, spare,
                   taken, shared, clientVars, owner, syncer>>

\* Cut::finish: the id of the segment the rotation closed.
Finish ==
    /\ fpc = "finish"
    /\ requested' = FALSE /\ cutId' = seg - 1
    /\ fpc' = "closing"
    /\ EndOfRound
    /\ UNCHANGED <<bufVars, progress, files, seg, spare, syncFile, active,
                   clientVars, owner, syncer>>

Exit ==
    /\ fpc = "exit"
    /\ Fdatasync(seg)
    /\ fpc' = "exited"
    /\ UNCHANGED <<bufVars, progress, seg, closing, cutting, spare, taken,
                   shared, clientVars, owner, syncer>>

Flusher ==
    \/ ReadClosing \/ ReadCutting \/ TakeSome \/ TakeNone
    \/ TakeNoneForCut
    \/ RotateSync \/ RotateCreate \/ RotateSwap \/ RotateStore
    \/ WriteBatch \/ PublishWritten \/ Decide \/ Park \/ Finish \/ Exit

-----------------------------------------------------------------------------
(* The owner: DbState::flush with Db's write lock held, then Wal::close.    *)

\* Cut::request; the state mutex is held from the request to the wait.
CutRequest ==
    /\ opc = "idle" /\ LockFree /\ ~closed
    /\ seg < MaxSegment
    /\ requested' = TRUE /\ cutId' = 0
    /\ token' = TRUE
    /\ opc' = "cut"
    /\ UNCHANGED <<bufVars, written, waiters, files, flusher, syncFile, active,
                   clientVars, doomed, flushed, syncer>>

CutDone ==
    /\ opc = "cut" /\ cutId # 0
    /\ doomed' = cutId /\ cutId' = 0
    /\ opc' = "flush"
    /\ UNCHANGED <<bufVars, progress, files, flusher, syncFile, active,
                   requested, clientVars, flushed, syncer>>

\* SegmentStore::flush saves everything in memory, which is every record
\* appended, or fails and leaves Db failed.
FlushDone ==
    /\ opc = "flush"
    /\ flushed' = end
    /\ opc' = "remove"
    /\ UNCHANGED <<bufVars, progress, files, flusher, shared, clientVars,
                   doomed, syncer>>

FlushFails ==
    /\ opc = "flush"
    /\ opc' = "failed"
    /\ UNCHANGED <<bufVars, progress, files, flusher, shared, clientVars,
                   doomed, flushed, syncer>>

\* Wal::remove_through unlinks the listed segments in id order.
Removable ==
    {s \in DOMAIN recs : s <= doomed /\ s <= active - 1}

Remove ==
    /\ opc = "remove"
    /\ \E s \in Removable :
         /\ \A t \in Removable : s <= t
         /\ recs' = [t \in DOMAIN recs \ {s} |-> recs[t]]
         /\ synced' = [t \in DOMAIN recs \ {s} |-> synced[t]]
    /\ UNCHANGED <<bufVars, progress, flusher, shared, clientVars, owner, syncer>>

\* All are gone, or a call failed: Db goes on either way.
RemoveEnds ==
    /\ opc = "remove"
    /\ opc' = "idle" /\ doomed' = 0
    /\ UNCHANGED <<bufVars, progress, files, flusher, shared, clientVars,
                   flushed, syncer>>

\* Wal::close or Drop: other handles to the log may still append and wait.
Close ==
    /\ opc \in {"idle", "failed"}
    /\ closed' = TRUE
    /\ opc' = "join"
    /\ UNCHANGED <<buf, end, progress, files, flusher, shared, clientVars,
                   doomed, flushed, syncer>>

JoinFlusher ==
    /\ opc = "join"
    /\ token' = TRUE
    /\ opc' = "flusher"
    /\ UNCHANGED <<bufVars, written, waiters, files, flusher, shared,
                   clientVars, doomed, flushed, syncer>>

JoinSyncer ==
    /\ opc = "flusher" /\ fpc = "exited"
    /\ stoken' = TRUE
    /\ opc' = "syncer"
    /\ UNCHANGED <<bufVars, progress, files, flusher, shared, clientVars,
                   doomed, flushed, spc, sw, sfile, slast>>

CloseEnds ==
    /\ opc = "syncer" /\ spc = "exited"
    /\ opc' = "ended"
    /\ UNCHANGED <<bufVars, progress, files, flusher, shared, clientVars,
                   doomed, flushed, syncer>>

\* What the owner does once it has begun; it chooses to begin.
OwnerStep ==
    \/ CutDone \/ FlushDone \/ FlushFails \/ Remove \/ RemoveEnds
    \/ JoinFlusher \/ JoinSyncer \/ CloseEnds

Owner == CutRequest \/ Close \/ OwnerStep

-----------------------------------------------------------------------------
(* The syncer: sync_loop. *)

SyncTop ==
    /\ spc = "top"
    /\ spc' = IF closed THEN "exited" ELSE "parked"
    /\ UNCHANGED <<bufVars, progress, files, flusher, shared, clientVars, owner,
                   sw, sfile, slast, stoken>>

\* Unparked before the deadline.
SyncWake ==
    /\ spc = "parked" /\ stoken
    /\ stoken' = FALSE
    /\ spc' = "top"
    /\ UNCHANGED <<bufVars, progress, files, flusher, shared, clientVars, owner,
                   sw, sfile, slast>>

\* sync_interval has passed, unparked too or not: read the published LSN.
SyncTick ==
    /\ spc = "parked"
    /\ IF written > slast
         THEN sw' = written /\ spc' = "clone"
         ELSE sw' = sw /\ spc' = "top"
    /\ stoken' = FALSE
    /\ UNCHANGED <<bufVars, progress, files, flusher, shared, clientVars, owner,
                   sfile, slast>>

SyncClone ==
    /\ spc = "clone"
    /\ sfile' = syncFile
    /\ spc' = "sync"
    /\ UNCHANGED <<bufVars, progress, files, flusher, shared, clientVars, owner,
                   sw, slast, stoken>>

SyncData ==
    /\ spc = "sync"
    /\ Fdatasync(sfile)
    /\ slast' = sw
    /\ spc' = "top"
    /\ sw' = 0 /\ sfile' = 0
    /\ UNCHANGED <<bufVars, progress, flusher, shared, clientVars, owner,
                   stoken>>

Syncer == SyncTop \/ SyncWake \/ SyncTick \/ SyncClone \/ SyncData

-----------------------------------------------------------------------------
Step ==
    \/ \E c \in Clients : Client(c)
    \/ Flusher \/ ParkTimeout
    \/ Owner
    \/ Syncer

\* Not a step of the code: the log is closed and its threads have ended.
Ended ==
    /\ opc = "ended"
    /\ UNCHANGED vars

Next == Step \/ Ended

Spec == Init /\ [][Next]_vars

-----------------------------------------------------------------------------
(* Fairness: the threads run, the calls a client or the owner has begun go   *)
(* on. Nothing below needs a timer to fire, except AllDurable.               *)

ThreadFairness ==
    /\ WF_vars(Flusher)
    /\ WF_vars(SyncTop) /\ WF_vars(SyncWake)
    /\ WF_vars(SyncClone) /\ WF_vars(SyncData)
    /\ \A c \in Clients : WF_vars(WaitStep(c))
    /\ WF_vars(OwnerStep)

FairSpec == Spec /\ ThreadFairness

-----------------------------------------------------------------------------
(* Properties *)

FlusherPcs ==
    {"closing", "cutting", "take", "rotate", "create", "swap", "store", "write",
     "publish", "decide", "park", "finish", "exit", "exited"}

TypeOK ==
    /\ buf \in Seq(Nat) /\ end \in Nat /\ closed \in BOOLEAN
    /\ written \in Nat /\ waiters \in Nat /\ token \in BOOLEAN
    /\ DOMAIN recs \subseteq Nat
    /\ recs \in [DOMAIN recs -> Seq(Nat)] /\ synced \in [DOMAIN recs -> Nat]
    /\ seg \in Nat \ {0} /\ fpc \in FlusherPcs
    /\ closing \in BOOLEAN /\ cutting \in BOOLEAN
    /\ spare \in Seq(Nat) /\ taken \in Nat
    /\ syncFile \in Nat /\ active \in Nat
    /\ requested \in BOOLEAN /\ cutId \in Nat
    /\ cpc \in [Clients -> {"idle", "kick", "appended", "enter", "unpark",
                           "waiting", "acked"}]
    /\ lsn \in [Clients -> Nat]
    /\ opc \in {"idle", "cut", "flush", "remove", "failed", "join", "flusher",
               "syncer", "ended"}
    /\ doomed \in Nat /\ flushed \in Nat
    /\ spc \in {"top", "parked", "clone", "sync", "exited"}
    /\ sw \in Nat /\ sfile \in Nat /\ slast \in Nat /\ stoken \in BOOLEAN

\* The batch the flusher has taken and not yet written.
Hand ==
    IF fpc \in {"rotate", "create", "swap", "store", "write"} THEN spare ELSE <<>>

In(n, q) == \E i \in DOMAIN q : q[i] = n

OnFile(n) == \E s \in DOMAIN recs : In(n, recs[s])

\* What a power failure cannot take: saved in a .seg file, or fdatasynced.
Durable(n) ==
    \/ n <= flushed
    \/ \E s \in DOMAIN recs :
         \E i \in DOMAIN recs[s] : i <= synced[s] /\ recs[s][i] = n

\* The count the flusher relies on for group commit is the number of clients
\* inside Progress::wait: a cancelled wait gives its count back.
WaitersCount ==
    waiters = Cardinality({c \in Clients : cpc[c] \in {"unpark", "waiting"}})

\* Every record appended is somewhere a crash-free run will still find it,
\* whatever rotations, cuts, removals and failed flushes have happened.
NoLoss ==
    \A n \in 1 .. end : n <= flushed \/ OnFile(n) \/ In(n, Hand) \/ In(n, buf)

\* Reading the segments by id, each from its start, then the batch in hand,
\* then the buffer, gives every record once and in the order of its append:
\* what replay relies on.
LogInOrder ==
    /\ \A s, t \in DOMAIN recs :
         \A i \in DOMAIN recs[s], j \in DOMAIN recs[t] :
            s < t \/ (s = t /\ i < j) => recs[s][i] < recs[t][j]
    /\ \A s \in DOMAIN recs : \A i \in DOMAIN recs[s] :
         recs[s][i] <= end - Len(buf) - Len(Hand)
    /\ \A i \in DOMAIN Hand : Hand[i] = end - Len(buf) - Len(Hand) + i
    /\ \A i \in DOMAIN buf : buf[i] = end - Len(buf) + i

\* A client whose wait has returned has its record, and every earlier one, in
\* a file: killing the process cannot lose it (Durability::Written).
AckedOnDisk ==
    \A c \in Clients : cpc[c] = "acked" =>
        \A n \in 1 .. lsn[c] : n <= flushed \/ OnFile(n)

\* Whatever the syncer counts as synced is durable, although it reads the
\* published LSN, takes the file handle and syncs in separate steps while the
\* flusher may rotate in between.
SyncClaim == \A n \in 1 .. slast : Durable(n)

\* At any instant a power failure can tear the newest segment only, the one
\* recovery is willing to truncate (reader.rs).
OnlyLastUnsynced ==
    \A s, t \in DOMAIN recs : s < t => synced[s] = Len(recs[s])

\* When cut returns, every record is in a segment up to the returned id, which
\* is before the active one; a removal never takes the file the flusher
\* writes to.
CutCovers ==
    /\ seg \in DOMAIN recs
    /\ opc \in {"flush", "remove"} =>
         /\ buf = <<>> /\ Hand = <<>>
         /\ doomed < seg
         /\ \A s \in DOMAIN recs : recs[s] # <<>> => s <= doomed

\* After close returns nothing is left in memory and all of it is durable.
ClosedDurable ==
    opc = "ended" => buf = <<>> /\ Hand = <<>> /\ \A n \in 1 .. end : Durable(n)

\* A client that waits is served, without any timer: the flusher never parks
\* for good between its look at the waiter count and the client's unpark, not
\* when its batch has served another client and this one's record came behind it.
WaitServed == \A c \in Clients : cpc[c] = "waiting" ~> cpc[c] # "waiting"

\* A cut always ends, and without waiting for a timer.
CutServed == opc = "cut" ~> opc # "cut"

\* So does a close, with both threads gone.
CloseServed == opc = "join" ~> opc = "ended"

\* When flush_interval and sync_interval pass (flusher.rs:136, 147), what nobody
\* waits for becomes durable too: again and again there is a moment at which
\* everything appended so far is.
AllDurable ==
    WF_vars(ParkTimeout) /\ WF_vars(SyncTick)
        => []<>(\A n \in 1 .. end : Durable(n))

================================================================================
