------------------------------- MODULE Handover -------------------------------
(***************************************************************************)
(* One server stops and the next one starts on the same directory.         *)
(* Persistence (db.rs:43) drops the segment store, and the LOCK file with  *)
(* it, before the Wal, whose flusher is still writing what the buffer      *)
(* holds: from then on both servers use the files of the log.              *)
(*                                                                         *)
(* There is one series; a sample is its timestamp and a record of the log  *)
(* one sample. A place of a file that holds no whole record is a Hole.     *)
(***************************************************************************)
EXTENDS Integers, Sequences, FiniteSetsExt, Functions

CONSTANTS
    Times,        \* that may be written
    SegmentMax,   \* records after which the flusher rotates
    MaxWrites, MaxOpens   \* bounds on a run

ASSUME HandoverAssumption ==
    /\ Times \subseteq Nat \ {0} /\ SegmentMax \in Nat \ {0}
    /\ MaxWrites \in Nat /\ MaxOpens \in Nat

VARIABLES
    lock,       \* "old", "new" or "none"
    files,      \* the log: id -> what it holds
    saved,      \* the samples in the data segments, in order
    \* The server that stops: where it is, the samples in memory, the log's
    \* buffer, the flusher's batch, the file it writes and how far, and
    \* whether a record is half written.
    oldPc, oldMem, buf, hand, cur, pos, half,
    \* The one that starts: where it is, the files it found, its place in
    \* them, the samples it replayed, and the files it is about to remove.
    newPc, found, at, next, newMem, doomed,
    accepted,   \* every sample the old server took (ghost)
    flushed,    \* it stopped by way of db.flush() (ghost)
    buffered,   \* what its log had not written when it let LOCK go (ghost)
    late,       \* it has written to its log since then (ghost)
    writes, opens   \* counted for the bounds

oldVars == <<oldPc, oldMem, buf, hand, cur, pos, half>>
newVars == <<newPc, found, at, next, newMem, doomed>>
ghosts == <<accepted, flushed, buffered, late, writes, opens>>
vars == <<lock, files, saved, oldVars, newVars, ghosts>>

Hole == 0

OnlyFile(id) == [f \in {id} |-> <<>>]
WithFile(id) == [f \in DOMAIN files \cup {id} |-> IF f = id THEN <<>> ELSE files[f]]

Init ==
    /\ lock = "old" /\ files = OnlyFile(1) /\ saved = <<>>
    /\ oldPc = "up" /\ oldMem = <<>> /\ buf = <<>> /\ hand = <<>>
    /\ cur = 1 /\ pos = 0 /\ half = FALSE
    /\ newPc = "closed" /\ found = {} /\ at = 0 /\ next = 1 /\ newMem = <<>> /\ doomed = {}
    /\ accepted = <<>> /\ flushed = FALSE /\ buffered = {} /\ late = FALSE
    /\ writes = 0 /\ opens = 0

Accepts(samples, t) == \A n \in DOMAIN samples : samples[n] < t

-----------------------------------------------------------------------------
(* The old server. *)

\* Db::write: late samples are logged too.
Write(t) ==
    /\ oldPc = "up" /\ writes < MaxWrites
    /\ writes' = writes + 1 /\ buf' = Append(buf, t)
    /\ IF Accepts(accepted, t)
       THEN oldMem' = Append(oldMem, t) /\ accepted' = Append(accepted, t)
       ELSE UNCHANGED <<oldMem, accepted>>
    /\ UNCHANGED <<lock, files, saved, oldPc, hand, cur, pos, half, newVars,
                   flushed, buffered, late, opens>>

Running == oldPc \in {"up", "flushed", "dropping"}
Unwritten == Range(hand) \cup Range(buf)

\* The process ends, and LOCK with it.
Dies ==
    /\ oldPc' = "gone"
    /\ IF lock = "old" THEN lock' = "none" /\ buffered' = Unwritten
                       ELSE UNCHANGED <<lock, buffered>>

\* The flusher takes the buffer; a full segment is closed first. If the next
\* one exists already, creating it fails and the process aborts.
Take ==
    /\ Running /\ hand = <<>> /\ buf # <<>>
    /\ hand' = buf /\ buf' = <<>>
    /\ \/ pos < SegmentMax /\ UNCHANGED <<files, cur, pos, oldPc, lock, buffered>>
       \/ pos >= SegmentMax /\ cur + 1 \in DOMAIN files /\ Dies /\ UNCHANGED <<files, cur, pos>>
       \/ /\ pos >= SegmentMax /\ cur + 1 \notin DOMAIN files
          /\ files' = WithFile(cur + 1) /\ cur' = cur + 1 /\ pos' = 0
          /\ UNCHANGED <<oldPc, lock, buffered>>
    /\ UNCHANGED <<saved, oldMem, half, newVars, accepted, flushed, late, writes, opens>>

\* At its own offset: a file the other server has cut gets holes, one that it
\* has removed is written in vain.
Patched(file, record) ==
    [n \in 1 .. IF pos < Len(file) THEN Len(file) ELSE pos + 1 |->
        IF n = pos + 1 THEN record ELSE IF n <= Len(file) THEN file[n] ELSE Hole]
Put(record) ==
    [f \in DOMAIN files |-> IF f = cur THEN Patched(files[f], record) ELSE files[f]]

WriteHalf ==
    /\ Running /\ hand # <<>> /\ ~half
    /\ files' = Put(Hole) /\ half' = TRUE /\ late' = (late \/ oldPc = "dropping")
    /\ UNCHANGED <<lock, saved, oldPc, oldMem, buf, hand, cur, pos, newVars,
                   accepted, flushed, buffered, writes, opens>>

WriteRest ==
    /\ Running /\ half
    /\ LET cut == cur \in DOMAIN files /\ Len(files[cur]) <= pos
       IN  files' = Put(IF cut THEN Hole ELSE Head(hand))
    /\ half' = FALSE /\ hand' = Tail(hand) /\ pos' = pos + 1
    /\ late' = (late \/ oldPc = "dropping")
    /\ UNCHANGED <<lock, saved, oldPc, oldMem, buf, cur, newVars,
                   accepted, flushed, buffered, writes, opens>>

\* The log is trimmed although the segment could not be saved.
MistakenFlush ==
    /\ oldPc = "up" /\ oldPc' = "flushed" /\ flushed' = TRUE
    /\ oldMem # <<>> /\ hand = <<>> /\ buf = <<>>
    /\ oldMem' = <<>>
    /\ files' = OnlyFile(cur + 1) /\ cur' = cur + 1 /\ pos' = 0
    /\ UNCHANGED <<lock, saved, buf, hand, half, newVars,
                   accepted, buffered, late, writes, opens>>

\* db.flush() once the server has answered its last request: the cut waits for
\* an empty buffer, and there is no cut when memory holds nothing.
Flush ==
    /\ oldPc = "up" /\ oldPc' = "flushed" /\ flushed' = TRUE
    /\ IF oldMem = <<>> THEN UNCHANGED <<files, saved, oldMem, cur, pos>>
       ELSE /\ hand = <<>> /\ buf = <<>>
            /\ saved' = saved \o oldMem /\ oldMem' = <<>>
            /\ files' = OnlyFile(cur + 1) /\ cur' = cur + 1 /\ pos' = 0
    /\ UNCHANGED <<lock, buf, hand, half, newVars,
                   accepted, buffered, late, writes, opens>>

\* The Db is dropped, after db.flush() or without it (main.rs:45): first the
\* segment store.
Drop ==
    /\ oldPc \in {"up", "flushed"} /\ oldPc' = "dropping"
    /\ lock' = "none" /\ buffered' = Unwritten
    /\ UNCHANGED <<files, saved, oldMem, buf, hand, cur, pos, half, newVars,
                   accepted, flushed, late, writes, opens>>

\* The flusher finds the buffer closed and empty.
Joined ==
    /\ oldPc = "dropping" /\ hand = <<>> /\ buf = <<>>
    /\ oldPc' = "gone"
    /\ UNCHANGED <<lock, files, saved, oldMem, buf, hand, cur, pos, half, newVars, ghosts>>

Kill ==
    /\ Running /\ Dies
    /\ UNCHANGED <<files, saved, oldMem, buf, hand, cur, pos, half, newVars,
                   accepted, flushed, late, writes, opens>>

-----------------------------------------------------------------------------
(* The new server: Db::open_with. *)

LastFound == Max(found \cup {0})

\* The lock is taken, the data segments are read and the log is listed.
Open ==
    /\ newPc = "closed" /\ lock = "none"
    /\ opens < MaxOpens /\ opens' = opens + 1
    /\ lock' = "new" /\ newPc' = "reading"
    /\ found' = DOMAIN files /\ at' = 0 /\ next' = 1
    /\ newMem' = <<>>
    /\ UNCHANGED <<files, saved, oldVars, doomed, accepted, flushed, buffered, late, writes>>

\* Whatever the log holds is taken.
MistakenApplied(t) == Append(newMem, t)
\* Samples that a segment holds, or that are late, are dropped.
Applied(t) == IF Accepts(saved \o newMem, t) THEN Append(newMem, t) ELSE newMem

Reading == newPc = "reading" /\ at \in found

\* Whatever comes next in a file is handed on.
MistakenReadRecord ==
    /\ Reading /\ next <= Len(files[at])
    /\ newMem' = Applied(files[at][next]) /\ next' = next + 1
    /\ UNCHANGED <<lock, files, saved, oldVars, newPc, found, at, doomed, ghosts>>

ReadRecord ==
    /\ Reading /\ next <= Len(files[at]) /\ files[at][next] # Hole
    /\ newMem' = Applied(files[at][next]) /\ next' = next + 1
    /\ UNCHANGED <<lock, files, saved, oldVars, newPc, found, at, doomed, ghosts>>

\* The end of a file, or no file yet.
NextFile ==
    /\ newPc = "reading" /\ (at \in found => next > Len(files[at]))
    /\ IF at >= LastFound
       THEN newPc' = "replayed" /\ UNCHANGED <<at, next>>
       ELSE at' = Min({f \in found : f > at}) /\ next' = 1 /\ UNCHANGED newPc
    /\ UNCHANGED <<lock, files, saved, oldVars, found, newMem, doomed, ghosts>>

\* The end is found but left in the file.
MistakenReadHole ==
    /\ Reading /\ next <= Len(files[at]) /\ files[at][next] = Hole
    /\ newPc' = (IF at = LastFound THEN "replayed" ELSE "refused")
    /\ UNCHANGED <<lock, files, saved, oldVars, found, at, next, newMem, doomed, ghosts>>

\* Something other than a record: the last file is cut there, any other is
\* refused.
ReadHole ==
    /\ Reading /\ next <= Len(files[at]) /\ files[at][next] = Hole
    /\ IF at = LastFound
       THEN /\ newPc' = "replayed" /\ files' = [files EXCEPT ![at] = SubSeq(@, 1, next - 1)]
            /\ UNCHANGED lock
       ELSE newPc' = "refused" /\ lock' = "none" /\ UNCHANGED files
    /\ UNCHANGED <<saved, oldVars, found, at, next, newMem, doomed, ghosts>>

\* The old server may have created the file meanwhile: then the open fails and
\* may be tried again.
Create ==
    /\ newPc = "replayed"
    /\ IF LastFound + 1 \in DOMAIN files
       THEN newPc' = "closed" /\ lock' = "none" /\ UNCHANGED files
       ELSE /\ newPc' = "created" /\ UNCHANGED lock
            /\ files' = WithFile(LastFound + 1)
    /\ UNCHANGED <<saved, oldVars, found, at, next, newMem, doomed, ghosts>>

\* The flush of what was replayed begins with a cut: the new log, still empty,
\* rotates. Were that file there, the process would abort, which is Killed.
Cut ==
    /\ newPc = "created" /\ newMem # <<>> /\ LastFound + 2 \notin DOMAIN files
    /\ newPc' = "cut" /\ files' = WithFile(LastFound + 2)
    /\ UNCHANGED <<lock, saved, oldVars, found, at, next, newMem, doomed, ghosts>>

\* With nothing in memory there is no flush, and so no cut.
NothingToFlush ==
    /\ newPc = "created" /\ newMem = <<>>
    /\ newPc' = "trimmed"
    /\ UNCHANGED <<lock, files, saved, oldVars, found, at, next, newMem, doomed, ghosts>>

\* The replayed samples stay in memory only.
MistakenSave ==
    /\ newPc = "cut" /\ newPc' = "saved"
    /\ UNCHANGED <<lock, saved, files, oldVars, found, at, next, newMem, doomed, ghosts>>

Save ==
    /\ newPc = "cut" /\ newPc' = "saved"
    /\ saved' = saved \o newMem /\ newMem' = <<>>
    /\ UNCHANGED <<lock, files, oldVars, found, at, next, doomed, ghosts>>

\* remove_through twice, for the flush up to its cut and for open_with up to the
\* last file replayed: each lists the files, then unlinks a file at a time.
\* What the old server creates behind that stays.
List ==
    /\ \/ newPc = "saved" /\ newPc' = "trimming"
          /\ doomed' = {f \in DOMAIN files : f <= LastFound + 1}
       \/ newPc = "trimmed" /\ newPc' = "removing"
          /\ doomed' = {f \in DOMAIN files : f <= LastFound}
    /\ UNCHANGED <<lock, files, saved, oldVars, found, at, next, newMem, ghosts>>

RemoveFile ==
    /\ newPc \in {"trimming", "removing"} /\ doomed # {}
    /\ files' = Restrict(files, DOMAIN files \ {Min(doomed)})
    /\ doomed' = doomed \ {Min(doomed)}
    /\ UNCHANGED <<lock, saved, oldVars, newPc, found, at, next, newMem, ghosts>>

Removed ==
    /\ newPc \in {"trimming", "removing"} /\ doomed = {}
    /\ newPc' = IF newPc = "trimming" THEN "trimmed" ELSE "up"
    /\ UNCHANGED <<lock, files, saved, oldVars, found, at, next, newMem, doomed, ghosts>>

\* It is killed before it is up, and may be started again.
Killed ==
    /\ lock = "new" /\ newPc # "up"
    /\ newPc' = "closed" /\ lock' = "none" /\ newMem' = <<>> /\ doomed' = {}
    /\ UNCHANGED <<files, saved, oldVars, found, at, next, ghosts>>

Next ==
    \/ \E t \in Times : Write(t)
    \/ Take \/ WriteHalf \/ WriteRest \/ Flush \/ Drop \/ Joined \/ Kill
    \/ Open \/ ReadRecord \/ NextFile \/ ReadHole \/ Create \/ Cut \/ NothingToFlush \/ Save
    \/ List \/ RemoveFile \/ Removed \/ Killed

Spec == Init /\ [][Next]_vars

-----------------------------------------------------------------------------
(* Properties. *)

TypeOK ==
    /\ lock \in {"old", "new", "none"}
    /\ \A f \in DOMAIN files : f \in Nat /\ files[f] \in Seq(Times \cup {Hole})
    /\ {saved, oldMem, buf, hand, newMem, accepted} \subseteq Seq(Times)
    /\ oldPc \in {"up", "flushed", "dropping", "gone"}
    /\ newPc \in {"closed", "reading", "replayed", "created", "cut", "saved", "trimming",
                 "trimmed", "removing", "up", "refused"}
    /\ cur \in Nat /\ pos \in Nat /\ half \in BOOLEAN /\ (half => hand # <<>>)
    /\ found \subseteq Nat /\ at \in Nat /\ next \in Nat /\ doomed \subseteq DOMAIN files
    /\ newPc = "reading" => found \subseteq DOMAIN files
    /\ {flushed, late} \subseteq BOOLEAN

\* Once the new server is up, it shows every sample the old one accepted but
\* those its log had still in memory when LOCK was released (db.rs:43): what
\* the log had written is neither cut off nor removed before it is saved,
\* although the old server goes on writing to the files that are replayed.
OnlyBufferedLost ==
    newPc = "up" => Range(accepted) \ buffered \subseteq Range(saved)

\* After main.rs's stop, db.flush() and then the drop, nothing at all is lost.
FlushedStopKeeps ==
    flushed /\ newPc = "up" => Range(accepted) \subseteq Range(saved)

\* The new server refuses the log (reader.rs:53) only if the old one has written
\* to it after it let LOCK go: a server that is killed, or dropped with an empty
\* buffer, leaves nothing a start cannot repair, even if that start is killed.
RefusedOnlyIfLate == newPc = "refused" => late

\* No sample is saved twice or out of order, however much of the log is replayed
\* over segments that hold it already (series.rs:34, segment.rs:222): the
\* next start would refuse such a segment.
SavedInOrder ==
    \A n \in 1 .. Len(saved) - 1 : saved[n] < saved[n + 1]
================================================================================
