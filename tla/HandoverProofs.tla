---------------------------- MODULE HandoverProofs ----------------------------
(***************************************************************************)
(* Two servers over one directory, for any samples, segment size and       *)
(* number of starts: LOCK has one holder, what they save stays in order,   *)
(* and what the first had written to its log by the time it let LOCK go is *)
(* replayed and saved by the second. The first part (IInv) is about what   *)
(* is saved and in memory, the second (SInv) about the files of the log.   *)
(***************************************************************************)
EXTENDS Handover, WellFoundedInduction, TLAPS

Places == Times \cup {Hole}

Ascending(s) == \A n \in 1 .. Len(s) - 1 : s[n] < s[n + 1]

FilesType == files \in [DOMAIN files -> Seq(Places)]

OldType ==
    /\ oldPc \in {"up", "flushed", "dropping", "gone"}
    /\ oldMem \in Seq(Times) /\ buf \in Seq(Times) /\ hand \in Seq(Times)
    /\ pos \in Nat /\ half \in BOOLEAN /\ (half => hand # <<>>)

\* What was replayed is saved, or there was nothing to save.
Done == {"saved", "trimming", "trimmed", "removing", "up"}

NewType ==
    /\ newPc \in {"closed", "reading", "replayed", "created", "cut", "refused"} \cup Done
    /\ next \in Nat \ {0} /\ newMem \in Seq(Times)
    /\ saved \in Seq(Times) /\ accepted \in Seq(Times)

\* While the old server is up or flushed it holds LOCK; while the new one opens
\* or is up, the new one does (segment.rs:42).
OneHolder ==
    /\ lock \in {"old", "new", "none"}
    /\ lock = "old" <=> oldPc \in {"up", "flushed"}
    /\ newPc \in {"reading", "replayed", "created", "cut"} \cup Done => lock = "new"

\* Only the new server removes what it found, and only once it has read it.
FoundThere == newPc = "reading" => found \subseteq DOMAIN files

\* What memory holds comes after what is saved, in whichever server has LOCK.
InOrder ==
    /\ Ascending(saved \o newMem)
    /\ lock = "old" => newMem = <<>> /\ accepted = saved \o oldMem /\ Ascending(accepted)

\* The files the new server is about to remove are there: without LOCK the old
\* one removes none.
DoomedThere ==
    doomed \subseteq DOMAIN files /\ (newPc \notin {"trimming", "removing"} => doomed = {})

IInv == FilesType /\ OldType /\ NewType /\ OneHolder /\ FoundThere /\ DoomedThere /\ InOrder

\* Steps of the new server that move it on and touch nothing both servers see,
\* and all that it does.
Advances == NothingToFlush \/ List \/ Removed
Starting ==
    \/ Open \/ ReadRecord \/ NextFile \/ ReadHole \/ Create \/ Cut \/ Save \/ Advances
    \/ RemoveFile \/ Killed

-----------------------------------------------------------------------------
(* Sequences. *)

\* A sample that the series accepts (series.rs:34) keeps it in order.
LEMMA AppendAscends ==
    ASSUME NEW s \in Seq(Times), NEW t \in Times, Ascending(s), Accepts(s, t)
    PROVE  Ascending(Append(s, t))
<1>1. Times \subseteq Nat
  BY HandoverAssumption
<1>2. Len(s) \in Nat /\ Append(s, t) \in Seq(Times) /\ Len(Append(s, t)) = Len(s) + 1
  OBVIOUS
<1>3. ASSUME NEW n \in 1 .. Len(Append(s, t)) - 1
      PROVE  Append(s, t)[n] < Append(s, t)[n + 1]
  <2>1. CASE n < Len(s)
    <3>1. n \in 1 .. Len(s) - 1 /\ Append(s, t)[n] = s[n] /\ Append(s, t)[n + 1] = s[n + 1]
      BY <2>1, <1>2
    <3> QED BY <3>1 DEF Ascending
  <2>2. CASE n = Len(s)
    <3>1. n \in DOMAIN s /\ Append(s, t)[n] = s[n] /\ Append(s, t)[n + 1] = t
      BY <2>2, <1>2
    <3> QED BY <3>1 DEF Accepts
  <2> QED BY <2>1, <2>2, <1>2
<1> QED BY <1>3 DEF Ascending

LEMMA AppendToSecond ==
    ASSUME NEW s \in Seq(Times), NEW m \in Seq(Times), NEW t \in Times
    PROVE  s \o Append(m, t) = Append(s \o m, t)
OBVIOUS

LEMMA PrefixAscends ==
    ASSUME NEW s \in Seq(Times), NEW m \in Seq(Times), Ascending(s \o m)
    PROVE  Ascending(s)
<1>1. Len(s) \in Nat /\ Len(m) \in Nat /\ Len(s \o m) = Len(s) + Len(m)
  OBVIOUS
<1>2. ASSUME NEW n \in 1 .. Len(s) - 1
      PROVE  s[n] < s[n + 1]
  <2>1. n \in 1 .. Len(s \o m) - 1 /\ (s \o m)[n] = s[n] /\ (s \o m)[n + 1] = s[n + 1]
    BY <1>1
  <2> QED BY <2>1 DEF Ascending
<1> QED BY <1>2 DEF Ascending

LEMMA NothingAdded == ASSUME NEW s \in Seq(Times) PROVE s \o <<>> = s
OBVIOUS

-----------------------------------------------------------------------------
(* The files. *)

\* However far the file has been cut, what a write leaves are places of a file.
LEMMA PatchedType ==
    ASSUME NEW file \in Seq(Places), NEW record \in Places, pos \in Nat
    PROVE  Patched(file, record) \in Seq(Places)
<1> DEFINE len == IF pos < Len(file) THEN Len(file) ELSE pos + 1
<1>1. len \in Nat /\ Len(file) \in Nat
  OBVIOUS
<1>2. ASSUME NEW n \in 1 .. len
      PROVE  (IF n = pos + 1 THEN record ELSE IF n <= Len(file) THEN file[n] ELSE Hole) \in Places
  <2>1. n <= Len(file) => file[n] \in Places
    BY <1>1
  <2> QED BY <2>1 DEF Places
<1>3. Patched(file, record) \in [1 .. len -> Places]
  BY <1>2 DEF Patched
<1> QED BY <1>1, <1>3

LEMMA PutType ==
    ASSUME FilesType, pos \in Nat, NEW record \in Places
    PROVE  /\ Put(record) \in [DOMAIN files -> Seq(Places)]
           /\ DOMAIN Put(record) = DOMAIN files
<1>1. \A f \in DOMAIN files : Patched(files[f], record) \in Seq(Places)
  BY PatchedType DEF FilesType
<1> QED BY <1>1 DEF Put, FilesType

\* Every step leaves sequences of places in the files.
LEMMA FilesTyped == IInv /\ [Next]_vars => FilesType'
<1> SUFFICES ASSUME IInv, [Next]_vars PROVE FilesType'
  OBVIOUS
<1> USE DEF IInv, FilesType
<1>e. <<>> \in Seq(Places)
  OBVIOUS
<1>w. ASSUME NEW id, files' = WithFile(id) PROVE FilesType'
  BY <1>e, <1>w DEF WithFile
<1>o. ASSUME NEW id, files' = OnlyFile(id) PROVE FilesType'
  BY <1>e, <1>o DEF OnlyFile
<1>p. ASSUME NEW record \in Places, files' = Put(record) PROVE FilesType'
  BY <1>p, PutType DEF OldType
<1>u. CASE UNCHANGED files
  BY <1>u
<1>1. CASE Take
  BY <1>1, <1>w, <1>u DEF Take, Dies
<1>2. CASE WriteHalf
  BY <1>2, <1>p DEF WriteHalf, Places
<1>3. CASE WriteRest
  <2>1. Head(hand) \in Times
    BY <1>3 DEF WriteRest, OldType
  <2> QED BY <2>1, <1>3, <1>p DEF WriteRest, Places
<1>4. CASE Flush
  BY <1>4, <1>o, <1>u DEF Flush
<1>5. CASE ReadHole
  <2>1. CASE UNCHANGED files
    BY <2>1
  <2>2. CASE files' = [files EXCEPT ![at] = SubSeq(@, 1, next - 1)]
    <3>1. at \in DOMAIN files /\ files[at] \in Seq(Places) /\ next <= Len(files[at])
      BY <1>5 DEF ReadHole, Reading, FoundThere
    <3>2. next - 1 \in Nat /\ next - 1 <= Len(files[at])
      BY <3>1 DEF NewType
    <3>3. SubSeq(files[at], 1, next - 1) \in Seq(Places)
      BY <3>1, <3>2
    <3> QED BY <2>2, <3>1, <3>3
  <2> QED BY <1>5, <2>1, <2>2 DEF ReadHole
<1>6. CASE Create \/ Cut
  BY <1>6, <1>w, <1>u DEF Create, Cut
<1>7. CASE RemoveFile
  BY <1>7 DEF RemoveFile, Restrict
<1> QED
  BY <1>1, <1>2, <1>3, <1>4, <1>5, <1>6, <1>7, <1>u
     DEF Next, vars, Write, Drop, Joined, Kill, Dies, Open, ReadRecord, NextFile,
         NothingToFlush, Save, List, Removed, Killed

-----------------------------------------------------------------------------
(* The servers. *)

LEMMA OldTyped == IInv /\ [Next]_vars => OldType'
<1> SUFFICES ASSUME IInv, [Next]_vars PROVE OldType'
  OBVIOUS
<1> USE DEF IInv, OldType
<1>u. CASE UNCHANGED oldVars
  BY <1>u DEF oldVars
<1>1. ASSUME NEW t \in Times, Write(t) PROVE OldType'
  <2>1. Append(buf, t) \in Seq(Times) /\ Append(oldMem, t) \in Seq(Times)
    OBVIOUS
  <2>2. buf' \in Seq(Times) /\ oldMem' \in Seq(Times)
    BY <1>1, <2>1 DEF Write
  <2>3. UNCHANGED <<oldPc, hand, pos, half>>
    BY <1>1 DEF Write
  <2> QED BY <2>2, <2>3
<1>2. CASE Take
  BY <1>2 DEF Take, Dies
<1>3. CASE WriteHalf
  BY <1>3 DEF WriteHalf
<1>4. CASE WriteRest
  <2>1. Tail(hand) \in Seq(Times) /\ pos + 1 \in Nat
    BY <1>4 DEF WriteRest
  <2>2. /\ hand' = Tail(hand) /\ pos' = pos + 1 /\ half' = FALSE
        /\ UNCHANGED <<oldPc, oldMem, buf>>
    BY <1>4 DEF WriteRest
  <2> QED BY <2>1, <2>2
<1>5. CASE Flush
  BY <1>5 DEF Flush
<1>6. CASE Drop \/ Joined \/ Kill
  BY <1>6 DEF Drop, Joined, Kill, Dies
<1> QED
  BY <1>1, <1>2, <1>3, <1>4, <1>5, <1>6, <1>u
     DEF Next, vars, Starting, Open, ReadRecord, NextFile, ReadHole, Create, Cut, Save, Advances,
         NothingToFlush, List, Removed, RemoveFile, Killed

\* A record that replay finds in a file it has listed is a sample.
LEMMA RecordRead ==
    ASSUME IInv, ReadRecord PROVE files[at][next] \in Times
<1>1. files[at] \in Seq(Places) /\ next \in 1 .. Len(files[at])
  BY DEF IInv, ReadRecord, Reading, FoundThere, FilesType, NewType
<1>2. files[at][next] \in Places
  BY <1>1
<1> QED BY <1>2 DEF ReadRecord, Places

LEMMA NewTyped == IInv /\ [Next]_vars => NewType'
<1> SUFFICES ASSUME IInv, [Next]_vars PROVE NewType'
  OBVIOUS
<1> USE DEF IInv, NewType, Done
<1>u. CASE UNCHANGED <<newVars, saved, accepted>>
  BY <1>u DEF newVars
<1>1. ASSUME NEW t \in Times, Write(t) PROVE NewType'
  <2>1. Append(accepted, t) \in Seq(Times)
    OBVIOUS
  <2>2. accepted' \in Seq(Times)
    BY <1>1, <2>1 DEF Write
  <2>3. UNCHANGED <<newPc, next, newMem, saved>>
    BY <1>1 DEF Write, newVars
  <2> QED BY <2>2, <2>3
<1>2. CASE Flush
  <2>1. saved \o oldMem \in Seq(Times)
    BY DEF OldType
  <2> QED BY <1>2, <2>1 DEF Flush, newVars
<1>3. CASE Open
  BY <1>3 DEF Open
<1>4. CASE ReadRecord
  <2>1. newMem' \in Seq(Times)
    BY <1>4, RecordRead DEF ReadRecord, Applied
  <2>2. next' = next + 1 /\ UNCHANGED <<newPc, saved, accepted>>
    BY <1>4 DEF ReadRecord, ghosts
  <2>3. next' \in Nat \ {0}
    BY <2>2
  <2> QED BY <2>1, <2>2, <2>3
<1>5. CASE NextFile \/ ReadHole \/ Create \/ Cut \/ Advances \/ RemoveFile \/ Killed
  <2>1. /\ UNCHANGED <<saved, accepted>> /\ (newMem' = newMem \/ newMem' = <<>>)
        /\ (next' = next \/ next' = 1)
    <3>1. CASE NextFile
      BY <3>1 DEF NextFile, ghosts
    <3>2. CASE ReadHole \/ Create \/ Cut \/ Advances \/ RemoveFile \/ Killed
      BY <3>2
         DEF ReadHole, Create, Cut, Advances, NothingToFlush, List, Removed, RemoveFile, Killed,
             ghosts
    <3> QED BY <1>5, <3>1, <3>2
  <2>2. newPc' \in {newPc, "closed", "replayed", "refused", "created", "cut"} \cup Done
    BY <1>5
       DEF NextFile, ReadHole, Create, Cut, Advances, NothingToFlush, List, Removed, RemoveFile,
           Killed
  <2>3. <<>> \in Seq(Times) /\ 1 \in Nat \ {0}
    OBVIOUS
  <2>4. newMem' \in Seq(Times)
    BY <2>1, <2>3, Zenon
  <2>5. next' \in Nat \ {0}
    BY <2>1, <2>3, Zenon
  <2> QED BY <2>1, <2>2, <2>4, <2>5
<1>6. CASE Save
  <2>1. saved \o newMem \in Seq(Times)
    OBVIOUS
  <2> QED BY <1>6, <2>1 DEF Save, ghosts
<1> QED
  BY <1>1, <1>2, <1>3, <1>4, <1>5, <1>6, <1>u
     DEF Next, Advances, vars, ghosts, Take, WriteHalf, WriteRest, Drop, Joined, Kill, Dies

\* LOCK is taken when nobody holds it and let go by its holder.
LEMMA HolderKept == IInv /\ [Next]_vars => OneHolder'
<1> SUFFICES ASSUME IInv, [Next]_vars PROVE OneHolder'
  OBVIOUS
<1> USE DEF IInv, OneHolder, OldType, NewType, Done
<1>u. CASE UNCHANGED <<lock, oldPc, newPc>>
  BY <1>u
<1>1. CASE Take
  <2>1. newPc' = newPc
    BY <1>1 DEF Take, newVars
  <2>2. \/ UNCHANGED <<lock, oldPc>>
        \/ oldPc' = "gone" /\ lock' = IF lock = "old" THEN "none" ELSE lock
    BY <1>1 DEF Take, Dies
  <2> QED BY <2>1, <2>2
<1>2. CASE Flush \/ Drop \/ Joined \/ Kill
  BY <1>2 DEF Flush, Drop, Joined, Kill, Dies, Running, newVars
<1>3. CASE Open \/ NextFile \/ ReadHole \/ Create
  BY <1>3 DEF Open, NextFile, ReadHole, Create, Reading, oldVars
<1>4. CASE Save \/ Cut \/ Advances \/ RemoveFile \/ Killed
  BY <1>4 DEF Cut, Save, Advances, NothingToFlush, List, Removed, RemoveFile, Killed, oldVars
<1> QED
  BY <1>1, <1>2, <1>3, <1>4, <1>u
     DEF Next, Advances, vars, newVars, oldVars, Write, WriteHalf, WriteRest, ReadRecord

\* While the log is read no file is taken away.
LEMMA FoundKept == IInv /\ [Next]_vars => FoundThere'
<1> SUFFICES ASSUME IInv, [Next]_vars, newPc' = "reading" PROVE found' \subseteq DOMAIN files'
  BY DEF FoundThere
<1> USE DEF IInv, FoundThere
<1>1. CASE Open
  BY <1>1 DEF Open
<1>2. ASSUME newPc = "reading", found' = found, DOMAIN files \subseteq DOMAIN files'
      PROVE  found' \subseteq DOMAIN files'
  BY <1>2
<1>3. CASE Take
  BY <1>3, <1>2 DEF Take, Dies, WithFile, newVars
<1>4. CASE WriteHalf \/ WriteRest
  BY <1>4, <1>2 DEF WriteHalf, WriteRest, Put, newVars
<1>5. CASE Flush
  BY <1>5 DEF Flush, newVars, OneHolder
<1>6. CASE ReadHole \/ Create \/ Cut \/ Save \/ Advances \/ RemoveFile \/ Killed
  BY <1>6
     DEF ReadHole, Create, Cut, Save, Advances, NothingToFlush, List, Removed, RemoveFile, Killed
<1> QED
  BY <1>1, <1>2, <1>3, <1>4, <1>5, <1>6
     DEF Next, Advances, vars, newVars, Write, Drop, Joined, Kill, Dies, ReadRecord, NextFile

\* The old server's flush alone takes files away besides, and it needs LOCK.
LEMMA DoomedKept == IInv /\ [Next]_vars => DoomedThere'
<1> SUFFICES ASSUME IInv, [Next]_vars PROVE DoomedThere'
  OBVIOUS
<1> USE DEF IInv, DoomedThere
<1>1. ASSUME UNCHANGED <<newPc, doomed>>, doomed = {} \/ DOMAIN files \subseteq DOMAIN files'
      PROVE  DoomedThere'
  BY <1>1
<1>2. CASE Take
  BY <1>2, <1>1 DEF Take, Dies, WithFile, newVars
<1>3. CASE WriteHalf \/ WriteRest
  BY <1>3, <1>1 DEF WriteHalf, WriteRest, Put, newVars
<1>4. CASE Flush
  <2>1. newPc \in {"closed", "refused"}
    BY <1>4 DEF Flush, OneHolder, NewType
  <2> QED BY <1>4, <2>1, <1>1 DEF Flush, newVars
<1>5. CASE (\E t \in Times : Write(t)) \/ Drop \/ Joined \/ Kill \/ ReadRecord \/ UNCHANGED vars
  BY <1>5, <1>1 DEF Write, Drop, Joined, Kill, Dies, ReadRecord, vars, newVars
<1>6. CASE Open \/ NextFile \/ ReadHole \/ Create \/ Cut \/ NothingToFlush \/ Save
  BY <1>6 DEF Open, NextFile, ReadHole, Reading, Create, Cut, NothingToFlush, Save
<1>7. CASE List
  BY <1>7 DEF List
<1>8. CASE RemoveFile
  BY <1>8 DEF RemoveFile, Restrict
<1>9. CASE Removed \/ Killed
  BY <1>9 DEF Removed, Killed
<1> QED BY <1>2, <1>3, <1>4, <1>5, <1>6, <1>7, <1>8, <1>9 DEF Next

-----------------------------------------------------------------------------
(* The order. *)

LEMMA OrderKept == IInv /\ [Next]_vars => InOrder'
<1> SUFFICES ASSUME IInv, [Next]_vars PROVE InOrder'
  OBVIOUS
<1> USE DEF IInv
<1>t. saved \in Seq(Times) /\ newMem \in Seq(Times) /\ oldMem \in Seq(Times)
      /\ accepted \in Seq(Times) /\ saved \o newMem \in Seq(Times)
  BY DEF OldType, NewType
<1>u. ASSUME UNCHANGED <<saved, newMem, oldMem, accepted>>, lock' = "old" => lock = "old"
      PROVE  InOrder'
  BY <1>u DEF InOrder
<1>1. ASSUME NEW t \in Times, Write(t) PROVE InOrder'
  <2>1. lock = "old" /\ lock' = "old" /\ UNCHANGED <<saved, newMem>>
    BY <1>1 DEF Write, OneHolder, newVars
  <2>2. CASE Accepts(accepted, t)
    <3>1. accepted' = Append(accepted, t) /\ oldMem' = Append(oldMem, t)
      BY <1>1, <2>2 DEF Write
    <3>2. accepted' = saved \o oldMem'
      <4>1. saved \o Append(oldMem, t) = Append(saved \o oldMem, t)
        BY <1>t, AppendToSecond
      <4> QED BY <2>1, <3>1, <4>1 DEF InOrder
    <3>3. Ascending(accepted')
      BY <2>1, <2>2, <3>1, <1>t, AppendAscends DEF InOrder
    <3> QED BY <2>1, <3>2, <3>3 DEF InOrder
  <2>3. CASE ~Accepts(accepted, t)
    BY <1>1, <2>1, <2>3 DEF Write, InOrder
  <2> QED BY <2>2, <2>3
<1>2. CASE Flush
  <2>1. lock = "old" /\ UNCHANGED <<lock, newMem, accepted>>
    BY <1>2 DEF Flush, OneHolder, newVars
  <2>2. CASE oldMem = <<>>
    BY <1>2, <2>1, <2>2 DEF Flush, InOrder
  <2>3. CASE oldMem # <<>>
    <3>1. saved' = saved \o oldMem /\ oldMem' = <<>> /\ saved' = accepted
      BY <1>2, <2>1, <2>3 DEF Flush, InOrder
    <3>2. saved' \o newMem' = accepted /\ saved' \o oldMem' = accepted
      BY <2>1, <3>1, <1>t, NothingAdded DEF InOrder
    <3> QED BY <2>1, <3>2 DEF InOrder
  <2> QED BY <2>2, <2>3
<1>3. CASE Open \/ Killed
  <2>1. newMem' = <<>> /\ saved' = saved /\ lock' # "old"
    BY <1>3 DEF Open, Killed
  <2>2. Ascending(saved' \o newMem')
    BY <2>1, <1>t, PrefixAscends, NothingAdded DEF InOrder
  <2> QED BY <2>1, <2>2 DEF InOrder
<1>4. CASE ReadRecord
  <2> DEFINE t == files[at][next]
  <2>0. t \in Times
    BY <1>4, RecordRead
  <2>1. lock' # "old" /\ saved' = saved /\ newMem' = Applied(t)
    BY <1>4 DEF ReadRecord, Reading, OneHolder
  <2>2. CASE Accepts(saved \o newMem, t)
    <3>1. saved' \o newMem' = Append(saved \o newMem, t)
      BY <2>0, <2>1, <2>2, <1>t, AppendToSecond DEF Applied
    <3>2. Ascending(saved' \o newMem')
      BY <2>0, <2>2, <3>1, <1>t, AppendAscends DEF InOrder
    <3> QED BY <2>1, <3>2 DEF InOrder
  <2>3. CASE ~Accepts(saved \o newMem, t)
    BY <2>1, <2>3 DEF Applied, InOrder
  <2> QED BY <2>2, <2>3
<1>5. CASE Save
  <2>1. lock' # "old" /\ saved' = saved \o newMem /\ newMem' = <<>>
    BY <1>5 DEF Save, OneHolder
  <2>2. saved' \o newMem' = saved \o newMem
    BY <2>1, <1>t, NothingAdded
  <2> QED BY <2>1, <2>2 DEF InOrder
<1>6. CASE Take \/ WriteHalf \/ WriteRest
  BY <1>6, <1>u DEF Take, Dies, WriteHalf, WriteRest, newVars, ghosts
<1>7. CASE Drop \/ Joined \/ Kill
  BY <1>7, <1>u DEF Drop, Joined, Kill, Dies, newVars, ghosts
<1>8. CASE NextFile \/ ReadHole \/ Create \/ Cut \/ Advances \/ RemoveFile
  BY <1>8, <1>u
     DEF NextFile, ReadHole, Create, Cut, Advances, NothingToFlush, List, Removed, RemoveFile,
         oldVars, ghosts
<1>9. CASE UNCHANGED vars
  BY <1>9, <1>u DEF vars, oldVars, newVars, ghosts
<1> QED
  BY <1>1, <1>2, <1>3, <1>4, <1>5, <1>6, <1>7, <1>8, <1>9 DEF Next, Advances

-----------------------------------------------------------------------------

LEMMA Start == Init => IInv
<1> SUFFICES ASSUME Init PROVE IInv
  OBVIOUS
<1>1. FilesType
  BY DEF Init, FilesType, OnlyFile
<1>2. OldType /\ NewType
  <2>1. <<>> \in Seq(Times) /\ 0 \in Nat /\ 1 \in Nat \ {0}
    OBVIOUS
  <2>2. OldType
    BY <2>1 DEF Init, OldType
  <2>3. NewType
    BY <2>1 DEF Init, NewType
  <2> QED BY <2>2, <2>3
<1>4. OneHolder /\ FoundThere /\ DoomedThere
  BY DEF Init, OneHolder, FoundThere, DoomedThere, Done
<1>3. InOrder
  <2>1. <<>> \in Seq(Times) /\ <<>> \o <<>> = <<>>
    OBVIOUS
  <2>2. Ascending(<<>>)
    BY DEF Ascending
  <2> QED BY <2>1, <2>2 DEF Init, InOrder
<1> QED BY <1>1, <1>2, <1>3, <1>4 DEF IInv

LEMMA InvKept == IInv /\ [Next]_vars => IInv'
BY FilesTyped, OldTyped, NewTyped, HolderKept, FoundKept, DoomedKept, OrderKept DEF IInv

\* The inductive invariant of what is saved.
THEOREM HandoverInvariant == Spec => []IInv
BY Start, InvKept, PTL DEF Spec

\* Nothing is saved twice or out of order over a handover, although the log may
\* be replayed while it is written and over segments that hold its samples.
THEOREM SavesInOrder == Spec => []SavedInOrder
<1>1. IInv => SavedInOrder
  BY PrefixAscends DEF IInv, NewType, InOrder, SavedInOrder, Ascending
<1> QED BY <1>1, HandoverInvariant, PTL

-----------------------------------------------------------------------------
(* A stop by way of db.flush(). *)

SavesAll == flushed => oldPc # "up" /\ Range(accepted) \subseteq Range(saved)

LEMMA ConcatRange ==
    ASSUME NEW s \in Seq(Times), NEW m \in Seq(Times)
    PROVE  Range(s) \subseteq Range(s \o m)
<1>1. Len(s) \in Nat /\ Len(m) \in Nat /\ s \o m \in Seq(Times)
  OBVIOUS
<1>2. ASSUME NEW n \in DOMAIN s
      PROVE  n \in DOMAIN (s \o m) /\ (s \o m)[n] = s[n]
  BY <1>1
<1> QED BY <1>2 DEF Range

\* The flush saves whatever was accepted, and nothing is accepted after it.
LEMMA SavesAllKept == IInv /\ SavesAll /\ [Next]_vars => SavesAll'
<1> SUFFICES ASSUME IInv, SavesAll, [Next]_vars, flushed'
             PROVE  oldPc' # "up" /\ Range(accepted') \subseteq Range(saved')
  BY DEF SavesAll
<1> USE DEF SavesAll
<1>t. saved \in Seq(Times) /\ newMem \in Seq(Times) /\ oldMem \in Seq(Times)
  BY DEF IInv, OldType, NewType
<1>u. ASSUME flushed' = flushed, accepted' = accepted, saved' = saved, oldPc' = "up" => oldPc = "up"
      PROVE  oldPc' # "up" /\ Range(accepted') \subseteq Range(saved')
  BY <1>u
<1>1. ASSUME NEW t \in Times, Write(t) PROVE FALSE
  BY <1>1 DEF Write
<1>2. CASE Flush
  <2>1. lock = "old" /\ accepted = saved \o oldMem /\ accepted' = accepted
    BY <1>2 DEF Flush, IInv, OneHolder, InOrder
  <2>2. accepted = saved'
    <3>1. CASE oldMem = <<>>
      BY <1>2, <2>1, <3>1, <1>t, NothingAdded DEF Flush
    <3>2. CASE oldMem # <<>>
      BY <1>2, <2>1, <3>2 DEF Flush
    <3> QED BY <3>1, <3>2
  <2> QED BY <1>2, <2>1, <2>2 DEF Flush
<1>3. CASE Save
  <2>1. Range(saved) \subseteq Range(saved')
    BY <1>3, <1>t, ConcatRange DEF Save
  <2> QED BY <1>3, <2>1 DEF Save, oldVars, ghosts
<1>4. CASE Take \/ WriteHalf \/ WriteRest
  BY <1>4, <1>u DEF Take, Dies, WriteHalf, WriteRest
<1>5. CASE Drop \/ Joined \/ Kill
  BY <1>5, <1>u DEF Drop, Joined, Kill, Dies, ghosts
<1>6. CASE \/ Open \/ ReadRecord \/ NextFile \/ ReadHole \/ Create \/ Cut \/ Advances
           \/ RemoveFile \/ Killed
  BY <1>6, <1>u
     DEF Open, ReadRecord, NextFile, ReadHole, Create, Cut, Advances, NothingToFlush, List,
         Removed, RemoveFile, Killed, oldVars, ghosts
<1>7. CASE UNCHANGED vars
  BY <1>7, <1>u DEF vars, oldVars, ghosts
<1> QED BY <1>1, <1>2, <1>3, <1>4, <1>5, <1>6, <1>7 DEF Next, Advances

\* After main.rs's stop every sample the old server accepted is in a segment and
\* stays there (main.rs:46), whatever its flusher still writes to the log, and
\* however often the new server is killed while it starts.
THEOREM FlushedStopLosesNothing == Spec => []FlushedStopKeeps
<1>1. Init => SavesAll
  BY DEF Init, SavesAll
<1>2. SavesAll => FlushedStopKeeps
  BY DEF SavesAll, FlushedStopKeeps
<1> QED BY <1>1, <1>2, SavesAllKept, HandoverInvariant, PTL DEF Spec

-----------------------------------------------------------------------------
(* Least and greatest numbers. *)

LEMMA Least ==
    ASSUME NEW S \in SUBSET Nat, S # {}
    PROVE  \E x \in S : \A y \in S : x <= y
<1>1. \E x \in S : \A y \in S : ~ (<<y, x>> \in OpToRel(<, Nat))
  BY NatLessThanWellFounded, WFMin, Zenon
<1>2. PICK x \in S : \A y \in S : ~ (<<y, x>> \in OpToRel(<, Nat))
  BY <1>1, Zenon
<1>3. ASSUME NEW y \in S PROVE x <= y
  <2>1. x \in Nat /\ y \in Nat
    OBVIOUS
  <2>2. ~ (y < x)
    BY <1>2, <2>1, Zenon DEF OpToRel
  <2> QED BY <2>1, <2>2
<1> QED BY <1>3

LEMMA MinIs ==
    ASSUME NEW S \in SUBSET Nat, S # {}
    PROVE  Min(S) \in S /\ \A y \in S : Min(S) <= y
BY Least, Zenon DEF Min

\* A bounded set has a greatest number: its least upper bound.
LEMMA MaxIs ==
    ASSUME NEW S \in SUBSET Nat, S # {}, NEW b \in Nat, \A x \in S : x <= b
    PROVE  Max(S) \in S /\ \A y \in S : y <= Max(S)
<1> DEFINE U == {u \in Nat : \A x \in S : x <= u}
<1>1. PICK u \in U : \A v \in U : u <= v
  BY Least
<1>2. u \in S
  <2>1. SUFFICES ASSUME u \notin S PROVE FALSE
    OBVIOUS
  <2>2. \A x \in S : x <= u - 1
    BY <2>1
  <2>3. u # 0
    <3>1. PICK x \in S : TRUE
      OBVIOUS
    <3> QED BY <3>1, <2>2
  <2> QED BY <1>1, <2>2, <2>3
<1>3. \E x \in S : \A y \in S : x >= y
  BY <1>2
<1>4. Max(S) \in S /\ \A y \in S : Max(S) >= y
  BY <1>3, Zenon DEF Max
<1> QED BY <1>4

-----------------------------------------------------------------------------
(* Where a record is on its way to the files. *)

\* Record t is at place n of file f: the old server writes behind it, nothing
\* unreadable precedes it there, and all the log has before it is smaller.
At(t, f, n) ==
    /\ files[f][n] = t
    /\ f <= cur /\ (f = cur => n <= pos)
    /\ \A m \in 1 .. n : files[f][m] # Hole
    /\ \A g \in DOMAIN files : \A m \in DOMAIN files[g] :
          g < f \/ (g = f /\ m < n) => files[g][m] < t

FilesBelow(t) == \A f \in DOMAIN files : \A n \in DOMAIN files[f] : files[f][n] < t

First(t, q) == \E k \in DOMAIN q : q[k] = t /\ \A j \in 1 .. k - 1 : q[j] < t

InFile(t) == \E f \in DOMAIN files : \E n \in DOMAIN files[f] : At(t, f, n)

\* In a file, in the flusher's batch, or in the buffer.
Logged(t) ==
    \/ InFile(t)
    \/ FilesBelow(t) /\ First(t, hand)
    \/ FilesBelow(t) /\ Accepts(hand, t) /\ First(t, buf)

LateOf(samples, x) == \E a \in Range(samples) : x <= a

-----------------------------------------------------------------------------
(* The invariant. *)

Ids ==
    /\ DOMAIN files \subseteq Nat \ {0} /\ cur \in Nat \ {0}
    /\ \E b \in Nat : \A f \in DOMAIN files : f <= b
    /\ late \in BOOLEAN /\ flushed \in BOOLEAN
    /\ found \subseteq Nat \ {0} /\ at \in Nat
    /\ \E b \in Nat : \A f \in found : f <= b
    /\ newPc = "reading" => at \in found \cup {0}

\* While the old server has LOCK its flusher writes the last file, at its end.
AtEnd ==
    /\ ~ late
    /\ cur \in DOMAIN files /\ \A f \in DOMAIN files : f <= cur
    /\ Len(files[cur]) = IF half THEN pos + 1 ELSE pos
    /\ half => files[cur][pos + 1] = Hole
OldFiles == oldPc \in {"up", "flushed"} => AtEnd

\* While the old server has LOCK, a sample it accepted is saved, or on its way
\* to the files before anything that is not smaller.
OldLog ==
    lock = "old" =>
        /\ \A f \in DOMAIN files : \A n \in DOMAIN files[f] :
              files[f][n] # Hole => LateOf(accepted, files[f][n])
        /\ \A n \in DOMAIN hand : LateOf(accepted, hand[n])
        /\ \A n \in DOMAIN buf : LateOf(accepted, buf[n])
        /\ \A t \in Range(accepted) :
              t \in Range(saved) \/ (Accepts(saved, t) /\ Logged(t))

\* Replay comes to place n of file f, and will not find t late there.
Ahead(t, f, n) ==
    f \in found /\ (f > at \/ (f = at /\ n >= next)) /\ Accepts(newMem, t)

\* What is not saved is replayed from where it is, or in memory.
Replayed(t, f, n) ==
    /\ newPc = "reading" => t \in Range(newMem) \/ Ahead(t, f, n)
    /\ newPc \in {"replayed", "created", "cut"} => t \in Range(newMem)
    /\ newPc \notin Done

Kept(t) ==
    \/ t \in Range(saved)
    \/ /\ Accepts(saved, t)
       /\ \E f \in DOMAIN files : \E n \in DOMAIN files[f] :
             At(t, f, n) /\ Replayed(t, f, n)

NewLog == lock # "old" => \A t \in Range(accepted) \ buffered : Kept(t)

\* As long as the old server has left the log alone, only the end of the last
\* file is unreadable, and replay has it before it.
HoleAtEnd(f, n) ==
    /\ half /\ f = cur /\ n = pos + 1 /\ (\A g \in DOMAIN files : g <= f)
    /\ newPc \notin {"replayed", "created", "cut"} \cup Done
    /\ newPc = "reading" => f \in found /\ (at = f => n >= next)

Clean ==
    ~late =>
        /\ newPc # "refused"
        /\ \A f \in DOMAIN files : \A n \in DOMAIN files[f] :
              files[f][n] = Hole => HoleAtEnd(f, n)

SInv == IInv /\ Ids /\ OldFiles /\ OldLog /\ NewLog /\ Clean

-----------------------------------------------------------------------------
(* What a step leaves in the files. *)

LEMMA Sizes ==
    ASSUME FilesType, NEW f \in DOMAIN files
    PROVE  /\ files[f] \in Seq(Places) /\ Len(files[f]) \in Nat
           /\ DOMAIN files[f] = 1 .. Len(files[f])
BY DEF FilesType

LEMMA TimesAbove == Times \subseteq Nat /\ \A t \in Times : t # Hole /\ Hole < t
BY HandoverAssumption DEF Hole

\* After a write, a place holds what was written, what it held, or a hole that
\* fills a gap.
LEMMA PutFrom ==
    ASSUME FilesType, pos \in Nat, NEW record,
           NEW f \in DOMAIN files, NEW n \in DOMAIN Put(record)[f]
    PROVE  \/ f = cur /\ n = pos + 1 /\ Put(record)[f][n] = record
           \/ n \in DOMAIN files[f] /\ Put(record)[f][n] = files[f][n] /\ (f = cur => n # pos + 1)
           \/ f = cur /\ n \notin DOMAIN files[f] /\ n <= pos /\ Put(record)[f][n] = Hole
<1>1. CASE f # cur
  BY <1>1 DEF Put
<1>2. CASE f = cur
  <2>1. Len(files[f]) \in Nat /\ DOMAIN files[f] = 1 .. Len(files[f])
    BY Sizes
  <2>2. Put(record)[f] = Patched(files[f], record)
    BY <1>2 DEF Put
  <2>3. /\ n \in 1 .. IF pos < Len(files[f]) THEN Len(files[f]) ELSE pos + 1
        /\ Put(record)[f][n] = IF n = pos + 1 THEN record
                               ELSE IF n <= Len(files[f]) THEN files[f][n] ELSE Hole
    BY <2>2 DEF Patched
  <2> QED BY <1>2, <2>1, <2>3
<1> QED BY <1>1, <1>2

LEMMA PutKeeps ==
    ASSUME FilesType, pos \in Nat, NEW record,
           NEW f \in DOMAIN files, NEW n \in DOMAIN files[f], f = cur => n # pos + 1
    PROVE  n \in DOMAIN Put(record)[f] /\ Put(record)[f][n] = files[f][n]
<1>1. CASE f # cur
  BY <1>1 DEF Put
<1>2. CASE f = cur
  <2>1. Len(files[f]) \in Nat /\ n \in 1 .. Len(files[f])
    BY Sizes
  <2>2. Put(record)[f] = Patched(files[f], record)
    BY <1>2 DEF Put
  <2>3. n \in 1 .. IF pos < Len(files[f]) THEN Len(files[f]) ELSE pos + 1
    BY <2>1
  <2> QED BY <1>2, <2>1, <2>2, <2>3 DEF Patched
<1> QED BY <1>1, <1>2

LEMMA PutThere ==
    ASSUME FilesType, pos \in Nat, NEW record, cur \in DOMAIN files
    PROVE  /\ pos + 1 \in DOMAIN Put(record)[cur] /\ Put(record)[cur][pos + 1] = record
           /\ Len(Put(record)[cur]) = IF pos < Len(files[cur]) THEN Len(files[cur]) ELSE pos + 1
<1> DEFINE len == IF pos < Len(files[cur]) THEN Len(files[cur]) ELSE pos + 1
<1>1. Len(files[cur]) \in Nat
  BY Sizes
<1>2. len \in Nat /\ pos + 1 \in 1 .. len
  BY <1>1
<1>3. Put(record)[cur] = Patched(files[cur], record)
  BY DEF Put
<1>4. DOMAIN Patched(files[cur], record) = 1 .. len /\ Patched(files[cur], record)[pos + 1] = record
  BY <1>2 DEF Patched
<1>5. Len(Patched(files[cur], record)) = len
  BY <1>2, <1>4
<1> QED BY <1>2, <1>3, <1>4, <1>5

\* A new file holds nothing.
LEMMA WithFrom ==
    ASSUME NEW id, id \notin DOMAIN files, files' = WithFile(id)
    PROVE  /\ DOMAIN files' = DOMAIN files \cup {id}
           /\ files'[id] = <<>> /\ Len(files'[id]) = 0
           /\ \A f \in DOMAIN files : files'[f] = files[f]
           /\ \A f \in DOMAIN files' : \A n \in DOMAIN files'[f] :
                 f \in DOMAIN files /\ n \in DOMAIN files[f] /\ files'[f][n] = files[f][n]
<1>1. /\ DOMAIN files' = DOMAIN files \cup {id}
      /\ files'[id] = <<>>
      /\ \A f \in DOMAIN files : files'[f] = files[f]
  BY DEF WithFile
<1>2. DOMAIN <<>> = {} /\ Len(<<>>) = 0
  OBVIOUS
<1>3. ASSUME NEW f \in DOMAIN files', NEW n \in DOMAIN files'[f]
      PROVE  f \in DOMAIN files /\ n \in DOMAIN files[f] /\ files'[f][n] = files[f][n]
  BY <1>1, <1>2, <1>3
<1> QED BY <1>1, <1>2, <1>3

\* Replay cuts what lies behind the end it found.
LEMMA CutFrom ==
    ASSUME IInv, ReadHole, files' # files
    PROVE  /\ at = LastFound /\ at \in DOMAIN files /\ at \in found /\ newPc' = "replayed"
           /\ next \in DOMAIN files[at] /\ files[at][next] = Hole
           /\ DOMAIN files' = DOMAIN files
           /\ \A f \in DOMAIN files : f # at => files'[f] = files[f]
           /\ Len(files'[at]) = next - 1
           /\ DOMAIN files'[at] = 1 .. next - 1
           /\ \A n \in 1 .. next - 1 : n \in DOMAIN files[at] /\ files'[at][n] = files[at][n]
<1>1. /\ at = LastFound /\ newPc' = "replayed" /\ files' = [files EXCEPT ![at] = SubSeq(@, 1, next - 1)]
      /\ at \in found /\ next <= Len(files[at]) /\ files[at][next] = Hole
  BY DEF ReadHole, Reading
<1>2. at \in DOMAIN files /\ next \in Nat \ {0}
  BY <1>1 DEF IInv, FoundThere, NewType, ReadHole, Reading
<1>3. /\ files[at] \in Seq(Places) /\ Len(files[at]) \in Nat
      /\ DOMAIN files[at] = 1 .. Len(files[at])
  BY <1>2, Sizes DEF IInv
<1>4. next - 1 \in Nat /\ next - 1 <= Len(files[at]) /\ next \in DOMAIN files[at]
  BY <1>1, <1>2, <1>3
<1>5. files'[at] = SubSeq(files[at], 1, next - 1)
  BY <1>1, <1>2
<1>6. /\ Len(SubSeq(files[at], 1, next - 1)) = next - 1
      /\ DOMAIN SubSeq(files[at], 1, next - 1) = 1 .. next - 1
      /\ \A n \in 1 .. next - 1 : n \in DOMAIN files[at] /\ SubSeq(files[at], 1, next - 1)[n] = files[at][n]
  BY <1>3, <1>4
<1>7. DOMAIN files' = DOMAIN files /\ \A f \in DOMAIN files : f # at => files'[f] = files[f]
  BY <1>1 DEF IInv, FilesType
<1> QED BY <1>1, <1>2, <1>4, <1>5, <1>6, <1>7

-----------------------------------------------------------------------------
(* A record stays where it is. *)

LEMMA AtType ==
    ASSUME FilesType, Ids, NEW t \in Times, NEW f \in DOMAIN files, NEW n \in DOMAIN files[f]
    PROVE  /\ f \in Nat \ {0} /\ n \in Nat \ {0} /\ n \in 1 .. Len(files[f]) /\ Len(files[f]) \in Nat
           /\ cur \in Nat \ {0} /\ t \in Nat
<1>1. n \in 1 .. Len(files[f]) /\ Len(files[f]) \in Nat
  BY Sizes
<1> QED BY <1>1, TimesAbove DEF Ids

\* The old server writes behind it.
LEMMA AtPut ==
    ASSUME FilesType, Ids, pos \in Nat, NEW t \in Times,
           NEW f \in DOMAIN files, NEW n \in DOMAIN files[f], At(t, f, n),
           NEW record, files' = Put(record), cur' = cur, pos' = pos \/ pos' = pos + 1
    PROVE  f \in DOMAIN files' /\ n \in DOMAIN files'[f] /\ At(t, f, n)'
<1>1. f \in Nat /\ n \in Nat /\ n \in 1 .. Len(files[f]) /\ cur \in Nat
  BY AtType
<1>2. DOMAIN files' = DOMAIN files
  BY DEF Put
<1>3. ASSUME NEW m \in 1 .. n PROVE m \in DOMAIN files'[f] /\ files'[f][m] = files[f][m]
  <2>1. m \in DOMAIN files[f] /\ (f = cur => m # pos + 1)
    BY <1>1, Sizes DEF At
  <2> QED BY <2>1, PutKeeps
<1>4. n \in 1 .. n
  BY <1>1
<1>5. ASSUME NEW g \in DOMAIN files', NEW m \in DOMAIN files'[g], g < f \/ (g = f /\ m < n)
      PROVE  files'[g][m] < t
  <2>1. g \in DOMAIN files /\ g \in Nat /\ (g = cur => g = f)
    BY <1>1, <1>2, <1>5 DEF At, Ids
  <2>2. CASE g = cur /\ m = pos + 1
    BY <1>1, <1>5, <2>1, <2>2 DEF At
  <2>3. CASE m \in DOMAIN files[g] /\ files'[g][m] = files[g][m]
    BY <1>5, <2>1, <2>3 DEF At
  <2>4. CASE files'[g][m] = Hole
    BY <2>4, TimesAbove
  <2> QED BY <2>1, <2>2, <2>3, <2>4, PutFrom
<1>6. f <= cur' /\ (f = cur' => n <= pos')
  BY <1>1 DEF At
<1>7. files'[f][n] = t /\ \A m \in 1 .. n : files'[f][m] # Hole
  BY <1>3, <1>4 DEF At
<1> QED BY <1>2, <1>3, <1>4, <1>5, <1>6, <1>7 DEF At

\* Either server begins a new file.
LEMMA AtWith ==
    ASSUME FilesType, Ids, pos \in Nat, NEW t \in Times,
           NEW f \in DOMAIN files, NEW n \in DOMAIN files[f], At(t, f, n),
           NEW id, id \notin DOMAIN files, files' = WithFile(id),
           (cur' = cur /\ pos' = pos) \/ (cur' = id /\ id = cur + 1)
    PROVE  f \in DOMAIN files' /\ n \in DOMAIN files'[f] /\ At(t, f, n)'
<1>1. f \in Nat /\ n \in Nat /\ cur \in Nat
  BY AtType
<1>2. f \in DOMAIN files' /\ files'[f] = files[f]
  BY WithFrom, Zenon
<1>3. f <= cur' /\ (f = cur' => n <= pos')
  BY <1>1 DEF At
<1>4. \A g \in DOMAIN files' : \A m \in DOMAIN files'[g] :
          g \in DOMAIN files /\ m \in DOMAIN files[g] /\ files'[g][m] = files[g][m]
  BY WithFrom, Zenon
<1>5. \A g \in DOMAIN files' : \A m \in DOMAIN files'[g] :
          g < f \/ (g = f /\ m < n) => files'[g][m] < t
  BY <1>4 DEF At
<1> QED BY <1>2, <1>3, <1>5 DEF At

\* The end that replay cuts off comes after it.
LEMMA AtCut ==
    ASSUME IInv, Ids, NEW t \in Times,
           NEW f \in DOMAIN files, NEW n \in DOMAIN files[f], At(t, f, n),
           ReadHole, files' # files
    PROVE  f \in DOMAIN files' /\ n \in DOMAIN files'[f] /\ At(t, f, n)'
<1> USE DEF IInv
<1>1. f \in Nat /\ n \in Nat \ {0} /\ next \in Nat \ {0}
  BY AtType DEF NewType
<1>2. UNCHANGED <<cur, pos>>
  BY DEF ReadHole, oldVars
<1>3. ASSUME f = at PROVE n < next
  <2>1. files[f][next] = Hole
    BY <1>3, CutFrom
  <2>2. next \notin 1 .. n
    BY <2>1 DEF At
  <2> QED BY <1>1, <2>2
<1>4. ASSUME NEW m \in 1 .. n PROVE m \in DOMAIN files'[f] /\ files'[f][m] = files[f][m]
  <2>1. CASE f = at
    <3>1. m \in 1 .. next - 1
      BY <1>1, <1>3, <2>1
    <3> QED BY <2>1, <3>1, CutFrom
  <2>2. CASE f # at
    <3>1. m \in DOMAIN files[f]
      BY <1>1, Sizes
    <3> QED BY <2>2, <3>1, CutFrom
  <2> QED BY <2>1, <2>2
<1>5. \A g \in DOMAIN files' : \A m \in DOMAIN files'[g] :
          g \in DOMAIN files /\ m \in DOMAIN files[g] /\ files'[g][m] = files[g][m]
  BY CutFrom
<1>6. n \in 1 .. n
  BY <1>1
<1>7. \A g \in DOMAIN files' : \A m \in DOMAIN files'[g] :
          g < f \/ (g = f /\ m < n) => files'[g][m] < t
  BY <1>5 DEF At
<1>8. files'[f][n] = t /\ \A m \in 1 .. n : files'[f][m] # Hole
  BY <1>4, <1>6 DEF At
<1> QED BY <1>2, <1>4, <1>6, <1>7, <1>8, CutFrom DEF At

\* No step moves it but the flush, which trims the log of what it has saved, and
\* the removal of what the new server has saved.
LEMMA AtKept ==
    ASSUME IInv, Ids, [Next]_vars, ~ Flush, newPc \notin Done, NEW t \in Times,
           NEW f \in DOMAIN files, NEW n \in DOMAIN files[f], At(t, f, n)
    PROVE  f \in DOMAIN files' /\ n \in DOMAIN files'[f] /\ At(t, f, n)'
<1> USE DEF IInv
<1>t. pos \in Nat
  BY DEF OldType
<1>u. ASSUME UNCHANGED <<files, cur, pos>>
      PROVE  f \in DOMAIN files' /\ n \in DOMAIN files'[f] /\ At(t, f, n)'
  BY <1>u DEF At
<1>1. CASE Take
  <2>1. CASE UNCHANGED <<files, cur, pos>>
    BY <2>1, <1>u
  <2>2. CASE cur + 1 \notin DOMAIN files /\ files' = WithFile(cur + 1) /\ cur' = cur + 1
    BY <2>2, <1>t, AtWith
  <2> QED BY <1>1, <2>1, <2>2 DEF Take
<1>2. CASE WriteHalf
  BY <1>2, <1>t, AtPut DEF WriteHalf
<1>3. CASE WriteRest
  BY <1>3, <1>t, AtPut DEF WriteRest
<1>4. CASE ReadHole
  <2>1. CASE files' = files
    BY <1>4, <2>1, <1>u DEF ReadHole, oldVars
  <2>2. CASE files' # files
    BY <1>4, <2>2, AtCut
  <2> QED BY <2>1, <2>2
<1>5. CASE Create \/ Cut
  <2>1. CASE files' = files
    BY <1>5, <2>1, <1>u DEF Create, Cut, oldVars
  <2>2. ASSUME NEW id, id \notin DOMAIN files, files' = WithFile(id)
        PROVE  f \in DOMAIN files' /\ n \in DOMAIN files'[f] /\ At(t, f, n)'
    BY <1>5, <2>2, <1>t, AtWith DEF Create, Cut, oldVars
  <2> QED BY <1>5, <2>1, <2>2 DEF Create, Cut
<1>6. CASE (\E x \in Times : Write(x)) \/ Drop \/ Joined \/ Kill
  BY <1>6, <1>u DEF Write, Drop, Joined, Kill
<1>7. CASE Open \/ ReadRecord \/ NextFile \/ Save \/ Advances \/ Killed \/ UNCHANGED vars
  BY <1>7, <1>u
     DEF Open, ReadRecord, NextFile, Save, Advances, NothingToFlush, List, Removed, Killed, vars,
         oldVars
<1>8. CASE RemoveFile
  BY <1>8 DEF RemoveFile, Done
<1> QED BY <1>1, <1>2, <1>3, <1>4, <1>5, <1>6, <1>7, <1>8 DEF Next, Advances

-----------------------------------------------------------------------------
(* Who can act. *)

\* As long as the old server has LOCK, the new one does nothing.
LEMMA OldActs ==
    ASSUME IInv, [Next]_vars, lock = "old"
    PROVE  /\ UNCHANGED newVars /\ newPc \in {"closed", "refused"} /\ oldPc \in {"up", "flushed"}
           /\ \/ \E t \in Times : Write(t)
              \/ Take \/ WriteHalf \/ WriteRest \/ Flush \/ Drop \/ Kill
              \/ UNCHANGED vars
<1>1. newPc \in {"closed", "refused"} /\ oldPc \in {"up", "flushed"}
  BY DEF IInv, OneHolder, NewType
<1>2. ~ Starting
  BY <1>1
     DEF Starting, Open, ReadRecord, NextFile, ReadHole, Create, Cut, Save, Advances,
         NothingToFlush, List, Removed, RemoveFile, Killed, Reading
<1>3. ~ Joined
  BY <1>1 DEF Joined
<1>4. \/ \E t \in Times : Write(t)
      \/ Take \/ WriteHalf \/ WriteRest \/ Flush \/ Drop \/ Kill
      \/ UNCHANGED vars
  BY <1>2, <1>3 DEF Next, Starting, Advances
<1>5. UNCHANGED newVars
  BY <1>4 DEF Write, Take, WriteHalf, WriteRest, Flush, Drop, Kill, vars
<1> QED BY <1>1, <1>4, <1>5

\* And once it has not, it neither accepts nor saves anything.
LEMMA NewActs ==
    ASSUME IInv, [Next]_vars, lock # "old"
    PROVE  /\ lock' # "old" /\ buffered' = buffered /\ accepted' = accepted
           /\ oldPc \in {"dropping", "gone"}
           /\ \/ Take \/ WriteHalf \/ WriteRest \/ Joined \/ Kill
              \/ Starting
              \/ UNCHANGED vars
<1>1. oldPc \in {"dropping", "gone"}
  BY DEF IInv, OneHolder, OldType
<1>2. ~ (Flush \/ Drop \/ \E t \in Times : Write(t))
  BY <1>1 DEF Flush, Drop, Write
<1>3. \/ Take \/ WriteHalf \/ WriteRest \/ Joined \/ Kill
      \/ Starting
      \/ UNCHANGED vars
  BY <1>2 DEF Next, Starting, Advances
<1>4. lock' # "old" /\ buffered' = buffered /\ accepted' = accepted
  <2>1. CASE Take \/ WriteHalf \/ WriteRest \/ Joined \/ Kill
    BY <2>1 DEF Take, Dies, WriteHalf, WriteRest, Joined, Kill, ghosts
  <2>2. CASE Open \/ ReadRecord \/ NextFile \/ ReadHole
    BY <2>2 DEF Open, ReadRecord, NextFile, ReadHole, ghosts
  <2>3. CASE Create \/ Cut \/ Save \/ Advances \/ RemoveFile \/ Killed
    BY <2>3
       DEF Create, Cut, Save, Advances, NothingToFlush, List, Removed, RemoveFile, Killed, ghosts
  <2>4. CASE UNCHANGED vars
    BY <2>4 DEF vars, ghosts
  <2> QED BY <1>3, <2>1, <2>2, <2>3, <2>4 DEF Starting
<1> QED BY <1>1, <1>3, <1>4

-----------------------------------------------------------------------------
(* Numbers of files. *)

LEMMA LastIs ==
    ASSUME Ids
    PROVE  LastFound \in Nat /\ LastFound \in found \cup {0} /\ \A f \in found : f <= LastFound
<1>1. PICK b \in Nat : \A f \in found : f <= b
  BY DEF Ids
<1>2. found \cup {0} \in SUBSET Nat /\ found \cup {0} # {} /\ \A f \in found \cup {0} : f <= b
  BY <1>1 DEF Ids
<1>3. Max(found \cup {0}) \in found \cup {0} /\ \A f \in found \cup {0} : f <= Max(found \cup {0})
  BY <1>2, MaxIs
<1> QED BY <1>2, <1>3 DEF LastFound

\* The next file to read is the first behind the one that was read.
LEMMA NextIs ==
    ASSUME Ids, at < LastFound
    PROVE  LET n == Min({f \in found : f > at})
           IN  n \in found /\ n > at /\ \A f \in found : f > at => n <= f
<1> DEFINE ahead == {f \in found : f > at}
<1>0. found \subseteq Nat \ {0} /\ at \in Nat
  BY DEF Ids
<1>1. LastFound \in Nat /\ LastFound \in found \cup {0}
  BY LastIs
<1>2. LastFound \in ahead
  BY <1>0, <1>1
<1>3. ahead \in SUBSET Nat /\ ahead # {}
  BY <1>0, <1>2
<1>4. Min(ahead) \in ahead /\ \A f \in ahead : Min(ahead) <= f
  BY <1>3, MinIs
<1> QED BY <1>4

LEMMA IdsKept == IInv /\ Ids /\ [Next]_vars => Ids'
<1> SUFFICES ASSUME IInv, Ids, [Next]_vars PROVE Ids'
  OBVIOUS
<1>b. PICK b \in Nat : \A f \in DOMAIN files : f <= b
  BY DEF Ids
<1>1. /\ DOMAIN files' \subseteq Nat \ {0} /\ cur' \in Nat \ {0}
      /\ \E c \in Nat : \A f \in DOMAIN files' : f <= c
  <2>1. CASE DOMAIN files' \subseteq DOMAIN files /\ cur' = cur
    BY <2>1 DEF Ids
  <2>2. ASSUME NEW id \in Nat \ {0}, cur' = cur \/ cur' = id,
               DOMAIN files' \subseteq DOMAIN files \cup {id}
        PROVE  /\ DOMAIN files' \subseteq Nat \ {0} /\ cur' \in Nat \ {0}
               /\ \E c \in Nat : \A f \in DOMAIN files' : f <= c
    <3>1. b + id \in Nat /\ \A f \in DOMAIN files \cup {id} : f <= b + id
      BY <1>b DEF Ids
    <3>2. DOMAIN files' \subseteq Nat \ {0} /\ cur' \in Nat \ {0}
      BY <2>2 DEF Ids
    <3>3. \A f \in DOMAIN files' : f <= b + id
      BY <2>2, <3>1
    <3> QED BY <3>1, <3>2, <3>3
  <2>3. {cur + 1, LastFound + 1, LastFound + 2} \subseteq Nat \ {0}
    <3>1. LastFound \in Nat
      BY LastIs
    <3>2. cur \in Nat
      BY DEF Ids
    <3> QED BY <3>1, <3>2
  <2>4. \A id : DOMAIN WithFile(id) = DOMAIN files \cup {id} /\ DOMAIN OnlyFile(id) = {id}
    BY DEF WithFile, OnlyFile
  <2>5. CASE Take \/ Flush
    BY <2>5, <2>1, <2>2, <2>3, <2>4 DEF Take, Flush
  <2>6. CASE Create \/ Cut
    BY <2>6, <2>1, <2>2, <2>3, <2>4 DEF Create, Cut, oldVars
  <2>7. CASE WriteHalf \/ WriteRest
    BY <2>7, <2>1 DEF WriteHalf, WriteRest, Put
  <2>8. CASE ReadHole
    BY <2>8, <2>1, CutFrom DEF ReadHole, oldVars
  <2>9. CASE RemoveFile
    BY <2>9, <2>1 DEF RemoveFile, Restrict, oldVars
  <2>10. CASE (\E t \in Times : Write(t)) \/ Drop \/ Joined \/ Kill
    BY <2>10, <2>1 DEF Write, Drop, Joined, Kill
  <2>11. CASE Open \/ ReadRecord \/ NextFile \/ Save \/ Advances \/ Killed \/ UNCHANGED vars
    BY <2>11, <2>1
       DEF Open, ReadRecord, NextFile, Save, Advances, NothingToFlush, List, Removed, Killed,
           vars, oldVars
  <2> QED BY <2>5, <2>6, <2>7, <2>8, <2>9, <2>10, <2>11 DEF Next, Starting, Advances
<1>2. /\ found' \subseteq Nat \ {0} /\ at' \in Nat /\ \E c \in Nat : \A f \in found' : f <= c
      /\ newPc' = "reading" => at' \in found' \cup {0}
  <2>1. CASE Open
    BY <2>1, <1>b DEF Open, Ids
  <2>2. CASE NextFile
    <3>1. CASE at >= LastFound
      BY <2>2, <3>1 DEF NextFile, Ids
    <3>2. CASE ~ (at >= LastFound)
      <4>0. at \in Nat /\ LastFound \in Nat
        <5>1. LastFound \in Nat
          BY LastIs
        <5> QED BY <5>1 DEF Ids
      <4>1. at < LastFound
        BY <3>2, <4>0
      <4>2. at' \in found /\ found' = found
        BY <2>2, <3>2, <4>1, NextIs DEF NextFile
      <4> QED BY <4>2 DEF Ids
    <3> QED BY <3>1, <3>2
  <2>3. CASE UNCHANGED <<found, at>> /\ (newPc' = "reading" => newPc = "reading")
    BY <2>3 DEF Ids
  <2>4. CASE (\E t \in Times : Write(t)) \/ Take \/ WriteHalf \/ WriteRest \/ Flush \/ Drop \/ Joined \/ Kill
    BY <2>4, <2>3 DEF Write, Take, WriteHalf, WriteRest, Flush, Drop, Joined, Kill, newVars
  <2>5. CASE \/ ReadRecord \/ ReadHole \/ Create \/ Cut \/ Save \/ Advances
             \/ RemoveFile \/ Killed \/ UNCHANGED vars
    BY <2>5, <2>3
       DEF ReadRecord, ReadHole, Create, Cut, Save, Advances, NothingToFlush, List, Removed,
           RemoveFile, Killed, vars, newVars
  <2> QED BY <2>1, <2>2, <2>4, <2>5 DEF Next, Starting, Advances
<1>3. late' \in BOOLEAN /\ flushed' \in BOOLEAN
  <2>1. CASE (\E t \in Times : Write(t)) \/ Take \/ Flush \/ Drop \/ Joined \/ Kill
    BY <2>1 DEF Write, Take, Flush, Drop, Joined, Kill, ghosts, Ids
  <2>2. CASE WriteHalf \/ WriteRest
    BY <2>2 DEF WriteHalf, WriteRest, Ids
  <2>3. CASE Starting \/ UNCHANGED vars
    BY <2>3
       DEF Starting, Open, ReadRecord, NextFile, ReadHole, Create, Cut, Save, Advances,
           NothingToFlush, List, Removed, RemoveFile, Killed, vars, ghosts, Ids
  <2> QED BY <2>1, <2>2, <2>3 DEF Next, Starting, Advances
<1> QED BY <1>1, <1>2, <1>3 DEF Ids

-----------------------------------------------------------------------------
(* The end of the log. *)

LEMMA OldFilesKept == IInv /\ Ids /\ OldFiles /\ [Next]_vars => OldFiles'
<1> SUFFICES ASSUME IInv, Ids, OldFiles, [Next]_vars, oldPc' \in {"up", "flushed"}
             PROVE  AtEnd'
  BY DEF OldFiles
<1>1. lock = "old"
  <2>1. CASE oldPc \in {"up", "flushed"}
    BY <2>1 DEF IInv, OneHolder
  <2>2. CASE oldPc \notin {"up", "flushed"}
    <3>1. lock # "old"
      BY <2>2 DEF IInv, OneHolder
    <3>2. oldPc \in {"dropping", "gone"}
      BY <3>1, NewActs
    <3> QED
      BY <3>1, <3>2, NewActs
         DEF Take, Dies, WriteHalf, WriteRest, Joined, Kill, Starting, Open, ReadRecord, NextFile,
             ReadHole, Create, Cut, Save, Advances, NothingToFlush, List, Removed, RemoveFile,
             Killed, vars, oldVars
  <2> QED BY <2>1, <2>2
<1>2. /\ oldPc \in {"up", "flushed"}
      /\ \/ \E t \in Times : Write(t)
         \/ Take \/ WriteHalf \/ WriteRest \/ Flush \/ Drop \/ Kill
         \/ UNCHANGED vars
  BY <1>1, OldActs
<1>3. /\ ~ late /\ cur \in DOMAIN files /\ \A f \in DOMAIN files : f <= cur
      /\ Len(files[cur]) = IF half THEN pos + 1 ELSE pos
      /\ half => files[cur][pos + 1] = Hole
  BY <1>2 DEF OldFiles, AtEnd
<1>4. /\ cur \in Nat /\ DOMAIN files \subseteq Nat /\ pos \in Nat /\ half \in BOOLEAN
      /\ (half => hand # <<>>) /\ FilesType
  BY DEF Ids, IInv, OldType
<1>u. ASSUME UNCHANGED <<late, cur, files, half, pos>> PROVE AtEnd'
  BY <1>u, <1>3 DEF AtEnd
<1>n. ASSUME cur' = cur + 1, late' = late, hand = <<>>, half' = half, pos' = 0,
             cur' \in DOMAIN files', \A f \in DOMAIN files' : f <= cur', files'[cur'] = <<>>
      PROVE  AtEnd'
  <2>1. ~ half /\ Len(<<>>) = 0
    BY <1>n, <1>4
  <2> QED BY <1>n, <1>3, <2>1 DEF AtEnd
<1>5. CASE Take
  <2>1. CASE UNCHANGED <<files, cur, pos>>
    BY <1>5, <2>1, <1>u DEF Take
  <2>2. CASE cur + 1 \notin DOMAIN files /\ files' = WithFile(cur + 1) /\ cur' = cur + 1 /\ pos' = 0
    <3>1. DOMAIN files' = DOMAIN files \cup {cur + 1} /\ files'[cur + 1] = <<>>
      BY <2>2, WithFrom
    <3>2. \A f \in DOMAIN files' : f <= cur'
      BY <2>2, <3>1, <1>3, <1>4
    <3> QED BY <1>5, <2>2, <3>1, <3>2, <1>n DEF Take
  <2> QED BY <1>5, <2>1, <2>2 DEF Take
<1>6. CASE WriteHalf
  <2>1. files' = Put(Hole) /\ half' /\ ~ half /\ cur' = cur /\ pos' = pos /\ ~ late'
    BY <1>6, <1>2, <1>3 DEF WriteHalf
  <2>2. Len(files'[cur]) = pos + 1 /\ files'[cur][pos + 1] = Hole
    BY <2>1, <1>3, <1>4, PutThere
  <2>3. DOMAIN files' = DOMAIN files
    BY <2>1 DEF Put
  <2> QED BY <2>1, <2>2, <2>3, <1>3 DEF AtEnd
<1>7. CASE WriteRest
  <2>1. PICK record : files' = Put(record)
    BY <1>7 DEF WriteRest
  <2>2. half /\ ~ half' /\ cur' = cur /\ pos' = pos + 1 /\ ~ late'
    BY <1>7, <1>2, <1>3 DEF WriteRest
  <2>3. Len(files'[cur]) = pos + 1
    BY <2>1, <2>2, <1>3, <1>4, PutThere
  <2>4. DOMAIN files' = DOMAIN files
    BY <2>1 DEF Put
  <2> QED BY <2>2, <2>3, <2>4, <1>3 DEF AtEnd
<1>8. CASE Flush
  <2>1. CASE oldMem = <<>>
    BY <1>8, <2>1, <1>u DEF Flush
  <2>2. CASE oldMem # <<>>
    <3>1. DOMAIN OnlyFile(cur + 1) = {cur + 1} /\ OnlyFile(cur + 1)[cur + 1] = <<>>
      BY DEF OnlyFile
    <3>2. \A f \in {cur + 1} : f <= cur + 1
      BY <1>4
    <3> QED BY <1>8, <2>2, <3>1, <3>2, <1>n DEF Flush
  <2> QED BY <2>1, <2>2
<1>9. CASE (\E t \in Times : Write(t)) \/ Drop \/ Kill \/ UNCHANGED vars
  BY <1>9, <1>u DEF Write, Drop, Kill, vars, oldVars, ghosts
<1> QED BY <1>2, <1>5, <1>6, <1>7, <1>8, <1>9

NoHole == \A f \in DOMAIN files : \A n \in DOMAIN files[f] : files[f][n] # Hole

\* Whoever writes to the log without LOCK is late.
LEMMA CleanLate ==
    ASSUME IInv, Ids, [Next]_vars, ~ late'
    PROVE  ~ late /\ (WriteHalf \/ WriteRest => lock = "old" /\ oldPc \in {"up", "flushed"})
<1>1. CASE WriteHalf \/ WriteRest
  BY <1>1 DEF WriteHalf, WriteRest, Running, IInv, OneHolder
<1>2. CASE (\E t \in Times : Write(t)) \/ Take \/ Flush \/ Drop \/ Joined \/ Kill
  BY <1>2, <1>1 DEF Write, Take, Flush, Drop, Joined, Kill, ghosts
<1>3. CASE Starting \/ UNCHANGED vars
  BY <1>3, <1>1
     DEF Starting, Open, ReadRecord, NextFile, ReadHole, Create, Cut, Save, Advances,
         NothingToFlush, List, Removed, RemoveFile, Killed, vars, ghosts
<1> QED BY <1>1, <1>2, <1>3 DEF Next, Starting, Advances

\* The old server begins, ends or abandons a record.
LEMMA CleanOld ==
    ASSUME IInv, Ids, OldFiles, Clean, [Next]_vars, ~ late',
           Take \/ WriteHalf \/ WriteRest \/ Flush
    PROVE  Clean'
<1>1. /\ ~ late /\ newPc # "refused" /\ newPc' = newPc /\ found' = found /\ at' = at /\ next' = next
      /\ \A f \in DOMAIN files : \A n \in DOMAIN files[f] :
            files[f][n] = Hole => HoleAtEnd(f, n)
  <2>1. ~ late
    BY CleanLate
  <2>2. UNCHANGED newVars
    BY DEF Take, WriteHalf, WriteRest, Flush
  <2> QED BY <2>1, <2>2 DEF Clean, newVars
<1>2. (half => hand # <<>>) /\ pos \in Nat /\ FilesType
  BY DEF IInv, OldType
<1>n. ASSUME NoHole' PROVE Clean'
  BY <1>1, <1>n DEF Clean, NoHole
<1>u. ASSUME UNCHANGED <<files, half, cur, pos>> PROVE Clean'
  BY <1>1, <1>u DEF Clean, HoleAtEnd
<1>3. ASSUME ~ half PROVE NoHole
  BY <1>1, <1>3 DEF NoHole, HoleAtEnd
<1>4. CASE Take
  <2>1. CASE UNCHANGED <<files, cur, pos>>
    BY <1>4, <2>1, <1>u DEF Take
  <2>2. CASE cur + 1 \notin DOMAIN files /\ files' = WithFile(cur + 1)
    <3>1. NoHole
      BY <1>4, <1>2, <1>3 DEF Take
    <3>2. \A f \in DOMAIN files' : \A n \in DOMAIN files'[f] :
             f \in DOMAIN files /\ n \in DOMAIN files[f] /\ files'[f][n] = files[f][n]
      BY <2>2, WithFrom
    <3> QED BY <3>1, <3>2, <1>n DEF NoHole
  <2> QED BY <1>4, <2>1, <2>2 DEF Take
<1>5. CASE Flush
  <2>1. CASE oldMem = <<>>
    BY <1>5, <2>1, <1>u DEF Flush
  <2>2. CASE oldMem # <<>>
    <3>1. files' = OnlyFile(cur + 1)
      BY <1>5, <2>2 DEF Flush
    <3>2. DOMAIN <<>> = {}
      OBVIOUS
    <3> QED BY <3>1, <3>2, <1>n DEF OnlyFile, NoHole
  <2> QED BY <2>1, <2>2
<1>6. ASSUME WriteHalf \/ WriteRest
      PROVE  AtEnd /\ newPc \in {"closed", "refused"}
  BY <1>6, CleanLate, OldActs DEF OldFiles
<1>7. CASE WriteHalf
  <2>1. files' = Put(Hole) /\ ~ half /\ half' /\ cur' = cur /\ pos' = pos
    BY <1>7 DEF WriteHalf
  <2>2. NoHole /\ Len(files[cur]) = pos /\ \A g \in DOMAIN files : g <= cur
    BY <2>1, <1>3, <1>6, <1>7 DEF AtEnd
  <2>3. DOMAIN files' = DOMAIN files
    BY <2>1 DEF Put
  <2>4. ASSUME NEW f \in DOMAIN files', NEW n \in DOMAIN files'[f], files'[f][n] = Hole
        PROVE  HoleAtEnd(f, n)'
    <3>1. f = cur /\ n = pos + 1
      <4>1. n \in DOMAIN files[f] => files[f][n] # Hole
        BY <2>2, <2>3 DEF NoHole
      <4>2. f = cur /\ n \notin DOMAIN files[f] => ~ (n <= pos)
        <5>1. ASSUME f = cur, n <= pos PROVE n \in DOMAIN files[f]
          <6>1. DOMAIN files[cur] = 1 .. pos /\ cur \in DOMAIN files
            BY <1>2, <2>2, <1>6, <1>7, Sizes DEF AtEnd
          <6>2. files'[f] = Patched(files[cur], Hole)
            BY <2>1, <5>1, <6>1 DEF Put
          <6>3. n \in Nat \ {0}
            BY <6>2 DEF Patched
          <6> QED BY <5>1, <6>1, <6>3, <1>2
        <5> QED BY <5>1
      <4> QED BY <2>1, <2>3, <2>4, <4>1, <4>2, <1>2, PutFrom
    <3> QED BY <3>1, <2>1, <2>2, <2>3, <1>1, <1>6, <1>7 DEF HoleAtEnd, Done
  <2> QED BY <2>4, <1>1 DEF Clean
<1>8. CASE WriteRest
  <2>1. /\ half /\ AtEnd
        /\ files' = Put(IF cur \in DOMAIN files /\ Len(files[cur]) <= pos THEN Hole ELSE Head(hand))
    BY <1>6, <1>8 DEF WriteRest
  <2>2. Len(files[cur]) = pos + 1 /\ cur \in DOMAIN files
    BY <2>1 DEF AtEnd
  <2>3. ~ (Len(files[cur]) <= pos)
    BY <2>2, <1>2
  <2>4. files' = Put(Head(hand)) /\ Head(hand) # Hole
    <3>1. Head(hand) \in Times
      BY <2>1, <1>2 DEF IInv, OldType
    <3> QED BY <2>1, <2>3, <3>1, TimesAbove
  <2>5. DOMAIN files' = DOMAIN files
    BY <2>4 DEF Put
  <2>6. ASSUME NEW f \in DOMAIN files', NEW n \in DOMAIN files'[f] PROVE files'[f][n] # Hole
    <3>1. f \in DOMAIN files /\ n \in DOMAIN Put(Head(hand))[f]
      BY <2>4, <2>5
    <3>2. CASE f = cur /\ n = pos + 1 /\ files'[f][n] = Head(hand)
      BY <3>2, <2>4
    <3>3. CASE n \in DOMAIN files[f] /\ files'[f][n] = files[f][n] /\ (f = cur => n # pos + 1)
      BY <3>1, <3>3, <1>1 DEF HoleAtEnd
    <3>4. CASE f = cur /\ n \notin DOMAIN files[f] /\ n <= pos
      <4>1. files'[f] = Patched(files[cur], Head(hand))
        BY <2>4, <3>1, <3>4 DEF Put
      <4>2. n \in Nat \ {0}
        BY <4>1 DEF Patched
      <4>3. DOMAIN files[cur] = 1 .. Len(files[cur])
        BY <2>2, <1>2, Sizes
      <4> QED BY <3>4, <4>2, <4>3, <2>2, <1>2
    <3> QED BY <3>1, <2>4, <3>2, <3>3, <3>4, <1>2, PutFrom
  <2> QED BY <2>6, <1>n DEF NoHole
<1> QED BY <1>4, <1>5, <1>7, <1>8

\* The new server finds the end of the log, cuts it off, and goes on behind it.
LEMMA CleanNew ==
    ASSUME IInv, Ids, Clean, [Next]_vars, ~ late', Starting
    PROVE  Clean'
<1>1. /\ ~ late /\ newPc # "refused"
      /\ \A f \in DOMAIN files : \A n \in DOMAIN files[f] :
            files[f][n] = Hole => HoleAtEnd(f, n)
  <2>1. ~ late
    BY CleanLate
  <2> QED BY <2>1 DEF Clean
<1>2. UNCHANGED <<half, cur, pos>>
  BY DEF Starting, Open, ReadRecord, NextFile, ReadHole, Create, Cut, Save, Advances,
         NothingToFlush, List, Removed, RemoveFile, Killed, oldVars
<1>3. /\ FilesType /\ pos \in Nat /\ next \in Nat \ {0} /\ at \in Nat
      /\ DOMAIN files \subseteq Nat \ {0} /\ found \subseteq Nat \ {0}
  BY DEF IInv, OldType, NewType, Ids
<1>4. LastFound \in Nat /\ \A f \in found : f <= LastFound
  BY LastIs
<1>n. ASSUME NoHole', newPc' # "refused" PROVE Clean'
  BY <1>n DEF Clean, NoHole
<1>5. ASSUME newPc \in {"replayed", "created", "cut"} \cup Done PROVE NoHole
  BY <1>1, <1>5 DEF NoHole, HoleAtEnd
<1>6. CASE Open
  <2>1. /\ newPc' = "reading" /\ files' = files /\ found' = DOMAIN files /\ at' = 0
    BY <1>6 DEF Open
  <2>2. ASSUME NEW f \in DOMAIN files, NEW n \in DOMAIN files[f], files[f][n] = Hole
        PROVE  HoleAtEnd(f, n)'
    BY <2>1, <2>2, <1>1, <1>2, <1>3 DEF HoleAtEnd, Done
  <2> QED BY <2>1, <2>2 DEF Clean
<1>7. CASE ReadRecord
  <2>1. /\ newPc' = newPc /\ newPc = "reading" /\ files' = files /\ found' = found /\ at' = at
        /\ next' = next + 1 /\ files[at][next] # Hole
    BY <1>7 DEF ReadRecord, Reading
  <2>2. ASSUME NEW f \in DOMAIN files, NEW n \in DOMAIN files[f], files[f][n] = Hole
        PROVE  HoleAtEnd(f, n)'
    <3>1. HoleAtEnd(f, n) /\ n \in Nat
      <4>1. n \in 1 .. Len(files[f])
        BY <1>3, Sizes
      <4> QED BY <1>1, <2>2, <4>1
    <3>2. at = f => n >= next /\ n # next
      BY <2>1, <2>2, <3>1 DEF HoleAtEnd
    <3>3. at = f => n >= next + 1
      BY <3>1, <3>2, <1>3
    <3> QED BY <2>1, <3>1, <3>3, <1>2 DEF HoleAtEnd
  <2> QED BY <2>1, <2>2, <1>1 DEF Clean
<1>8. CASE NextFile
  <2>1. /\ newPc = "reading" /\ files' = files /\ found' = found
        /\ at \in found => next > Len(files[at])
    BY <1>8 DEF NextFile
  <2>2. at \in found \cup {0} /\ found \subseteq DOMAIN files
    BY <2>1 DEF Ids, IInv, FoundThere
  <2>3. ASSUME NEW f \in DOMAIN files, NEW n \in DOMAIN files[f], files[f][n] = Hole
        PROVE  f \in found /\ f # at /\ (\A g \in DOMAIN files : g <= f) /\ n \in Nat \ {0}
               /\ half /\ f = cur /\ n = pos + 1
    <3>1. HoleAtEnd(f, n)
      BY <1>1, <2>3
    <3>2. n \in 1 .. Len(files[f]) /\ Len(files[f]) \in Nat
      BY <1>3, Sizes
    <3>3. f # at
      BY <2>1, <3>1, <3>2, <1>3 DEF HoleAtEnd
    <3> QED BY <2>1, <3>1, <3>2, <3>3 DEF HoleAtEnd
  <2>4. CASE at >= LastFound
    <3>1. newPc' = "replayed"
      BY <1>8, <2>4 DEF NextFile
    <3>2. ASSUME NEW f \in DOMAIN files, NEW n \in DOMAIN files[f], files[f][n] = Hole
          PROVE  FALSE
      <4>1. f \in found /\ f # at /\ (\A g \in DOMAIN files : g <= f)
        BY <2>3, <3>2
      <4>2. f <= at /\ f \in Nat \ {0}
        BY <4>1, <1>3, <1>4, <2>4
      <4>3. at \in DOMAIN files
        BY <4>2, <2>2, <1>3
      <4> QED BY <4>1, <4>2, <4>3, <1>3
    <3>3. NoHole'
      BY <2>1, <3>2 DEF NoHole
    <3> QED BY <3>1, <3>3, <1>n
  <2>5. CASE ~ (at >= LastFound)
    <3>1. newPc' = "reading" /\ next' = 1
      BY <1>8, <2>1, <2>5 DEF NextFile
    <3>2. ASSUME NEW f \in DOMAIN files, NEW n \in DOMAIN files[f], files[f][n] = Hole
          PROVE  HoleAtEnd(f, n)'
      <4>1. n >= 1
        BY <2>3, <3>2
      <4> QED BY <2>1, <2>3, <3>1, <3>2, <4>1, <1>2 DEF HoleAtEnd, Done
    <3> QED BY <2>1, <3>1, <3>2 DEF Clean
  <2> QED BY <2>4, <2>5
<1>9. CASE ReadHole
  <2>1. /\ newPc = "reading" /\ at \in found /\ at \in DOMAIN files
        /\ next \in DOMAIN files[at] /\ files[at][next] = Hole
    <3>1. newPc = "reading" /\ at \in found /\ next <= Len(files[at]) /\ files[at][next] = Hole
      BY <1>9 DEF ReadHole, Reading
    <3>2. at \in DOMAIN files
      BY <3>1 DEF IInv, FoundThere
    <3>3. next \in 1 .. Len(files[at]) /\ DOMAIN files[at] = 1 .. Len(files[at])
      BY <3>1, <3>2, <1>3, Sizes
    <3> QED BY <3>1, <3>2, <3>3
  <2>2. HoleAtEnd(at, next) /\ \A g \in DOMAIN files : g <= at
    BY <2>1, <1>1 DEF HoleAtEnd
  <2>3. at = LastFound
    <3>1. LastFound \in found \cup {0}
      BY LastIs
    <3>2. LastFound <= at
      BY <2>1, <2>2, <3>1, <1>3 DEF IInv, FoundThere
    <3> QED BY <2>1, <3>2, <1>3, <1>4
  <2>4. newPc' = "replayed" /\ files' = [files EXCEPT ![at] = SubSeq(@, 1, next - 1)]
    BY <1>9, <2>3 DEF ReadHole
  <2>5. files' # files
    <3>1. Len(files[at]) \in Nat /\ files[at] \in Seq(Places) /\ DOMAIN files[at] = 1 .. Len(files[at])
      BY <2>1, <1>3, Sizes
    <3>2. Len(SubSeq(files[at], 1, next - 1)) = next - 1
      BY <2>1, <3>1, <1>3
    <3>3. files'[at] # files[at]
      BY <2>1, <2>4, <3>1, <3>2, <1>3
    <3> QED BY <3>3
  <2>6. ASSUME NEW f \in DOMAIN files', NEW n \in DOMAIN files'[f] PROVE files'[f][n] # Hole
    <3>1. f \in DOMAIN files
      BY <1>9, <2>5, CutFrom
    <3>2. CASE f = at
      <4>1. n \in 1 .. next - 1 /\ n \in DOMAIN files[f] /\ files'[f][n] = files[f][n]
        BY <1>9, <2>5, <3>2, CutFrom
      <4>2. n # next
        BY <4>1, <1>3
      <4> QED BY <4>1, <4>2, <3>1, <3>2, <1>1, <2>2 DEF HoleAtEnd
    <3>3. CASE f # at
      <4>1. n \in DOMAIN files[f] /\ files'[f][n] = files[f][n]
        BY <1>9, <2>5, <3>1, <3>3, CutFrom
      <4> QED BY <4>1, <3>1, <3>3, <1>1, <2>2 DEF HoleAtEnd
    <3> QED BY <3>2, <3>3
  <2>7. NoHole'
    BY <2>6 DEF NoHole
  <2> QED BY <2>4, <2>7, <1>n
<1>10. CASE Create \/ Cut
  <2>1. NoHole /\ newPc' # "refused"
    BY <1>5, <1>10 DEF Create, Cut
  <2>2. CASE files' = files
    BY <2>1, <2>2, <1>n DEF NoHole
  <2>3. ASSUME NEW id, id \notin DOMAIN files, files' = WithFile(id) PROVE Clean'
    <3>1. \A f \in DOMAIN files' : \A n \in DOMAIN files'[f] :
             f \in DOMAIN files /\ n \in DOMAIN files[f] /\ files'[f][n] = files[f][n]
      BY <2>3, WithFrom
    <3> QED BY <2>1, <3>1, <1>n DEF NoHole
  <2> QED BY <1>10, <2>2, <2>3 DEF Create, Cut
<1>11. CASE Save \/ Advances
  <2>1. /\ newPc \in {"created", "cut"} \cup Done /\ newPc' \in Done /\ files' = files
    BY <1>11 DEF Save, Advances, NothingToFlush, List, Removed, Done
  <2>2. NoHole /\ newPc' # "refused"
    BY <1>5, <2>1 DEF Done
  <2> QED BY <2>1, <2>2, <1>n DEF NoHole
<1>12. CASE RemoveFile
  <2>1. NoHole /\ newPc' # "refused"
    BY <1>5, <1>12 DEF RemoveFile, Done
  <2>2. \A f \in DOMAIN files' : f \in DOMAIN files /\ files'[f] = files[f]
    BY <1>12 DEF RemoveFile, Restrict
  <2> QED BY <2>1, <2>2, <1>n DEF NoHole
<1>13. CASE Killed
  BY <1>1, <1>2, <1>13 DEF Killed, Clean, HoleAtEnd, Done
<1> QED BY <1>6, <1>7, <1>8, <1>9, <1>10, <1>11, <1>12, <1>13 DEF Starting

LEMMA CleanKept == IInv /\ Ids /\ OldFiles /\ Clean /\ [Next]_vars => Clean'
<1> SUFFICES ASSUME IInv, Ids, OldFiles, Clean, [Next]_vars, ~ late' PROVE Clean'
  BY DEF Clean
<1>1. CASE (\E t \in Times : Write(t)) \/ Drop \/ Joined \/ Kill \/ UNCHANGED vars
  <2>1. UNCHANGED <<files, half, cur, pos, late, newVars>>
    BY <1>1 DEF Write, Drop, Joined, Kill, vars, oldVars, ghosts
  <2> QED BY <2>1 DEF Clean, HoleAtEnd, newVars
<1>2. CASE Take \/ WriteHalf \/ WriteRest \/ Flush
  BY <1>2, CleanOld
<1>3. CASE Starting
  BY <1>3, CleanNew
<1> QED BY <1>1, <1>2, <1>3 DEF Next, Starting, Advances

-----------------------------------------------------------------------------
(* Samples in sequences. *)

LEMMA AppendRange ==
    ASSUME NEW s \in Seq(Times), NEW t \in Times
    PROVE  Range(Append(s, t)) = Range(s) \cup {t}
<1>1. Len(s) \in Nat /\ DOMAIN Append(s, t) = 1 .. Len(s) + 1 /\ DOMAIN s = 1 .. Len(s)
  OBVIOUS
<1>2. \A n \in 1 .. Len(s) + 1 : Append(s, t)[n] = IF n = Len(s) + 1 THEN t ELSE s[n]
  OBVIOUS
<1>3. ASSUME NEW n \in 1 .. Len(s) + 1 PROVE Append(s, t)[n] \in Range(s) \cup {t}
  BY <1>1, <1>2 DEF Range
<1>4. t \in Range(Append(s, t))
  <2>1. Len(s) + 1 \in DOMAIN Append(s, t) /\ Append(s, t)[Len(s) + 1] = t
    BY <1>1, <1>2
  <2> QED BY <2>1 DEF Range
<1>5. ASSUME NEW n \in DOMAIN s PROVE s[n] \in Range(Append(s, t))
  <2>1. n \in DOMAIN Append(s, t) /\ Append(s, t)[n] = s[n]
    BY <1>1, <1>2
  <2> QED BY <2>1 DEF Range
<1> QED BY <1>1, <1>3, <1>4, <1>5 DEF Range

LEMMA SecondRange ==
    ASSUME NEW s \in Seq(Times), NEW m \in Seq(Times)
    PROVE  Range(m) \subseteq Range(s \o m)
<1>1. Len(s) \in Nat /\ Len(m) \in Nat /\ s \o m \in Seq(Times) /\ DOMAIN m = 1 .. Len(m)
  OBVIOUS
<1>2. ASSUME NEW n \in DOMAIN m
      PROVE  Len(s) + n \in DOMAIN (s \o m) /\ (s \o m)[Len(s) + n] = m[n]
  BY <1>1
<1> QED BY <1>2 DEF Range

LEMMA AcceptsBoth ==
    ASSUME NEW s \in Seq(Times), NEW m \in Seq(Times), NEW t \in Times
    PROVE  Accepts(s \o m, t) <=> Accepts(s, t) /\ Accepts(m, t)
<1>1. /\ Len(s) \in Nat /\ Len(m) \in Nat /\ DOMAIN s = 1 .. Len(s) /\ DOMAIN m = 1 .. Len(m)
      /\ DOMAIN (s \o m) = 1 .. Len(s) + Len(m)
  OBVIOUS
<1>2. \A n \in 1 .. Len(s) + Len(m) :
          (s \o m)[n] = IF n <= Len(s) THEN s[n] ELSE m[n - Len(s)]
  OBVIOUS
<1>3. ASSUME Accepts(s \o m, t) PROVE Accepts(s, t) /\ Accepts(m, t)
  <2>1. ASSUME NEW n \in DOMAIN s PROVE s[n] < t
    <3>1. n \in DOMAIN (s \o m) /\ (s \o m)[n] = s[n]
      BY <1>1, <1>2
    <3> QED BY <1>3, <3>1 DEF Accepts
  <2>2. ASSUME NEW n \in DOMAIN m PROVE m[n] < t
    <3>1. Len(s) + n \in DOMAIN (s \o m) /\ (s \o m)[Len(s) + n] = m[n]
      BY <1>1, <1>2
    <3> QED BY <1>3, <3>1 DEF Accepts
  <2> QED BY <2>1, <2>2 DEF Accepts
<1>4. ASSUME Accepts(s, t), Accepts(m, t) PROVE Accepts(s \o m, t)
  <2>1. ASSUME NEW n \in DOMAIN (s \o m) PROVE (s \o m)[n] < t
    <3>1. CASE n <= Len(s)
      <4>1. n \in DOMAIN s /\ (s \o m)[n] = s[n]
        BY <1>1, <1>2, <3>1
      <4> QED BY <4>1, <1>4 DEF Accepts
    <3>2. CASE ~ (n <= Len(s))
      <4>1. n - Len(s) \in DOMAIN m /\ (s \o m)[n] = m[n - Len(s)]
        BY <1>1, <1>2, <3>2
      <4> QED BY <4>1, <1>4 DEF Accepts
    <3> QED BY <3>1, <3>2
  <2> QED BY <2>1 DEF Accepts
<1> QED BY <1>3, <1>4

LEMMA FirstAppend ==
    ASSUME NEW q \in Seq(Times), NEW x \in Times, NEW t \in Times
    PROVE  /\ First(t, q) => First(t, Append(q, x))
           /\ Accepts(q, x) => First(x, Append(q, x))
<1>1. /\ Len(q) \in Nat /\ DOMAIN q = 1 .. Len(q) /\ DOMAIN Append(q, x) = 1 .. Len(q) + 1
      /\ \A n \in 1 .. Len(q) : Append(q, x)[n] = q[n]
      /\ Append(q, x)[Len(q) + 1] = x
  OBVIOUS
<1>2. ASSUME First(t, q) PROVE First(t, Append(q, x))
  <2>1. PICK k \in DOMAIN q : q[k] = t /\ \A j \in 1 .. k - 1 : q[j] < t
    BY <1>2 DEF First
  <2>2. k \in DOMAIN Append(q, x) /\ Append(q, x)[k] = t
    BY <1>1, <2>1
  <2>3. \A j \in 1 .. k - 1 : j \in 1 .. Len(q)
    BY <1>1
  <2> QED BY <1>1, <2>1, <2>2, <2>3 DEF First
<1>3. ASSUME Accepts(q, x) PROVE First(x, Append(q, x))
  <2>1. Len(q) + 1 \in DOMAIN Append(q, x) /\ 1 .. (Len(q) + 1) - 1 = DOMAIN q
    BY <1>1
  <2>2. \A j \in 1 .. (Len(q) + 1) - 1 : Append(q, x)[j] < x
    BY <1>1, <2>1, <1>3 DEF Accepts
  <2> QED BY <1>1, <2>1, <2>2 DEF First
<1> QED BY <1>2, <1>3

LEMMA FirstTail ==
    ASSUME NEW q \in Seq(Times), NEW t \in Times, First(t, q)
    PROVE  Head(q) = t \/ (Head(q) < t /\ First(t, Tail(q)))
<1>1. PICK k \in DOMAIN q : q[k] = t /\ \A j \in 1 .. k - 1 : q[j] < t
  BY DEF First
<1>2. Len(q) \in Nat \ {0} /\ DOMAIN q = 1 .. Len(q) /\ q # <<>>
  BY <1>1
<1>3. /\ Head(q) = q[1] /\ DOMAIN Tail(q) = 1 .. Len(q) - 1
      /\ \A j \in 1 .. Len(q) - 1 : Tail(q)[j] = q[j + 1]
  BY <1>2
<1>4. CASE k = 1
  BY <1>1, <1>3, <1>4
<1>5. CASE k # 1
  <2>1. 1 \in 1 .. k - 1 /\ k - 1 \in DOMAIN Tail(q) /\ k - 1 \in Nat
    BY <1>2, <1>3, <1>5
  <2>2. Tail(q)[k - 1] = t
    BY <1>1, <1>2, <1>3, <2>1
  <2>3. ASSUME NEW j \in 1 .. (k - 1) - 1 PROVE Tail(q)[j] < t
    <3>1. j + 1 \in 1 .. k - 1 /\ j \in 1 .. Len(q) - 1
      BY <1>2
    <3> QED BY <3>1, <1>1, <1>3
  <2> QED BY <1>1, <1>3, <2>1, <2>2, <2>3 DEF First
<1> QED BY <1>4, <1>5

LEMMA AcceptsTail ==
    ASSUME NEW q \in Seq(Times), q # <<>>, NEW t \in Times, Accepts(q, t)
    PROVE  Head(q) < t /\ Accepts(Tail(q), t)
<1>1. Len(q) \in Nat \ {0} /\ DOMAIN q = 1 .. Len(q)
  OBVIOUS
<1>2. /\ Head(q) = q[1] /\ DOMAIN Tail(q) = 1 .. Len(q) - 1
      /\ \A j \in 1 .. Len(q) - 1 : Tail(q)[j] = q[j + 1]
  BY <1>1
<1>3. 1 \in DOMAIN q /\ \A j \in 1 .. Len(q) - 1 : j + 1 \in DOMAIN q
  BY <1>1
<1> QED BY <1>2, <1>3 DEF Accepts

-----------------------------------------------------------------------------
(* The log while the old server has LOCK. *)

Known ==
    /\ \A f \in DOMAIN files : \A n \in DOMAIN files[f] :
          files[f][n] # Hole => LateOf(accepted, files[f][n])
    /\ \A n \in DOMAIN hand : LateOf(accepted, hand[n])
    /\ \A n \in DOMAIN buf : LateOf(accepted, buf[n])

OnWay(t) == t \in Range(saved) \/ (Accepts(saved, t) /\ Logged(t))

LEMMA LateBelow ==
    ASSUME accepted \in Seq(Times), NEW t \in Times, Accepts(accepted, t), NEW x \in Nat, LateOf(accepted, x)
    PROVE  x < t
<1>1. PICK n \in DOMAIN accepted : x <= accepted[n]
  BY DEF LateOf, Range
<1>2. accepted[n] \in Nat /\ t \in Nat /\ accepted[n] < t
  <2>1. accepted[n] \in Times
    OBVIOUS
  <2> QED BY <2>1, TimesAbove DEF Accepts
<1> QED BY <1>1, <1>2

LEMMA PlaceType ==
    ASSUME FilesType, NEW f \in DOMAIN files, NEW n \in DOMAIN files[f]
    PROVE  files[f][n] \in Nat
<1>1. files[f][n] \in Places
  BY Sizes
<1> QED BY <1>1, TimesAbove DEF Places, Hole

\* Whatever the log holds, a sample that is accepted comes behind it.
LEMMA KnownBelow ==
    ASSUME FilesType, OldType, NewType, Known, NEW t \in Times, Accepts(accepted, t)
    PROVE  FilesBelow(t) /\ Accepts(hand, t) /\ Accepts(buf, t)
<1>0. hand \in Seq(Times) /\ buf \in Seq(Times) /\ accepted \in Seq(Times)
  BY DEF OldType, NewType
<1>1. ASSUME NEW f \in DOMAIN files, NEW n \in DOMAIN files[f] PROVE files[f][n] < t
  <2>1. CASE files[f][n] = Hole
    BY <2>1, TimesAbove
  <2>2. CASE files[f][n] # Hole
    BY <2>2, <1>0, PlaceType, LateBelow DEF Known
  <2> QED BY <2>1, <2>2
<1>2. ASSUME NEW n \in DOMAIN hand PROVE hand[n] < t
  <2>1. hand[n] \in Times
    BY <1>0
  <2>2. hand[n] \in Nat
    BY <2>1, TimesAbove
  <2> QED BY <1>0, <2>2, LateBelow DEF Known
<1>3. ASSUME NEW n \in DOMAIN buf PROVE buf[n] < t
  <2>1. buf[n] \in Times
    BY <1>0
  <2>2. buf[n] \in Nat
    BY <2>1, TimesAbove
  <2> QED BY <1>0, <2>2, LateBelow DEF Known
<1> QED BY <1>1, <1>2, <1>3 DEF FilesBelow, Accepts

LEMMA InFileKept ==
    ASSUME IInv, Ids, [Next]_vars, ~ Flush, newPc \notin Done, NEW t \in Times, InFile(t)
    PROVE  InFile(t)'
<1>1. PICK f \in DOMAIN files : \E n \in DOMAIN files[f] : At(t, f, n)
  BY DEF InFile
<1>2. PICK n \in DOMAIN files[f] : At(t, f, n)
  BY <1>1
<1>3. f \in DOMAIN files' /\ n \in DOMAIN files'[f] /\ At(t, f, n)'
  BY <1>2, AtKept
<1> QED BY <1>3 DEF InFile

LEMMA WriteOldLog ==
    ASSUME IInv, Ids, OldLog, lock = "old", [Next]_vars, NEW t \in Times, Write(t)
    PROVE  OldLog'
<1>1. /\ UNCHANGED <<files, hand, cur, pos, saved>> /\ buf' = Append(buf, t)
      /\ buf \in Seq(Times) /\ hand \in Seq(Times)
      /\ accepted \in Seq(Times) /\ saved \in Seq(Times) /\ oldMem \in Seq(Times)
      /\ accepted = saved \o oldMem /\ FilesType /\ OldType /\ NewType
  BY DEF Write, IInv, OldType, NewType, InOrder
<1>2. Known /\ \A u \in Range(accepted) : OnWay(u)
  BY DEF OldLog, Known, OnWay
<1>3. /\ Accepts(accepted, t) => accepted' = Append(accepted, t)
      /\ ~ Accepts(accepted, t) => accepted' = accepted
  BY DEF Write
<1>4. Range(accepted) \subseteq Range(accepted') /\ Range(accepted') \subseteq Range(accepted) \cup {t}
  <2>1. accepted' = Append(accepted, t) \/ accepted' = accepted
    BY <1>3
  <2>2. accepted \in Seq(Times) /\ Range(Append(accepted, t)) = Range(accepted) \cup {t}
    BY <1>1, AppendRange
  <2>3. CASE accepted' = Append(accepted, t)
    BY <2>2, <2>3
  <2>4. CASE accepted' = accepted
    BY <2>4
  <2> QED BY <2>1, <2>3, <2>4
<1>5. \A x : LateOf(accepted, x) => LateOf(accepted', x)
  BY <1>4 DEF LateOf
<1>6. LateOf(accepted', t)
  <2>1. CASE Accepts(accepted, t)
    <3>1. t \in Range(accepted')
      <4>1. accepted' = Append(accepted, t) /\ accepted \in Seq(Times)
        BY <1>1, <1>3, <2>1
      <4>2. t \in Range(Append(accepted, t))
        BY <4>1, AppendRange
      <4> QED BY <4>1, <4>2
    <3>2. t <= t
      BY TimesAbove
    <3> QED BY <3>1, <3>2 DEF LateOf
  <2>2. CASE ~ Accepts(accepted, t)
    <3>1. PICK n \in DOMAIN accepted : ~ (accepted[n] < t)
      BY <2>2 DEF Accepts
    <3>2. accepted[n] \in Times
      BY <1>1
    <3>3. t <= accepted[n]
      <4>1. accepted[n] \in Nat /\ t \in Nat
        BY <3>2, TimesAbove
      <4> QED BY <3>1, <4>1
    <3>4. accepted[n] \in Range(accepted')
      BY <1>4 DEF Range
    <3> QED BY <3>3, <3>4 DEF LateOf
  <2> QED BY <2>1, <2>2
<1>7. Known'
  <2>1. ASSUME NEW n \in DOMAIN buf' PROVE LateOf(accepted', buf'[n])
    <3>1. n \in 1 .. Len(buf) + 1 /\ Len(buf) \in Nat
      BY <1>1
    <3>2. buf'[n] = t \/ (n \in DOMAIN buf /\ buf'[n] = buf[n])
      BY <1>1, <3>1
    <3>3. ASSUME buf'[n] = t PROVE LateOf(accepted', buf'[n])
      BY <3>3, <1>6 DEF LateOf
    <3>4. ASSUME n \in DOMAIN buf, buf'[n] = buf[n] PROVE LateOf(accepted', buf'[n])
      BY <3>4, <1>2, <1>5 DEF LateOf, Known
    <3> QED BY <3>2, <3>3, <3>4
  <2>2. ASSUME NEW f \in DOMAIN files', NEW n \in DOMAIN files'[f], files'[f][n] # Hole
        PROVE  LateOf(accepted', files'[f][n])
    BY <2>2, <1>1, <1>2, <1>5 DEF Known, LateOf
  <2>3. ASSUME NEW n \in DOMAIN hand' PROVE LateOf(accepted', hand'[n])
    BY <2>3, <1>1, <1>2, <1>5 DEF Known, LateOf
  <2> QED BY <2>1, <2>2, <2>3 DEF Known
<1>8. ASSUME NEW u \in Range(accepted') PROVE OnWay(u)'
  <2>1. CASE u \in Range(accepted)
    <3>1. OnWay(u) /\ u \in Times
      BY <1>1, <1>2, <2>1 DEF Range
    <3>2. CASE u \in Range(saved)
      BY <1>1, <3>2 DEF OnWay
    <3>3. CASE Accepts(saved, u) /\ Logged(u)
      <4>1. InFile(u) => InFile(u)'
        BY <1>1 DEF InFile, At
      <4>2. First(u, buf) => First(u, buf')
        BY <1>1, <3>1, FirstAppend
      <4>3. FilesBelow(u) => FilesBelow(u)'
        BY <1>1 DEF FilesBelow
      <4>4. Logged(u)'
        BY <1>1, <3>3, <4>1, <4>2, <4>3 DEF Logged, First
      <4> QED BY <1>1, <3>3, <4>4 DEF OnWay, Accepts
    <3> QED BY <3>1, <3>2, <3>3 DEF OnWay
  <2>2. CASE u \notin Range(accepted)
    <3>1. u = t /\ Accepts(accepted, t)
      BY <1>3, <1>4, <2>2
    <3>2. Accepts(saved, t)
      BY <1>1, <3>1, AcceptsBoth
    <3>3. FilesBelow(t) /\ Accepts(hand, t) /\ Accepts(buf, t)
      BY <1>1, <1>2, <3>1, KnownBelow
    <3>4. First(t, buf')
      BY <1>1, <3>3, FirstAppend
    <3>5. Logged(t)'
      BY <1>1, <3>3, <3>4 DEF Logged, FilesBelow, Accepts, First
    <3> QED BY <1>1, <3>1, <3>2, <3>5 DEF OnWay, Accepts
  <2> QED BY <2>1, <2>2
<1> QED BY <1>7, <1>8 DEF OldLog, Known, OnWay

\* What every place of the files is below stays below what is written there.
LEMMA BelowPut ==
    ASSUME FilesType, pos \in Nat, NEW t \in Times, FilesBelow(t),
           NEW record, record < t, files' = Put(record)
    PROVE  FilesBelow(t)'
<1>1. DOMAIN files' = DOMAIN files
  BY DEF Put
<1>2. ASSUME NEW f \in DOMAIN files', NEW n \in DOMAIN files'[f] PROVE files'[f][n] < t
  <2>1. f \in DOMAIN files /\ n \in DOMAIN Put(record)[f]
    BY <1>1
  <2>2. \/ files'[f][n] = record
        \/ n \in DOMAIN files[f] /\ files'[f][n] = files[f][n]
        \/ files'[f][n] = Hole
    BY <2>1, PutFrom
  <2>3. n \in DOMAIN files[f] => files[f][n] < t
    BY <2>1 DEF FilesBelow
  <2> QED BY <2>2, <2>3, TimesAbove
<1> QED BY <1>2 DEF FilesBelow

LEMMA KnownPut ==
    ASSUME FilesType, pos \in Nat, Known, accepted' = accepted,
           NEW record, record = Hole \/ LateOf(accepted, record), files' = Put(record)
    PROVE  \A f \in DOMAIN files' : \A n \in DOMAIN files'[f] :
               files'[f][n] # Hole => LateOf(accepted', files'[f][n])
<1>1. DOMAIN files' = DOMAIN files
  BY DEF Put
<1>2. ASSUME NEW f \in DOMAIN files', NEW n \in DOMAIN files'[f], files'[f][n] # Hole
      PROVE  LateOf(accepted', files'[f][n])
  <2>1. f \in DOMAIN files /\ n \in DOMAIN Put(record)[f]
    BY <1>1
  <2>2. \/ files'[f][n] = record
        \/ n \in DOMAIN files[f] /\ files'[f][n] = files[f][n]
    BY <1>2, <2>1, PutFrom
  <2>3. n \in DOMAIN files[f] /\ files[f][n] # Hole => LateOf(accepted, files[f][n])
    BY <2>1 DEF Known
  <2> QED BY <1>2, <2>2, <2>3
<1> QED BY <1>2

\* An action that neither accepts nor saves keeps what it keeps on its way.
LEMMA OldLogBy ==
    ASSUME IInv, OldLog, lock = "old", accepted' = accepted, saved' = saved, Known',
           \A t \in Times : Logged(t) => Logged(t)'
    PROVE  OldLog'
<1>1. accepted \in Seq(Times) /\ \A t \in Range(accepted) : OnWay(t) /\ t \in Times
  BY DEF OldLog, OnWay, IInv, NewType, Range
<1>2. \A t \in Range(accepted') : OnWay(t)'
  BY <1>1 DEF OnWay, Accepts
<1> QED BY <1>2 DEF OldLog, Known, OnWay

LEMMA TakeOldLog ==
    ASSUME IInv, Ids, OldLog, lock = "old", [Next]_vars, Take, newPc \notin Done
    PROVE  OldLog'
<1>1. hand = <<>> /\ hand' = buf /\ buf' = <<>> /\ accepted' = accepted /\ saved' = saved
  BY DEF Take
<1>2. \A f \in DOMAIN files' : \A n \in DOMAIN files'[f] :
          f \in DOMAIN files /\ n \in DOMAIN files[f] /\ files'[f][n] = files[f][n]
  <2>1. CASE files' = files
    BY <2>1
  <2>2. CASE cur + 1 \notin DOMAIN files /\ files' = WithFile(cur + 1)
    BY <2>2, WithFrom
  <2> QED BY <2>1, <2>2 DEF Take
<1>3. Known
  BY DEF OldLog, Known
<1>4. Known'
  BY <1>1, <1>2, <1>3 DEF Known
<1>5. ~ Flush
  BY <1>1 DEF Take, Flush
<1>6. ASSUME NEW t \in Times, Logged(t) PROVE Logged(t)'
  <2>1. InFile(t) => InFile(t)'
    BY <1>5, InFileKept
  <2>2. FilesBelow(t) => FilesBelow(t)'
    BY <1>2 DEF FilesBelow
  <2>3. ~ First(t, hand)
    BY <1>1 DEF First
  <2> QED BY <1>1, <1>6, <2>1, <2>2, <2>3 DEF Logged, First
<1> QED BY <1>1, <1>4, <1>6, OldLogBy

LEMMA WriteHalfOldLog ==
    ASSUME IInv, Ids, OldLog, lock = "old", [Next]_vars, WriteHalf, newPc \notin Done
    PROVE  OldLog'
<1>1. /\ files' = Put(Hole) /\ UNCHANGED <<hand, buf, accepted, saved>> /\ hand # <<>>
      /\ FilesType /\ pos \in Nat
  BY DEF WriteHalf, IInv, OldType
<1>2. Known
  BY DEF OldLog, Known
<1>3. \A f \in DOMAIN files' : \A n \in DOMAIN files'[f] :
          files'[f][n] # Hole => LateOf(accepted', files'[f][n])
  BY <1>1, <1>2, KnownPut
<1>4. Known'
  BY <1>1, <1>2, <1>3 DEF Known
<1>5. ~ Flush
  <2>1. ~ half /\ half'
    BY DEF WriteHalf
  <2> QED BY <2>1 DEF Flush
<1>6. ASSUME NEW t \in Times, Logged(t) PROVE Logged(t)'
  <2>1. InFile(t) => InFile(t)'
    BY <1>5, InFileKept
  <2>2. FilesBelow(t) => FilesBelow(t)'
    BY <1>1, BelowPut, TimesAbove
  <2> QED BY <1>1, <1>6, <2>1, <2>2 DEF Logged, First, Accepts
<1> QED BY <1>1, <1>4, <1>6, OldLogBy

\* The record that is written reaches its place behind all that the log has.
LEMMA WriteRestOldLog ==
    ASSUME IInv, Ids, OldFiles, Clean, OldLog, lock = "old", [Next]_vars, WriteRest, newPc \notin Done
    PROVE  OldLog'
<1> DEFINE r == Head(hand)
<1>1. /\ UNCHANGED <<buf, accepted, saved>> /\ hand \in Seq(Times) /\ buf \in Seq(Times)
      /\ hand # <<>> /\ hand' = Tail(hand) /\ half /\ ~ half'
      /\ FilesType /\ pos \in Nat /\ pos' = pos + 1 /\ cur' = cur
  BY DEF WriteRest, IInv, OldType
<1>2. AtEnd
  BY DEF IInv, OneHolder, OldFiles
<1>3. files' = Put(r) /\ Len(files[cur]) = pos + 1 /\ cur \in DOMAIN files
  <2>1. files' = Put(IF cur \in DOMAIN files /\ Len(files[cur]) <= pos THEN Hole ELSE r)
    BY DEF WriteRest
  <2>2. Len(files[cur]) = pos + 1 /\ cur \in DOMAIN files
    BY <1>1, <1>2 DEF AtEnd
  <2>3. ~ (Len(files[cur]) <= pos)
    BY <1>1, <2>2
  <2> QED BY <2>1, <2>2, <2>3
<1>4. Known
  BY DEF OldLog, Known
<1>5. r \in Times /\ LateOf(accepted, r) /\ r # Hole
  <2>1. 1 \in DOMAIN hand /\ r = hand[1] /\ r \in Times
    BY <1>1
  <2> QED BY <1>4, <2>1, TimesAbove DEF Known
<1>6. \A f \in DOMAIN files' : \A n \in DOMAIN files'[f] :
          files'[f][n] # Hole => LateOf(accepted', files'[f][n])
  BY <1>1, <1>3, <1>4, <1>5, KnownPut
<1>7. Known'
  <2>1. ASSUME NEW n \in DOMAIN hand' PROVE LateOf(accepted, hand'[n])
    <3>1. n + 1 \in DOMAIN hand /\ hand'[n] = hand[n + 1]
      BY <1>1
    <3> QED BY <3>1, <1>4 DEF Known
  <2> QED BY <1>1, <1>4, <1>6, <2>1 DEF Known
<1>8. ~ Flush
  BY <1>1 DEF Flush
<1>9. ASSUME NEW t \in Times, FilesBelow(t), r = t PROVE InFile(t)'
  <2>1. pos + 1 \in DOMAIN files'[cur] /\ files'[cur][pos + 1] = t
    BY <1>1, <1>3, <1>9, PutThere
  <2>2. DOMAIN files' = DOMAIN files
    BY <1>3 DEF Put
  <2>3. \A m \in 1 .. pos + 1 : files'[cur][m] # Hole
    <3>1. ASSUME NEW m \in 1 .. pos PROVE files'[cur][m] # Hole
      <4>1. m \in DOMAIN files[cur] /\ m # pos + 1
        BY <1>1, <1>3, Sizes
      <4>2. files[cur][m] # Hole
        BY <1>2, <1>3, <4>1 DEF AtEnd, Clean, HoleAtEnd
      <4>3. files'[cur][m] = files[cur][m]
        BY <1>1, <1>3, <4>1, PutKeeps
      <4> QED BY <4>2, <4>3
    <3>2. \A m \in 1 .. pos + 1 : m \in 1 .. pos \/ m = pos + 1
      BY <1>1
    <3> QED BY <3>1, <3>2, <2>1, TimesAbove
  <2>4. ASSUME NEW g \in DOMAIN files', NEW m \in DOMAIN files'[g],
               g < cur \/ (g = cur /\ m < pos + 1)
        PROVE  files'[g][m] < t
    <3>1. g \in DOMAIN files /\ m \in DOMAIN Put(r)[g]
      BY <1>3, <2>2
    <3>2. ~ (g = cur /\ m = pos + 1)
      BY <1>1, <2>4 DEF Ids
    <3>3. \/ m \in DOMAIN files[g] /\ files'[g][m] = files[g][m]
          \/ files'[g][m] = Hole
      BY <1>1, <1>3, <3>1, <3>2, PutFrom
    <3>4. m \in DOMAIN files[g] => files[g][m] < t
      BY <3>1, <1>9 DEF FilesBelow
    <3> QED BY <3>3, <3>4, TimesAbove
  <2>5. cur <= cur' /\ pos + 1 <= pos'
    BY <1>1 DEF Ids
  <2>6. ASSUME NEW f, NEW n, f = cur, n = pos + 1
        PROVE  f \in DOMAIN files' /\ n \in DOMAIN files'[f] /\ At(t, f, n)'
    BY <1>1, <1>3, <2>1, <2>2, <2>3, <2>4, <2>5, <2>6 DEF At
  <2> QED BY <2>6 DEF InFile
<1>10. ASSUME NEW t \in Times, Logged(t) PROVE Logged(t)'
  <2>1. CASE InFile(t)
    BY <2>1, <1>8, InFileKept DEF Logged
  <2>2. ASSUME FilesBelow(t), r < t PROVE FilesBelow(t)'
    BY <1>1, <1>3, <2>2, BelowPut
  <2>3. CASE FilesBelow(t) /\ First(t, hand)
    <3>1. CASE r = t
      BY <1>9, <2>3, <3>1 DEF Logged
    <3>2. CASE r < t /\ First(t, Tail(hand))
      BY <1>1, <2>2, <2>3, <3>2 DEF Logged, First
    <3> QED BY <1>1, <2>3, <3>1, <3>2, FirstTail
  <2>4. CASE FilesBelow(t) /\ Accepts(hand, t) /\ First(t, buf)
    <3>1. r < t /\ Accepts(Tail(hand), t)
      BY <1>1, <2>4, AcceptsTail
    <3> QED BY <1>1, <2>2, <2>4, <3>1 DEF Logged, First, Accepts
  <2> QED BY <1>10, <2>1, <2>3, <2>4 DEF Logged
<1> QED BY <1>1, <1>7, <1>10, OldLogBy

LEMMA FlushOldLog ==
    ASSUME IInv, Ids, OldLog, lock = "old", [Next]_vars, Flush, newPc \notin Done
    PROVE  OldLog'
<1>1. accepted' = accepted /\ hand' = hand /\ buf' = buf /\ accepted = saved \o oldMem
  BY DEF Flush, IInv, InOrder
<1>2. Known
  BY DEF OldLog, Known
<1>3. CASE oldMem = <<>>
  <2>1. UNCHANGED <<files, saved, cur, pos>>
    BY <1>3 DEF Flush
  <2>2. Known'
    BY <1>1, <1>2, <2>1 DEF Known
  <2>3. \A t \in Times : Logged(t) => Logged(t)'
    BY <1>1, <2>1 DEF Logged, First, Accepts, InFile, At, FilesBelow
  <2> QED BY <1>1, <2>1, <2>2, <2>3, OldLogBy
<1>4. CASE oldMem # <<>>
  <2>1. hand = <<>> /\ buf = <<>> /\ saved' = accepted /\ files' = OnlyFile(cur + 1)
    BY <1>1, <1>4 DEF Flush
  <2>2. DOMAIN <<>> = {}
    OBVIOUS
  <2>3. DOMAIN files' = {cur + 1} /\ files'[cur + 1] = <<>>
    BY <2>1 DEF OnlyFile
  <2>4. \A f \in DOMAIN files' : DOMAIN files'[f] = {}
    BY <2>2, <2>3
  <2>5. DOMAIN hand' = {} /\ DOMAIN buf' = {}
    BY <1>1, <2>1, <2>2
  <2>6. Known'
    BY <2>4, <2>5 DEF Known
  <2>7. \A t \in Range(accepted') : OnWay(t)'
    BY <1>1, <2>1 DEF OnWay
  <2> QED BY <2>6, <2>7 DEF OldLog, Known, OnWay
<1> QED BY <1>3, <1>4

LEMMA OldLogKept == SInv /\ [Next]_vars => OldLog'
<1> SUFFICES ASSUME SInv, [Next]_vars, lock' = "old" PROVE OldLog'
  BY DEF OldLog
<1> USE DEF SInv
<1>1. lock = "old"
  BY NewActs
<1>2. newPc \notin Done
  BY <1>1, OldActs DEF Done
<1>3. CASE Drop \/ Kill
  BY <1>1, <1>3 DEF Drop, Kill, Dies
<1>4. CASE UNCHANGED vars
  BY <1>4 DEF vars, oldVars, ghosts, OldLog, Logged, InFile, At, FilesBelow, First, Accepts
<1> QED
  BY <1>1, <1>2, <1>3, <1>4, OldActs, WriteOldLog, TakeOldLog, WriteHalfOldLog, WriteRestOldLog, FlushOldLog

-----------------------------------------------------------------------------
(* The log once the old server has let LOCK go. *)

\* What it had written by then is in the files, with nothing late before it.
LEMMA LetGo ==
    ASSUME SInv, [Next]_vars, lock = "old", lock' # "old"
    PROVE  NewLog'
<1> USE DEF SInv
<1>1. Drop \/ Kill \/ Take
  BY OldActs DEF Write, WriteHalf, WriteRest, Flush, vars
<1>2. /\ accepted' = accepted /\ saved' = saved /\ buffered' = Unwritten
      /\ newPc' = newPc /\ newPc \in {"closed", "refused"} /\ newPc \notin Done
  BY <1>1, OldActs DEF Drop, Kill, Take, Dies, newVars, Done
<1>3. ~ Flush
  <2>1. oldPc' # "flushed"
    BY <1>1 DEF Drop, Kill, Take, Dies
  <2> QED BY <2>1 DEF Flush
<1>4. ASSUME NEW t \in Range(accepted') \ buffered' PROVE Kept(t)'
  <2>1. t \in Times /\ OnWay(t) /\ t \notin Range(hand) /\ t \notin Range(buf)
    <3>1. accepted \in Seq(Times) /\ t \in Range(accepted)
      BY <1>2 DEF IInv, NewType
    <3>2. t \in Times
      BY <3>1 DEF Range
    <3>3. t \notin Range(hand) /\ t \notin Range(buf)
      BY <1>2 DEF Unwritten
    <3>4. OnWay(t)
      BY <3>1 DEF OldLog, OnWay
    <3> QED BY <3>2, <3>3, <3>4
  <2>2. CASE t \in Range(saved)
    BY <1>2, <2>2 DEF Kept
  <2>3. CASE t \notin Range(saved)
    <3>1. ~ First(t, hand) /\ ~ First(t, buf)
      BY <2>1 DEF First, Range
    <3>2. Accepts(saved, t) /\ InFile(t)
      BY <2>1, <2>3, <3>1 DEF OnWay, Logged
    <3>3. InFile(t)'
      BY <1>2, <1>3, <2>1, <3>2, InFileKept
    <3>4. \A f, n : Replayed(t, f, n)'
      BY <1>2 DEF Replayed, Done
    <3> QED BY <1>2, <3>2, <3>3, <3>4 DEF Kept, InFile, Accepts
  <2> QED BY <2>2, <2>3
<1> QED BY <1>4 DEF NewLog

\* Replay comes nearer to a record, or takes the sample it holds.
LEMMA ReplayedKept ==
    ASSUME SInv, [Next]_vars, lock # "old", NEW t \in Times, Accepts(saved, t),
           NEW f \in DOMAIN files, NEW n \in DOMAIN files[f],
           At(t, f, n), Replayed(t, f, n), ~ Save
    PROVE  Replayed(t, f, n)'
<1> USE DEF SInv
<1>1. /\ f \in Nat \ {0} /\ n \in 1 .. Len(files[f]) /\ Len(files[f]) \in Nat /\ n \in Nat \ {0}
      /\ FilesType /\ next \in Nat \ {0} /\ at \in Nat /\ found \subseteq Nat \ {0}
      /\ newMem \in Seq(Times) /\ saved \in Seq(Times) /\ t \in Nat
  BY AtType DEF IInv, NewType, Ids
<1>2. newPc \notin Done
  BY DEF Replayed
<1>u. ASSUME UNCHANGED newVars PROVE Replayed(t, f, n)'
  BY <1>u DEF newVars, Replayed, Ahead, Accepts
<1>3. CASE Take \/ WriteHalf \/ WriteRest \/ Joined \/ Kill \/ UNCHANGED vars
  BY <1>3, <1>u DEF Take, WriteHalf, WriteRest, Joined, Kill, vars
<1>4. CASE Open
  <2>1. newPc' = "reading" /\ found' = DOMAIN files /\ at' = 0 /\ newMem' = <<>>
    BY <1>4 DEF Open
  <2>2. DOMAIN <<>> = {}
    OBVIOUS
  <2> QED BY <1>1, <2>1, <2>2 DEF Replayed, Ahead, Accepts, Done
<1>5. CASE ReadRecord
  <2> DEFINE x == files[at][next]
  <2>1. /\ newPc = "reading" /\ newPc' = "reading" /\ found' = found /\ at' = at /\ next' = next + 1
        /\ newMem' = Applied(x) /\ at \in found /\ next <= Len(files[at]) /\ x # Hole
    BY <1>5 DEF ReadRecord, Reading
  <2>2. x \in Times /\ x \in Nat /\ at \in DOMAIN files /\ next \in DOMAIN files[at]
    <3>1. at \in DOMAIN files
      BY <2>1 DEF IInv, FoundThere
    <3>2. next \in DOMAIN files[at]
      BY <2>1, <3>1, <1>1, Sizes
    <3>3. x \in Places
      BY <3>1, <3>2, <1>1, Sizes
    <3>4. x \in Times
      BY <2>1, <3>3 DEF Places
    <3> QED BY <3>1, <3>2, <3>4, TimesAbove
  <2>3. newMem' = newMem \/ newMem' = Append(newMem, x)
    BY <2>1 DEF Applied
  <2>4. Range(newMem) \subseteq Range(newMem')
    BY <1>1, <2>2, <2>3, AppendRange
  <2>5. t \in Range(newMem) \/ Ahead(t, f, n)
    BY <2>1 DEF Replayed
  <2>6. ASSUME Ahead(t, f, n), ~ (f = at /\ n = next) PROVE Ahead(t, f, n)'
    <3>1. f \in found /\ (f > at \/ (f = at /\ n >= next + 1)) /\ Accepts(newMem, t)
      BY <2>6, <1>1 DEF Ahead
    <3>2. x < t
      BY <3>1, <2>2, <1>1 DEF At
    <3>3. Accepts(newMem', t)
      <4>1. CASE newMem' = newMem
        BY <3>1, <4>1
      <4>2. CASE newMem' = Append(newMem, x)
        <5>1. ASSUME NEW k \in DOMAIN newMem' PROVE newMem'[k] < t
          <6>1. newMem'[k] = x \/ (k \in DOMAIN newMem /\ newMem'[k] = newMem[k])
            BY <1>1, <2>2, <4>2
          <6> QED BY <3>1, <3>2, <6>1 DEF Accepts
        <5> QED BY <5>1 DEF Accepts
      <4> QED BY <2>3, <4>1, <4>2
    <3> QED BY <2>1, <3>1, <3>3 DEF Ahead
  <2>7. ASSUME Ahead(t, f, n), f = at, n = next PROVE t \in Range(newMem')
    <3>1. x = t /\ Accepts(newMem, t)
      BY <2>7 DEF At, Ahead
    <3>2. Accepts(saved \o newMem, t)
      BY <1>1, <3>1, AcceptsBoth
    <3>3. newMem' = Append(newMem, t)
      BY <2>1, <3>1, <3>2 DEF Applied
    <3> QED BY <1>1, <3>3, AppendRange
  <2> QED BY <2>1, <2>4, <2>5, <2>6, <2>7 DEF Replayed, Done
<1>6. CASE NextFile
  <2>1. /\ newPc = "reading" /\ found' = found /\ newMem' = newMem
        /\ at \in found => next > Len(files[at])
    BY <1>6 DEF NextFile
  <2>2. Ahead(t, f, n) => f > at /\ f \in found
    BY <1>1, <2>1 DEF Ahead
  <2>3. CASE at >= LastFound
    <3>1. ~ Ahead(t, f, n)
      <4>1. LastFound \in Nat /\ (f \in found => f <= LastFound)
        BY LastIs
      <4> QED BY <1>1, <2>2, <2>3, <4>1
    <3>2. newPc' = "replayed" /\ t \in Range(newMem')
      BY <1>6, <2>1, <2>3, <3>1 DEF NextFile, Replayed
    <3> QED BY <3>2 DEF Replayed, Done
  <2>4. CASE ~ (at >= LastFound)
    <3>1. LastFound \in Nat
      BY LastIs
    <3>2. at < LastFound
      BY <1>1, <2>4, <3>1
    <3>3. at' \in found /\ \A g \in found : g > at => at' <= g
      BY <1>6, <2>4, <3>2, NextIs DEF NextFile
    <3>4. newPc' = "reading" /\ next' = 1
      BY <1>6, <2>1, <2>4 DEF NextFile
    <3>5. Ahead(t, f, n) => Ahead(t, f, n)'
      <4>1. ASSUME Ahead(t, f, n) PROVE f > at' \/ (f = at' /\ n >= 1)
        <5>1. at' <= f /\ at' \in Nat
          BY <4>1, <2>2, <3>3, <1>1
        <5> QED BY <5>1, <1>1
      <4> QED BY <2>1, <2>2, <3>4, <4>1 DEF Ahead
    <3> QED BY <2>1, <3>4, <3>5 DEF Replayed, Done
  <2> QED BY <2>3, <2>4
<1>7. CASE ReadHole
  <2>1. /\ newPc = "reading" /\ newMem' = newMem /\ at \in found /\ next <= Len(files[at])
        /\ files[at][next] = Hole
        /\ (at = LastFound /\ newPc' = "replayed") \/ newPc' = "refused"
    BY <1>7 DEF ReadHole, Reading
  <2>2. ASSUME at = LastFound, Ahead(t, f, n) PROVE FALSE
    <3>1. LastFound \in Nat /\ (f \in found => f <= LastFound)
      BY LastIs
    <3>2. f = at /\ n >= next
      BY <1>1, <2>2, <3>1 DEF Ahead
    <3>3. next \in 1 .. n
      BY <1>1, <3>2
    <3> QED BY <2>1, <3>2, <3>3 DEF At
  <2>3. at = LastFound => t \in Range(newMem')
    BY <2>1, <2>2 DEF Replayed
  <2> QED BY <2>1, <2>3 DEF Replayed, Done
<1>8. CASE Create \/ Cut
  BY <1>8 DEF Create, Cut, Replayed, Done
<1>9. CASE Advances \/ RemoveFile
  <2>1. ~ (List \/ RemoveFile \/ Removed)
    BY <1>2 DEF List, RemoveFile, Removed, Done
  <2>2. ~ NothingToFlush
    <3>1. newPc = "created" => t \in Range(newMem)
      BY DEF Replayed
    <3>2. Range(<<>>) = {}
      BY DEF Range
    <3> QED BY <3>1, <3>2 DEF NothingToFlush
  <2> QED BY <1>9, <2>1, <2>2 DEF Advances
<1>10. CASE Killed
  BY <1>10 DEF Killed, Replayed, Done
<1> QED BY <1>3, <1>4, <1>5, <1>6, <1>7, <1>8, <1>9, <1>10, NewActs DEF Starting

LEMMA NewLogKept == SInv /\ [Next]_vars => NewLog'
<1> SUFFICES ASSUME SInv, [Next]_vars, lock' # "old",
                    NEW t \in Range(accepted') \ buffered'
             PROVE  Kept(t)'
  BY DEF NewLog
<1> USE DEF SInv
<1>1. CASE lock = "old"
  BY <1>1, LetGo DEF NewLog
<1>2. CASE lock # "old"
  <2>1. t \in Range(accepted) \ buffered /\ Kept(t)
    BY <1>2, NewActs DEF NewLog
  <2>2. t \in Times /\ saved \in Seq(Times) /\ newMem \in Seq(Times)
    BY <2>1 DEF IInv, NewType, Range
  <2>3. saved' = saved \/ (Save /\ saved' = saved \o newMem)
    <3>1. CASE Take \/ WriteHalf \/ WriteRest \/ Joined \/ Kill
      BY <3>1 DEF Take, WriteHalf, WriteRest, Joined, Kill
    <3>2. CASE \/ Open \/ ReadRecord \/ NextFile \/ ReadHole \/ Create \/ Cut \/ Advances
               \/ RemoveFile \/ Killed \/ UNCHANGED vars
      BY <3>2
         DEF Open, ReadRecord, NextFile, ReadHole, Create, Cut, Advances, NothingToFlush, List,
             Removed, RemoveFile, Killed, vars
    <3>3. CASE Save
      BY <3>3 DEF Save
    <3> QED BY <1>2, <3>1, <3>2, <3>3, NewActs DEF Starting
  <2>4. CASE t \in Range(saved)
    BY <2>2, <2>3, <2>4, ConcatRange DEF Kept
  <2>5. CASE t \notin Range(saved)
    <3>1. PICK f \in DOMAIN files : \E n \in DOMAIN files[f] : At(t, f, n) /\ Replayed(t, f, n)
      BY <2>1, <2>5 DEF Kept
    <3>2. PICK n \in DOMAIN files[f] : At(t, f, n) /\ Replayed(t, f, n)
      BY <3>1
    <3>3. Accepts(saved, t)
      BY <2>1, <2>5 DEF Kept
    <3>4. CASE Save
      <4>1. t \in Range(newMem)
        BY <3>2, <3>4 DEF Save, Replayed
      <4>2. t \in Range(saved')
        BY <2>2, <3>4, <4>1, SecondRange DEF Save
      <4> QED BY <4>2 DEF Kept
    <3>5. CASE ~ Save
      <4>1. ~ Flush /\ newPc \notin Done
        <5>1. ~ Flush
          BY <1>2, NewActs DEF Flush
        <5> QED BY <3>2, <5>1 DEF Replayed
      <4>2. f \in DOMAIN files' /\ n \in DOMAIN files'[f] /\ At(t, f, n)'
        BY <2>2, <3>2, <4>1, AtKept
      <4>3. Replayed(t, f, n)'
        BY <1>2, <2>2, <3>2, <3>3, <3>5, ReplayedKept
      <4>4. Accepts(saved', t)
        BY <2>3, <3>3, <3>5
      <4> QED BY <4>2, <4>3, <4>4 DEF Kept
    <3> QED BY <3>4, <3>5
  <2> QED BY <2>4, <2>5
<1> QED BY <1>1, <1>2

-----------------------------------------------------------------------------

LEMMA SafeStart == Init => SInv
<1> SUFFICES ASSUME Init PROVE SInv
  OBVIOUS
<1>1. DOMAIN files = {1} /\ files[1] = <<>> /\ DOMAIN <<>> = {} /\ Len(<<>>) = 0
  BY DEF Init, OnlyFile
<1>2. DOMAIN files[1] = {} /\ Len(files[1]) = 0
  BY <1>1
<1>3. IInv
  BY Start
<1>4. Ids
  <2>1. \A f \in DOMAIN files : f <= 1
    BY <1>1
  <2>2. DOMAIN files \subseteq Nat \ {0} /\ cur \in Nat \ {0} /\ found = {} /\ at = 0 /\ newPc = "closed"
        /\ late = FALSE /\ flushed = FALSE
    BY <1>1 DEF Init
  <2>3. \E b \in Nat : \A f \in DOMAIN files : f <= b
    BY <2>1
  <2>4. \E b \in Nat : \A f \in found : f <= b
    BY <2>2
  <2> QED BY <2>2, <2>3, <2>4 DEF Ids
<1>5. OldFiles
  BY <1>1, <1>2 DEF Init, OldFiles, AtEnd
<1>6. OldLog
  BY <1>1, <1>2 DEF Init, OldLog, Range
<1>7. NewLog
  BY DEF Init, NewLog
<1>8. Clean
  BY <1>1, <1>2 DEF Init, Clean
<1> QED BY <1>3, <1>4, <1>5, <1>6, <1>7, <1>8 DEF SInv

\* The inductive invariant of what the log keeps over a handover.
THEOREM SafeHandover == Spec => []SInv
<1>1. SInv /\ [Next]_vars => SInv'
  BY InvKept, IdsKept, OldFilesKept, OldLogKept, NewLogKept, CleanKept DEF SInv
<1> QED BY SafeStart, <1>1, PTL DEF Spec

THEOREM TypeCorrect == Spec => []TypeOK
<1>1. SInv => TypeOK
  <2> SUFFICES ASSUME SInv PROVE TypeOK
    OBVIOUS
  <2> USE DEF SInv, IInv
  <2>1. \A f \in DOMAIN files : f \in Nat /\ files[f] \in Seq(Times \cup {Hole})
    BY Sizes DEF Ids, Places
  <2>2. {saved, oldMem, buf, hand, newMem, accepted} \subseteq Seq(Times)
    BY DEF OldType, NewType
  <2>3. found \subseteq Nat /\ cur \in Nat /\ at \in Nat /\ {flushed, late} \subseteq BOOLEAN
    BY DEF Ids
  <2>4. doomed \subseteq DOMAIN files /\ (newPc = "reading" => found \subseteq DOMAIN files)
    BY DEF DoomedThere, FoundThere
  <2> QED BY <2>1, <2>2, <2>3, <2>4 DEF OldType, NewType, OneHolder, Done, TypeOK
<1> QED BY <1>1, SafeHandover, PTL

\* The new server refuses the log only if the old one wrote to it without LOCK.
THEOREM RefusesOnlyLateLogs == Spec => []RefusedOnlyIfLate
<1>1. SInv => RefusedOnlyIfLate
  BY DEF SInv, Clean, RefusedOnlyIfLate
<1> QED BY <1>1, SafeHandover, PTL

\* What the old server's log had written when it let LOCK go is saved before the
\* new server is up, whatever the old one still writes meanwhile, wherever it
\* begins a file, and however often the start is killed and tried again.
THEOREM LosesOnlyBuffered == Spec => []OnlyBufferedLost
<1>1. SInv => OnlyBufferedLost
  <2> SUFFICES ASSUME SInv, newPc = "up", NEW t \in Range(accepted) \ buffered
               PROVE  t \in Range(saved)
    BY DEF OnlyBufferedLost
  <2>1. lock # "old"
    BY DEF SInv, IInv, OneHolder, Done
  <2> QED BY <2>1 DEF SInv, NewLog, Kept, Replayed, Done
<1> QED BY <1>1, SafeHandover, PTL

================================================================================
