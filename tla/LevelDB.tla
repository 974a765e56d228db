------------------------------- MODULE LevelDB -------------------------------
(***************************************************************************)
(* LevelDB's DBImpl and VersionSet: the storage engine vendored with the   *)
(* realtime database.  Writers queue up and the first writes a group of    *)
(* them to the log and the memtable; a full memtable becomes immutable and *)
(* is flushed to a table by the one background thread, which also compacts *)
(* levels of tables; readers search what they have captured under the      *)
(* mutex; the manifest says which files are the database after a crash.    *)
(*                                                                         *)
(* An action is what a thread does between taking and releasing the mutex, *)
(* or one effect outside of it: an append, a sync, a table, a record of    *)
(* the manifest.  A table is built and synced in one step: until a version *)
(* or the manifest names it, nobody opens it.  The pause of a writer near  *)
(* the limit of level 0 changes no state and is left out.                  *)
(***************************************************************************)
EXTENDS Versions

CONSTANTS
  Keys,        \* user keys, positive numbers in their order
  Writers, Readers,
  SyncWriters, \* the writers that set WriteOptions.sync
  Batches,     \* what may be written: sequences of [key, del], <<>> for NULL
  NoSnapshot, NoMem, NoRead, NoGroup, NoComp, NoRange,
  BufferSize,  \* write_buffer_size: a memtable with more is full
  GroupSize,   \* limit of a group of writes
  L0Stop,      \* config::kL0_StopWritesTrigger
  MaxWrites, MaxReads, MaxSnapshots, MaxCrashes, MaxFaults, MaxRanges,
  MaxSeeks,    \* bounds: calls, crashes, failing operations, exhausted seeks
  MaxTotal     \* bound: all of these together, but for the seeks

ASSUME KeysAssumption == Keys \subseteq 1..(After - 1)
ASSUME BatchesAssumption ==
  \A b \in Batches : b \in Seq([key : Keys, del : BOOLEAN])
ASSUME LimitsAssumption ==
  {BufferSize, GroupSize, L0Stop, MaxWrites, MaxReads, MaxSnapshots, MaxCrashes,
   MaxFaults, MaxRanges, MaxSeeks, MaxTotal} \subseteq Nat
ASSUME TriggersAssumption == L0Trigger <= L0Stop

VARIABLES
  up,         \* "open", "down", or "opening": before Open's manifest record
  mem, imm,   \* the memtables: sets of entries
  seq,        \* versions_->LastSequence()
  logs,       \* log file -> its records, and how many are synced
  logNo,      \* logfile_number_
  tables,     \* table file -> its entries, for every file on the disk
  current,    \* the current version
  minLog,     \* versions_->LogNumber()
  nextFile,   \* versions_->next_file_number_
  pointer,    \* level -> compact_pointer_: <<>> or <<key>>
  seek,       \* file_to_compact_ of the current version, or 0
  manifest,   \* what the MANIFEST adds up to
  queue,      \* writers_: [by, batch, sync]
  group,      \* what the first writer is writing
  snap,       \* reader -> the snapshot it holds
  rd,         \* reader -> what its read or iterator has captured
  pending,    \* pending_outputs_
  bgError,    \* bg_error_
  scheduled,  \* bg_compaction_scheduled_
  flush,      \* number of the table imm is being built into, or 0
  comp,       \* the compaction under way
  edit,       \* the edit that LogAndApply is working on, or NoEdit
  range,      \* the manual compaction asked for
  acked, loose, \* history: groups acknowledged, and groups in doubt
  count       \* bounds: how often each bounded thing has happened

memVars  == <<mem, imm, seq>>
logVars  == <<logs, logNo>>
setVars  == <<current, minLog, nextFile, pointer, seek, manifest>>
userVars == <<snap, rd>>
bgVars   == <<pending, bgError, scheduled, flush, comp, edit, range>>
history  == <<acked, loose>>
vars == <<up, memVars, logVars, tables, setVars, queue, group, userVars, bgVars,
          history, count>>

Files(v) == UNION {v[l] : l \in Level}
NoFiles  == [l \in Level |-> {}]
NoEdit   == [kind |-> "none"]
Counted == {"writes", "reads", "snapshots", "crashes", "faults", "ranges", "seeks"}
Tally(what, max) == count[what] < max /\ count' = [count EXCEPT ![what] = @ + 1]
Spend(what, max) ==
  /\ FoldSet(LAMBDA c, n : n + count[c], 0, Counted \ {"seeks"}) < MaxTotal
  /\ Tally(what, max)

(* A database that DB::Open has just created: NewDB's descriptor is 1, the *)
(* one Open writes 2, the log 3.                                           *)
Init ==
  /\ up = "open"
  /\ mem = {} /\ imm = NoMem /\ seq = 0
  /\ logNo = 3 /\ logs = [n \in {3} |-> [recs |-> <<>>, synced |-> 0]]
  /\ tables = [n \in {} |-> {}]
  /\ current = NoFiles /\ minLog = 3 /\ nextFile = 4 /\ seek = 0
  /\ pointer = [l \in Level |-> <<>>]
  /\ manifest = [torn |-> FALSE, files |-> NoFiles, log |-> 3, next |-> 4, seq |-> 0,
                 pointer |-> [l \in Level |-> <<>>]]
  /\ queue = <<>> /\ group = NoGroup
  /\ snap = [r \in Readers |-> NoSnapshot]
  /\ rd = [r \in Readers |-> NoRead]
  /\ pending = {} /\ bgError = FALSE /\ scheduled = FALSE
  /\ flush = 0 /\ comp = NoComp /\ edit = NoEdit /\ range = NoRange
  /\ acked = {} /\ loose = {}
  /\ count = [c \in Counted |-> 0]
-----------------------------------------------------------------------------
(* MaybeScheduleCompaction: is there work for the background thread?       *)
Ranging(m) == m # NoRange /\ m.active
Work(i, m, v, s) == i # NoMem \/ Ranging(m) \/ TooBig(tables', v) \/ s # 0

MaybeSchedule ==
  scheduled' = (scheduled \/ (~bgError' /\ Work(imm', range', current', seek')))
(* The mutant of the end of a BackgroundCall does not ask again.           *)
EndOfCallOnly == scheduled' = FALSE
EndOfCall ==
  scheduled' = (~bgError' /\ Work(imm', range', current', seek'))

(* DeleteObsoleteFiles.  One mutant knows of no version but the current    *)
(* one, the other removes the oldest log still needed.                     *)
LiveCurrent(p, v, c) == p \cup Files(v)
LiveVersions(p, v, c) ==
  Files(v) \cup (UNION {Files(rd[r].ver) : r \in {x \in Readers : rd[x] # NoRead}})
    \cup (IF c = NoComp THEN {} ELSE Files(c.ver))
Live(p, v, c) == p \cup LiveVersions(p, v, c)

KeepLogAfter(n) == n > minLog'
KeepLog(n) == n >= minLog'

DeleteObsoleteFiles ==
  IF bgError' THEN UNCHANGED <<tables, logs>>
  ELSE /\ tables' = [f \in DOMAIN tables \cap Live(pending', current', comp') |-> tables[f]]
       /\ logs' = [n \in {x \in DOMAIN logs : KeepLog(x)} |-> logs[n]]
-----------------------------------------------------------------------------
(* DBImpl::Write: a writer queues up.                                      *)
Write(w) ==
  /\ up = "open" /\ \A i \in DOMAIN queue : queue[i].by # w
  /\ Spend("writes", MaxWrites)
  /\ \E b \in Batches :
       queue' = Append(queue, [by |-> w, batch |-> b, sync |-> w \in SyncWriters])
  /\ UNCHANGED <<up, memVars, logVars, tables, setVars, group, userVars, bgVars,
                 history>>

Joins(w) == w.sync => queue[1].sync

Taken ==
  Max({n \in DOMAIN queue :
         \A i \in 2..n : Joins(queue[i])
           /\ FoldLeft(LAMBDA m, w : m + Len(w.batch), 0, SubSeq(queue, 1, i)) <= GroupSize})

Group ==
  LET ws == SubSeq(queue, 1, Taken)
      ops == FlattenSeq([i \in DOMAIN ws |-> ws[i].batch])
  IN [n |-> Taken, sync |-> queue[1].sync, stage |-> "append",
      ents |-> {[key |-> ops[i].key, del |-> ops[i].del, seq |-> seq + i] : i \in DOMAIN ops},
      last |-> \E i \in DOMAIN ws : ws[i].sync]

Promise(g) == [ents |-> g.ents, last |-> g.last]

(* What the first writer does once there is room: nothing more for a NULL  *)
(* batch.                                                                  *)
Lead ==
  \/ queue[1].batch = <<>> /\ queue' = Tail(queue) /\ UNCHANGED group
  \/ queue[1].batch # <<>> /\ group' = Group /\ UNCHANGED queue

(* MakeRoomForWrite: after an error of the background thread every write   *)
(* fails; a full memtable is switched when the last one has been flushed,  *)
(* and the write fails by itself if there is no new log.                   *)
InFront == up = "open" /\ queue # <<>> /\ group = NoGroup
Full == queue[1].batch = <<>> \/ Cardinality(mem) > BufferSize
HasRoom == imm = NoMem /\ Cardinality(current[0]) < L0Stop

WriteRefused ==
  /\ InFront
  /\ \/ bgError /\ UNCHANGED count
     \/ ~bgError /\ Full /\ HasRoom /\ Spend("faults", MaxFaults)
  /\ queue' = Tail(queue)
  /\ UNCHANGED <<up, memVars, logVars, tables, setVars, group, userVars, bgVars, history>>

WriteStarts ==
  /\ InFront /\ ~bgError /\ ~Full
  /\ Lead
  /\ UNCHANGED <<up, memVars, logVars, tables, setVars, userVars, bgVars, history,
                 count>>

Switch ==
  /\ logNo' = nextFile
  /\ logs' = [n \in DOMAIN logs \cup {nextFile} |->
                IF n = nextFile THEN [recs |-> <<>>, synced |-> 0] ELSE logs[n]]
  /\ nextFile' = nextFile + 1

WriteSwitches ==
  /\ InFront /\ ~bgError /\ Full /\ HasRoom
  /\ imm' = mem /\ mem' = {}
  /\ Switch
  /\ UNCHANGED <<up, seq, tables, current, minLog, pointer, seek, manifest,
                 userVars, pending, bgError, flush, comp, edit, range, history, count>>
  /\ MaybeSchedule
  /\ Lead

(* Without the mutex: the record, its sync, the memtable.  An append that  *)
(* fails leaves the record or not (a torn one, which would hide what is    *)
(* written behind it, is not modelled), and the log goes on being used.    *)
Stage(s) == group # NoGroup /\ group.stage = s
Then(s) == group' = [group EXCEPT !.stage = s]

Appended == [logs EXCEPT ![logNo].recs = Append(@, group.ents)]

AppendRecord ==
  /\ Stage("append")
  /\ \/ /\ logs' = Appended
        /\ Then(IF group.sync THEN "sync" ELSE "insert")
        /\ UNCHANGED count
     \/ /\ Spend("faults", MaxFaults)
        /\ logs' \in {logs, Appended}
        /\ Then("refused")
  /\ loose' = loose \cup {Promise(group)}
  /\ UNCHANGED <<up, memVars, logNo, tables, setVars, queue, userVars, bgVars, acked>>

SyncLog ==
  /\ Stage("sync")
  /\ \/ logs' = [logs EXCEPT ![logNo].synced = Len(logs[logNo].recs)]
        /\ Then("insert") /\ UNCHANGED count
     \/ Spend("faults", MaxFaults) /\ Then("failed") /\ UNCHANGED logs
  /\ UNCHANGED <<up, memVars, logNo, tables, setVars, queue, userVars, bgVars, history>>

InsertInto ==
  /\ Stage("insert")
  /\ mem' = mem \cup group.ents
  /\ rd' = [r \in Readers |->
              IF rd[r] # NoRead /\ rd[r].log = logNo THEN [rd[r] EXCEPT !.mem = mem'] ELSE rd[r]]
  /\ Then("done")
  /\ UNCHANGED <<up, imm, seq, logVars, tables, setVars, queue, snap, bgVars, history,
                 count>>

(* The writes of the group are over; after a failed sync none may follow.  *)
WriteReturns ==
  /\ group # NoGroup /\ group.stage \in {"done", "failed", "refused"}
  /\ seq' = seq + Cardinality(group.ents)
  /\ queue' = SubSeq(queue, group.n + 1, Len(queue))
  /\ group' = NoGroup
  /\ bgError' = (bgError \/ Stage("failed"))
  /\ IF Stage("done")
     THEN acked' = acked \cup {Promise(group)} /\ loose' = loose \ {Promise(group)}
     ELSE UNCHANGED history
  /\ UNCHANGED <<up, mem, imm, logVars, tables, setVars, userVars, pending, scheduled,
                 flush, comp, edit, range, count>>
-----------------------------------------------------------------------------
(* GetSnapshot, ReleaseSnapshot.                                           *)
GetSnapshot(r) ==
  /\ up = "open" /\ snap[r] = NoSnapshot
  /\ Spend("snapshots", MaxSnapshots)
  /\ snap' = [snap EXCEPT ![r] = seq]
  /\ UNCHANGED <<up, memVars, logVars, tables, setVars, queue, group, rd, bgVars, history>>

ReleaseSnapshot(r) ==
  /\ snap[r] # NoSnapshot
  /\ snap' = [snap EXCEPT ![r] = NoSnapshot]
  /\ UNCHANGED <<up, memVars, logVars, tables, setVars, queue, group, rd, bgVars,
                 history, count>>

(* Get and NewIterator, under the mutex: the sequence number, then the     *)
(* memtables and the version.  The memtable is shared and goes on growing; *)
(* it is told by its log.  The mutant reads without a number.              *)
ReadsAtAny(r) == {After}
ReadsAt(r) == {seq} \cup ({snap[r]} \ {NoSnapshot})

Capture(r) ==
  /\ up = "open" /\ rd[r] = NoRead
  /\ Spend("reads", MaxReads)
  /\ \E n \in ReadsAt(r) :
       rd' = [rd EXCEPT ![r] = [n |-> n, log |-> logNo, mem |-> mem, imm |-> imm,
                               ver |-> current]]
  /\ UNCHANGED <<up, memVars, logVars, tables, setVars, queue, group, snap, bgVars, history>>

Places(m, i, tab, v, k, n) ==
  <<m, IF i = NoMem THEN {} ELSE i>> \o InTables(tab, v, k, n)

Read(r, k) ==
  LET c == rd[r] IN Answer(Places(c.mem, c.imm, tables, c.ver, k, c.n), k, c.n)

(* The read is over.  A Get that had to look into a second file charges    *)
(* the first; when its seeks are used up the file is to be compacted.  The *)
(* mutant charges any file that was searched in vain.                      *)
ChargedAny(r, k) ==
  {f \in Range(Searched(tables, rd[r].ver, k, rd[r].n)) :
     Versions(tables[f], k, rd[r].n) = {}}
Charged(r, k) ==
  LET c == rd[r]
      fs == Searched(tables, c.ver, k, c.n)
      misses == {i \in DOMAIN fs : \A j \in 1..i : Versions(tables[fs[j]], k, c.n) = {}}
  IN IF /\ Versions(c.mem, k, c.n) = {}
        /\ c.imm = NoMem \/ Versions(c.imm, k, c.n) = {}
        /\ 1 \in misses /\ Len(fs) > 1
     THEN {fs[1]} ELSE {}

Release(r) ==
  /\ rd[r] # NoRead
  /\ rd' = [rd EXCEPT ![r] = NoRead]
  /\ UNCHANGED <<up, memVars, logVars, tables, current, minLog, nextFile, pointer,
                 manifest, queue, group, snap, pending, bgError, flush, comp, edit, range,
                 history>>
  /\ \/ UNCHANGED <<seek, count, scheduled>>
     \/ \E k \in Keys : \E f \in Charged(r, k) :
          /\ seek = 0 /\ rd[r].ver = current
          /\ Tally("seeks", MaxSeeks)
          /\ seek' = f
          /\ MaybeSchedule
-----------------------------------------------------------------------------
(* LogAndApply, up to the point where it releases the mutex.               *)
EditOf(kind, del, add, log) ==
  [kind |-> kind, written |-> FALSE, del |-> del, add |-> add, log |-> log,
   next |-> nextFile', seq |-> seq', pointer |-> pointer']

At(l, fs) == [NoFiles EXCEPT ![l] = fs]
Apply(v, e) == [l \in Level |-> (v[l] \ e.del[l]) \cup e.add[l]]

Resting == flush = 0 /\ edit = NoEdit

(* CompactMemTable, WriteLevel0Table: a number for the table ...           *)
StartFlush ==
  /\ imm # NoMem /\ Resting
  /\ flush' = nextFile
  /\ nextFile' = nextFile + 1
  /\ pending' = pending \cup {nextFile}
  /\ UNCHANGED <<up, memVars, logVars, tables, current, minLog, pointer, seek, manifest,
                 queue, group, userVars, bgError, scheduled, comp, edit, range, history, count>>

(* ... the table, and its level.  An empty memtable leaves none.           *)
BuildTable ==
  /\ flush # 0
  /\ flush' = 0
  /\ pending' = pending \ {flush}
  /\ UNCHANGED <<up, memVars, logVars, current, minLog, nextFile, pointer, seek, manifest,
                 queue, group, userVars, comp, range, history>>
  /\ \/ /\ IF imm = {} THEN UNCHANGED tables
           ELSE tables' = [f \in DOMAIN tables \cup {flush} |->
                             IF f = flush THEN imm ELSE tables[f]]
        /\ LET l == PickLevel(tables', current, Smallest(imm).key, Largest(imm).key)
           IN edit' = EditOf("flush", NoFiles,
                             IF imm = {} THEN NoFiles ELSE At(l, {flush}), logNo)
        /\ UNCHANGED <<bgError, scheduled, count>>
     \/ /\ Spend("faults", MaxFaults)
        /\ bgError' = TRUE
        /\ scheduled' = (scheduled /\ comp # NoComp)
        /\ UNCHANGED <<tables, edit>>
-----------------------------------------------------------------------------
(* BackgroundCall, BackgroundCompaction.                                   *)
BgCall == up = "open" /\ scheduled /\ comp = NoComp /\ Resting

BgFlush == BgCall /\ ~bgError /\ StartFlush

BgNothing ==
  /\ BgCall
  /\ \/ bgError
     \/ imm = NoMem /\ ~Ranging(range) /\ ~TooBig(tables, current) /\ seek = 0
  /\ scheduled' = FALSE
  /\ UNCHANGED <<up, memVars, logVars, tables, setVars, queue, group, userVars, pending,
                 bgError, flush, comp, edit, range, history, count>>

(* The oldest sequence number that somebody may still read at.             *)
Oldest ==
  IF \A r \in Readers : snap[r] = NoSnapshot THEN seq
  ELSE Min({snap[r] : r \in Readers} \ {NoSnapshot})

Consumed(c) == [NoFiles EXCEPT ![c.level] = c.in0, ![c.level + 1] = c.in1]

(* A single file in nobody's way moves a level down; anything else is work.*)
StartCompaction(c, isManual) ==
  /\ pointer' = [pointer EXCEPT ![c.level] = <<Largest(UNION {tables[f] : f \in c.in0})>>]
  /\ UNCHANGED <<up, memVars, logVars, tables, current, minLog, nextFile, seek, manifest,
                 queue, group, userVars, pending, bgError, scheduled, flush, range, history, count>>
  /\ IF ~isManual /\ IsTrivialMove(tables, c)
     THEN /\ edit' = EditOf("move", Consumed(c), At(c.level + 1, c.in0), minLog)
          /\ UNCHANGED comp
     ELSE /\ comp' = [c |-> c, ver |-> current, made |-> {}, manual |-> isManual,
                      outs |-> Outputs(tables, current, c, Oldest)]
          /\ UNCHANGED edit

BgCompaction ==
  /\ BgCall /\ ~bgError /\ imm = NoMem
  /\ ~Ranging(range)
  /\ \/ /\ TooBig(tables, current)
        /\ \E l \in 0..(NumLevels - 2) :
             /\ Fullest(tables, current, l)
             /\ \E f \in NextFile(tables, current[l], pointer[l]) :
                  StartCompaction(Picked(tables, current, l, f), FALSE)
     \/ /\ ~TooBig(tables, current) /\ seek # 0
        /\ \E l \in Level :
             seek \in current[l] /\ StartCompaction(Picked(tables, current, l, seek), FALSE)

BgRange ==
  /\ BgCall /\ ~bgError /\ imm = NoMem
  /\ Ranging(range)
  /\ IF Inputs(tables, current, range.level, range.begin, After) = {}
     THEN /\ range' = NoRange
          /\ UNCHANGED <<up, memVars, logVars, tables, setVars, queue, group, userVars,
                         pending, bgError, flush, comp, edit, history, count>>
          /\ EndOfCall
     ELSE StartCompaction(Ranged(tables, current, range.level, range.begin), TRUE)
-----------------------------------------------------------------------------
(* DoCompactionWork: the immutable memtable goes first, at any turn of the *)
(* loop; then the next output; at the end the results are installed.       *)
Compacting == comp # NoComp /\ Resting

FlushFirst == Compacting /\ comp.outs # <<>> /\ StartFlush

(* What becomes of the manual compaction when its turn is over.  After an  *)
(* error of a nested flush its caller leaves; then the process traps here, *)
(* where manual_compaction_ is NULL, and only a crash can follow.          *)
Orphaned == comp # NoComp /\ comp.manual /\ range = NoRange

RangeAfter(failed) ==
  IF comp = NoComp \/ ~comp.manual THEN range
  ELSE IF failed THEN NoRange
  ELSE [range EXCEPT !.active = FALSE,
          !.begin = Largest(tables[Last(Sorted(tables, comp.c.in0))]).key]

Abandon ==
  /\ ~Orphaned
  /\ bgError' = TRUE /\ scheduled' = FALSE
  /\ comp' = NoComp
  /\ pending' = pending \ comp.made
  /\ range' = RangeAfter(TRUE)

MakeOutput ==
  /\ Compacting /\ comp.outs # <<>>
  /\ nextFile' = nextFile + 1
  /\ UNCHANGED <<up, memVars, logVars, current, minLog, pointer, seek, manifest, queue,
                 group, userVars, flush, edit, history>>
  /\ \/ /\ tables' = [f \in DOMAIN tables \cup {nextFile} |->
                        IF f = nextFile THEN Head(comp.outs) ELSE tables[f]]
        /\ pending' = pending \cup {nextFile}
        /\ comp' = [comp EXCEPT !.made = @ \cup {nextFile}, !.outs = Tail(@)]
        /\ UNCHANGED <<bgError, scheduled, range, count>>
     \/ Spend("faults", MaxFaults) /\ Abandon /\ UNCHANGED tables

InstallCompactionResults ==
  /\ Compacting /\ comp.outs = <<>>
  /\ UNCHANGED <<up, memVars, logVars, tables, setVars, queue, group, userVars, pending,
                 bgError, scheduled, flush, comp, range, history, count>>
  /\ edit' = EditOf("compact", Consumed(comp.c), At(comp.c.level + 1, comp.made), minLog)
-----------------------------------------------------------------------------
(* LogAndApply without the mutex: the record is in the manifest and synced.*)
(* A failure leaves it in doubt, and the edit is not applied; a torn       *)
(* record hides those that are written behind it.  DB::Open's edit begins  *)
(* a new manifest.  The mutant forgets the number of the next file.        *)
RecordedNoNumber ==
  [torn |-> FALSE, files |-> Apply(manifest.files, edit), log |-> edit.log,
   next |-> manifest.next, seq |-> edit.seq, pointer |-> edit.pointer]
Recorded == [torn |-> FALSE, files |-> Apply(manifest.files, edit), log |-> edit.log, next |-> edit.next,
             seq |-> edit.seq, pointer |-> edit.pointer]

WriteManifest ==
  /\ edit # NoEdit /\ ~edit.written
  /\ manifest' = IF manifest.torn /\ edit.kind # "open" THEN manifest ELSE Recorded
  /\ edit' = [edit EXCEPT !.written = TRUE]
  /\ UNCHANGED <<up, memVars, logVars, tables, current, minLog, nextFile, pointer, seek,
                 queue, group, userVars, pending, bgError, scheduled, flush, comp, range,
                 history, count>>

ManifestFails ==
  /\ edit # NoEdit /\ ~edit.written /\ up = "open"
  /\ Spend("faults", MaxFaults)
  /\ \/ UNCHANGED manifest
     \/ manifest' = [manifest EXCEPT !.torn = TRUE]
     \/ ~manifest.torn /\ manifest' = Recorded
  /\ edit' = NoEdit
  /\ IF edit.kind = "compact" THEN Abandon
     ELSE /\ bgError' = TRUE
          /\ scheduled' = (scheduled /\ comp # NoComp)
          /\ UNCHANGED <<pending, comp, range>>
  /\ UNCHANGED <<up, memVars, logVars, tables, current, minLog, nextFile, pointer, seek,
                 queue, group, userVars, flush, history>>

(* ... and with the mutex again: the new version, and what is done with it.*)
Installs(kind) == edit # NoEdit /\ edit.written /\ edit.kind = kind

Applied ==
  /\ current' = Apply(current, edit) /\ minLog' = edit.log /\ seek' = 0
  /\ edit' = NoEdit
  /\ UNCHANGED <<mem, seq, logNo, nextFile, pointer, manifest, queue, group, userVars,
                 bgError, flush, history, count>>

FlushInstalled ==
  /\ Installs("flush") /\ Applied
  /\ imm' = NoMem
  /\ UNCHANGED <<up, pending, comp, range>>
  /\ DeleteObsoleteFiles
  /\ IF comp = NoComp THEN EndOfCall ELSE UNCHANGED scheduled

MoveInstalled ==
  /\ Installs("move") /\ Applied
  /\ UNCHANGED <<up, imm, logs, tables, pending, comp, range>>
  /\ EndOfCall

CompactionInstalled ==
  /\ Installs("compact") /\ ~Orphaned /\ Applied
  /\ comp' = NoComp
  /\ pending' = pending \ comp.made
  /\ range' = RangeAfter(FALSE)
  /\ UNCHANGED <<up, imm>>
  /\ DeleteObsoleteFiles
  /\ EndOfCall
-----------------------------------------------------------------------------
(* TEST_CompactRange on all keys: CompactRange is a NULL write and one of  *)
(* these per level, which the model takes as calls of their own.           *)
CompactLevel(l) ==
  /\ up = "open" /\ range = NoRange /\ ~bgError
  /\ Spend("ranges", MaxRanges)
  /\ range' = [level |-> l, begin |-> First, active |-> TRUE]
  /\ UNCHANGED <<up, memVars, logVars, tables, setVars, queue, group, userVars, pending,
                 bgError, flush, comp, edit, history>>
  /\ MaybeSchedule

CompactOn ==
  /\ range # NoRange /\ (bgError \/ ~range.active)
  /\ range' = IF bgError THEN NoRange ELSE [range EXCEPT !.active = TRUE]
  /\ UNCHANGED <<up, memVars, logVars, tables, setVars, queue, group, userVars, pending,
                 bgError, flush, comp, edit, history, count>>
  /\ MaybeSchedule
-----------------------------------------------------------------------------
(* The process ends, and the end of each log that is not synced may be     *)
(* gone with the machine.                                                  *)
Replayed(ls) == {n \in DOMAIN ls : n >= manifest.log}
Records(ls) == UNION {Range(ls[n].recs) : n \in Replayed(ls)}

Crash ==
  /\ up # "down"
  /\ Spend("crashes", MaxCrashes)
  /\ up' = "down"
  /\ \E cut \in [DOMAIN logs -> 0..MaxWrites] :
       /\ \A n \in DOMAIN logs : cut[n] \in logs[n].synced..Len(logs[n].recs)
       /\ logs' = [n \in DOMAIN logs |->
                     [recs |-> SubSeq(logs[n].recs, 1, cut[n]), synced |-> cut[n]]]
  /\ acked' = {g \in acked : g.ents \notin Records(logs) \ Records(logs')}
                \cup {g \in loose : g.ents \in Records(logs')}
  /\ loose' = {}
  /\ mem' = {} /\ imm' = NoMem /\ seq' = 0 /\ logNo' = 0
  /\ current' = NoFiles /\ minLog' = 0 /\ nextFile' = 0 /\ seek' = 0
  /\ pointer' = [l \in Level |-> <<>>]
  /\ queue' = <<>> /\ group' = NoGroup
  /\ snap' = [r \in Readers |-> NoSnapshot] /\ rd' = [r \in Readers |-> NoRead]
  /\ pending' = {} /\ bgError' = FALSE /\ scheduled' = FALSE
  /\ flush' = 0 /\ comp' = NoComp /\ edit' = NoEdit /\ range' = NoRange
  /\ UNCHANGED <<tables, manifest>>

(* RecoverLogFile: the records of a log go through memtables to tables.    *)
Memtables(recs) ==
  LET mems[i \in 0..Len(recs)] ==
        IF i = 0 THEN <<>>
        ELSE LET ms == mems[i - 1]
             IN IF ms = <<>> \/ Cardinality(Last(ms)) > BufferSize
                THEN Append(ms, recs[i]) ELSE [ms EXCEPT ![Len(ms)] = @ \cup recs[i]]
  IN mems[Len(recs)]

(* Each log after the other: its tables, numbered from the next number,    *)
(* which is then put behind the log's own.                                 *)
Recovered ==
  LET top == Max({0} \cup DOMAIN logs)
      upTo[n \in 0..top] ==
        IF n = 0 THEN [tabs |-> [f \in {} |-> {}], next |-> manifest.next + 1]
        ELSE IF n \notin Replayed(logs) THEN upTo[n - 1]
        ELSE LET st == upTo[n - 1]
                 ms == Memtables(logs[n].recs)
             IN [tabs |-> [f \in DOMAIN st.tabs \cup (st.next..(st.next + Len(ms) - 1)) |->
                             IF f < st.next THEN st.tabs[f] ELSE ms[f - st.next + 1]],
                 next |-> Max({st.next + Len(ms), n + 1})]
  IN upTo[top]

(* DB::Open: Recover, and a new log.  Open fails when a table is missing.  *)
Recover ==
  /\ up = "down" /\ Files(manifest.files) \subseteq DOMAIN tables
  /\ up' = "opening"
  /\ LET rec == Recovered
         made == DOMAIN rec.tabs
         seen == UNION (Range(rec.tabs) \cup {{}})
     IN /\ tables' = [f \in DOMAIN tables \cup made |->
                        IF f \in made THEN rec.tabs[f] ELSE tables[f]]
        /\ logNo' = rec.next
        /\ nextFile' = rec.next + 1
        /\ logs' = [n \in DOMAIN logs \cup {rec.next} |->
                      IF n = rec.next THEN [recs |-> <<>>, synced |-> 0] ELSE logs[n]]
        /\ seq' = Max({manifest.seq} \cup {e.seq : e \in seen})
        /\ pointer' = manifest.pointer
        /\ edit' = EditOf("open", NoFiles, At(0, made), rec.next)
  /\ current' = manifest.files /\ minLog' = manifest.log
  /\ UNCHANGED <<mem, imm, seek, manifest, queue, group, userVars, pending, bgError,
                 scheduled, flush, comp, range, history, count>>

OpenInstalled ==
  /\ Installs("open") /\ Applied
  /\ up' = "open"
  /\ UNCHANGED <<imm, pending, comp, range>>
  /\ DeleteObsoleteFiles
  /\ MaybeSchedule
-----------------------------------------------------------------------------
Foreground ==
  WriteRefused \/ WriteStarts \/ WriteSwitches \/ AppendRecord \/ SyncLog
    \/ InsertInto \/ WriteReturns
Background ==
  BgFlush \/ BgNothing \/ BgCompaction \/ BgRange \/ FlushFirst \/ MakeOutput
    \/ InstallCompactionResults \/ BuildTable \/ WriteManifest \/ FlushInstalled
    \/ MoveInstalled \/ CompactionInstalled \/ CompactOn
Calls ==
  \/ \E w \in Writers : Write(w)
  \/ \E r \in Readers : GetSnapshot(r) \/ ReleaseSnapshot(r) \/ Capture(r) \/ Release(r)
  \/ \E l \in 0..(NumLevels - 2) : CompactLevel(l)

Next == Calls \/ Foreground \/ Background \/ ManifestFails \/ Crash \/ Recover \/ OpenInstalled

Spec == Init /\ [][Next]_vars
-----------------------------------------------------------------------------
Entry == [key : Keys, del : BOOLEAN, seq : Nat]

TypeOK ==
  /\ up \in {"open", "down", "opening"}
  /\ mem \subseteq Entry /\ (imm = NoMem \/ imm \subseteq Entry)
  /\ seq \in Nat /\ nextFile \in Nat /\ minLog \in Nat
  /\ up = "open" => logNo \in DOMAIN logs
  /\ \A f \in DOMAIN tables : tables[f] # {} /\ tables[f] \subseteq Entry
  /\ current \in [Level -> SUBSET Nat]
  /\ \A r \in Readers : snap[r] = NoSnapshot \/ snap[r] \in Nat
  /\ pending \subseteq Nat /\ bgError \in BOOLEAN /\ scheduled \in BOOLEAN
  /\ group = NoGroup \/ group.n <= Len(queue)

(* No file that a version somebody uses, or the manifest, names is ever    *)
(* removed: DeleteObsoleteFiles sees every user, and DB::Open never meets  *)
(* "missing files", whatever failed before.                                *)
LiveFilesExist ==
  /\ LiveVersions(pending, current, comp) \subseteq DOMAIN tables
  /\ Files(manifest.files) \subseteq DOMAIN tables

(* A table in use is never written again: the numbers given to new tables, *)
(* also after a crash (VersionSet::Recover), are those of none in use.     *)
TablesStay ==
  [][\A f \in LiveVersions(pending, current, comp) \cup Files(manifest.files) :
       f \in DOMAIN tables' => tables'[f] = tables[f]]_vars

(* A file that reads have worn out is never one of the last level, which   *)
(* could not be compacted: version_set.cc asserts that there is a level    *)
(* below (GetOverlappingInputs).                                           *)
SeekIsAbove == seek # 0 => \A l \in Level : seek \in current[l] => l + 1 \in Level

(* The map this database is: the groups acknowledged, what a read returns  *)
(* now - while the process is down, what DB::Open would make of the files -*)
(* and what it returns at each snapshot.                                   *)
ViewAt(k, n) == Answer(Places(mem, imm, tables, current, k, n), k, n)
ViewOnDisk(k) ==
  Answer(Places(UNION (Records(logs) \cup {{}}), NoMem, tables, manifest.files, k, After),
         k, After)

Store == INSTANCE KVStore WITH
  held   <- acked,
  frozen <- [r \in Readers |->
               IF snap[r] = NoSnapshot THEN NoSnapshot
               ELSE {g \in acked : \A e \in g.ents : e.seq <= snap[r]}],
  view   <- [k \in Keys |-> IF up = "open" THEN ViewAt(k, seq) ELSE ViewOnDisk(k)],
  shown  <- [r \in Readers |-> [k \in Keys |-> ViewAt(k, snap[r])]]

(* Every read and every iterator in progress finds the store as it was at  *)
(* its sequence number, though tables are compacted and removed meanwhile. *)
AsOf(n) == Store!Content({[ents |-> {e \in g.ents : e.seq <= n}] : g \in acked})
ReadsConsistent ==
  \A r \in Readers : rd[r] # NoRead =>
    \A k \in Keys : Read(r, k) = AsOf(rd[r].n)[k]


(* Entries never hop across levels (version_set.cc, Version::Get): what a  *)
(* level holds of a key is no older than what deeper levels hold of it.    *)
LevelsOrdered ==
  \A l, m \in Level : l < m =>
    \A f \in current[l], g \in current[m] : \A a \in tables[f], b \in tables[g] :
      a.key = b.key => a.seq >= b.seq


(* Nobody waits in vain: a writer waits for room, or a caller for its      *)
(* manual compaction, only while the background thread is on its way, or   *)
(* writes fail anyway.  A wake-up forgotten anywhere would hang them.      *)
WaitersAreServed ==
  up = "open" /\ ~bgError =>
    /\ InFront /\ Full /\ ~HasRoom => scheduled
    /\ Ranging(range) => scheduled
=============================================================================
