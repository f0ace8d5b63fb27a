-------------------------------- MODULE Store --------------------------------
(***************************************************************************)
(* leveldb's DBImpl: what becomes of a write on its way from the writers'  *)
(* queue through log and memtable into tables, and what of it a crash      *)
(* leaves.  Which level a table goes to and which entry of a key is the    *)
(* newest is Levels.tla's business; here a table is a set of writes.       *)
(*                                                                         *)
(* Three kinds of threads share one mutex and let go of it around their    *)
(* file operations: the writer at the head of the queue (log), the one     *)
(* background thread (tables and manifest), readers (nothing but a         *)
(* reference on a version).  An action is what one of them does between    *)
(* two releases of the mutex, or one file operation without it.            *)
(*                                                                         *)
(* A file operation is in the kernel when it returns: a crash of the       *)
(* process loses none of it, a crash of the machine what was not synced.   *)
(* Creating, renaming and deleting files takes effect at once and in order.*)
(***************************************************************************)
EXTENDS Integers, Sequences, FiniteSets, SequencesExt, FiniteSetsExt

CONSTANTS
  Writes,             \* batches, each written once
  SyncWrites,         \* those with WriteOptions.sync
  CompactionTrigger,  \* config::kL0_CompactionTrigger
  StopTrigger,        \* config::kL0_StopWritesTrigger
  MaxCrashes,         \* bounds: crashes in all,
  MaxFaults           \*   file operations that fail, in all

ASSUME WritesAssumption == SyncWrites \subseteq Writes
ASSUME TriggersAssumption ==
  /\ CompactionTrigger \in Nat \ {0} /\ StopTrigger \in Nat
  /\ CompactionTrigger <= StopTrigger
ASSUME BoundsAssumption ==
  MaxCrashes \in Nat /\ MaxFaults \in Nat

VARIABLES
  \* the disk
  logs,       \* logs[n]: the records of log n, and how many are synced
  tables,     \* tables[n]: the writes in table n
  manifest,   \* what the descriptor says: first as synced, then after each
              \*   edit written since
  \* the process
  phase,      \* "down", "recovering", "saving", "saved" or "open"
  version,    \* the current version's tables: young in level 0, old below
  logNumber,  \* versions_->LogNumber(): older logs are not needed
  logFile,    \* logfile_number_
  nextFile,   \* next_file_number_
  todo,       \* logs still to be recovered
  mem, imm,   \* the memtables
  writers,    \* writers_
  batch,      \* how many of them the first one writes a record for, or 0
  synced,     \* their record has been synced
  waiting,    \* the first one sleeps in MakeRoomForWrite
  pending,    \* pending_outputs_
  bgError,    \* bg_error_ is set
  scheduled,  \* background_compaction_scheduled_
  task,       \* what the background thread does
  held,       \* the tables of the version a reader holds
  \* history
  asked, forced, outages,   \* as in DurableStore
  crashes, faults

diskVars == <<logs, tables, manifest>>
fileVars == <<version, logNumber, logFile, nextFile>>
queueVars == <<writers, batch, synced, waiting>>
backVars == <<pending, bgError, scheduled, task>>
countVars == <<outages, crashes, faults>>
vars == <<diskVars, phase, fileVars, todo, mem, imm, queueVars, backVars, held,
          asked, forced, countVars>>

-----------------------------------------------------------------------------
(* Files *)

NoFiles == [young |-> {}, old |-> {}]
Files(v) == v.young \cup v.old
Contents(S) == UNION {tables[n] : n \in S}

(* A version edit: tables added and removed, and the three numbers that    *)
(* matter of those LogAndApply fills in.                                   *)
NoEdit == [add |-> NoFiles, drop |-> {}, log |-> 0, next |-> 0]

Apply(v, edit) ==
  [young |-> (v.young \ edit.drop) \cup edit.add.young,
   old |-> (v.old \ edit.drop) \cup edit.add.old]

Descriptor(v, log, next) == [files |-> v, log |-> log, next |-> next]

NoLog == [records |-> <<>>, synced |-> 0]
Logged(n, count) == UNION {logs[n].records[i] : i \in 1 .. count}

(* What recovery makes of descriptor m and the logs it names, if of each   *)
(* log n the first upTo[n] records can be read.                            *)
Replayed(m, upTo) ==
  Contents(Files(m.files))
  \cup UNION {Logged(n, upTo[n]) : n \in {l \in DOMAIN logs : l >= m.log}}

Whole == [n \in DOMAIN logs |-> Len(logs[n].records)]
Synced == [n \in DOMAIN logs |-> logs[n].synced]

-----------------------------------------------------------------------------
(* DeleteObsoleteFiles *)

(* Wrong: outputs that are not installed yet are nobody's; a reader's      *)
(* version is not looked at.                                               *)
LiveInstalled(ver, pend, hold) == Files(ver) \cup hold
LiveCurrent(ver, pend, hold) == Files(ver) \cup pend

Live(ver, pend, hold) == Files(ver) \cup pend \cup hold

(* Wrong: the log in use goes, too. *)
NeededOlder(n, log) == n > log

Needed(n, log) == n >= log

(* After a background error nothing is deleted: nobody knows whether the   *)
(* manifest's last edit will count.                                        *)
DeleteObsoleteFiles ==
  IF bgError THEN UNCHANGED <<logs, tables>>
  ELSE /\ logs' = [n \in {l \in DOMAIN logs : Needed(l, logNumber')} |-> logs[n]]
       /\ tables' = [n \in DOMAIN tables \cap Live(version', pending', held)
                        |-> tables[n]]

-----------------------------------------------------------------------------
(* The background thread's state *)

NoJob == [inputs |-> {}, output |-> 0]

(* Steps: "idle", "merging", then for a table or a merge that is written   *)
(* "building", "logging", "written", "synced".                             *)
Idle == [step |-> "idle", job |-> NoJob, table |-> 0, edit |-> NoEdit]
Merging == task.job # NoJob

NeedsCompaction(v) == Cardinality(v.young) >= CompactionTrigger
WorkFor(v, im) == im # {} \/ NeedsCompaction(v)

(* Wrong: nobody is woken. *)
EndCallSilent(error) ==
  scheduled' = (~error /\ WorkFor(version', imm')) /\ UNCHANGED waiting

(* The end of BackgroundCall: MaybeScheduleCompaction, SignalAll. *)
EndCall(error) ==
  /\ scheduled' = (~error /\ WorkFor(version', imm'))
  /\ waiting' = FALSE

(* A flush in the middle of a merge goes back to it, and wakes the writer; *)
(* anything else ends the call.                                            *)
Return(error) ==
  IF Merging /\ task.table # task.job.output
  THEN /\ task' = [task EXCEPT !.step = "merging", !.table = 0, !.edit = NoEdit]
       /\ waiting' = FALSE /\ UNCHANGED scheduled
  ELSE task' = Idle /\ EndCall(error)

-----------------------------------------------------------------------------
(* NewDB has written the first descriptor; no process has opened it. *)
Init ==
  /\ logs = <<>> /\ tables = <<>>
  /\ manifest = <<Descriptor(NoFiles, 0, 2)>>
  /\ phase = "down" /\ version = NoFiles
  /\ logNumber = 0 /\ logFile = 0 /\ nextFile = 0 /\ todo = {}
  /\ mem = {} /\ imm = {}
  /\ writers = <<>> /\ batch = 0 /\ synced = FALSE /\ waiting = FALSE
  /\ pending = {} /\ bgError = FALSE /\ scheduled = FALSE /\ task = Idle
  /\ held = {}
  /\ asked = {} /\ forced = {}
  /\ outages = 0 /\ crashes = 0 /\ faults = 0

-----------------------------------------------------------------------------
(* DB::Open *)

(* VersionSet::Recover: the number recorded as the next one goes to the    *)
(* new descriptor.                                                         *)
Recover ==
  LET m == Last(manifest)
  IN  /\ phase = "down" /\ phase' = "recovering"
      /\ version' = m.files /\ logNumber' = m.log /\ nextFile' = m.next + 1
      /\ todo' = {n \in DOMAIN logs : n >= m.log}
      /\ UNCHANGED <<diskVars, logFile, mem, imm, queueVars, backVars, held,
                     asked, forced, countVars>>

MarkFileNumberUsed(next, n) == Max({next, n + 1})

(* The oldest log left becomes a table of level 0. *)
RecoverLogFile ==
  LET n == Min(todo)
      found == Logged(n, Len(logs[n].records))
      used == IF found = {} THEN nextFile ELSE nextFile + 1
  IN  /\ phase = "recovering" /\ todo # {}
      /\ IF found = {} THEN UNCHANGED <<tables, version>>
         ELSE /\ tables' = [i \in DOMAIN tables \cup {nextFile} |->
                              IF i = nextFile THEN found ELSE tables[i]]
              /\ version' = [version EXCEPT !.young = @ \cup {nextFile}]
      /\ nextFile' = MarkFileNumberUsed(used, n)
      /\ todo' = todo \ {n}
      /\ UNCHANGED <<logs, manifest, phase, logNumber, logFile, mem, imm,
                     queueVars, backVars, held, asked, forced, countVars>>

(* The file is created, or emptied if it was there. *)
NewLog(n) ==
  logs' = [i \in DOMAIN logs \cup {n} |-> IF i = n THEN NoLog ELSE logs[i]]

CreateLog ==
  /\ phase = "recovering" /\ todo = {} /\ phase' = "saving"
  /\ NewLog(nextFile)
  /\ logFile' = nextFile /\ nextFile' = nextFile + 1
  /\ UNCHANGED <<tables, manifest, version, logNumber, todo, mem, imm,
                 queueVars, backVars, held, asked, forced, countVars>>

(* A new descriptor is written, synced, and then made the current one:     *)
(* until then it does not count.                                           *)
SetCurrentFile ==
  /\ phase = "saving" /\ phase' = "saved"
  /\ manifest' = <<Descriptor(version, logFile, nextFile)>>
  /\ UNCHANGED <<logs, tables, fileVars, todo, mem, imm, queueVars, backVars,
                 held, asked, forced, countVars>>

Open ==
  /\ phase = "saved" /\ phase' = "open"
  /\ logNumber' = logFile
  /\ scheduled' = NeedsCompaction(version)
  /\ UNCHANGED <<manifest, version, logFile, nextFile, todo, mem, imm,
                 queueVars, pending, bgError, task, held, asked, forced,
                 countVars>>
  /\ DeleteObsoleteFiles

-----------------------------------------------------------------------------
(* Writers *)

Enqueue(w) ==
  /\ phase = "open" /\ w \notin asked
  /\ asked' = asked \cup {w} /\ writers' = Append(writers, w)
  /\ UNCHANGED <<diskVars, phase, fileVars, todo, mem, imm, batch, synced,
                 waiting, backVars, held, forced, countVars>>

(* The first writer is awake and has no record under way. *)
Ready == phase = "open" /\ writers # <<>> /\ batch = 0 /\ ~waiting

(* The rest of the queue after the first n. *)
Answered(n) ==
  /\ writers' = SubSeq(writers, n + 1, Len(writers))
  /\ batch' = 0 /\ synced' = FALSE

RefuseWrite ==
  /\ Ready /\ bgError
  /\ Answered(1)
  /\ UNCHANGED <<diskVars, phase, fileVars, todo, mem, imm, waiting, backVars,
                 held, asked, forced, countVars>>

(* MakeRoomForWrite.  The memtable is full as soon as it may be. *)
Full == mem # {}
NoRoom == imm # {} \/ Cardinality(version.young) >= StopTrigger

WaitForRoom ==
  /\ Ready /\ ~bgError /\ Full /\ NoRoom
  /\ waiting' = TRUE
  /\ UNCHANGED <<diskVars, phase, fileVars, todo, mem, imm, writers, batch,
                 synced, backVars, held, asked, forced, countVars>>

(* The old log is closed and not synced. *)
SwitchMemTable ==
  /\ Ready /\ ~bgError /\ Full /\ ~NoRoom
  /\ NewLog(nextFile)
  /\ logFile' = nextFile /\ nextFile' = nextFile + 1
  /\ imm' = mem /\ mem' = {}
  /\ scheduled' = TRUE
  /\ UNCHANGED <<tables, manifest, phase, version, logNumber, todo, queueVars,
                 pending, bgError, task, held, asked, forced, countVars>>

(* Wrong: whoever waits is taken along. *)
GroupAny(k) == k \in 1 .. Len(writers)

(* BuildBatchGroup: the first writer's batch and those of some more behind *)
(* it, as many as the size allows, but none that wants a sync if the first *)
(* does not.                                                               *)
Group(k) ==
  /\ k \in 1 .. Len(writers)
  /\ writers[1] \in SyncWrites \/ \A i \in 1 .. k : writers[i] \notin SyncWrites

Batch(k) == {writers[i] : i \in 1 .. k}

AddRecord(k) ==
  /\ Ready /\ ~bgError /\ Group(k)
  /\ logs' = [logs EXCEPT ![logFile].records = Append(@, Batch(k))]
  /\ batch' = k
  /\ UNCHANGED <<tables, manifest, phase, fileVars, todo, mem, imm, writers,
                 synced, waiting, backVars, held, asked, forced, countVars>>

WantsSync == batch > 0 /\ writers[1] \in SyncWrites /\ ~synced

SyncLog ==
  /\ WantsSync /\ synced' = TRUE
  /\ logs' = [logs EXCEPT ![logFile].synced = Len(logs[logFile].records)]
  /\ UNCHANGED <<tables, manifest, phase, fileVars, todo, mem, imm, writers,
                 batch, waiting, backVars, held, asked, forced, countVars>>

(* The record may turn up after a restart or not: no more writes. *)
SyncLogFails ==
  /\ WantsSync /\ faults < MaxFaults /\ faults' = faults + 1
  /\ bgError' = TRUE /\ Answered(batch)
  /\ UNCHANGED <<diskVars, phase, fileVars, todo, mem, imm, waiting, pending,
                 scheduled, task, held, asked, forced, outages, crashes>>

(* InsertInto, and all of the group return. *)
Acknowledge ==
  /\ batch > 0 /\ ~WantsSync
  /\ mem' = mem \cup Batch(batch)
  /\ forced' = forced \cup (Batch(batch) \cap SyncWrites)
  /\ Answered(batch)
  /\ UNCHANGED <<diskVars, phase, fileVars, todo, imm, waiting, backVars, held,
                 asked, countVars>>

-----------------------------------------------------------------------------
(* Readers *)

(* Get and NewIterator take a reference on the current version, and may    *)
(* keep it as long as they like.  One reader stands for all.               *)
Hold ==
  /\ phase = "open" /\ held = {} /\ Files(version) # {}
  /\ held' = Files(version)
  /\ UNCHANGED <<diskVars, phase, fileVars, todo, mem, imm, queueVars, backVars,
                 asked, forced, countVars>>

Release ==
  /\ held # {} /\ held' = {}
  /\ UNCHANGED <<diskVars, phase, fileVars, todo, mem, imm, queueVars, backVars,
                 asked, forced, countVars>>

-----------------------------------------------------------------------------
(* The background thread *)

Called == scheduled /\ task = Idle

(* After an error, or if what was to be done has been done. *)
NothingToDo ==
  /\ Called /\ (bgError \/ ~WorkFor(version, imm))
  /\ UNCHANGED <<diskVars, phase, fileVars, todo, mem, imm, writers, batch,
                 synced, pending, bgError, task, held, asked, forced, countVars>>
  /\ EndCall(bgError)

(* A table under way is on the disk and in pending_outputs_; nobody reads  *)
(* it before it is whole and synced.                                       *)
NewTable(content) ==
  /\ tables' = [n \in DOMAIN tables \cup {nextFile} |->
                   IF n = nextFile THEN content ELSE tables[n]]
  /\ pending' = pending \cup {nextFile}
  /\ nextFile' = nextFile + 1

(* CompactMemTable: the background thread's first concern, in the middle   *)
(* of a merge too, and there even after an error.                          *)
BeginFlush ==
  /\ imm # {}
  /\ (Called /\ ~bgError) \/ task.step = "merging"
  /\ NewTable(imm)
  /\ task' = [task EXCEPT !.step = "building", !.table = nextFile]
  /\ UNCHANGED <<logs, manifest, phase, version, logNumber, logFile, todo, mem,
                 imm, queueVars, bgError, scheduled, held, asked, forced,
                 countVars>>

(* The log in use is named as the oldest one needed: no switch has been    *)
(* possible since imm was made.                                            *)
FinishFlush ==
  /\ task.step = "building"
  /\ pending' = pending \ {task.table}
  /\ task' = [task EXCEPT !.step = "logging",
                 !.edit = [add |-> [NoFiles EXCEPT !.young = {task.table}],
                           drop |-> {}, log |-> logFile, next |-> nextFile]]
  /\ UNCHANGED <<diskVars, phase, fileVars, todo, mem, imm, queueVars, bgError,
                 scheduled, held, asked, forced, countVars>>

(* DoCompactionWork: level 0 and what lies below becomes one table. *)
BeginMerge ==
  /\ Called /\ ~bgError /\ imm = {} /\ NeedsCompaction(version)
  /\ NewTable(Contents(Files(version)))
  /\ task' = [task EXCEPT !.step = "merging",
                 !.job = [inputs |-> Files(version), output |-> nextFile]]
  /\ UNCHANGED <<logs, manifest, phase, version, logNumber, logFile, todo, mem,
                 imm, queueVars, bgError, scheduled, held, asked, forced,
                 countVars>>

(* The merge does not have to have seen a memtable that waits. *)
FinishMerge ==
  /\ task.step = "merging"
  /\ task' = [task EXCEPT !.step = "logging", !.table = task.job.output,
                 !.edit = [add |-> [NoFiles EXCEPT !.old = {task.job.output}],
                           drop |-> task.job.inputs, log |-> logNumber,
                           next |-> nextFile]]
  /\ UNCHANGED <<diskVars, phase, fileVars, todo, mem, imm, queueVars, pending,
                 bgError, scheduled, held, asked, forced, countVars>>

(* A table cannot be written: a flush's is deleted, a merge's left.        *)
(* CompactMemTable and DoCompactionWork record the error.                  *)
TableFails ==
  /\ task.step \in {"building", "merging"}
  /\ faults < MaxFaults /\ faults' = faults + 1
  /\ bgError' = TRUE
  /\ IF task.step = "building"
     THEN /\ tables' = [n \in DOMAIN tables \ {task.table} |-> tables[n]]
          /\ pending' = pending \ {task.table} /\ Return(TRUE)
     ELSE /\ UNCHANGED tables /\ pending' = pending \ {task.job.output}
          /\ task' = Idle /\ EndCall(TRUE)
  /\ UNCHANGED <<logs, manifest, phase, fileVars, todo, mem, imm, writers, batch,
                 synced, held, asked, forced, outages, crashes>>

(* LogAndApply: the edit is written and synced without the mutex, and      *)
(* becomes the current version with it.                                    *)
WriteManifest ==
  /\ task.step = "logging" /\ task' = [task EXCEPT !.step = "written"]
  /\ manifest' = Append(manifest, Descriptor(Apply(Last(manifest).files, task.edit),
                                             task.edit.log, task.edit.next))
  /\ UNCHANGED <<logs, tables, phase, fileVars, todo, mem, imm, queueVars,
                 pending, bgError, scheduled, held, asked, forced, countVars>>

SyncManifest ==
  /\ task.step = "written" /\ task' = [task EXCEPT !.step = "synced"]
  /\ manifest' = <<Last(manifest)>>
  /\ UNCHANGED <<logs, tables, phase, fileVars, todo, mem, imm, queueVars,
                 pending, bgError, scheduled, held, asked, forced, countVars>>

SyncManifestFails ==
  /\ task.step = "written"
  /\ faults < MaxFaults /\ faults' = faults + 1
  /\ bgError' = TRUE
  /\ pending' = pending \ {task.table} /\ Return(TRUE)
  /\ UNCHANGED <<diskVars, phase, fileVars, todo, mem, imm, writers, batch,
                 synced, held, asked, forced, outages, crashes>>

(* The new version is installed, then what nobody needs any more deleted.  *)
Install ==
  /\ task.step = "synced"
  /\ version' = Apply(version, task.edit) /\ logNumber' = task.edit.log
  /\ imm' = IF task.table = task.job.output THEN imm ELSE {}
  /\ pending' = pending \ {task.table}
  /\ Return(bgError)
  /\ UNCHANGED <<manifest, phase, logFile, nextFile, todo, mem, writers, batch,
                 synced, bgError, held, asked, forced, countVars>>
  /\ DeleteObsoleteFiles

-----------------------------------------------------------------------------
(* Crashes.  One of the machine right after one of the process does no     *)
(* more than one of the machine instead.                                   *)

Vanish ==
  /\ phase # "down" /\ crashes < MaxCrashes /\ crashes' = crashes + 1
  /\ phase' = "down" /\ version' = NoFiles
  /\ logNumber' = 0 /\ logFile' = 0 /\ nextFile' = 0 /\ todo' = {}
  /\ mem' = {} /\ imm' = {}
  /\ writers' = <<>> /\ batch' = 0 /\ synced' = FALSE /\ waiting' = FALSE
  /\ pending' = {} /\ bgError' = FALSE /\ scheduled' = FALSE /\ task' = Idle
  /\ held' = {}
  /\ UNCHANGED <<tables, asked, forced, faults>>

Crash ==
  /\ Vanish
  /\ UNCHANGED <<logs, manifest, outages>>

(* Of each log the records after the last sync may be lost, the last ones  *)
(* first; likewise the edits of the manifest.                              *)
Outage ==
  /\ Vanish
  /\ manifest' \in {<<manifest[i]>> : i \in DOMAIN manifest}
  /\ \E upTo \in [DOMAIN logs -> 0 .. Cardinality(Writes)] :
       /\ \A n \in DOMAIN logs : upTo[n] \in Synced[n] .. Whole[n]
       /\ logs' = [n \in DOMAIN logs |->
                     [records |-> SubSeq(logs[n].records, 1, upTo[n]),
                      synced |-> upTo[n]]]
  /\ outages' = outages + 1

-----------------------------------------------------------------------------
Opening == Recover \/ RecoverLogFile \/ CreateLog \/ SetCurrentFile \/ Open

Writer ==
  \/ RefuseWrite \/ WaitForRoom \/ SwitchMemTable
  \/ \E k \in 1 .. Len(writers) : AddRecord(k)
  \/ SyncLog \/ SyncLogFails \/ Acknowledge

Reader == Hold \/ Release

Background ==
  \/ NothingToDo \/ BeginFlush \/ FinishFlush \/ BeginMerge \/ FinishMerge
  \/ TableFails \/ WriteManifest \/ SyncManifest \/ SyncManifestFails
  \/ Install

Next ==
  \/ Opening \/ \E w \in Writes : Enqueue(w)
  \/ Writer \/ Reader \/ Background \/ Crash \/ Outage

Spec == Init /\ [][Next]_vars

(* Both threads run on when they can. *)
FairSpec == Spec /\ WF_vars(Writer) /\ WF_vars(Background)
-----------------------------------------------------------------------------
(* Properties *)

Numbers == Nat \ {0}
Versions == [young : SUBSET Numbers, old : SUBSET Numbers]
Descriptors == [files : Versions, log : Nat, next : Numbers]
Edits == [add : Versions, drop : SUBSET Numbers, log : Nat, next : Nat]
Steps == {"idle", "building", "merging", "logging", "written", "synced"}

(* The store's state has its type, and an open store has the log it writes *)
(* to (db_impl.h:160-200).                                                 *)
TypeOK ==
  /\ DOMAIN logs \subseteq Numbers /\ DOMAIN tables \subseteq Numbers
  /\ \A n \in DOMAIN logs :
       /\ logs[n] \in [records : Seq(SUBSET Writes), synced : Nat]
       /\ logs[n].synced <= Len(logs[n].records)
  /\ \A n \in DOMAIN tables : tables[n] \subseteq Writes
  /\ manifest \in Seq(Descriptors) /\ manifest # <<>>
  /\ phase \in {"down", "recovering", "saving", "saved", "open"}
  /\ phase = "open" => logFile \in DOMAIN logs
  /\ version \in Versions
  /\ logNumber \in Nat /\ logFile \in Nat /\ nextFile \in Nat
  /\ todo \subseteq Numbers /\ mem \subseteq Writes /\ imm \subseteq Writes
  /\ writers \in Seq(Writes) /\ batch \in 0 .. Len(writers)
  /\ {synced, waiting, bgError, scheduled} \subseteq BOOLEAN
  /\ pending \subseteq Numbers
  /\ task \in [step : Steps, table : Nat, edit : Edits,
               job : [inputs : SUBSET Numbers, output : Nat]]
  /\ held \subseteq Numbers
  /\ asked \subseteq Writes /\ forced \subseteq asked
  /\ {outages, crashes, faults} \subseteq Nat

(* Whatever the machine loses in a crash at this moment, the synced writes *)
(* acknowledged so far are in the tables the manifest then names or in the *)
(* synced part of the logs it asks for, and those tables are all there: if *)
(* one were missing, the database could not be opened                      *)
(* (db_impl.cc:352-357, version_set.cc:801-893, options.h:162-178).        *)
Durable ==
  \A i \in DOMAIN manifest :
    /\ Files(manifest[i].files) \subseteq DOMAIN tables
    /\ forced \subseteq Replayed(manifest[i], Synced)

(* No table is deleted that somebody may still read: the current version's *)
(* or a reader's, whatever flush or merge has been installed since         *)
(* (db_impl.cc:221-277).                                                   *)
ReadersKeepTables ==
  Files(version) \cup held \subseteq DOMAIN tables

(* What a reader finds, or would find after a restart of the process. *)
Kept == IF phase = "open" THEN Contents(Files(version)) \cup imm \cup mem
                          ELSE Replayed(Last(manifest), Whole)

(* Flushes, merges, log switches and every step of a recovery leave the    *)
(* writes alone; a crash of the process loses nothing acknowledged, a      *)
(* crash of the machine nothing synced (options.h:162-178).                *)
Promise == INSTANCE DurableStore WITH kept <- Kept
ImplementsDurableStore == Promise!Spec

(* Every writer is answered in the end, whatever fails, unless the process *)
(* dies: the one that waits for the background thread is woken, and the    *)
(* thread is called again as long as there is something it waits for.      *)
(* There are so many writes and no more, so the queue is empty again       *)
(* (db_impl.cc:651-690, 1310-1370).                                        *)
WritersAnswered == []<>(writers = <<>>)
=============================================================================
