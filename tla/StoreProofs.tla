----------------------------- MODULE StoreProofs ------------------------------
(***************************************************************************)
(* Proofs about Store, for every set of writes, all triggers and bounds.   *)
(*                                                                         *)
(* The inductive invariant follows a write from the log into a table: what *)
(* an entry of the manifest does not name yet is in a log that entry still *)
(* asks for, and what the memtables hold of the synced writes is in the    *)
(* synced part of their logs.  Around it, the numbers of all files that    *)
(* matter are below next_file_number_, so a new file never replaces one.   *)
(***************************************************************************)
EXTENDS Store, FiniteSetTheorems, SequenceTheorems, WellFoundedInduction,
        NaturalsInduction, TLAPS

Descriptions == {manifest[i] : i \in DOMAIN manifest}
Newest == Last(manifest)
Recovering == phase = "recovering"
Opened == phase = "open"
Replacing == task.edit.drop # {}

(* The synced part of a log, and all of it. *)
SyncedOf(n) == Logged(n, logs[n].synced)
AllOf(n) == Logged(n, Len(logs[n].records))
SyncedLogs(k) == UNION {SyncedOf(n) : n \in {l \in DOMAIN logs : l >= k}}
AllLogs(k) == UNION {AllOf(n) : n \in {l \in DOMAIN logs : l >= k}}

-----------------------------------------------------------------------------
(* File numbers *)

Below(S, n) == \A i \in S : i < n

ManifestNumbers ==
  \A m \in Descriptions :
    /\ Below(Files(m.files), m.next) /\ m.log < m.next
    /\ m.next <= Newest.next
    /\ Files(m.files) \subseteq DOMAIN tables

(* Logs the process has seen or made have a smaller number than the next   *)
(* file.                                                                   *)
ProcessNumbers ==
  phase # "down" =>
    /\ Newest.next <= nextFile
    /\ Below(Files(version), nextFile) /\ Below(DOMAIN logs \ todo, nextFile)
    /\ Below(held, nextFile) /\ Below(pending, nextFile)
    /\ Below(task.job.inputs, nextFile)
    /\ task.table < nextFile /\ task.job.output < nextFile
    /\ todo \subseteq DOMAIN logs
    /\ Files(version) \cup held \subseteq DOMAIN tables

(* Which logs are named as needed. *)
LogNumbers ==
  /\ Opened => /\ logFile \in DOMAIN logs /\ logNumber <= logFile
               /\ \A m \in Descriptions : logNumber <= m.log /\ m.log <= logFile
  /\ Recovering => logNumber = Newest.log

Quiet ==
  /\ mem = {} /\ imm = {} /\ writers = <<>> /\ batch = 0 /\ ~synced
  /\ pending = {} /\ ~bgError /\ task = Idle /\ held = {}

Phases ==
  /\ ~Opened => Quiet /\ ~scheduled
  /\ phase = "down" => version = NoFiles
  /\ ~Recovering => todo = {}
  /\ phase \in {"saving", "saved"} =>
       logFile \in DOMAIN logs /\ Below(DOMAIN logs \ {logFile}, logFile) /\ logs[logFile] = NoLog
  /\ phase = "saved" => manifest = <<Descriptor(version, logFile, nextFile)>>

-----------------------------------------------------------------------------
(* The background thread *)

Busy == task.step \in {"logging", "written", "synced"}
Flushing == Busy /\ task.table # task.job.output

TaskShape ==
  /\ task.step = "idle" => task = Idle
  /\ task.step = "merging" => Merging /\ task.table = 0 /\ task.edit = NoEdit
  /\ task.step = "building" => task.table # 0 /\ task.edit = NoEdit /\ task.table # task.job.output
                               /\ task.table \notin task.job.inputs
  /\ Merging => /\ task.job.output # 0 /\ task.job.inputs # {}
                /\ task.job.inputs \subseteq Files(version)
                /\ task.job.output \in DOMAIN tables \cap pending
                /\ task.job.output \notin task.job.inputs
                /\ Contents(task.job.inputs) = tables[task.job.output]
  /\ ~Merging => task.job = NoJob
  /\ Busy => task.table # 0
  /\ task.step \in {"building", "logging", "written", "synced"} /\ task.table # task.job.output =>
       task.table \in DOMAIN tables /\ tables[task.table] = imm /\ imm # {}

EditShape ==
  Busy =>
    /\ task.edit.next <= nextFile /\ task.table < task.edit.next
    /\ task.edit.log < task.edit.next
    /\ logNumber <= task.edit.log /\ task.edit.log <= logFile
    /\ IF Flushing
       THEN /\ task.edit.add = [NoFiles EXCEPT !.young = {task.table}]
            /\ task.edit.drop = {} /\ task.edit.log = logFile
       ELSE /\ Merging
            /\ task.edit.add = [NoFiles EXCEPT !.old = {task.table}]
            /\ task.edit.drop = task.job.inputs /\ task.edit.log = logNumber
    /\ task.step = "logging" => Newest.next <= task.edit.next
    /\ task.step # "logging" => /\ Newest.log = task.edit.log
                                /\ task.table \in Files(Newest.files)
    /\ task.step = "synced" => Len(manifest) = 1

(* A table under way is in no version. *)
Unnamed ==
  /\ task.step = "building" =>
       \A m \in Descriptions : task.table \notin Files(m.files) \cup Files(version) \cup held
  /\ Merging => task.job.output \notin Files(version)

(* As long as nothing has failed, the manifest is what the process thinks. *)
Faithful ==
  Opened /\ ~bgError =>
    IF task.step = "written" THEN
         /\ Len(manifest) = 2 /\ manifest[1].files = version
         /\ manifest[2].files = Apply(version, task.edit)
    ELSE /\ Len(manifest) = 1
         /\ manifest[1].files = IF task.step = "synced" THEN Apply(version, task.edit) ELSE version

-----------------------------------------------------------------------------
(* The writes *)

Asked ==
  /\ \A n \in DOMAIN tables : tables[n] \subseteq asked
  /\ \A n \in DOMAIN logs : AllOf(n) \subseteq asked
  /\ mem \cup imm \subseteq asked
  /\ \A i \in DOMAIN writers : writers[i] \in asked

(* What becomes of the group under way. *)
Underway ==
  /\ batch = 0 => ~synced
  /\ batch > 0 => /\ logs[logFile].records # <<>>
                  /\ Last(logs[logFile].records) = Batch(batch) /\ Group(batch)
                  /\ synced => logs[logFile].synced = Len(logs[logFile].records)

SyncedStay ==
  Opened =>
    \A m \in Descriptions :
      forced \subseteq Contents(Files(m.files)) \cup imm \cup (mem \cap SyncedOf(logFile))

Restartable ==
  /\ Opened => /\ Contents(Files(version)) \subseteq Contents(Files(Newest.files))
               /\ imm \subseteq Replayed(Newest, Whole)
               /\ mem \subseteq AllOf(logFile)
  /\ Recovering => Replayed(Newest, Whole)
                     = Contents(Files(version)) \cup UNION {AllOf(n) : n \in todo}
  /\ phase \in {"saving", "saved"} => Replayed(Newest, Whole) = Contents(Files(version))

IInv ==
  /\ TypeOK /\ ManifestNumbers /\ ProcessNumbers /\ LogNumbers /\ Phases
  /\ TaskShape /\ EditShape /\ Unnamed /\ Faithful
  /\ Asked /\ Underway /\ SyncedStay /\ Restartable /\ Durable

-----------------------------------------------------------------------------
(* Helpers *)

(* The parts of TypeOK, by what changes together. *)

LogTypes ==
  /\ DOMAIN logs \subseteq Numbers
  /\ \A n \in DOMAIN logs :
       /\ logs[n] \in [records : Seq(SUBSET Writes), synced : Nat]
       /\ logs[n].synced <= Len(logs[n].records)

TableTypes ==
  /\ DOMAIN tables \subseteq Numbers
  /\ \A n \in DOMAIN tables : tables[n] \subseteq Writes

ManifestTypes == manifest \in Seq(Descriptors) /\ manifest # <<>>

ProcessTypes ==
  /\ phase \in {"down", "recovering", "saving", "saved", "open"}
  /\ phase = "open" => logFile \in DOMAIN logs
  /\ version \in Versions
  /\ logNumber \in Nat /\ logFile \in Nat /\ nextFile \in Nat
  /\ todo \subseteq Numbers /\ mem \subseteq Writes /\ imm \subseteq Writes
  /\ pending \subseteq Numbers /\ held \subseteq Numbers

QueueTypes ==
  writers \in Seq(Writes) /\ batch \in 0 .. Len(writers)

FlagTypes == {synced, waiting, bgError, scheduled} \subseteq BOOLEAN

TaskTypes ==
  task \in [step : Steps, table : Nat, edit : Edits,
            job : [inputs : SUBSET Numbers, output : Nat]]

HistoryTypes ==
  /\ asked \subseteq Writes /\ forced \subseteq asked
  /\ {outages, crashes, faults} \subseteq Nat

(* TypeOK is the conjunction of these parts, now *)
LEMMA TypeParts ==
  TypeOK <=> /\ LogTypes /\ TableTypes /\ ManifestTypes /\ ProcessTypes
             /\ QueueTypes /\ FlagTypes /\ TaskTypes /\ HistoryTypes
  BY DEF TypeOK, LogTypes, TableTypes, ManifestTypes, ProcessTypes, QueueTypes,
     FlagTypes, TaskTypes, HistoryTypes

(* and after a step. *)
LEMMA TypePartsNext ==
  TypeOK' <=> /\ LogTypes' /\ TableTypes' /\ ManifestTypes' /\ ProcessTypes'
              /\ QueueTypes' /\ FlagTypes' /\ TaskTypes' /\ HistoryTypes'
  BY DEF TypeOK, LogTypes, TableTypes, ManifestTypes, ProcessTypes, QueueTypes,
     FlagTypes, TaskTypes, HistoryTypes

(* What a step leaves alone keeps its type. *)
LEMMA TypesKept ==
  /\ LogTypes /\ UNCHANGED logs => LogTypes'
  /\ TableTypes /\ UNCHANGED tables => TableTypes'
  /\ ManifestTypes /\ UNCHANGED manifest => ManifestTypes'
  /\ QueueTypes /\ UNCHANGED <<writers, batch>> => QueueTypes'
  /\ FlagTypes /\ UNCHANGED <<synced, waiting, bgError, scheduled>> => FlagTypes'
  /\ TaskTypes /\ UNCHANGED task => TaskTypes'
  /\ HistoryTypes /\ UNCHANGED <<asked, forced, outages, crashes, faults>> => HistoryTypes'
  BY DEF LogTypes, TableTypes, ManifestTypes, QueueTypes, FlagTypes, TaskTypes, HistoryTypes

(* The oldest log to be recovered is one of them. *)
LEMMA MinOfSome ==
  ASSUME NEW S \in SUBSET Nat, S # {}
  PROVE  Min(S) \in S
<1>1. PICK x \in S : \A y \in S : ~(<<y, x>> \in OpToRel(<, Nat))
  BY NatLessThanWellFounded, WFMin
<1>2. ASSUME NEW y \in S PROVE x <= y
  <2>1. <<y, x>> \in Nat \X Nat /\ <<y, x>>[1] = y /\ <<y, x>>[2] = x
    OBVIOUS
  <2>2. ~(y < x)
    BY <1>1, <2>1, Zenon DEF OpToRel
  <2> QED
    BY <2>2
<1> QED
  BY <1>2 DEF Min

(* MarkFileNumberUsed goes beyond both numbers. *)
LEMMA MaxOfTwo ==
  ASSUME NEW a \in Int, NEW b \in Int
  PROVE  /\ Max({a, b}) \in {a, b}
         /\ Max({a, b}) >= a /\ Max({a, b}) >= b
<1>1. \E x \in {a, b} : \A y \in {a, b} : x >= y
  OBVIOUS
<1> QED
  BY <1>1 DEF Max

(* What recovery reads, in terms of whole and synced logs. *)
LEMMA ReplayedLogs ==
  ASSUME NEW m
  PROVE  /\ Replayed(m, Synced) = Contents(Files(m.files)) \cup SyncedLogs(m.log)
         /\ Replayed(m, Whole) = Contents(Files(m.files)) \cup AllLogs(m.log)
<1>1. \A n \in {l \in DOMAIN logs : l >= m.log} :
        Logged(n, Synced[n]) = SyncedOf(n) /\ Logged(n, Whole[n]) = AllOf(n)
  BY DEF Synced, Whole, SyncedOf, AllOf
<1> QED
  BY <1>1 DEF Replayed, SyncedLogs, AllLogs

(* The descriptor that recovery reads is one of those there are. *)
LEMMA NewestIsThere ==
  ASSUME TypeOK
  PROVE  Newest \in Descriptions /\ Descriptions \subseteq Descriptors
<1>1. manifest \in Seq(Descriptors) /\ manifest # <<>>
  BY DEF TypeOK
<1> QED
  BY <1>1 DEF Newest, Descriptions, Last

(* Durable, table by table and log by log, *)
LEMMA DurableMeans ==
  ASSUME TypeOK
  PROVE  Durable <=> \A m \in Descriptions :
                       /\ Files(m.files) \subseteq DOMAIN tables
                       /\ forced \subseteq Contents(Files(m.files)) \cup SyncedLogs(m.log)
  BY ReplayedLogs DEF Durable, Descriptions

(* The manifest of one entry, and one with an entry more. *)
LEMMA Alone ==
  ASSUME NEW d, manifest' = <<d>>
  PROVE  Descriptions' = {d} /\ Newest' = d /\ Len(manifest') = 1
  BY DEF Descriptions, Newest, Last

LEMMA OneMore ==
  ASSUME TypeOK, NEW d \in Descriptors, manifest' = Append(manifest, d)
  PROVE  /\ Descriptions' = Descriptions \cup {d} /\ Newest' = d
         /\ Len(manifest') = Len(manifest) + 1
<1>1. manifest \in Seq(Descriptors) /\ manifest # <<>>
  BY DEF TypeOK
<1>2. /\ manifest' \in Seq(Descriptors) /\ Len(manifest') = Len(manifest) + 1
      /\ manifest'[Len(manifest) + 1] = d
      /\ \A i \in 1 .. Len(manifest) : manifest'[i] = manifest[i]
  BY <1>1
<1>3. DOMAIN manifest = 1 .. Len(manifest) /\ DOMAIN manifest' = 1 .. Len(manifest) + 1
      /\ Len(manifest) \in Nat
  BY <1>1, <1>2
<1>4. Newest' = d
  BY <1>2 DEF Newest, Last
<1>5. Descriptions' = Descriptions \cup {d}
  <2>1. \A x \in Descriptions' : x \in Descriptions \cup {d}
    BY <1>2, <1>3 DEF Descriptions
  <2>2. \A x \in Descriptions \cup {d} : x \in Descriptions'
    BY <1>2, <1>3 DEF Descriptions
  <2> QED
    BY <2>1, <2>2
<1> QED
  BY <1>2, <1>4, <1>5

(* Tables that are as they were have the same contents together. *)
LEMMA SameContents ==
  ASSUME NEW S, \A i \in S : tables'[i] = tables[i]
  PROVE  Contents(S)' = Contents(S)
<1>1. UNION {tables'[i] : i \in S} = UNION {tables[i] : i \in S}
  OBVIOUS
<1> QED
  BY <1>1 DEF Contents

(* A new table leaves the others as they are. *)
LEMMA TableAdded ==
  ASSUME NEW n, NEW c,
         tables' = [i \in DOMAIN tables \cup {n} |-> IF i = n THEN c ELSE tables[i]]
  PROVE  /\ DOMAIN tables' = DOMAIN tables \cup {n} /\ tables'[n] = c
         /\ \A i \in DOMAIN tables \ {n} : tables'[i] = tables[i]
  OBVIOUS

(* What the logs hold, if they are as they were. *)
LEMMA SameLogs ==
  ASSUME logs' = logs
  PROVE  /\ \A n : AllOf(n)' = AllOf(n) /\ SyncedOf(n)' = SyncedOf(n)
         /\ \A k : AllLogs(k)' = AllLogs(k) /\ SyncedLogs(k)' = SyncedLogs(k)
  BY DEF AllOf, SyncedOf, AllLogs, SyncedLogs, Logged

(* A new log adds nothing. *)
LEMMA LogAdded ==
  ASSUME NEW n, n \notin DOMAIN logs, NewLog(n)
  PROVE  /\ DOMAIN logs' = DOMAIN logs \cup {n} /\ logs'[n] = NoLog
         /\ \A i \in DOMAIN logs : logs'[i] = logs[i]
         /\ \A i \in DOMAIN logs : AllOf(i)' = AllOf(i) /\ SyncedOf(i)' = SyncedOf(i)
         /\ AllOf(n)' = {} /\ SyncedOf(n)' = {}
         /\ \A k : AllLogs(k)' = AllLogs(k) /\ SyncedLogs(k)' = SyncedLogs(k)
<1>1. /\ DOMAIN logs' = DOMAIN logs \cup {n} /\ logs'[n] = NoLog
      /\ \A i \in DOMAIN logs : logs'[i] = logs[i]
  BY DEF NewLog
<1>2. \A i \in DOMAIN logs : AllOf(i)' = AllOf(i) /\ SyncedOf(i)' = SyncedOf(i)
  BY <1>1 DEF AllOf, SyncedOf, Logged
<1>3. AllOf(n)' = {} /\ SyncedOf(n)' = {}
  <2>1. Len(<<>>) = 0 /\ 1 .. 0 = {}
    OBVIOUS
  <2> QED
    BY <1>1, <2>1 DEF AllOf, SyncedOf, Logged, NoLog
<1>4. ASSUME NEW k PROVE AllLogs(k)' = AllLogs(k)
  BY <1>1, <1>2, <1>3 DEF AllLogs
<1>5. ASSUME NEW k PROVE SyncedLogs(k)' = SyncedLogs(k)
  BY <1>1, <1>2, <1>3 DEF SyncedLogs
<1> QED
  BY <1>1, <1>2, <1>3, <1>4, <1>5

(* A descriptor that names the same tables and logs, with the same contents, *)
(* leads to the same writes.                                               *)
LEMMA ReplayedNext ==
  ASSUME NEW m
  PROVE  /\ Replayed(m, Synced)' = Contents(Files(m.files))' \cup SyncedLogs(m.log)'
         /\ Replayed(m, Whole)' = Contents(Files(m.files))' \cup AllLogs(m.log)'
<1>1. \A n \in {l \in DOMAIN logs' : l >= m.log} :
        Logged(n, Synced[n])' = SyncedOf(n)' /\ Logged(n, Whole[n])' = AllOf(n)'
  BY DEF Synced, Whole, SyncedOf, AllOf, Logged
<1> QED
  BY <1>1 DEF Replayed, SyncedLogs, AllLogs

(* and after a step. *)
LEMMA DurableMeansNext ==
  Durable' <=> \A m \in Descriptions' :
                 /\ Files(m.files) \subseteq DOMAIN tables'
                 /\ forced' \subseteq Contents(Files(m.files))' \cup SyncedLogs(m.log)'
<1>1. Durable' <=> \A m \in Descriptions' :
                     /\ Files(m.files) \subseteq DOMAIN tables'
                     /\ forced' \subseteq Replayed(m, Synced)'
  BY DEF Durable, Descriptions, Files
<1> QED
  BY <1>1, ReplayedNext

(* A process that has not opened the store does nothing else. *)
LEMMA QuietNext ==
  ASSUME Quiet', ~Opened'
  PROVE  TaskShape' /\ EditShape' /\ Unnamed' /\ Faithful' /\ Underway' /\ SyncedStay'
<1>1. TaskShape' /\ EditShape' /\ Unnamed'
  BY DEF Quiet, TaskShape, EditShape, Unnamed, Idle, Busy, Merging, NoJob
<1>2. Faithful' /\ SyncedStay'
  BY DEF Opened, Faithful, SyncedStay
<1>3. Underway'
  BY DEF Quiet, Underway
<1> QED
  BY <1>1, <1>2, <1>3

(* The process has begun nothing. *)
LEMMA QuietTask ==
  ASSUME Quiet'
  PROVE  TaskShape' /\ EditShape' /\ Unnamed' /\ Underway'
<1>1. TaskShape' /\ EditShape' /\ Unnamed'
  BY DEF Quiet, TaskShape, EditShape, Unnamed, Idle, Busy, Merging, NoJob
<1>2. Underway'
  BY DEF Quiet, Underway
<1> QED
  BY <1>1, <1>2

(* The next file's number is nobody's who matters. *)
LEMMA NumberIsNew ==
  ASSUME TypeOK, ManifestNumbers, ProcessNumbers, phase # "down"
  PROVE  /\ nextFile \in Numbers
         /\ \A m \in Descriptions :
              /\ m.next <= nextFile /\ m.log < nextFile
              /\ Below(Files(m.files), nextFile) /\ nextFile \notin Files(m.files)
         /\ nextFile \notin Files(version) /\ nextFile \notin held
         /\ nextFile \notin pending /\ nextFile \notin task.job.inputs
         /\ nextFile \notin DOMAIN logs \ todo
<1>1. nextFile \in Nat /\ Newest \in Descriptions /\ Newest.next <= nextFile
  BY NewestIsThere, TypeParts DEF ProcessTypes, ProcessNumbers
<1>2. \A m \in Descriptions :
         /\ m.next \in Nat \ {0} /\ m.log \in Nat /\ Files(m.files) \subseteq Nat
         /\ m.next <= Newest.next /\ m.log < m.next /\ Below(Files(m.files), m.next)
  BY NewestIsThere DEF ManifestNumbers, Descriptors, Versions, Files, Numbers
<1>3. nextFile \in Numbers
  BY <1>1, <1>2 DEF Numbers
<1>4. \A m \in Descriptions :
         /\ m.next <= nextFile /\ m.log < nextFile
         /\ Below(Files(m.files), nextFile) /\ nextFile \notin Files(m.files)
  BY <1>1, <1>2 DEF Below
<1>5. /\ nextFile \notin Files(version) /\ nextFile \notin held
      /\ nextFile \notin pending /\ nextFile \notin task.job.inputs
      /\ nextFile \notin DOMAIN logs \ todo
  BY <1>1 DEF ProcessNumbers, Below
<1> QED
  BY <1>3, <1>4, <1>5

(* What is synced has been written. *)
LEMMA SyncedInAll ==
  ASSUME TypeOK
  PROVE  /\ \A n \in DOMAIN logs : SyncedOf(n) \subseteq AllOf(n)
         /\ \A k : SyncedLogs(k) \subseteq AllLogs(k)
<1>1. ASSUME NEW n \in DOMAIN logs PROVE SyncedOf(n) \subseteq AllOf(n)
  <2>1. logs[n].synced \in Nat /\ Len(logs[n].records) \in Nat
        /\ logs[n].synced <= Len(logs[n].records)
    BY TypeParts DEF LogTypes
  <2> QED
    BY <2>1 DEF SyncedOf, AllOf, Logged
<1> QED
  BY <1>1 DEF SyncedLogs, AllLogs

(* A log just created holds nothing. *)
LEMMA EmptyLog ==
  ASSUME NEW n, logs[n] = NoLog
  PROVE  AllOf(n) = {}
<1>1. Len(<<>>) = 0 /\ 1 .. 0 = {}
  OBVIOUS
<1> QED
  BY <1>1 DEF AllOf, Logged, NoLog

(* What DeleteObsoleteFiles leaves is as it was, and is what is needed. *)
LEMMA Deleted ==
  ASSUME TypeOK, DeleteObsoleteFiles, logNumber' \in Nat
  PROVE  /\ DOMAIN logs' \subseteq DOMAIN logs /\ DOMAIN tables' \subseteq DOMAIN tables
         /\ \A l \in DOMAIN logs : l >= logNumber' => l \in DOMAIN logs'
         /\ \A l \in DOMAIN logs' : logs'[l] = logs[l]
         /\ \A i \in DOMAIN tables :
              i \in Files(version') \cup pending' \cup held => i \in DOMAIN tables'
         /\ \A i \in DOMAIN tables' : tables'[i] = tables[i]
         /\ \A l \in DOMAIN logs' : AllOf(l)' = AllOf(l) /\ SyncedOf(l)' = SyncedOf(l)
         /\ \A k \in Nat : k >= logNumber' =>
              AllLogs(k)' = AllLogs(k) /\ SyncedLogs(k)' = SyncedLogs(k)
<1>1. /\ DOMAIN logs' \subseteq DOMAIN logs
      /\ \A l \in DOMAIN logs : l >= logNumber' => l \in DOMAIN logs'
      /\ \A l \in DOMAIN logs' : logs'[l] = logs[l]
  BY DEF DeleteObsoleteFiles, Needed
<1>2. /\ DOMAIN tables' \subseteq DOMAIN tables
      /\ \A i \in DOMAIN tables :
           i \in Files(version') \cup pending' \cup held => i \in DOMAIN tables'
      /\ \A i \in DOMAIN tables' : tables'[i] = tables[i]
  BY DEF DeleteObsoleteFiles, Live
<1>3. \A l \in DOMAIN logs' : AllOf(l)' = AllOf(l) /\ SyncedOf(l)' = SyncedOf(l)
  BY <1>1 DEF AllOf, SyncedOf, Logged
<1>4. ASSUME NEW k \in Nat, k >= logNumber'
      PROVE  AllLogs(k)' = AllLogs(k) /\ SyncedLogs(k)' = SyncedLogs(k)
  <2>1. {l \in DOMAIN logs' : l >= k} = {l \in DOMAIN logs : l >= k}
    BY <1>1, <1>4, TypeParts DEF LogTypes, Numbers
  <2> QED
    BY <1>3, <2>1 DEF AllLogs, SyncedLogs
<1> QED
  BY <1>1, <1>2, <1>3, <1>4

(* A new log is a log. *)
LEMMA LogAddedTypes ==
  ASSUME LogTypes, NEW n \in Numbers,
         DOMAIN logs' = DOMAIN logs \cup {n}, logs'[n] = NoLog,
         \A i \in DOMAIN logs : logs'[i] = logs[i]
  PROVE  LogTypes'
<1>1. <<>> \in Seq(SUBSET Writes) /\ Len(<<>>) = 0
  OBVIOUS
<1>2. NoLog \in [records : Seq(SUBSET Writes), synced : Nat]
      /\ NoLog.synced <= Len(NoLog.records)
  BY <1>1 DEF NoLog
<1> QED
  BY <1>2 DEF LogTypes

(* Nothing is asked of the phases of an open store. *)
LEMMA StaysOpen ==
  ASSUME phase' = "open", todo' = {}
  PROVE  Phases'
  BY DEF Phases, Opened, Recovering

(* Only an open store writes, flushes and merges. *)
LEMMA OnlyOpen ==
  ASSUME Phases, writers # <<>> \/ batch # 0 \/ imm # {} \/ held # {}
                 \/ task # Idle \/ bgError
  PROVE  phase = "open" /\ todo = {}
  BY DEF Phases, Quiet, Opened, Recovering

(* The queue without the writers that were answered. *)
LEMMA QueueAnswered ==
  ASSUME QueueTypes, NEW n \in 0 .. Len(writers), Answered(n)
  PROVE  /\ QueueTypes' /\ batch' = 0 /\ synced' = FALSE
         /\ \A i \in DOMAIN writers' : \E j \in DOMAIN writers : writers'[i] = writers[j]
<1>1. /\ writers' = SubSeq(writers, n + 1, Len(writers))
      /\ batch' = 0 /\ synced' = FALSE
  BY DEF Answered
<1>2. writers \in Seq(Writes) /\ Len(writers) \in Nat /\ n \in Nat /\ n <= Len(writers)
  BY DEF QueueTypes
<1>3. /\ writers' \in Seq(Writes) /\ Len(writers') = Len(writers) - n
      /\ \A i \in 1 .. Len(writers) - n : writers'[i] = writers[i + n]
  BY <1>1, <1>2
<1>4. QueueTypes'
  BY <1>1, <1>2, <1>3 DEF QueueTypes
<1>5. ASSUME NEW i \in DOMAIN writers' PROVE \E j \in DOMAIN writers : writers'[i] = writers[j]
  <2>1. i \in 1 .. Len(writers) - n /\ i + n \in DOMAIN writers
    BY <1>2, <1>3
  <2> QED
    BY <1>3, <2>1
<1> QED
  BY <1>1, <1>4, <1>5

(* A synced log, or a longer one, loses nothing. *)
LEMMA LogGrown ==
  ASSUME TypeOK, NEW n \in DOMAIN logs, NEW W \in SUBSET Writes,
         logs' = [logs EXCEPT ![n].records = Append(@, W)]
  PROVE  /\ LogTypes' /\ DOMAIN logs' = DOMAIN logs
         /\ logs'[n].records # <<>> /\ Last(logs'[n].records) = W
         /\ AllOf(n)' = AllOf(n) \cup W
         /\ \A i \in DOMAIN logs \ {n} : AllOf(i)' = AllOf(i)
         /\ \A i \in DOMAIN logs : SyncedOf(i)' = SyncedOf(i)
         /\ \A k : AllLogs(k) \subseteq AllLogs(k)' /\ SyncedLogs(k)' = SyncedLogs(k)
<1> DEFINE r == logs[n].records
           s == Append(r, W)
<1>1. r \in Seq(SUBSET Writes) /\ Len(r) \in Nat /\ logs[n].synced \in Nat
      /\ logs[n].synced <= Len(r)
      /\ logs[n] \in [records : Seq(SUBSET Writes), synced : Nat]
  BY TypeParts DEF LogTypes
<1>2. /\ s \in Seq(SUBSET Writes) /\ Len(s) = Len(r) + 1 /\ s[Len(r) + 1] = W
      /\ \A i \in 1 .. Len(r) : s[i] = r[i]
      /\ s # <<>> /\ Last(s) = W
  BY <1>1 DEF Last
<1>3. /\ DOMAIN logs' = DOMAIN logs
      /\ logs'[n].records = s /\ logs'[n].synced = logs[n].synced
      /\ logs'[n] = [records |-> s, synced |-> logs[n].synced]
      /\ \A i \in DOMAIN logs \ {n} : logs'[i] = logs[i]
  BY <1>1
<1> HIDE DEF s, r
<1>4. LogTypes'
  <2>1. logs'[n] \in [records : Seq(SUBSET Writes), synced : Nat]
        /\ logs'[n].synced <= Len(logs'[n].records)
    BY <1>1, <1>2, <1>3
  <2> QED
    BY <1>3, <2>1, TypeParts DEF LogTypes
<1>5. AllOf(n)' = AllOf(n) \cup W
  <2>1. AllOf(n)' = UNION {s[i] : i \in 1 .. Len(r) + 1}
    BY <1>2, <1>3 DEF AllOf, Logged
  <2>2. AllOf(n) = UNION {r[i] : i \in 1 .. Len(r)}
    BY DEF AllOf, Logged, r
  <2>3. 1 .. Len(r) + 1 = (1 .. Len(r)) \cup {Len(r) + 1}
    BY <1>1
  <2> QED
    BY <1>2, <2>1, <2>2, <2>3
<1>6. \A i \in DOMAIN logs \ {n} : AllOf(i)' = AllOf(i) /\ SyncedOf(i)' = SyncedOf(i)
  BY <1>3 DEF AllOf, SyncedOf, Logged
<1>7. SyncedOf(n)' = SyncedOf(n)
  <2>1. \A i \in 1 .. logs[n].synced : s[i] = r[i]
    BY <1>1, <1>2
  <2>2. SyncedOf(n)' = UNION {s[i] : i \in 1 .. logs[n].synced}
    BY <1>3 DEF SyncedOf, Logged
  <2>3. SyncedOf(n) = UNION {r[i] : i \in 1 .. logs[n].synced}
    BY DEF SyncedOf, Logged, r
  <2> QED
    BY <2>1, <2>2, <2>3
<1>8. \A k : AllLogs(k) \subseteq AllLogs(k)'
  BY <1>3, <1>5, <1>6 DEF AllLogs
<1>9. \A k : SyncedLogs(k)' = SyncedLogs(k)
  <2>1. \A i \in DOMAIN logs : SyncedOf(i)' = SyncedOf(i)
    BY <1>6, <1>7
  <2> QED
    BY <1>3, <2>1 DEF SyncedLogs
<1> QED
  BY <1>2, <1>3, <1>4, <1>5, <1>6, <1>7, <1>8, <1>9

(* A sync changes what is synced, of one log, and nothing else. *)
LEMMA LogSynced ==
  ASSUME TypeOK, NEW n \in DOMAIN logs,
         logs' = [logs EXCEPT ![n].synced = Len(logs[n].records)]
  PROVE  /\ LogTypes' /\ DOMAIN logs' = DOMAIN logs
         /\ logs'[n].records = logs[n].records
         /\ logs'[n].synced = Len(logs'[n].records)
         /\ \A i \in DOMAIN logs : AllOf(i)' = AllOf(i) /\ SyncedOf(i) \subseteq SyncedOf(i)'
         /\ \A k : AllLogs(k)' = AllLogs(k) /\ SyncedLogs(k) \subseteq SyncedLogs(k)'
<1>1. /\ logs[n].records \in Seq(SUBSET Writes) /\ Len(logs[n].records) \in Nat
      /\ logs[n].synced \in Nat /\ logs[n].synced <= Len(logs[n].records)
      /\ logs[n] \in [records : Seq(SUBSET Writes), synced : Nat]
  BY TypeParts DEF LogTypes
<1>2. /\ DOMAIN logs' = DOMAIN logs
      /\ logs'[n].records = logs[n].records
      /\ logs'[n].synced = Len(logs[n].records)
      /\ logs'[n] = [records |-> logs[n].records, synced |-> Len(logs[n].records)]
      /\ \A i \in DOMAIN logs \ {n} : logs'[i] = logs[i]
  BY <1>1
<1>3. LogTypes'
  <2>1. logs'[n] \in [records : Seq(SUBSET Writes), synced : Nat]
        /\ logs'[n].synced <= Len(logs'[n].records)
    BY <1>1, <1>2
  <2> QED
    BY <1>2, <2>1, TypeParts DEF LogTypes
<1>4. ASSUME NEW i \in DOMAIN logs
      PROVE  AllOf(i)' = AllOf(i) /\ SyncedOf(i) \subseteq SyncedOf(i)'
  <2>1. AllOf(i)' = AllOf(i)
    <3>1. logs'[i].records = logs[i].records
      BY <1>2
    <3> QED
      BY <3>1 DEF AllOf, Logged
  <2>2. CASE i = n
    <3>1. SyncedOf(n)' = AllOf(n)'
      BY <1>2 DEF SyncedOf, AllOf, Logged
    <3> QED
      BY <2>1, <2>2, <3>1, SyncedInAll
  <2>3. CASE i # n
    BY <1>2, <2>1, <2>3 DEF SyncedOf, Logged
  <2> QED
    BY <2>2, <2>3
<1>5. \A k : AllLogs(k)' = AllLogs(k)
  BY <1>2, <1>4 DEF AllLogs
<1>6. \A k : SyncedLogs(k) \subseteq SyncedLogs(k)'
  BY <1>2, <1>4 DEF SyncedLogs
<1> QED
  BY <1>2, <1>3, <1>4, <1>5, <1>6

(* The writes of a group are some of those asked for. *)
LEMMA GroupAsked ==
  ASSUME QueueTypes, Asked, NEW k \in 0 .. Len(writers)
  PROVE  Batch(k) \subseteq Writes /\ Batch(k) \subseteq asked
<1>1. /\ writers \in Seq(Writes) /\ Len(writers) \in Nat
      /\ \A i \in 1 .. k : i \in DOMAIN writers
  BY DEF QueueTypes
<1> QED
  BY <1>1 DEF Asked, Batch

(* A version edit names a table that has all that it takes away. *)
LEMMA EditApplied ==
  ASSUME TypeOK, TaskShape, EditShape, Busy, NEW v
  PROVE  /\ task.table \in Files(Apply(v, task.edit))
         /\ Files(Apply(v, task.edit)) \subseteq Files(v) \cup {task.table}
         /\ Contents(Files(v)) \subseteq Contents(Files(Apply(v, task.edit)))
         /\ task.table \in DOMAIN tables
         /\ tables[task.table] = IF Flushing THEN imm ELSE Contents(task.job.inputs)
         /\ task.table \in Numbers
         /\ v \in Versions => Apply(v, task.edit) \in Versions
<1> DEFINE t == task.table
           a == Apply(v, task.edit)
<1>1. /\ t # 0 /\ t \in DOMAIN tables /\ t \in Numbers
      /\ tables[t] = IF Flushing THEN imm ELSE Contents(task.job.inputs)
  <2>1. CASE Flushing
    BY <2>1, TypeParts DEF Flushing, Busy, TaskShape, TableTypes
  <2>2. CASE ~Flushing
    BY <2>2, TypeParts DEF Flushing, TaskShape, EditShape, TableTypes
  <2> QED
    BY <2>1, <2>2
<1>2. \/ /\ Flushing /\ a = [young |-> (v.young \ {}) \cup {t}, old |-> (v.old \ {}) \cup {}]
      \/ /\ ~Flushing /\ a = [young |-> (v.young \ task.job.inputs) \cup {},
                              old |-> (v.old \ task.job.inputs) \cup {t}]
  BY DEF EditShape, Apply, NoFiles
<1> HIDE DEF a
<1>3. t \in Files(a) /\ Files(a) \subseteq Files(v) \cup {t}
  BY <1>2 DEF Files
<1>4. Contents(Files(v)) \subseteq Contents(Files(a))
  <2> SUFFICES ASSUME NEW i \in Files(v) PROVE tables[i] \subseteq Contents(Files(a))
    BY DEF Contents
  <2>1. CASE i \in Files(a)
    BY <2>1 DEF Contents
  <2>2. CASE i \notin Files(a)
    <3>1. ~Flushing /\ i \in task.job.inputs
      BY <1>2, <2>2 DEF Files
    <3>2. tables[i] \subseteq tables[t]
      BY <1>1, <3>1 DEF Contents
    <3> QED
      BY <1>3, <3>2 DEF Contents
  <2> QED
    BY <2>1, <2>2
<1>5. v \in Versions => a \in Versions
  BY <1>1, <1>2 DEF Versions
<1> QED
  BY <1>1, <1>3, <1>4, <1>5 DEF a

(* What Append does to the elements of a sequence. *)
LEMMA Appended ==
  ASSUME NEW D, NEW s \in Seq(D), NEW d \in D
  PROVE  /\ Append(s, d)[Len(s) + 1] = d
         /\ \A i \in 1 .. Len(s) : Append(s, d)[i] = s[i]
  OBVIOUS

LEMMA SecondOfTwo ==
  ASSUME NEW D, NEW s \in Seq(D), Len(s) = 1, NEW d \in D
  PROVE  Append(s, d)[1] = s[1] /\ Append(s, d)[2] = d
<1>1. Append(s, d)[Len(s) + 1] = d
  BY Appended, Zenon
<1>2. Append(s, d)[1] = s[1]
  BY Appended
<1>3. Len(s) + 1 = 2
  OBVIOUS
<1>4. Append(s, d)[2] = d
  BY <1>1, <1>3, Zenon
<1> QED
  BY <1>2, <1>4

(* After a step, too, what is synced of the logs is in them. *)
LEMMA SyncedInAllNext ==
  ASSUME TypeOK'
  PROVE  \A k : SyncedLogs(k)' \subseteq AllLogs(k)'
<1>1. ASSUME NEW n \in DOMAIN logs' PROVE SyncedOf(n)' \subseteq AllOf(n)'
  <2>1. logs'[n].synced \in Nat /\ Len(logs'[n].records) \in Nat
        /\ logs'[n].synced <= Len(logs'[n].records)
    BY TypePartsNext DEF LogTypes
  <2> QED
    BY <2>1 DEF SyncedOf, AllOf, Logged
<1> QED
  BY <1>1 DEF SyncedLogs, AllLogs

-----------------------------------------------------------------------------
(* What a part of the invariant does not mention does not disturb it. *)

LEMMA ManifestNumbersKept ==
  ManifestNumbers /\ UNCHANGED <<manifest, tables>> => ManifestNumbers'
  BY DEF ManifestNumbers, Descriptions, Newest, Files, Below

LEMMA ProcessNumbersKept ==
  ProcessNumbers /\ UNCHANGED <<phase, manifest, nextFile, version, logs, todo,
                                held, pending, task, tables>> => ProcessNumbers'
  BY DEF ProcessNumbers, Newest, Below, Files

LEMMA LogNumbersKept ==
  LogNumbers /\ UNCHANGED <<phase, logs, logFile, logNumber, manifest>> => LogNumbers'
  BY DEF LogNumbers, Opened, Recovering, Descriptions, Newest

LEMMA TaskShapeKept ==
  TaskShape /\ UNCHANGED <<task, version, tables, pending, imm>> => TaskShape'
  BY DEF TaskShape, Merging, Files, Contents, Busy

LEMMA EditShapeKept ==
  EditShape /\ UNCHANGED <<task, nextFile, logNumber, logFile, manifest>> => EditShape'
  BY DEF EditShape, Busy, Flushing, Merging, Newest, Files

LEMMA UnnamedKept ==
  Unnamed /\ UNCHANGED <<task, manifest, version, held>> => Unnamed'
  BY DEF Unnamed, Merging, Descriptions, Files

LEMMA FaithfulKept ==
  Faithful /\ UNCHANGED <<phase, bgError, task, manifest, version>> => Faithful'
  BY DEF Faithful, Opened, Apply

LEMMA AskedKept ==
  Asked /\ UNCHANGED <<tables, logs, mem, imm, asked, writers>> => Asked'
  BY DEF Asked, AllOf, Logged

LEMMA UnderwayKept ==
  Underway /\ UNCHANGED <<batch, logs, logFile, writers, synced>> => Underway'
  BY DEF Underway, Batch, Group, Last

LEMMA SyncedStayKept ==
  SyncedStay /\ UNCHANGED <<phase, manifest, forced, tables, imm, mem, logs, logFile>>
    => SyncedStay'
  BY DEF SyncedStay, Opened, Descriptions, Contents, Files, SyncedOf, Logged

LEMMA RestartableKept ==
  Restartable /\ UNCHANGED <<phase, version, manifest, tables, imm, mem, logs,
                             logFile, todo>> => Restartable'
<1> SUFFICES ASSUME Restartable,
                    UNCHANGED <<phase, version, manifest, tables, imm, mem, logs,
                                logFile, todo>>
             PROVE  Restartable'
  OBVIOUS
<1>1. UNCHANGED <<Newest, Contents(Files(version)), AllOf(logFile)>>
  BY DEF Newest, Contents, AllOf, Logged
<1>2. UNCHANGED <<Contents(Files(Newest.files)), Replayed(Newest, Whole)>>
  BY DEF Newest, Contents, Files, Replayed, Logged, Whole
<1>3. UNCHANGED UNION {AllOf(n) : n \in todo}
  BY DEF AllOf, Logged
<1> QED
  BY <1>1, <1>2, <1>3 DEF Restartable, Opened, Recovering

LEMMA DurableKept ==
  Durable /\ UNCHANGED <<manifest, tables, forced, logs>> => Durable'
  BY DEF Durable, Files, Replayed, Contents, Logged, Synced

-----------------------------------------------------------------------------
(* The first state *)

LEMMA InitIInv == Init => IInv
<1> SUFFICES ASSUME Init PROVE IInv
  OBVIOUS
<1> DEFINE d == Descriptor(NoFiles, 0, 2)
<1>1. d \in Descriptors /\ d.files = NoFiles /\ d.log = 0 /\ d.next = 2 /\ Files(d.files) = {}
  BY DEF Descriptor, Descriptors, Versions, NoFiles, Numbers, Files
<1>2. manifest = <<d>> /\ manifest \in Seq(Descriptors) /\ Descriptions = {d} /\ Newest = d
  BY <1>1 DEF Init, Descriptions, Newest, Last
<1>3. DOMAIN logs = {} /\ DOMAIN tables = {} /\ DOMAIN writers = {} /\ Len(writers) = 0
      /\ writers \in Seq(Writes)
  BY DEF Init
<1>4. TypeOK
  <2>1. TaskTypes
    <3>1. NoFiles \in Versions /\ NoEdit \in Edits
      BY DEF NoFiles, Versions, NoEdit, Edits
    <3> QED
      BY <3>1 DEF Init, TaskTypes, Idle, NoJob, Steps
  <2>2. LogTypes /\ TableTypes
    BY <1>3 DEF LogTypes, TableTypes
  <2>3. ManifestTypes
    BY <1>2 DEF ManifestTypes
  <2>4. QueueTypes
    BY <1>3 DEF QueueTypes, Init
  <2>5. FlagTypes
    BY DEF Init, FlagTypes
  <2>6. HistoryTypes
    BY DEF Init, HistoryTypes
  <2>7. ProcessTypes
    BY DEF Init, ProcessTypes, NoFiles, Versions
  <2> QED
    BY <2>1, <2>2, <2>3, <2>4, <2>5, <2>6, <2>7, TypeParts
<1>5. ManifestNumbers /\ ProcessNumbers /\ LogNumbers
  BY <1>1, <1>2 DEF Init, ManifestNumbers, ProcessNumbers, LogNumbers, Below, Opened, Recovering
<1>6. Phases
  BY DEF Init, Phases, Opened, Recovering, Quiet
<1>7. TaskShape /\ EditShape /\ Unnamed /\ Faithful
  BY DEF Init, TaskShape, EditShape, Unnamed, Faithful, Idle, Busy, Merging, NoJob, Opened
<1>8. Asked /\ Underway /\ SyncedStay /\ Restartable
  BY <1>3 DEF Init, Asked, Underway, SyncedStay, Restartable, Opened, Recovering
<1>9. Durable
  BY <1>1, <1>2, <1>4, DurableMeans DEF Init
<1> QED
  BY <1>4, <1>5, <1>6, <1>7, <1>8, <1>9 DEF IInv

-----------------------------------------------------------------------------
(* Opening *)

LEMMA RecoverInv ==
  ASSUME IInv, Recover
  PROVE  IInv' /\ Kept' = Kept
<1> DEFINE m == Newest
<1> USE DEF IInv
<1>1. /\ phase = "down" /\ phase' = "recovering"
      /\ version' = m.files /\ logNumber' = m.log /\ nextFile' = m.next + 1
      /\ todo' = {n \in DOMAIN logs : n >= m.log}
      /\ UNCHANGED <<diskVars, logFile, mem, imm, queueVars, backVars, held,
                     asked, forced, countVars>>
  BY DEF Recover, Newest
<1>2. m \in Descriptions /\ m \in Descriptors
  BY NewestIsThere
<1> USE DEF diskVars, queueVars, backVars, countVars
<1>3. UNCHANGED <<Newest, Descriptions>>
  BY <1>1 DEF Newest, Descriptions
<1> HIDE DEF m
<1>4. TypeOK'
  <2>1. m.files \in Versions /\ m.log \in Nat /\ m.next + 1 \in Nat
    BY <1>2 DEF Descriptors, Numbers
  <2>2. todo' \subseteq Numbers
    BY <1>1, TypeParts DEF LogTypes
  <2>3. ProcessTypes'
    BY <1>1, <2>1, <2>2, TypeParts DEF ProcessTypes
  <2> QED
    BY <1>1, <2>3, TypeParts, TypePartsNext, TypesKept
<1>5. Quiet /\ Quiet'
  BY <1>1 DEF Phases, Opened, Quiet
<1>6. ManifestNumbers' /\ Asked' /\ Underway' /\ Durable'
  BY <1>1, ManifestNumbersKept, AskedKept, UnderwayKept, DurableKept DEF Underway, Batch, Group
<1>7. ProcessNumbers'
  <2>1. Below(Files(m.files), m.next + 1) /\ Files(m.files) \subseteq DOMAIN tables
    BY <1>2 DEF ManifestNumbers, Below, Descriptors, Versions, Files, Numbers
  <2>2. Below(DOMAIN logs \ todo', m.next + 1)
    BY <1>1, <1>2 DEF ManifestNumbers, Below, TypeOK, Numbers, Descriptors
  <2>3. m.next <= m.next + 1 /\ m.next + 1 > 0
    BY <1>2 DEF Descriptors, Numbers
  <2> QED
    BY <1>1, <1>3, <1>5, <2>1, <2>2, <2>3 DEF ProcessNumbers, Quiet, Idle, NoJob, Below, m
<1>8. LogNumbers' /\ Phases'
  BY <1>1, <1>3, <1>5 DEF LogNumbers, Phases, Opened, Recovering, m
<1>9. TaskShape' /\ EditShape' /\ Unnamed' /\ Faithful' /\ SyncedStay'
  BY <1>1, <1>5 DEF Quiet, TaskShape, EditShape, Unnamed, Faithful, SyncedStay, Idle,
     Busy, Merging, NoJob, Opened
<1>10. Restartable'
  <2>1. Replayed(m, Whole) = Contents(Files(m.files)) \cup AllLogs(m.log)
    BY ReplayedLogs
  <2>2. AllLogs(m.log) = UNION {AllOf(n) : n \in todo'}
    BY <1>1 DEF AllLogs
  <2>3. /\ Replayed(Newest, Whole)' = Replayed(m, Whole)
        /\ Contents(Files(version))' = Contents(Files(m.files))
        /\ (UNION {AllOf(n) : n \in todo})' = UNION {AllOf(n) : n \in todo'}
    BY <1>1, <1>3 DEF Replayed, Contents, Logged, Whole, AllOf, m
  <2> QED
    BY <1>1, <2>1, <2>2, <2>3 DEF Restartable, Opened, Recovering
<1>k. Kept' = Kept
  BY <1>1 DEF Kept, Replayed, Contents, Logged, Whole
<1> QED
  BY <1>4, <1>6, <1>7, <1>8, <1>9, <1>10, <1>k

(* Recovery reads a log: its number is not used again, its writes are in a *)
(* table before it is forgotten.                                           *)
LEMMA RecoverLogFileInv ==
  ASSUME IInv, RecoverLogFile
  PROVE  IInv' /\ Kept' = Kept
<1> DEFINE n == Min(todo)
           found == AllOf(n)
           N == nextFile
           used == IF found = {} THEN N ELSE N + 1
<1> USE DEF IInv, diskVars, queueVars, backVars, countVars
<1>1. /\ phase = "recovering" /\ todo # {}
      /\ nextFile' = MarkFileNumberUsed(used, n) /\ todo' = todo \ {n}
      /\ UNCHANGED <<logs, manifest, phase, logNumber, logFile, mem, imm,
                     queueVars, backVars, held, asked, forced, countVars>>
  BY DEF RecoverLogFile, AllOf
<1>2. IF found = {} THEN UNCHANGED <<tables, version>>
      ELSE /\ tables' = [i \in DOMAIN tables \cup {N} |->
                           IF i = N THEN found ELSE tables[i]]
           /\ version' = [version EXCEPT !.young = @ \cup {N}]
  BY DEF RecoverLogFile, AllOf
<1>3. n \in todo /\ n \in DOMAIN logs /\ n \in Numbers /\ N \in Nat /\ N > 0
  <2>1. todo \subseteq DOMAIN logs /\ todo \subseteq Nat
    BY <1>1, TypeParts DEF ProcessNumbers, LogTypes, Numbers
  <2>2. Newest.next <= N /\ Newest.next \in Nat \ {0}
    BY <1>1, NewestIsThere DEF ProcessNumbers, Descriptors, Numbers
  <2> QED
    BY <1>1, <2>1, <2>2, MinOfSome, TypeParts DEF LogTypes, ProcessTypes
<1>4. nextFile' \in Nat /\ nextFile' >= used /\ nextFile' >= n + 1 /\ nextFile' >= N
  <2>1. used \in Int /\ n + 1 \in Int /\ used >= N /\ used \in Nat /\ n + 1 \in Nat
    BY <1>3 DEF Numbers
  <2> HIDE DEF used, n, N
  <2>2. Max({used, n + 1}) \in {used, n + 1} /\ Max({used, n + 1}) >= used
        /\ Max({used, n + 1}) >= n + 1
    BY <2>1, MaxOfTwo
  <2> QED
    BY <1>1, <1>3, <2>1, <2>2 DEF MarkFileNumberUsed, N
<1>5. Quiet /\ Quiet' /\ ~Opened'
  BY <1>1 DEF Phases, Opened, Quiet
<1>6. found \subseteq Writes /\ found \subseteq asked
  BY <1>3, TypeParts DEF Asked, HistoryTypes
<1>7. /\ DOMAIN tables \subseteq DOMAIN tables' /\ DOMAIN tables' \subseteq DOMAIN tables \cup {N}
      /\ \A i \in DOMAIN tables \ {N} : tables'[i] = tables[i]
      /\ \A i \in DOMAIN tables' : tables'[i] = tables[i] \/ tables'[i] = found
  BY <1>2
<1>8. Files(version)' = Files(version) \cup (IF found = {} THEN {} ELSE {N})
      /\ version' \in Versions
      /\ N \notin Files(version) /\ Files(version) \subseteq DOMAIN tables
  <2>1. N \in Numbers /\ version \in Versions
    BY <1>3, TypeParts DEF Numbers, ProcessTypes
  <2>2. N \notin Files(version) /\ Files(version) \subseteq DOMAIN tables
    BY <1>1, <1>3 DEF ProcessNumbers, Below
  <2> QED
    BY <1>2, <2>1, <2>2 DEF Versions, Files
<1>9. TypeOK'
  <2>1. TableTypes'
    <3>1. DOMAIN tables' \subseteq Numbers
      BY <1>3, <1>7, TypeParts DEF TableTypes, Numbers
    <3>2. \A i \in DOMAIN tables : tables[i] \subseteq Writes
      BY TypeParts DEF TableTypes
    <3> QED
      BY <1>2, <1>6, <3>1, <3>2 DEF TableTypes
  <2>2. ProcessTypes'
    BY <1>1, <1>4, <1>8, TypeParts DEF ProcessTypes
  <2> QED
    BY <1>1, <2>1, <2>2, TypeParts, TypePartsNext, TypesKept
<1>10. UNCHANGED <<Newest, Descriptions>>
  BY <1>1 DEF Newest, Descriptions
<1>11. ManifestNumbers'
  BY <1>7, <1>10 DEF ManifestNumbers
<1>12. ProcessNumbers'
  <2>1. Below(Files(version)', nextFile')
    BY <1>1, <1>3, <1>4, <1>8 DEF ProcessNumbers, Below, Versions, Files, Numbers
  <2>2. Below((DOMAIN logs \ todo)', nextFile')
    BY <1>1, <1>3, <1>4, TypeParts DEF ProcessNumbers, Below, LogTypes, Numbers
  <2>3. Newest'.next <= nextFile'
    BY <1>1, <1>4, <1>3, <1>10, NewestIsThere DEF ProcessNumbers, Descriptors, Numbers
  <2>4. nextFile' > 0
    BY <1>3, <1>4
  <2>5. Files(version)' \subseteq DOMAIN tables'
    BY <1>2, <1>7, <1>8
  <2>6. (todo \subseteq DOMAIN logs)'
    BY <1>1 DEF ProcessNumbers
  <2> QED
    BY <1>5, <2>1, <2>2, <2>3, <2>4, <2>5, <2>6 DEF ProcessNumbers, Quiet, Idle, NoJob, Below
<1>13. LogNumbers' /\ Phases'
  BY <1>1, <1>5, <1>10 DEF LogNumbers, Phases, Opened, Recovering
<1>14. TaskShape' /\ EditShape' /\ Unnamed' /\ Faithful' /\ Underway' /\ SyncedStay'
  BY <1>5, QuietNext
<1>15. Asked'
  <2>1. \A i \in DOMAIN tables' : tables'[i] \subseteq asked
    BY <1>2, <1>6 DEF Asked
  <2> QED
    BY <1>1, <2>1, SameLogs DEF Asked
<1>16. \A m \in Descriptions :
          /\ Contents(Files(m.files))' = Contents(Files(m.files))
          /\ Files(m.files) \subseteq DOMAIN tables'
  <2> SUFFICES ASSUME NEW m \in Descriptions
               PROVE  /\ Contents(Files(m.files))' = Contents(Files(m.files))
                      /\ Files(m.files) \subseteq DOMAIN tables'
    OBVIOUS
  <2>1. m.next \in Nat /\ Newest.next \in Nat /\ Files(m.files) \subseteq Nat
    BY NewestIsThere DEF Descriptors, Numbers, Versions, Files
  <2>2. N \notin Files(m.files) /\ Files(m.files) \subseteq DOMAIN tables
    <3>1. /\ \A i \in Files(m.files) : i < m.next
          /\ m.next <= Newest.next /\ Files(m.files) \subseteq DOMAIN tables
      BY DEF ManifestNumbers, Below
    <3>2. Newest.next <= N
      BY <1>1 DEF ProcessNumbers
    <3> HIDE DEF N, IInv
    <3> QED
      BY <1>3, <2>1, <3>1, <3>2
  <2>3. \A i \in Files(m.files) : tables'[i] = tables[i]
    BY <1>7, <2>2
  <2> QED
    BY <1>7, <2>2, <2>3, SameContents
<1>17. Durable'
  BY <1>1, <1>10, <1>16, DurableMeans, DurableMeansNext, SameLogs
<1>18. Restartable'
  <2>1. Replayed(Newest, Whole)' = Replayed(Newest, Whole)
    <3>1. Newest \in Descriptions
      BY NewestIsThere
    <3> QED
      BY <1>1, <1>10, <1>16, <3>1, ReplayedLogs, ReplayedNext, SameLogs
  <2>2. (UNION {AllOf(k) : k \in todo})' = UNION {AllOf(k) : k \in todo'}
    BY <1>1, SameLogs
  <2>3. found \cup UNION {AllOf(k) : k \in todo'} = UNION {AllOf(k) : k \in todo}
    BY <1>1, <1>3
  <2>4. Contents(Files(version))' = Contents(Files(version)) \cup found
    <3>1. \A i \in Files(version) : tables'[i] = tables[i]
      BY <1>7, <1>8
    <3>2. found # {} => tables'[N] = found
      BY <1>2
    <3> QED
      BY <1>8, <3>1, <3>2 DEF Contents
  <2> QED
    BY <1>1, <2>1, <2>2, <2>3, <2>4 DEF Restartable, Opened, Recovering
<1>k. Kept' = Kept
  <2>1. Newest \in Descriptions
    BY NewestIsThere
  <2>2. Replayed(Newest, Whole)' = Replayed(Newest, Whole)
    BY <1>1, <1>10, <1>16, <2>1, ReplayedLogs, ReplayedNext, SameLogs
  <2> QED
    BY <1>1, <2>2 DEF Kept, Newest
<1> QED
  BY <1>9, <1>11, <1>12, <1>13, <1>14, <1>15, <1>17, <1>18, <1>k

(* The log of the new process is empty and newer than all others. *)
LEMMA CreateLogInv ==
  ASSUME IInv, CreateLog
  PROVE  IInv' /\ Kept' = Kept
<1> USE DEF IInv, diskVars, queueVars, backVars, countVars
<1>0. PICK N : N = nextFile
  OBVIOUS
<1>1. /\ phase = "recovering" /\ todo = {} /\ phase' = "saving"
      /\ NewLog(N) /\ logFile' = N /\ nextFile' = N + 1
      /\ UNCHANGED <<tables, manifest, version, logNumber, todo, mem, imm,
                     queueVars, backVars, held, asked, forced, countVars>>
  BY <1>0 DEF CreateLog
<1>2. N \in Numbers /\ N \notin DOMAIN logs
  BY <1>0, <1>1, NumberIsNew
<1>3. /\ DOMAIN logs' = DOMAIN logs \cup {N} /\ logs'[N] = NoLog
      /\ \A i \in DOMAIN logs : logs'[i] = logs[i]
      /\ \A i \in DOMAIN logs : AllOf(i)' = AllOf(i)
      /\ AllOf(N)' = {}
      /\ \A k : AllLogs(k)' = AllLogs(k) /\ SyncedLogs(k)' = SyncedLogs(k)
  BY <1>1, <1>2, LogAdded
<1>4. Quiet /\ Quiet' /\ ~Opened'
  BY <1>1 DEF Phases, Opened, Quiet
<1>5. UNCHANGED <<Newest, Descriptions>>
  BY <1>1 DEF Newest, Descriptions
<1>6. TypeOK'
  <2>1. LogTypes'
    BY <1>2, <1>3, LogAddedTypes, TypeParts
  <2>2. ProcessTypes'
    BY <1>1, <1>2, <1>3, TypeParts DEF ProcessTypes, Numbers
  <2> QED
    BY <1>1, <2>1, <2>2, TypeParts, TypePartsNext, TypesKept
<1>7. ManifestNumbers'
  BY <1>1, ManifestNumbersKept
<1>8. ProcessNumbers'
  <2>1. \A i \in DOMAIN logs' : i < N + 1
    BY <1>0, <1>1, <1>2, <1>3, TypeParts DEF ProcessNumbers, Below, LogTypes, Numbers
  <2>2. \A i \in Files(version) : i < N + 1
    BY <1>0, <1>1, <1>2, TypeParts DEF ProcessNumbers, Below, ProcessTypes, Versions, Files, Numbers
  <2>3. Newest.next <= N + 1
    BY <1>0, <1>1, <1>2, NewestIsThere DEF ProcessNumbers, Descriptors, Numbers
  <2>4. 0 < N + 1
    BY <1>2 DEF Numbers
  <2>5. Files(version)' = Files(version) /\ Files(version) \subseteq DOMAIN tables'
    BY <1>1 DEF ProcessNumbers, Files
  <2> QED
    BY <1>1, <1>4, <1>5, <2>1, <2>2, <2>3, <2>4, <2>5
    DEF ProcessNumbers, Quiet, Idle, NoJob, Below
<1>9. LogNumbers' /\ Phases'
  <2>1. Below((DOMAIN logs \ {logFile})', N)
    BY <1>0, <1>1, <1>3 DEF ProcessNumbers, Below
  <2> QED
    BY <1>1, <1>3, <1>4, <2>1 DEF LogNumbers, Phases, Opened, Recovering
<1>10. TaskShape' /\ EditShape' /\ Unnamed' /\ Faithful' /\ Underway' /\ SyncedStay'
  BY <1>4, QuietNext
<1>11. Asked'
  BY <1>1, <1>3 DEF Asked
<1>12. \A S : Contents(S)' = Contents(S)
  BY <1>1, SameContents
<1>13. Durable'
  BY <1>1, <1>3, <1>5, <1>12, DurableMeans, DurableMeansNext
<1>14. Restartable'
  <2>1. Replayed(Newest, Whole)' = Replayed(Newest, Whole)
    BY <1>3, <1>5, <1>12, ReplayedLogs, ReplayedNext
  <2>2. UNION {AllOf(n) : n \in todo} = {}
    BY <1>1
  <2>3. Contents(Files(version))' = Contents(Files(version))
    BY <1>1, <1>12 DEF Files
  <2> QED
    BY <1>1, <2>1, <2>2, <2>3 DEF Restartable, Opened, Recovering
<1>k. Kept' = Kept
  <2>1. Replayed(Newest, Whole)' = Replayed(Newest, Whole)
    BY <1>3, <1>5, <1>12, ReplayedLogs, ReplayedNext
  <2> QED
    BY <1>1, <2>1 DEF Kept, Newest
<1> QED
  BY <1>6, <1>7, <1>8, <1>9, <1>10, <1>11, <1>13, <1>14, <1>k

(* The new descriptor names what was recovered; logs it does not ask for   *)
(* are in its tables.                                                      *)
LEMMA SetCurrentFileInv ==
  ASSUME IInv, SetCurrentFile
  PROVE  IInv' /\ Kept' = Kept
<1> USE DEF IInv, diskVars, fileVars, queueVars, backVars, countVars
<1>0. PICK d : d = Descriptor(version, logFile, nextFile)
  OBVIOUS
<1>1. /\ phase = "saving" /\ phase' = "saved" /\ manifest' = <<d>>
      /\ UNCHANGED <<logs, tables, fileVars, todo, mem, imm, queueVars, backVars,
                     held, asked, forced, countVars>>
  BY <1>0 DEF SetCurrentFile
<1>2. d.files = version /\ d.log = logFile /\ d.next = nextFile
  BY <1>0 DEF Descriptor
<1>3. nextFile \in Numbers
  BY <1>1, NumberIsNew
<1>4. d \in Descriptors
  BY <1>0, <1>3, TypeParts DEF Descriptor, Descriptors, ProcessTypes
<1>5. /\ logFile \in DOMAIN logs /\ logs[logFile] = NoLog /\ todo = {}
      /\ Below(DOMAIN logs \ {logFile}, logFile)
  BY <1>1 DEF Phases, Recovering
<1>6. Quiet /\ Quiet' /\ ~Opened'
  BY <1>1 DEF Phases, Opened, Quiet
<1>7. Descriptions' = {d} /\ Newest' = d
  BY <1>1, Alone
<1>8. TypeOK'
  <2>1. ManifestTypes'
    BY <1>1, <1>4 DEF ManifestTypes
  <2>2. ProcessTypes'
    BY <1>1, <1>3, TypeParts DEF ProcessTypes
  <2> QED
    BY <1>1, <2>1, <2>2, TypeParts, TypePartsNext, TypesKept
<1>9. ManifestNumbers'
  BY <1>1, <1>2, <1>3, <1>5, <1>7 DEF ManifestNumbers, ProcessNumbers, Below, Numbers
<1>10. ProcessNumbers'
  BY <1>1, <1>2, <1>3, <1>7 DEF ProcessNumbers, Below, Numbers, Files
<1>11. LogNumbers'
  BY <1>1 DEF LogNumbers, Opened, Recovering
<1>12. Phases'
  BY <1>0, <1>1, <1>5, <1>6 DEF Phases, Opened, Recovering
<1>13. TaskShape' /\ EditShape' /\ Unnamed' /\ Faithful' /\ Underway' /\ SyncedStay'
  BY <1>6, QuietNext
<1>14. Asked'
  BY <1>1, AskedKept
<1>15. \A S : Contents(S)' = Contents(S)
  BY <1>1, SameContents
<1>16. AllLogs(logFile) = {} /\ SyncedLogs(logFile) = {}
  <2>1. {l \in DOMAIN logs : l >= logFile} = {logFile}
    BY <1>5, TypeParts DEF Below, LogTypes, Numbers
  <2>2. AllOf(logFile) = {}
    BY <1>5, EmptyLog
  <2> QED
    BY <2>1, <2>2, SyncedInAll DEF AllLogs
<1>17. forced \subseteq Contents(Files(version))
  <2>1. Newest \in Descriptions
    BY NewestIsThere
  <2>2. Replayed(Newest, Whole) = Contents(Files(version))
    BY <1>1 DEF Restartable
  <2> QED
    BY <2>1, <2>2, DurableMeans, ReplayedLogs, SyncedInAll
<1>18. Durable'
  <2>1. Files(version) \subseteq DOMAIN tables
    BY <1>1 DEF ProcessNumbers
  <2> QED
    BY <1>1, <1>2, <1>7, <1>15, <1>17, <2>1, DurableMeansNext
<1>19. Restartable'
  <2>1. Replayed(Newest, Whole)' = Contents(Files(version))
    <3>1. Replayed(d, Whole)' = Contents(Files(d.files))' \cup AllLogs(d.log)'
      BY ReplayedNext
    <3>2. Replayed(Newest, Whole)' = Replayed(d, Whole)'
      BY <1>7
    <3>3. AllLogs(d.log)' = {}
      BY <1>1, <1>2, <1>16, SameLogs
    <3> QED
      BY <1>2, <1>15, <3>1, <3>2, <3>3
  <2>2. Contents(Files(version))' = Contents(Files(version))
    BY <1>1, <1>15 DEF Files
  <2> QED
    BY <1>1, <2>1, <2>2 DEF Restartable, Opened, Recovering
<1>k. Kept' = Kept
  <2>1. Kept = Contents(Files(version))
    BY <1>1 DEF Kept, Newest, Restartable
  <2>2. Kept' = Contents(Files(version))'
    BY <1>1, <1>19 DEF Kept, Newest, Restartable
  <2>3. Contents(Files(version))' = Contents(Files(version))
    BY <1>1, <1>15 DEF Files
  <2> QED
    BY <2>1, <2>2, <2>3
<1> QED
  BY <1>8, <1>9, <1>10, <1>11, <1>12, <1>13, <1>14, <1>18, <1>19, <1>k

(* Opening deletes the logs that were recovered and the tables no version  *)
(* names.                                                                  *)
LEMMA OpenInv ==
  ASSUME IInv, Open
  PROVE  IInv' /\ Kept' = Kept
<1> USE DEF IInv, diskVars, fileVars, queueVars, backVars, countVars
<1>1. /\ phase = "saved" /\ phase' = "open" /\ logNumber' = logFile
      /\ scheduled' = NeedsCompaction(version)
      /\ UNCHANGED <<manifest, version, logFile, nextFile, todo, mem, imm,
                     queueVars, pending, bgError, task, held, asked, forced,
                     countVars>>
      /\ DeleteObsoleteFiles
  BY DEF Open
<1>2. Quiet /\ Quiet' /\ todo = {}
  BY <1>1 DEF Phases, Opened, Recovering, Quiet
<1>3. /\ manifest = <<Descriptor(version, logFile, nextFile)>>
      /\ logFile \in DOMAIN logs /\ Below(DOMAIN logs \ {logFile}, logFile)
      /\ logs[logFile] = NoLog
  BY <1>1 DEF Phases
<1>4. UNCHANGED <<Newest, Descriptions, Files(version)>>
  BY <1>1 DEF Newest, Descriptions, Files
<1>5. /\ Descriptions = {Newest} /\ Newest.files = version
      /\ Newest.log = logFile /\ Newest.next = nextFile
  BY <1>3 DEF Descriptions, Newest, Last, Descriptor
<1>6. logFile \in Nat /\ logFile >= logFile
  BY TypeParts DEF ProcessTypes
<1>7. /\ DOMAIN logs' \subseteq DOMAIN logs /\ DOMAIN tables' \subseteq DOMAIN tables
      /\ logFile \in DOMAIN logs'
      /\ \A l \in DOMAIN logs' : logs'[l] = logs[l]
      /\ \A i \in DOMAIN tables :
           i \in Files(version) \cup pending \cup held => i \in DOMAIN tables'
      /\ \A i \in DOMAIN tables' : tables'[i] = tables[i]
      /\ \A l \in DOMAIN logs' : AllOf(l)' = AllOf(l)
      /\ AllLogs(logFile)' = AllLogs(logFile)
      /\ SyncedLogs(logFile)' = SyncedLogs(logFile)
  <2>1. logNumber' \in Nat /\ pending' = pending
    BY <1>1, <1>6
  <2>2. Files(version') = Files(version)
    BY <1>1
  <2>3. PICK k : k = logFile
    OBVIOUS
  <2>4. AllLogs(k)' = AllLogs(k) /\ SyncedLogs(k)' = SyncedLogs(k)
    BY <1>1, <1>6, <2>1, <2>3, Deleted
  <2>5. logFile' = k
    BY <1>1, <2>3
  <2> QED
    BY <1>1, <1>3, <1>6, <2>1, <2>2, <2>3, <2>4, <2>5, Deleted
<1>8. /\ Files(version) \subseteq DOMAIN tables'
      /\ Contents(Files(version))' = Contents(Files(version))
  <2>1. Files(version) \subseteq DOMAIN tables /\ Files(version) \subseteq DOMAIN tables'
    BY <1>1, <1>7 DEF ProcessNumbers
  <2>2. \A i \in Files(version) : tables'[i] = tables[i]
    BY <1>7, <2>1
  <2>3. PICK S : S = Files(version)
    OBVIOUS
  <2>4. Contents(S)' = Contents(S)
    BY <2>2, <2>3, SameContents
  <2> QED
    BY <1>4, <2>1, <2>3, <2>4
<1>9. TypeOK'
  <2>1. LogTypes' /\ TableTypes'
    BY <1>7, TypeParts DEF LogTypes, TableTypes
  <2>2. ProcessTypes'
    BY <1>1, <1>7, TypeParts DEF ProcessTypes
  <2>3. NeedsCompaction(version) \in BOOLEAN
    BY DEF NeedsCompaction
  <2>4. FlagTypes'
    BY <1>1, <2>3, TypeParts DEF FlagTypes
  <2> QED
    BY <1>1, <2>1, <2>2, <2>4, TypeParts, TypePartsNext, TypesKept
<1>10. ManifestNumbers'
  BY <1>4, <1>5, <1>8 DEF ManifestNumbers
<1>11. ProcessNumbers'
  BY <1>1, <1>2, <1>4, <1>7, <1>8 DEF ProcessNumbers, Quiet, Below
<1>12. LogNumbers'
  BY <1>1, <1>4, <1>5, <1>6, <1>7 DEF LogNumbers, Opened, Recovering
<1>13. Phases'
  BY <1>1, <1>2 DEF Phases, Opened, Recovering
<1>14. TaskShape' /\ EditShape' /\ Unnamed' /\ Underway'
  BY <1>2, QuietTask
<1>15. Faithful'
  BY <1>1, <1>2, <1>3 DEF Faithful, Quiet, Idle, Descriptor
<1>16. Asked'
  BY <1>1, <1>7 DEF Asked
<1>17. forced \subseteq Contents(Files(version))
  <2>1. Replayed(Newest, Whole) = Contents(Files(version))
    BY <1>1 DEF Restartable
  <2> QED
    BY <1>5, <2>1, DurableMeans, ReplayedLogs, SyncedInAll
<1>18. SyncedStay'
  BY <1>1, <1>4, <1>5, <1>8, <1>17 DEF SyncedStay
<1>19. Restartable'
  BY <1>1, <1>2, <1>4, <1>5 DEF Restartable, Opened, Recovering, Quiet
<1>20. Durable'
  BY <1>1, <1>4, <1>5, <1>8, <1>17, DurableMeansNext
<1>k. Kept' = Kept
  <2>1. Kept = Contents(Files(version))
    BY <1>1 DEF Kept, Newest, Restartable
  <2> QED
    BY <1>1, <1>2, <1>8, <2>1 DEF Kept, Quiet
<1> QED
  BY <1>9, <1>10, <1>11, <1>12, <1>13, <1>14, <1>15, <1>16, <1>18, <1>19, <1>20, <1>k

-----------------------------------------------------------------------------
(* Writers *)

LEMMA EnqueueInv ==
  ASSUME IInv, NEW w \in Writes, Enqueue(w)
  PROVE  IInv'
<1> USE DEF IInv, diskVars, fileVars, queueVars, backVars, countVars
<1>1. /\ phase = "open" /\ asked' = asked \cup {w} /\ writers' = Append(writers, w)
      /\ UNCHANGED <<diskVars, phase, fileVars, todo, mem, imm, batch, synced,
                     waiting, backVars, held, forced, countVars>>
  BY DEF Enqueue
<1>2. /\ writers \in Seq(Writes) /\ Len(writers) \in Nat /\ batch \in 0 .. Len(writers)
      /\ writers' \in Seq(Writes) /\ Len(writers') = Len(writers) + 1
      /\ \A i \in 1 .. Len(writers) : writers'[i] = writers[i]
      /\ writers'[Len(writers) + 1] = w
  BY <1>1, TypeParts DEF QueueTypes
<1>3. TypeOK'
  <2>1. QueueTypes'
    BY <1>1, <1>2 DEF QueueTypes
  <2>2. HistoryTypes'
    BY <1>1, TypeParts DEF HistoryTypes
  <2>3. ProcessTypes'
    BY <1>1, TypeParts DEF ProcessTypes
  <2> QED
    BY <1>1, <2>1, <2>2, <2>3, TypeParts, TypePartsNext, TypesKept
<1>4. Phases'
  BY <1>1, StaysOpen DEF Phases, Recovering
<1>5. Asked'
  <2>1. \A i \in DOMAIN writers' : writers'[i] \in asked'
    BY <1>1, <1>2 DEF Asked
  <2> QED
    BY <1>1, <2>1, SameLogs DEF Asked
<1>6. Underway'
  <2> SUFFICES ASSUME batch > 0 PROVE Underway'
    BY <1>1 DEF Underway
  <2>1. Batch(batch)' = Batch(batch) /\ (Group(batch) => Group(batch)')
    BY <1>1, <1>2 DEF Batch, Group
  <2> QED
    BY <1>1, <2>1 DEF Underway, Last
<1>7. /\ ManifestNumbers' /\ ProcessNumbers' /\ LogNumbers' /\ TaskShape' /\ EditShape'
      /\ Unnamed'
  BY <1>1, ManifestNumbersKept, ProcessNumbersKept, LogNumbersKept, TaskShapeKept,
     EditShapeKept, UnnamedKept
<1>8. Faithful' /\ SyncedStay' /\ Restartable' /\ Durable'
  BY <1>1, FaithfulKept, SyncedStayKept, RestartableKept, DurableKept
<1> QED
  BY <1>3, <1>4, <1>5, <1>6, <1>7, <1>8

(* Writers that leave the queue with nothing done. *)
LEMMA LeaveInv ==
  ASSUME IInv, phase = "open", NEW n \in 0 .. Len(writers), Answered(n),
         waiting' \in BOOLEAN, faults' \in Nat,
         bgError' \in {bgError, TRUE},
         UNCHANGED <<diskVars, phase, fileVars, todo, mem, imm, pending, scheduled,
                     task, held, asked, forced, outages, crashes>>
  PROVE  IInv'
<1> USE DEF IInv, diskVars, fileVars
<1>1. /\ QueueTypes' /\ batch' = 0 /\ synced' = FALSE
      /\ \A i \in DOMAIN writers' : \E j \in DOMAIN writers : writers'[i] = writers[j]
  BY TypeParts, QueueAnswered
<1>2. TypeOK'
  <2>1. FlagTypes' /\ HistoryTypes'
    BY <1>1, TypeParts DEF FlagTypes, HistoryTypes
  <2>2. ProcessTypes'
    BY TypeParts DEF ProcessTypes
  <2> QED
    BY <1>1, <2>1, <2>2, TypeParts, TypePartsNext, TypesKept
<1>3. Phases'
  BY StaysOpen DEF Phases, Recovering
<1>4. Asked'
  BY <1>1, SameLogs DEF Asked
<1>5. Underway'
  BY <1>1 DEF Underway
<1>6. Faithful'
  BY DEF Faithful, Opened, Apply
<1>7. /\ ManifestNumbers' /\ ProcessNumbers' /\ LogNumbers' /\ TaskShape' /\ EditShape'
      /\ Unnamed'
  BY ManifestNumbersKept, ProcessNumbersKept, LogNumbersKept, TaskShapeKept,
     EditShapeKept, UnnamedKept
<1>8. SyncedStay' /\ Restartable' /\ Durable'
  BY SyncedStayKept, RestartableKept, DurableKept
<1> QED
  BY <1>2, <1>3, <1>4, <1>5, <1>6, <1>7, <1>8

(* A writer that is refused leaves the queue. *)
LEMMA RefuseWriteInv ==
  ASSUME IInv, RefuseWrite
  PROVE  IInv'
<1>1. phase = "open" /\ 1 \in 0 .. Len(writers)
  BY TypeParts DEF IInv, RefuseWrite, Ready, QueueTypes
<1>2. waiting \in BOOLEAN /\ faults \in Nat
  BY TypeParts DEF IInv, FlagTypes, HistoryTypes
<1> QED
  BY <1>1, <1>2, LeaveInv DEF RefuseWrite, backVars, countVars

(* After a failed sync nothing is acknowledged. *)
LEMMA SyncLogFailsInv ==
  ASSUME IInv, SyncLogFails
  PROVE  IInv'
<1>1. batch \in 0 .. Len(writers)
  BY TypeParts DEF IInv, QueueTypes
<1>2. phase = "open"
  BY <1>1, OnlyOpen DEF IInv, SyncLogFails, WantsSync
<1>3. waiting \in BOOLEAN /\ faults + 1 \in Nat
  BY TypeParts DEF IInv, FlagTypes, HistoryTypes
<1> QED
  BY <1>1, <1>2, <1>3, LeaveInv DEF SyncLogFails

(* Only the writers' and the thread's flags change. *)
LEMMA FlagsInv ==
  ASSUME IInv, phase = "open", waiting' \in BOOLEAN, scheduled' \in BOOLEAN,
         UNCHANGED <<diskVars, phase, fileVars, todo, mem, imm, writers, batch,
                     synced, pending, bgError, task, held, asked, forced, countVars>>
  PROVE  IInv'
<1> USE DEF IInv, diskVars, fileVars, countVars
<1>1. TypeOK'
  <2>1. FlagTypes'
    BY TypeParts DEF FlagTypes
  <2>2. ProcessTypes'
    BY TypeParts DEF ProcessTypes
  <2> QED
    BY <2>1, <2>2, TypeParts, TypePartsNext, TypesKept
<1>2. Phases'
  BY DEF Phases, Opened, Recovering, Quiet
<1>3. /\ ManifestNumbers' /\ ProcessNumbers' /\ LogNumbers' /\ TaskShape' /\ EditShape'
      /\ Unnamed'
  BY ManifestNumbersKept, ProcessNumbersKept, LogNumbersKept, TaskShapeKept,
     EditShapeKept, UnnamedKept
<1>4. /\ Faithful' /\ Asked' /\ Underway' /\ SyncedStay' /\ Restartable' /\ Durable'
  BY FaithfulKept, AskedKept, UnderwayKept, SyncedStayKept, RestartableKept, DurableKept
<1> QED
  BY <1>1, <1>2, <1>3, <1>4

(* A writer that goes to sleep changes nothing on the disk. *)
LEMMA WaitForRoomInv ==
  ASSUME IInv, WaitForRoom
  PROVE  IInv'
<1>1. scheduled \in BOOLEAN /\ phase = "open"
  BY TypeParts DEF IInv, FlagTypes, WaitForRoom, Ready
<1> QED
  BY <1>1, FlagsInv DEF WaitForRoom, backVars

(* A call without work ends. *)
LEMMA NothingToDoInv ==
  ASSUME IInv, NothingToDo
  PROVE  IInv'
<1>1. scheduled' \in BOOLEAN /\ waiting' \in BOOLEAN /\ phase = "open"
  BY DEF NothingToDo, EndCall, Called, IInv, Phases, Opened
<1> QED
  BY <1>1, FlagsInv DEF NothingToDo

(* The full memtable keeps its log until it is flushed: the manifest asks  *)
(* for both.                                                               *)
LEMMA SwitchMemTableInv ==
  ASSUME IInv, SwitchMemTable
  PROVE  IInv'
<1> USE DEF IInv, diskVars, queueVars, countVars
<1>0. PICK N : N = nextFile
  OBVIOUS
<1>1. /\ phase = "open" /\ batch = 0 /\ imm = {}
      /\ NewLog(N) /\ logFile' = N /\ nextFile' = N + 1
      /\ imm' = mem /\ mem' = {} /\ scheduled' = TRUE
      /\ UNCHANGED <<tables, manifest, phase, version, logNumber, todo, queueVars,
                     pending, bgError, task, held, asked, forced, countVars>>
  BY <1>0 DEF SwitchMemTable, Ready, NoRoom
<1>2. /\ todo = {} /\ N \in Numbers /\ N \notin DOMAIN logs
      /\ \A m \in Descriptions : m.log < N
  BY <1>0, <1>1, NumberIsNew DEF Phases, Recovering
<1>3. /\ DOMAIN logs' = DOMAIN logs \cup {N} /\ logs'[N] = NoLog
      /\ \A i \in DOMAIN logs : logs'[i] = logs[i]
      /\ \A i \in DOMAIN logs : AllOf(i)' = AllOf(i)
      /\ AllOf(N)' = {}
      /\ \A k : AllLogs(k)' = AllLogs(k) /\ SyncedLogs(k)' = SyncedLogs(k)
  BY <1>1, <1>2, LogAdded
<1>4. UNCHANGED <<Newest, Descriptions, Files(version)>>
      /\ Newest \in Descriptions
  BY <1>1, NewestIsThere DEF Newest, Descriptions, Files
<1>5. /\ logFile \in DOMAIN logs /\ logFile \in Nat /\ logNumber \in Nat
      /\ logFile < N /\ logNumber <= logFile
      /\ \A m \in Descriptions : m.log \in Nat /\ logNumber <= m.log /\ m.log <= logFile
  <2>1. /\ logFile \in DOMAIN logs /\ logNumber <= logFile
        /\ \A m \in Descriptions : logNumber <= m.log /\ m.log <= logFile
    BY <1>1 DEF LogNumbers, Opened
  <2>2. logFile < N
    BY <1>0, <1>1, <1>2, <2>1 DEF ProcessNumbers, Below
  <2> QED
    BY <2>1, <2>2, TypeParts, NewestIsThere DEF ProcessTypes, Descriptors
<1>6. TypeOK'
  <2>1. LogTypes'
    BY <1>2, <1>3, LogAddedTypes, TypeParts
  <2>2. ProcessTypes'
    BY <1>1, <1>2, <1>3, TypeParts DEF ProcessTypes, Numbers
  <2>3. FlagTypes'
    BY <1>1, TypeParts DEF FlagTypes
  <2> QED
    BY <1>1, <2>1, <2>2, <2>3, TypeParts, TypePartsNext, TypesKept
<1>7. ManifestNumbers' /\ Unnamed' /\ Faithful'
  BY <1>1, ManifestNumbersKept, UnnamedKept, FaithfulKept
<1>8. ProcessNumbers'
  <2>1. \A i \in DOMAIN logs' : i < N + 1
    BY <1>0, <1>1, <1>2, <1>3, TypeParts DEF ProcessNumbers, Below, LogTypes, Numbers
  <2>2. \A i \in Nat : i < N => i < N + 1
    BY <1>2 DEF Numbers
  <2>3. /\ Files(version) \subseteq Nat /\ held \subseteq Nat /\ pending \subseteq Nat
        /\ task.job.inputs \subseteq Nat /\ task.table \in Nat /\ task.job.output \in Nat
    BY TypeParts DEF ProcessTypes, TaskTypes, Versions, Files, Numbers
  <2>4. Newest.next <= N + 1
    BY <1>0, <1>1, <1>2, <1>4, NewestIsThere DEF ProcessNumbers, Descriptors, Numbers
  <2>5. /\ Below(Files(version), N + 1) /\ Below(held, N + 1) /\ Below(pending, N + 1)
        /\ Below(task.job.inputs, N + 1)
        /\ task.table < N + 1 /\ task.job.output < N + 1
    BY <1>0, <1>1, <2>2, <2>3 DEF ProcessNumbers, Below
  <2> QED
    BY <1>1, <1>2, <1>4, <2>1, <2>4, <2>5 DEF ProcessNumbers, Below
<1>9. LogNumbers'
  BY <1>1, <1>2, <1>3, <1>4, <1>5 DEF LogNumbers, Opened, Recovering, Numbers
<1>10. Phases'
  BY <1>1, <1>2, StaysOpen
<1>11. task.step \notin {"building", "logging", "written", "synced"}
         \/ task.table = task.job.output
  BY <1>1 DEF TaskShape
<1>12. TaskShape'
  <2>1. \A S : Contents(S)' = Contents(S)
    BY <1>1, SameContents
  <2> QED
    BY <1>1, <1>4, <1>11, <2>1 DEF TaskShape, Merging, Busy
<1>13. EditShape'
  <2> SUFFICES ASSUME Busy PROVE EditShape'
    BY <1>1 DEF EditShape, Busy
  <2>1. ~Flushing
    BY <1>11 DEF Flushing, Busy
  <2>2. task.edit.next <= N /\ task.edit.next \in Nat /\ task.edit.log <= logFile
        /\ task.edit.log \in Nat
    BY <1>0, TypeParts DEF EditShape, TaskTypes, Edits
  <2>3. task.edit.next <= N + 1 /\ task.edit.log <= N
    BY <1>2, <1>5, <2>2 DEF Numbers
  <2> QED
    BY <1>1, <1>4, <2>1, <2>3 DEF EditShape, Flushing, Busy, Merging
<1>14. Asked'
  <2>1. \A i \in DOMAIN logs' : AllOf(i)' \subseteq asked
    BY <1>3 DEF Asked
  <2> QED
    BY <1>1, <2>1 DEF Asked
<1>15. Underway'
  BY <1>1 DEF Underway
<1>16. \A S : Contents(S)' = Contents(S)
  BY <1>1, SameContents
<1>17. SyncedStay'
  <2>1. \A m \in Descriptions : forced \subseteq Contents(Files(m.files)) \cup mem
    BY <1>1 DEF SyncedStay, Opened
  <2> QED
    BY <1>1, <1>4, <1>16, <2>1 DEF SyncedStay
<1>18. Durable'
  BY <1>1, <1>3, <1>4, <1>16, DurableMeans, DurableMeansNext
<1>19. Restartable'
  <2>1. mem \subseteq AllOf(logFile)
    BY <1>1 DEF Restartable, Opened
  <2>2. AllOf(logFile) \subseteq AllLogs(Newest.log)
    BY <1>4, <1>5 DEF AllLogs
  <2>3. Replayed(Newest, Whole)' = Replayed(Newest, Whole)
    BY <1>3, <1>4, <1>16, ReplayedLogs, ReplayedNext
  <2>4. mem \subseteq Replayed(Newest, Whole)
    BY <2>1, <2>2, ReplayedLogs
  <2> QED
    BY <1>1, <1>4, <1>16, <2>3, <2>4 DEF Restartable, Opened, Recovering
<1> QED
  BY <1>6, <1>7, <1>8, <1>9, <1>10, <1>12, <1>13, <1>14, <1>15, <1>17, <1>18, <1>19

(* A record is written; it is not acknowledged yet. *)
LEMMA AddRecordInv ==
  ASSUME IInv, NEW k \in 1 .. Len(writers), AddRecord(k)
  PROVE  IInv'
<1> USE DEF IInv, diskVars, fileVars, queueVars, backVars, countVars
<1>0. PICK L, W : L = logFile /\ W = Batch(k)
  OBVIOUS
<1>1. /\ phase = "open" /\ batch = 0 /\ Group(k)
      /\ logs' = [logs EXCEPT ![L].records = Append(@, W)] /\ batch' = k
      /\ UNCHANGED <<tables, manifest, phase, fileVars, todo, mem, imm, writers,
                     synced, waiting, backVars, held, asked, forced, countVars>>
  BY <1>0 DEF AddRecord, Ready
<1>2. /\ k \in Nat \ {0} /\ k <= Len(writers) /\ Len(writers) \in Nat
      /\ W \subseteq Writes /\ W \subseteq asked
  BY <1>0, GroupAsked, TypeParts DEF QueueTypes
<1>3. L \in DOMAIN logs
  BY <1>0, <1>1 DEF LogNumbers, Opened
<1>4. /\ LogTypes' /\ DOMAIN logs' = DOMAIN logs
      /\ logs'[L].records # <<>> /\ Last(logs'[L].records) = W
      /\ AllOf(L)' = AllOf(L) \cup W
      /\ \A i \in DOMAIN logs \ {L} : AllOf(i)' = AllOf(i)
      /\ \A i \in DOMAIN logs : SyncedOf(i)' = SyncedOf(i)
      /\ \A n : AllLogs(n) \subseteq AllLogs(n)' /\ SyncedLogs(n)' = SyncedLogs(n)
  BY <1>1, <1>2, <1>3, LogGrown
<1>5. UNCHANGED <<Newest, Descriptions, Files(version), Batch(k)>>
      /\ Newest \in Descriptions
  BY <1>1, NewestIsThere DEF Newest, Descriptions, Files, Batch
<1>6. TypeOK'
  <2>1. QueueTypes'
    BY <1>1, <1>2, TypeParts DEF QueueTypes
  <2>2. ProcessTypes'
    BY <1>1, <1>4, TypeParts DEF ProcessTypes
  <2> QED
    BY <1>1, <1>4, <2>1, <2>2, TypeParts, TypePartsNext, TypesKept
<1>7. ManifestNumbers' /\ TaskShape' /\ EditShape' /\ Unnamed' /\ Faithful'
  BY <1>1, ManifestNumbersKept, TaskShapeKept, EditShapeKept, UnnamedKept, FaithfulKept
<1>8. ProcessNumbers' /\ LogNumbers'
  BY <1>1, <1>4, <1>5 DEF ProcessNumbers, LogNumbers, Opened, Recovering
<1>9. Phases'
  BY <1>1, StaysOpen DEF Phases, Recovering
<1>10. Asked'
  <2>1. \A i \in DOMAIN logs' : AllOf(i)' \subseteq asked
    BY <1>2, <1>4 DEF Asked
  <2> QED
    BY <1>1, <2>1 DEF Asked
<1>11. Underway'
  <2>1. ~synced
    BY <1>1 DEF Underway
  <2>2. Batch(batch)' = W /\ Group(batch)'
    BY <1>0, <1>1, <1>5 DEF Batch, Group
  <2>3. logs'[logFile'].records # <<>> /\ Last(logs'[logFile'].records) = W
    BY <1>0, <1>1, <1>4
  <2> QED
    BY <1>1, <2>1, <2>2, <2>3 DEF Underway
<1>12. \A S : Contents(S)' = Contents(S)
  BY <1>1, SameContents
<1>13. SyncedStay'
  <2>1. SyncedOf(logFile)' = SyncedOf(logFile)
    BY <1>0, <1>1, <1>3, <1>4
  <2> QED
    BY <1>1, <1>5, <1>12, <2>1 DEF SyncedStay, Opened
<1>14. Durable'
  BY <1>1, <1>4, <1>5, <1>12, DurableMeans, DurableMeansNext
<1>15. Restartable'
  <2>1. AllOf(logFile) \subseteq AllOf(logFile)'
    BY <1>0, <1>1, <1>4
  <2>2. Replayed(Newest, Whole) \subseteq Replayed(Newest, Whole)'
    BY <1>4, <1>5, <1>12, ReplayedLogs, ReplayedNext
  <2> QED
    BY <1>1, <1>5, <1>12, <2>1, <2>2 DEF Restartable, Opened, Recovering
<1> QED
  BY <1>6, <1>7, <1>8, <1>9, <1>10, <1>11, <1>13, <1>14, <1>15

(* The group is synced with all records before it. *)
LEMMA SyncLogInv ==
  ASSUME IInv, SyncLog
  PROVE  IInv'
<1> USE DEF IInv, diskVars, fileVars, queueVars, backVars, countVars
<1>0. PICK L : L = logFile
  OBVIOUS
<1>1. /\ batch > 0 /\ synced' = TRUE
      /\ logs' = [logs EXCEPT ![L].synced = Len(logs[L].records)]
      /\ UNCHANGED <<tables, manifest, phase, fileVars, todo, mem, imm, writers,
                     batch, waiting, backVars, held, asked, forced, countVars>>
  BY <1>0 DEF SyncLog, WantsSync
<1>2. phase = "open" /\ todo = {}
  BY <1>1, OnlyOpen
<1>3. L \in DOMAIN logs
  BY <1>0, <1>2 DEF LogNumbers, Opened
<1>4. /\ LogTypes' /\ DOMAIN logs' = DOMAIN logs
      /\ logs'[L].records = logs[L].records
      /\ logs'[L].synced = Len(logs'[L].records)
      /\ \A i \in DOMAIN logs : AllOf(i)' = AllOf(i) /\ SyncedOf(i) \subseteq SyncedOf(i)'
      /\ \A k : AllLogs(k)' = AllLogs(k) /\ SyncedLogs(k) \subseteq SyncedLogs(k)'
  BY <1>1, <1>3, LogSynced
<1>5. UNCHANGED <<Newest, Descriptions, Files(version), Batch(batch)>>
      /\ Newest \in Descriptions
  BY <1>1, NewestIsThere DEF Newest, Descriptions, Files, Batch
<1>6. TypeOK'
  <2>1. FlagTypes'
    BY <1>1, TypeParts DEF FlagTypes
  <2>2. ProcessTypes'
    BY <1>1, <1>4, TypeParts DEF ProcessTypes
  <2> QED
    BY <1>1, <1>4, <2>1, <2>2, TypeParts, TypePartsNext, TypesKept
<1>7. ManifestNumbers' /\ TaskShape' /\ EditShape' /\ Unnamed' /\ Faithful'
  BY <1>1, ManifestNumbersKept, TaskShapeKept, EditShapeKept, UnnamedKept, FaithfulKept
<1>8. ProcessNumbers' /\ LogNumbers'
  BY <1>1, <1>4, <1>5 DEF ProcessNumbers, LogNumbers, Opened, Recovering
<1>9. Phases'
  BY <1>1, <1>2, StaysOpen
<1>10. Asked'
  BY <1>1, <1>4 DEF Asked
<1>11. Underway'
  <2>1. Group(batch)' <=> Group(batch)
    BY <1>1 DEF Group
  <2>2. logs'[logFile'].records = logs[logFile].records
        /\ logs'[logFile'].synced = Len(logs'[logFile'].records)
    BY <1>0, <1>1, <1>4
  <2> QED
    BY <1>1, <1>5, <2>1, <2>2 DEF Underway
<1>12. \A S : Contents(S)' = Contents(S)
  BY <1>1, SameContents
<1>13. SyncedStay'
  <2>1. SyncedOf(logFile) \subseteq SyncedOf(logFile)'
    BY <1>0, <1>1, <1>3, <1>4
  <2> QED
    BY <1>1, <1>2, <1>5, <1>12, <2>1 DEF SyncedStay, Opened
<1>14. Durable'
  BY <1>1, <1>4, <1>5, <1>12, DurableMeans, DurableMeansNext
<1>15. Restartable'
  <2>1. AllOf(logFile) = AllOf(logFile)'
    BY <1>0, <1>1, <1>3, <1>4
  <2>2. Replayed(Newest, Whole) = Replayed(Newest, Whole)'
    BY <1>4, <1>5, <1>12, ReplayedLogs, ReplayedNext
  <2> QED
    BY <1>1, <1>2, <1>5, <1>12, <2>1, <2>2 DEF Restartable, Opened, Recovering
<1> QED
  BY <1>6, <1>7, <1>8, <1>9, <1>10, <1>11, <1>13, <1>14, <1>15

(* A group with a synced writer is in the synced part of the log when it   *)
(* is acknowledged.                                                        *)
LEMMA AcknowledgeInv ==
  ASSUME IInv, Acknowledge
  PROVE  IInv'
<1> USE DEF IInv, diskVars, fileVars, queueVars, backVars, countVars
<1>0. PICK W : W = Batch(batch)
  OBVIOUS
<1>1. /\ batch > 0 /\ ~WantsSync
      /\ mem' = mem \cup W /\ forced' = forced \cup (W \cap SyncWrites)
      /\ Answered(batch)
      /\ UNCHANGED <<diskVars, phase, fileVars, todo, imm, waiting, backVars, held,
                     asked, countVars>>
  BY <1>0 DEF Acknowledge
<1>2. phase = "open" /\ todo = {}
  BY <1>1, OnlyOpen
<1>3. batch \in 0 .. Len(writers) /\ W \subseteq Writes /\ W \subseteq asked
  BY <1>0, GroupAsked, TypeParts DEF QueueTypes
<1>4. /\ QueueTypes' /\ batch' = 0 /\ synced' = FALSE
      /\ \A i \in DOMAIN writers' : \E j \in DOMAIN writers : writers'[i] = writers[j]
  BY <1>1, <1>3, TypeParts, QueueAnswered
<1>5. UNCHANGED <<Newest, Descriptions, Files(version)>>
      /\ Newest \in Descriptions
  BY <1>1, NewestIsThere DEF Newest, Descriptions, Files
<1>6. logFile \in DOMAIN logs /\ \A m \in Descriptions : m.log <= logFile
  BY <1>2 DEF LogNumbers, Opened
<1>7. W \subseteq AllOf(logFile)
  <2>1. /\ logs[logFile].records \in Seq(SUBSET Writes) /\ logs[logFile].records # <<>>
        /\ logs[logFile].records[Len(logs[logFile].records)] = W
    BY <1>0, <1>1, <1>6, TypeParts DEF Underway, LogTypes, Last
  <2>2. Len(logs[logFile].records) \in 1 .. Len(logs[logFile].records)
    BY <2>1
  <2> QED
    BY <2>1, <2>2 DEF AllOf, Logged
<1>8. W \cap SyncWrites \subseteq SyncedOf(logFile)
  <2> SUFFICES ASSUME W \cap SyncWrites # {}
               PROVE  W \subseteq SyncedOf(logFile)
    OBVIOUS
  <2>1. Group(batch) /\ (synced => logs[logFile].synced = Len(logs[logFile].records))
    BY <1>1 DEF Underway
  <2>2. writers[1] \in SyncWrites
    BY <1>0, <1>3, <2>1 DEF Group, Batch
  <2>3. synced
    BY <1>1, <2>2 DEF WantsSync
  <2>4. SyncedOf(logFile) = AllOf(logFile)
    BY <2>1, <2>3 DEF SyncedOf, AllOf
  <2> QED
    BY <1>7, <2>4
<1>9. TypeOK'
  <2>1. FlagTypes' /\ HistoryTypes'
    BY <1>1, <1>3, <1>4, TypeParts DEF FlagTypes, HistoryTypes
  <2>2. ProcessTypes'
    BY <1>1, <1>3, TypeParts DEF ProcessTypes
  <2> QED
    BY <1>1, <1>4, <2>1, <2>2, TypeParts, TypePartsNext, TypesKept
<1>10. /\ ManifestNumbers' /\ ProcessNumbers' /\ LogNumbers' /\ TaskShape' /\ EditShape'
       /\ Unnamed' /\ Faithful'
  BY <1>1, ManifestNumbersKept, ProcessNumbersKept, LogNumbersKept, TaskShapeKept,
     EditShapeKept, UnnamedKept, FaithfulKept
<1>11. Phases'
  BY <1>1, <1>2, StaysOpen
<1>12. Asked'
  <2>1. (mem \cup imm \subseteq asked)' /\ (\A i \in DOMAIN writers' : writers'[i] \in asked')
    BY <1>1, <1>3, <1>4 DEF Asked
  <2> QED
    BY <1>1, <2>1, SameLogs DEF Asked
<1>13. Underway'
  BY <1>4 DEF Underway
<1>14. \A S : Contents(S)' = Contents(S)
  BY <1>1, SameContents
<1>15. SyncedStay'
  <2>1. SyncedOf(logFile)' = SyncedOf(logFile)
    BY <1>1, SameLogs
  <2> QED
    BY <1>1, <1>2, <1>5, <1>8, <1>14, <2>1 DEF SyncedStay, Opened
<1>16. Durable'
  <2>1. \A m \in Descriptions : SyncedOf(logFile) \subseteq SyncedLogs(m.log)
    BY <1>6, TypeParts, NewestIsThere DEF SyncedLogs, LogTypes, Numbers, Descriptors
  <2> QED
    BY <1>1, <1>5, <1>8, <1>14, <2>1, DurableMeans, DurableMeansNext, SameLogs
<1>17. Restartable'
  <2>1. AllOf(logFile)' = AllOf(logFile)
    BY <1>1, SameLogs
  <2>2. Replayed(Newest, Whole)' = Replayed(Newest, Whole)
    BY <1>1, <1>5, <1>14, ReplayedLogs, ReplayedNext, SameLogs
  <2> QED
    BY <1>1, <1>2, <1>5, <1>7, <1>14, <2>1, <2>2 DEF Restartable, Opened, Recovering
<1> QED
  BY <1>9, <1>10, <1>11, <1>12, <1>13, <1>15, <1>16, <1>17

-----------------------------------------------------------------------------
(* Readers *)

LEMMA ReaderInv ==
  ASSUME IInv, Reader
  PROVE  IInv'
<1> USE DEF IInv, diskVars, fileVars, queueVars, backVars, countVars
<1>1. /\ phase = "open" /\ todo = {} /\ held' \in {{}, Files(version)}
      /\ UNCHANGED <<diskVars, phase, fileVars, todo, mem, imm, queueVars, backVars,
                     asked, forced, countVars>>
  <2>1. CASE Hold
    BY <2>1 DEF Hold, Phases, Recovering
  <2>2. CASE Release
    BY <2>2, OnlyOpen DEF Release
  <2> QED
    BY <2>1, <2>2 DEF Reader
<1>2. TypeOK'
  <2>1. ProcessTypes'
    BY <1>1, TypeParts DEF ProcessTypes, Versions, Files
  <2> QED
    BY <1>1, <2>1, TypeParts, TypePartsNext, TypesKept
<1>3. ManifestNumbers' /\ LogNumbers' /\ TaskShape' /\ EditShape' /\ Faithful'
  BY <1>1, ManifestNumbersKept, LogNumbersKept, TaskShapeKept, EditShapeKept,
     FaithfulKept
<1>4. Phases'
  BY <1>1, StaysOpen
<1>5. UNCHANGED <<Newest, Descriptions, Files(version)>>
  BY <1>1 DEF Newest, Descriptions, Files
<1>6. ProcessNumbers'
  BY <1>1, <1>5 DEF ProcessNumbers, Below
<1>7. Unnamed'
  BY <1>1, <1>5 DEF Unnamed, Merging
<1>8. Asked' /\ Underway' /\ SyncedStay' /\ Restartable' /\ Durable'
  BY <1>1, AskedKept, UnderwayKept, SyncedStayKept, RestartableKept, DurableKept
<1> QED
  BY <1>2, <1>3, <1>4, <1>6, <1>7, <1>8

-----------------------------------------------------------------------------
(* The background thread *)

(* A new table disturbs nothing that is named anywhere. *)
LEMMA NewTableKeeps ==
  ASSUME TypeOK, ManifestNumbers, ProcessNumbers, phase # "down",
         NEW c \in SUBSET Writes, NewTable(c)
  PROVE  /\ TableTypes' /\ DOMAIN tables' = DOMAIN tables \cup {nextFile}
         /\ tables'[nextFile] = c
         /\ \A i \in DOMAIN tables \ {nextFile} : tables'[i] = tables[i]
         /\ \A m \in Descriptions : Contents(Files(m.files))' = Contents(Files(m.files))
         /\ \A S \in SUBSET Files(version) : Contents(S)' = Contents(S)
<1>1. /\ DOMAIN tables' = DOMAIN tables \cup {nextFile} /\ tables'[nextFile] = c
      /\ \A i \in DOMAIN tables \ {nextFile} : tables'[i] = tables[i]
  BY TableAdded DEF NewTable
<1>2. /\ nextFile \in Numbers /\ nextFile \notin Files(version)
      /\ \A m \in Descriptions : nextFile \notin Files(m.files)
  BY NumberIsNew
<1>3. TableTypes'
  BY <1>1, <1>2, TypeParts DEF TableTypes
<1>4. ASSUME NEW m \in Descriptions
      PROVE  Contents(Files(m.files))' = Contents(Files(m.files))
  <2>1. \A i \in Files(m.files) : tables'[i] = tables[i]
    BY <1>1, <1>2 DEF ManifestNumbers
  <2> QED
    BY <2>1, SameContents
<1>5. ASSUME NEW S \in SUBSET Files(version)
      PROVE  Contents(S)' = Contents(S)
  <2>1. \A i \in S : tables'[i] = tables[i]
    BY <1>1, <1>2 DEF ProcessNumbers
  <2> QED
    BY <2>1, SameContents
<1> QED
  BY <1>1, <1>3, <1>4, <1>5

(* A table under way gets a number no file that matters has. *)
LEMMA TableStarted ==
  ASSUME IInv, phase = "open", todo = {}, NEW c \in SUBSET Writes, c \subseteq asked,
         NewTable(c),
         TaskTypes', Below(task'.job.inputs, nextFile'),
         task'.table < nextFile', task'.job.output < nextFile',
         UNCHANGED <<logs, manifest, phase, version, logNumber, logFile, todo, mem,
                     imm, queueVars, bgError, scheduled, held, asked, forced,
                     countVars>>
  PROVE  /\ TypeOK' /\ ManifestNumbers' /\ ProcessNumbers' /\ LogNumbers' /\ Phases'
         /\ Asked' /\ Underway' /\ SyncedStay' /\ Restartable' /\ Durable'
<1> USE DEF IInv, queueVars, countVars
<1>0. PICK N : N = nextFile
  OBVIOUS
<1>1. /\ pending' = pending \cup {N} /\ nextFile' = N + 1
  BY <1>0 DEF NewTable
<1>2. /\ TableTypes' /\ DOMAIN tables' = DOMAIN tables \cup {N} /\ tables'[N] = c
      /\ \A i \in DOMAIN tables \ {N} : tables'[i] = tables[i]
      /\ \A m \in Descriptions : Contents(Files(m.files))' = Contents(Files(m.files))
      /\ \A S \in SUBSET Files(version) : Contents(S)' = Contents(S)
  BY <1>0, NewTableKeeps
<1>3. N \in Numbers /\ \A m \in Descriptions : N \notin Files(m.files)
  BY <1>0, NumberIsNew
<1>4. UNCHANGED <<Newest, Descriptions, Files(version)>> /\ Newest \in Descriptions
  BY NewestIsThere DEF Newest, Descriptions, Files
<1>5. TypeOK'
  <2>1. ProcessTypes'
    BY <1>1, <1>3, TypeParts DEF ProcessTypes, Numbers
  <2> QED
    BY <1>2, <2>1, TypeParts, TypePartsNext, TypesKept
<1>6. ManifestNumbers'
  BY <1>2, <1>4 DEF ManifestNumbers
<1>7. ProcessNumbers'
  <2>1. \A i \in Nat : i < N => i < N + 1
    BY <1>3 DEF Numbers
  <2>2. /\ Files(version) \subseteq Nat /\ held \subseteq Nat /\ pending \subseteq Nat
        /\ DOMAIN logs \subseteq Nat
    BY TypeParts DEF ProcessTypes, LogTypes, Versions, Files, Numbers
  <2>3. Newest.next <= N + 1
    BY <1>0, <1>3, <1>4, NewestIsThere DEF ProcessNumbers, Descriptors, Numbers
  <2>4. /\ Below(Files(version), N + 1) /\ Below(held, N + 1)
        /\ Below(DOMAIN logs \ todo, N + 1)
    BY <1>0, <2>1, <2>2 DEF ProcessNumbers, Below
  <2>5. Below(pending', N + 1)
    BY <1>0, <1>1, <1>3, <2>1, <2>2 DEF ProcessNumbers, Below, Numbers
  <2>6. Files(version) \cup held \subseteq DOMAIN tables' /\ todo \subseteq DOMAIN logs
    BY <1>2 DEF ProcessNumbers
  <2> QED
    BY <1>1, <1>4, <2>3, <2>4, <2>5, <2>6 DEF ProcessNumbers, Below
<1>8. LogNumbers'
  BY LogNumbersKept
<1>9. Phases'
  BY StaysOpen
<1>10. Asked'
  <2>1. \A i \in DOMAIN tables' : tables'[i] \subseteq asked
    BY <1>2 DEF Asked
  <2> QED
    BY <2>1, SameLogs DEF Asked
<1>11. Underway'
  BY UnderwayKept
<1>12. SyncedStay'
  <2>1. SyncedOf(logFile)' = SyncedOf(logFile)
    BY SameLogs
  <2> QED
    BY <1>2, <1>4, <2>1 DEF SyncedStay, Opened
<1>13. Durable'
  BY <1>2, <1>4, DurableMeans, DurableMeansNext, SameLogs
<1>14. Restartable'
  <2>1. AllOf(logFile)' = AllOf(logFile)
    BY SameLogs
  <2>2. Replayed(Newest, Whole)' = Replayed(Newest, Whole)
    BY <1>2, <1>4, ReplayedLogs, ReplayedNext, SameLogs
  <2>3. Contents(Files(version))' = Contents(Files(version))
    BY <1>2, <1>4
  <2> QED
    BY <1>2, <1>4, <2>1, <2>2, <2>3 DEF Restartable, Opened, Recovering
<1> QED
  BY <1>5, <1>6, <1>7, <1>8, <1>9, <1>10, <1>11, <1>12, <1>13, <1>14

LEMMA BeginFlushInv ==
  ASSUME IInv, BeginFlush
  PROVE  IInv'
<1> USE DEF IInv
<1>0. PICK N : N = nextFile
  OBVIOUS
<1>1. /\ imm # {} /\ NewTable(imm) /\ nextFile' = N + 1 /\ pending' = pending \cup {N}
      /\ task' = [task EXCEPT !.step = "building", !.table = N]
      /\ UNCHANGED <<logs, manifest, phase, version, logNumber, logFile, todo, mem,
                     imm, queueVars, bgError, scheduled, held, asked, forced,
                     countVars>>
  BY <1>0 DEF BeginFlush, NewTable
<1>2. phase = "open" /\ todo = {}
  BY <1>1, OnlyOpen
<1>3. /\ imm \subseteq Writes /\ imm \subseteq asked
      /\ N \in Numbers /\ \A m \in Descriptions : N \notin Files(m.files)
      /\ N \notin Files(version) /\ N \notin held /\ N \notin task.job.inputs
  BY <1>0, <1>2, NumberIsNew, TypeParts DEF ProcessTypes, Asked
<1>4. task.step \in {"idle", "merging"} /\ task.edit = NoEdit
  BY DEF BeginFlush, Called, TaskShape, Idle
<1>5. /\ task' \in [step : Steps, table : Nat, edit : Edits,
                    job : [inputs : SUBSET Numbers, output : Nat]]
      /\ task'.step = "building" /\ task'.table = N
      /\ task'.job = task.job /\ task'.edit = NoEdit
  BY <1>1, <1>3, <1>4, TypeParts DEF TaskTypes, Steps, Numbers
<1>6. /\ Below(task'.job.inputs, N + 1) /\ task'.table < N + 1
      /\ task'.job.output < N + 1 /\ task.job.output # N /\ task.job.output \in Nat
  <2>1. /\ task.job.inputs \subseteq Nat /\ task.job.output \in Nat
        /\ \A i \in task.job.inputs : i < N
        /\ task.job.output < N
    BY <1>0, <1>2, TypeParts DEF TaskTypes, ProcessNumbers, Below, Numbers
  <2> QED
    BY <1>3, <1>5, <2>1 DEF Below, Numbers
<1>7. /\ TypeOK' /\ ManifestNumbers' /\ ProcessNumbers' /\ LogNumbers' /\ Phases'
      /\ Asked' /\ Underway' /\ SyncedStay' /\ Restartable' /\ Durable'
  BY <1>1, <1>2, <1>3, <1>5, <1>6, TableStarted DEF TaskTypes
<1>8. /\ DOMAIN tables' = DOMAIN tables \cup {N} /\ tables'[N] = imm
      /\ \A i \in DOMAIN tables \ {N} : tables'[i] = tables[i]
      /\ \A S \in SUBSET Files(version) : Contents(S)' = Contents(S)
  BY <1>0, <1>1, <1>2, <1>3, NewTableKeeps
<1>9. TaskShape'
  <2>1. Merging' => /\ task.job.output # 0 /\ task.job.inputs # {}
                    /\ task.job.inputs \subseteq Files(version)'
                    /\ task.job.output \in DOMAIN tables' \cap pending'
                    /\ task.job.output \notin task.job.inputs
                    /\ Contents(task.job.inputs)' = tables'[task.job.output]
    <3> SUFFICES ASSUME Merging
                 PROVE  /\ task.job.output # 0 /\ task.job.inputs # {}
                        /\ task.job.inputs \subseteq Files(version)'
                        /\ task.job.output \in DOMAIN tables' \cap pending'
                        /\ task.job.output \notin task.job.inputs
                        /\ Contents(task.job.inputs)' = tables'[task.job.output]
      BY <1>5 DEF Merging
    <3>1. PICK S : S = task.job.inputs
      OBVIOUS
    <3>2. /\ task.job.output # 0 /\ S # {} /\ S \subseteq Files(version)
          /\ task.job.output \in DOMAIN tables \cap pending
          /\ task.job.output \notin S
          /\ Contents(S) = tables[task.job.output]
      BY <3>1 DEF TaskShape
    <3>3. Contents(S)' = tables'[task.job.output]
      BY <1>6, <1>8, <3>2
    <3>4. Files(version)' = Files(version) /\ task'.job.inputs = S
      BY <1>1, <1>5, <3>1 DEF Files
    <3> QED
      BY <1>1, <1>6, <1>8, <3>1, <3>2, <3>3, <3>4
  <2>2. ~Merging' => task'.job = NoJob
    BY DEF Merging
  <2> QED
    BY <1>1, <1>3, <1>5, <1>6, <1>8, <2>1, <2>2 DEF TaskShape, Numbers
<1>10. EditShape'
  BY <1>5 DEF EditShape, Busy
<1>11. Unnamed'
  <2>1. Descriptions' = Descriptions /\ Files(version)' = Files(version) /\ held' = held
    BY <1>1 DEF Descriptions, Files
  <2>2. Merging' => task.job.output \notin Files(version)
    BY <1>5 DEF Unnamed, Merging
  <2> QED
    BY <1>3, <1>5, <2>1, <2>2 DEF Unnamed
<1>12. Faithful'
  BY <1>1, <1>4, <1>5 DEF Faithful, Opened
<1> QED
  BY <1>7, <1>9, <1>10, <1>11, <1>12

(* A merge's output has what its inputs have, and stays until it is        *)
(* installed.                                                              *)
LEMMA BeginMergeInv ==
  ASSUME IInv, BeginMerge
  PROVE  IInv'
<1> USE DEF IInv
<1>0. PICK N, F : N = nextFile /\ F = Files(version)
  OBVIOUS
<1>1. /\ task = Idle /\ NeedsCompaction(version)
      /\ NewTable(Contents(F)) /\ nextFile' = N + 1 /\ pending' = pending \cup {N}
      /\ task' = [task EXCEPT !.step = "merging", !.job = [inputs |-> F, output |-> N]]
      /\ UNCHANGED <<logs, manifest, phase, version, logNumber, logFile, todo, mem,
                     imm, queueVars, bgError, scheduled, held, asked, forced,
                     countVars>>
  BY <1>0 DEF BeginMerge, NewTable, Called
<1>2. F # {}
  <2>1. version.young # {}
    BY <1>1, TriggersAssumption, FS_EmptySet DEF NeedsCompaction
  <2> QED
    BY <1>0, <2>1 DEF Files
<1>3. phase = "open" /\ todo = {}
  BY DEF BeginMerge, Called, Phases, Opened, Recovering
<1>4. /\ F \subseteq Numbers /\ N \in Numbers /\ N \notin F
      /\ F \subseteq DOMAIN tables /\ Below(F, N)
      /\ Contents(F) \subseteq Writes /\ Contents(F) \subseteq asked
  <2>1. F \subseteq Numbers /\ F \subseteq DOMAIN tables /\ Below(F, N)
    BY <1>0, <1>3, TypeParts DEF ProcessTypes, Versions, Files, ProcessNumbers
  <2> QED
    BY <1>0, <1>3, <2>1, NumberIsNew, TypeParts DEF TableTypes, Asked, Contents
<1>5. task' = [step |-> "merging", job |-> [inputs |-> F, output |-> N], table |-> 0,
               edit |-> NoEdit]
  BY <1>1 DEF Idle
<1>6. NoEdit \in Edits
  BY DEF NoEdit, Edits, NoFiles, Versions
<1>7. TaskTypes'
  BY <1>4, <1>5, <1>6 DEF TaskTypes, Steps, Numbers
<1>8. Below(task'.job.inputs, N + 1) /\ task'.table < N + 1 /\ task'.job.output < N + 1
  BY <1>4, <1>5 DEF Below, Numbers
<1>9. /\ TypeOK' /\ ManifestNumbers' /\ ProcessNumbers' /\ LogNumbers' /\ Phases'
      /\ Asked' /\ Underway' /\ SyncedStay' /\ Restartable' /\ Durable'
  BY <1>1, <1>3, <1>4, <1>7, <1>8, TableStarted
<1>10. /\ DOMAIN tables' = DOMAIN tables \cup {N} /\ tables'[N] = Contents(F)
       /\ Contents(F)' = Contents(F)
  BY <1>0, <1>1, <1>3, <1>4, NewTableKeeps
<1>11. Files(version)' = F /\ Descriptions' = Descriptions
  BY <1>0, <1>1 DEF Files, Descriptions
<1>12. TaskShape'
  <2>1. N # 0
    BY <1>4 DEF Numbers
  <2>2. Merging'
    BY <1>2, <1>5 DEF Merging, NoJob
  <2>3. Contents(task.job.inputs)' = tables'[task'.job.output]
    BY <1>5, <1>10
  <2> QED
    <3>1. task'.step = "merging" /\ task'.table = 0 /\ task'.edit = NoEdit
          /\ task'.job.inputs = F /\ task'.job.output = N
      BY <1>5
    <3>2. N \in DOMAIN tables' \cap pending'
      BY <1>1, <1>10
    <3> QED
      BY <1>2, <1>4, <1>11, <2>1, <2>2, <2>3, <3>1, <3>2 DEF TaskShape, Busy
<1>13. EditShape' /\ Unnamed'
  BY <1>4, <1>5, <1>11 DEF EditShape, Busy, Unnamed
<1>14. Faithful'
  BY <1>1, <1>5 DEF Faithful, Opened, Idle
<1> QED
  BY <1>9, <1>12, <1>13, <1>14

(* Table and edit are ready: only the task and the pending outputs change. *)
LEMMA EditMade ==
  ASSUME IInv, phase = "open", task' # Idle, TaskTypes', TaskShape', EditShape', Unnamed',
         task'.step = "logging", task.step \notin {"written", "synced"},
         task'.job = task.job, task'.table < nextFile,
         pending' \subseteq pending,
         UNCHANGED <<diskVars, phase, fileVars, todo, mem, imm, queueVars, bgError,
                     scheduled, held, asked, forced, countVars>>
  PROVE  IInv'
<1> USE DEF IInv, diskVars, fileVars, queueVars, countVars
<1>1. todo = {}
  BY DEF Phases, Recovering
<1>2. TypeOK'
  <2>1. ProcessTypes'
    BY TypeParts DEF ProcessTypes
  <2> QED
    BY <2>1, TypeParts, TypePartsNext, TypesKept
<1>3. ManifestNumbers' /\ LogNumbers'
  BY ManifestNumbersKept, LogNumbersKept
<1>4. ProcessNumbers'
  <2>1. Newest' = Newest /\ Files(version)' = Files(version)
    BY DEF Newest, Files
  <2> QED
    BY <2>1 DEF ProcessNumbers, Below
<1>5. Phases'
  BY <1>1, StaysOpen
<1>6. Faithful'
  BY DEF Faithful, Opened
<1>7. Asked' /\ Underway' /\ SyncedStay' /\ Restartable' /\ Durable'
  BY AskedKept, UnderwayKept, SyncedStayKept, RestartableKept, DurableKept
<1> QED
  BY <1>2, <1>3, <1>4, <1>5, <1>6, <1>7

(* The log in use is below the next number, and so is the oldest needed.   *)
LEMMA LogsBelow ==
  ASSUME IInv, phase = "open"
  PROVE  /\ logFile < nextFile /\ logNumber < nextFile /\ logNumber <= logFile
         /\ logFile \in Nat /\ logNumber \in Nat /\ nextFile \in Nat
         /\ Newest.next <= nextFile
<1>1. /\ logFile \in DOMAIN logs /\ logNumber <= logFile /\ todo = {}
      /\ logFile \in Nat /\ logNumber \in Nat /\ nextFile \in Nat
  BY TypeParts DEF IInv, LogNumbers, Opened, Phases, Recovering, ProcessTypes
<1>2. logFile < nextFile /\ Newest.next <= nextFile
  BY <1>1 DEF IInv, ProcessNumbers, Below
<1> QED
  BY <1>1, <1>2

(* The edit of a flush names the log in use: all of imm is in the table. *)
LEMMA FinishFlushInv ==
  ASSUME IInv, FinishFlush
  PROVE  IInv'
<1> DEFINE t == task.table
           e == [add |-> [NoFiles EXCEPT !.young = {t}], drop |-> {}, log |-> logFile,
                 next |-> nextFile]
<1> USE DEF IInv
<1>1. /\ task.step = "building" /\ pending' = pending \ {t}
      /\ task' = [task EXCEPT !.step = "logging", !.edit = e]
      /\ UNCHANGED <<diskVars, phase, fileVars, todo, mem, imm, queueVars, bgError,
                     scheduled, held, asked, forced, countVars>>
  BY DEF FinishFlush
<1>2. phase = "open"
  BY <1>1, OnlyOpen DEF Idle
<1>3. /\ t # 0 /\ t # task.job.output /\ t \in DOMAIN tables /\ t \in Numbers
      /\ tables[t] = imm /\ imm # {}
  BY <1>1, TypeParts DEF TaskShape, TableTypes
<1>4. e \in Edits
  BY <1>2, <1>3, LogsBelow DEF Edits, Versions, NoFiles
<1> HIDE DEF e
<1>5. /\ TaskTypes' /\ task'.step = "logging" /\ task'.edit = e /\ task'.table = t
      /\ task'.job = task.job
  BY <1>1, <1>4, TypeParts DEF TaskTypes, Steps
<1>6. UNCHANGED <<Newest, Descriptions, Files(version), Merging>>
  BY <1>1, <1>5 DEF diskVars, fileVars, Newest, Descriptions, Files, Merging
<1>7. TaskShape'
  <2>1. Merging => Contents(task.job.inputs)' = Contents(task.job.inputs)
    BY <1>1, <1>5 DEF diskVars, Contents
  <2> QED
    BY <1>1, <1>3, <1>5, <1>6, <2>1 DEF TaskShape, diskVars
<1>8. t < nextFile
  BY <1>2 DEF ProcessNumbers
<1>9. EditShape'
  <2>1. e.add = [NoFiles EXCEPT !.young = {t}] /\ e.drop = {} /\ e.log = logFile
        /\ e.next = nextFile
    BY DEF e
  <2>2. Flushing'
    BY <1>3, <1>5 DEF Flushing, Busy
  <2> QED
    BY <1>1, <1>2, <1>5, <1>6, <1>8, <2>1, <2>2, LogsBelow DEF EditShape, fileVars
<1>10. Unnamed'
  BY <1>5, <1>6 DEF Unnamed
<1>11. task' # Idle
  BY <1>5 DEF Idle
<1> QED
  BY <1>1, <1>2, <1>5, <1>7, <1>8, <1>9, <1>10, <1>11, EditMade

(* The edit of a merge names the log that was named before. *)
LEMMA FinishMergeInv ==
  ASSUME IInv, FinishMerge
  PROVE  IInv'
<1> DEFINE t == task.job.output
           e == [add |-> [NoFiles EXCEPT !.old = {t}], drop |-> task.job.inputs,
                 log |-> logNumber, next |-> nextFile]
<1> USE DEF IInv
<1>1. /\ task.step = "merging" /\ pending' = pending
      /\ task' = [task EXCEPT !.step = "logging", !.table = t, !.edit = e]
      /\ UNCHANGED <<diskVars, phase, fileVars, todo, mem, imm, queueVars, bgError,
                     scheduled, held, asked, forced, countVars>>
  BY DEF FinishMerge
<1>2. phase = "open"
  BY <1>1, OnlyOpen DEF Idle
<1>3. /\ Merging /\ t # 0 /\ t \in DOMAIN tables /\ t \in Numbers
      /\ task.job.inputs \subseteq Numbers
  BY <1>1, TypeParts DEF TaskShape, TableTypes, TaskTypes
<1>4. e \in Edits
  BY <1>2, <1>3, LogsBelow DEF Edits, Versions, NoFiles
<1> HIDE DEF e
<1>5. /\ TaskTypes' /\ task'.step = "logging" /\ task'.edit = e /\ task'.table = t
      /\ task'.job = task.job
  BY <1>1, <1>3, <1>4, TypeParts DEF TaskTypes, Steps, Numbers
<1>6. UNCHANGED <<Newest, Descriptions, Files(version), Merging>>
  BY <1>1, <1>5 DEF diskVars, fileVars, Newest, Descriptions, Files, Merging
<1>7. TaskShape'
  <2>1. Merging => Contents(task.job.inputs)' = Contents(task.job.inputs)
    BY <1>1, <1>5 DEF diskVars, Contents
  <2> QED
    BY <1>1, <1>3, <1>5, <1>6, <2>1 DEF TaskShape, diskVars
<1>8. t < nextFile
  BY <1>2 DEF ProcessNumbers
<1>9. EditShape'
  <2>1. e.add = [NoFiles EXCEPT !.old = {t}] /\ e.drop = task.job.inputs
        /\ e.log = logNumber /\ e.next = nextFile
    BY DEF e
  <2>2. ~Flushing'
    BY <1>5 DEF Flushing
  <2> QED
    BY <1>1, <1>2, <1>3, <1>5, <1>6, <1>8, <2>1, <2>2, LogsBelow DEF EditShape, fileVars
<1>10. Unnamed'
  BY <1>5, <1>6 DEF Unnamed
<1>11. task' # Idle
  BY <1>5 DEF Idle
<1> QED
  BY <1>1, <1>2, <1>5, <1>7, <1>8, <1>9, <1>10, <1>11, EditMade

(* The new entry is durable before it is synced: the old one is still      *)
(* there.                                                                  *)
LEMMA WriteManifestInv ==
  ASSUME IInv, WriteManifest
  PROVE  IInv'
<1> USE DEF IInv, diskVars, fileVars, queueVars, countVars
<1>0. PICK d : d = Descriptor(Apply(Newest.files, task.edit), task.edit.log, task.edit.next)
  OBVIOUS
<1>1. /\ task.step = "logging" /\ task' = [task EXCEPT !.step = "written"]
      /\ manifest' = Append(manifest, d)
      /\ UNCHANGED <<logs, tables, phase, fileVars, todo, mem, imm, queueVars,
                     pending, bgError, scheduled, held, asked, forced, countVars>>
  BY <1>0 DEF WriteManifest, Newest
<1>2. phase = "open" /\ todo = {} /\ Busy
  BY <1>1, OnlyOpen DEF Idle, Busy
<1>3. d.files = Apply(Newest.files, task.edit) /\ d.log = task.edit.log
      /\ d.next = task.edit.next
  BY <1>0 DEF Descriptor
<1>4. Newest \in Descriptions /\ Newest \in Descriptors
  BY NewestIsThere
<1>5. /\ task.table \in Files(d.files)
      /\ Files(d.files) \subseteq Files(Newest.files) \cup {task.table}
      /\ Contents(Files(Newest.files)) \subseteq Contents(Files(d.files))
      /\ task.table \in DOMAIN tables /\ task.table \in Numbers
      /\ tables[task.table] = IF Flushing THEN imm ELSE Contents(task.job.inputs)
      /\ d.files \in Versions
  BY <1>2, <1>3, <1>4, EditApplied DEF Descriptors
<1>6. /\ task.edit.next <= nextFile /\ task.table < task.edit.next
      /\ task.edit.log < task.edit.next
      /\ logNumber <= task.edit.log /\ task.edit.log <= logFile
      /\ Newest.next <= task.edit.next
      /\ Flushing => task.edit.log = logFile
      /\ ~Flushing => task.edit.log = logNumber
  BY <1>1, <1>2 DEF EditShape
<1>7. task.edit.next \in Nat /\ task.edit.log \in Nat /\ Newest.next \in Nat \ {0}
  BY <1>4, TypeParts DEF TaskTypes, Edits, Descriptors, Numbers
<1>8. d \in Descriptors
  <2>1. task.edit.next \in Numbers
    BY <1>6, <1>7 DEF Numbers
  <2> QED
    BY <1>0, <1>3, <1>5, <1>7, <2>1 DEF Descriptors, Descriptor
<1>9. /\ Descriptions' = Descriptions \cup {d} /\ Newest' = d
      /\ Len(manifest') = Len(manifest) + 1
  BY <1>1, <1>8, OneMore
<1>10. TaskTypes' /\ task'.step = "written" /\ task'.edit = task.edit
       /\ task'.table = task.table /\ task'.job = task.job
  BY <1>1, TypeParts DEF TaskTypes, Steps
<1>11. TypeOK'
  <2>1. ManifestTypes'
    BY <1>1, <1>8, TypeParts, AppendProperties DEF ManifestTypes
  <2>2. ProcessTypes'
    BY <1>1, TypeParts DEF ProcessTypes
  <2> QED
    BY <1>1, <1>10, <2>1, <2>2, TypeParts, TypePartsNext, TypesKept
<1>12. ManifestNumbers'
  <2>1. \A m \in Descriptions :
           /\ Below(Files(m.files), m.next) /\ m.log < m.next
           /\ m.next <= d.next /\ Files(m.files) \subseteq DOMAIN tables
    <3>1. \A m \in Descriptions : m.next \in Nat
      BY NewestIsThere DEF Descriptors, Numbers
    <3> QED
      BY <1>3, <1>6, <1>7, <3>1 DEF ManifestNumbers
  <2>2. /\ Below(Files(d.files), d.next) /\ d.log < d.next /\ d.next <= d.next
        /\ Files(d.files) \subseteq DOMAIN tables
    <3>1. \A i \in Files(Newest.files) : i < Newest.next /\ i \in Nat /\ i \in DOMAIN tables
      BY <1>4 DEF ManifestNumbers, Below, Descriptors, Versions, Files, Numbers
    <3>2. \A i \in Files(Newest.files) : i < d.next
      BY <1>3, <1>6, <1>7, <3>1
    <3> QED
      BY <1>3, <1>5, <1>6, <1>7, <3>1, <3>2 DEF Below
  <2> QED
    BY <1>1, <1>9, <2>1, <2>2 DEF ManifestNumbers
<1>13. ProcessNumbers'
  <2>1. Files(version)' = Files(version)
    BY <1>1 DEF Files
  <2> QED
    BY <1>1, <1>3, <1>6, <1>9, <1>10, <2>1 DEF ProcessNumbers, Below
<1>14. LogNumbers'
  BY <1>1, <1>2, <1>3, <1>6, <1>9 DEF LogNumbers, Opened, Recovering
<1>15. Phases'
  BY <1>1, <1>2, StaysOpen
<1>16. (Merging <=> Merging') /\ (Busy /\ Busy') /\ (Flushing <=> Flushing')
  BY <1>2, <1>10 DEF Merging, Busy, Flushing
<1>17. \A S : Contents(S)' = Contents(S)
  BY <1>1, SameContents
<1>18. TaskShape'
  <2>1. Files(version)' = Files(version) /\ Contents(task.job.inputs)' = Contents(task.job.inputs)
    BY <1>1, <1>10, <1>17 DEF Files
  <2> QED
    BY <1>1, <1>10, <1>16, <2>1 DEF TaskShape
<1>19. EditShape'
  BY <1>1, <1>3, <1>5, <1>9, <1>10, <1>16 DEF EditShape
<1>20. Unnamed'
  BY <1>1, <1>10, <1>16 DEF Unnamed, Files
<1>21. Faithful'
  <2> SUFFICES ASSUME ~bgError PROVE Faithful'
    BY <1>1 DEF Faithful
  <2>1. Len(manifest) = 1 /\ manifest[1].files = version
    BY <1>1, <1>2 DEF Faithful, Opened
  <2>2. Newest = manifest[1] /\ manifest'[1] = manifest[1] /\ manifest'[2] = d
    <3>1. Newest = manifest[1]
      BY <2>1 DEF Newest, Last
    <3>2. manifest \in Seq(Descriptors)
      BY TypeParts DEF ManifestTypes
    <3>3. Append(manifest, d)[1] = manifest[1] /\ Append(manifest, d)[2] = d
      BY <1>8, <2>1, <3>2, SecondOfTwo
    <3> QED
      BY <1>1, <3>1, <3>3
  <2> QED
    BY <1>1, <1>3, <1>9, <1>10, <2>1, <2>2 DEF Faithful
<1>22. Asked' /\ Underway'
  BY <1>1, AskedKept, UnderwayKept
<1>23. SyncedOf(logFile)' = SyncedOf(logFile) /\ AllOf(logFile)' = AllOf(logFile)
  BY <1>1, SameLogs
<1>24. SyncedStay'
  <2>1. forced \subseteq Contents(Files(d.files)) \cup imm \cup (mem \cap SyncedOf(logFile))
    BY <1>2, <1>4, <1>5 DEF SyncedStay, Opened
  <2> QED
    BY <1>1, <1>2, <1>9, <1>17, <1>23, <2>1 DEF SyncedStay, Opened
<1>25. ~Flushing => /\ AllLogs(Newest.log) \subseteq AllLogs(d.log)
                    /\ SyncedLogs(Newest.log) \subseteq SyncedLogs(d.log)
  <2> SUFFICES ASSUME ~Flushing
               PROVE  /\ AllLogs(Newest.log) \subseteq AllLogs(d.log)
                      /\ SyncedLogs(Newest.log) \subseteq SyncedLogs(d.log)
    OBVIOUS
  <2>1. d.log <= Newest.log /\ d.log \in Nat /\ Newest.log \in Nat
    BY <1>2, <1>3, <1>4, <1>6, <1>7 DEF LogNumbers, Opened, Descriptors
  <2>2. DOMAIN logs \subseteq Nat
    BY TypeParts DEF LogTypes, Numbers
  <2>3. {l \in DOMAIN logs : l >= Newest.log} \subseteq {l \in DOMAIN logs : l >= d.log}
    BY <2>1, <2>2
  <2> QED
    BY <2>3 DEF AllLogs, SyncedLogs
<1>26. Durable'
  <2>1. forced \subseteq Contents(Files(d.files)) \cup SyncedLogs(d.log)
    <3>1. CASE Flushing
      <4>1. imm \subseteq Contents(Files(d.files))
        BY <1>5, <3>1 DEF Contents
      <4>2. SyncedOf(logFile) \subseteq SyncedLogs(d.log)
        BY <1>2, <1>3, <1>6, <1>7, <3>1 DEF SyncedLogs, LogNumbers, Opened
      <4> QED
        BY <1>2, <1>4, <1>5, <4>1, <4>2 DEF SyncedStay, Opened
    <3>2. CASE ~Flushing
      BY <1>4, <1>5, <1>25, <3>2, DurableMeans
    <3> QED
      BY <3>1, <3>2
  <2>2. Files(d.files) \subseteq DOMAIN tables
    BY <1>4, <1>5 DEF ManifestNumbers
  <2> QED
    BY <1>1, <1>9, <1>17, <2>1, <2>2, DurableMeans, DurableMeansNext, SameLogs
<1>27. Restartable'
  <2>1. Replayed(Newest, Whole)' = Contents(Files(d.files)) \cup AllLogs(d.log)
    <3>1. Replayed(Newest, Whole)' = Replayed(d, Whole)'
      BY <1>9
    <3> QED
      BY <1>1, <1>17, <3>1, ReplayedNext, SameLogs
  <2>2. imm \subseteq Contents(Files(d.files)) \cup AllLogs(d.log)
    <3>1. CASE Flushing
      BY <1>5, <3>1 DEF Contents
    <3>2. CASE ~Flushing
      BY <1>2, <1>5, <1>25, <3>2, ReplayedLogs DEF Restartable, Opened
    <3> QED
      BY <3>1, <3>2
  <2>3. Contents(Files(version))' = Contents(Files(version))
    BY <1>1, <1>17 DEF Files
  <2>4. Contents(Files(Newest.files))' = Contents(Files(d.files))
    BY <1>9, <1>17
  <2> QED
    BY <1>1, <1>2, <1>5, <1>23, <2>1, <2>2, <2>3, <2>4
    DEF Restartable, Opened, Recovering
<1> QED
  BY <1>11, <1>12, <1>13, <1>14, <1>15, <1>18, <1>19, <1>20, <1>21, <1>22, <1>24,
     <1>26, <1>27

(* The new entry alone is durable, too. *)
LEMMA SyncManifestInv ==
  ASSUME IInv, SyncManifest
  PROVE  IInv'
<1> USE DEF IInv, diskVars, fileVars, queueVars, countVars
<1>0. PICK d : d = Newest
  OBVIOUS
<1>1. /\ task.step = "written" /\ task' = [task EXCEPT !.step = "synced"]
      /\ manifest' = <<d>>
      /\ UNCHANGED <<logs, tables, phase, fileVars, todo, mem, imm, queueVars,
                     pending, bgError, scheduled, held, asked, forced, countVars>>
  BY <1>0 DEF SyncManifest, Newest
<1>2. phase = "open" /\ todo = {} /\ Busy
  BY <1>1, OnlyOpen DEF Idle, Busy
<1>3. d \in Descriptions /\ d \in Descriptors
  BY <1>0, NewestIsThere
<1>4. Descriptions' = {d} /\ Newest' = d /\ Len(manifest') = 1
  BY <1>1, Alone
<1>5. TaskTypes' /\ task'.step = "synced" /\ task'.edit = task.edit
      /\ task'.table = task.table /\ task'.job = task.job
  BY <1>1, TypeParts DEF TaskTypes, Steps
<1>6. TypeOK'
  <2>1. ManifestTypes'
    BY <1>1, <1>3 DEF ManifestTypes
  <2>2. ProcessTypes'
    BY <1>1, TypeParts DEF ProcessTypes
  <2> QED
    BY <1>1, <1>5, <2>1, <2>2, TypeParts, TypePartsNext, TypesKept
<1>7. ManifestNumbers'
  BY <1>0, <1>1, <1>3, <1>4 DEF ManifestNumbers
<1>8. Newest' = Newest /\ Files(version)' = Files(version)
  BY <1>0, <1>1, <1>4 DEF Files
<1>9. ProcessNumbers' /\ LogNumbers'
  BY <1>1, <1>3, <1>4, <1>5, <1>8 DEF ProcessNumbers, LogNumbers, Below, Opened, Recovering
<1>10. Phases'
  BY <1>1, <1>2, StaysOpen
<1>11. (Merging <=> Merging') /\ (Busy /\ Busy') /\ (Flushing <=> Flushing')
  BY <1>2, <1>5 DEF Merging, Busy, Flushing
<1>12. \A S : Contents(S)' = Contents(S)
  BY <1>1, SameContents
<1>13. TaskShape'
  <2>1. Contents(task.job.inputs)' = Contents(task.job.inputs)
    BY <1>5, <1>12
  <2> QED
    BY <1>1, <1>5, <1>8, <1>11, <2>1 DEF TaskShape
<1>14. EditShape'
  BY <1>1, <1>4, <1>5, <1>8, <1>11 DEF EditShape
<1>15. Unnamed'
  BY <1>1, <1>5, <1>8, <1>11 DEF Unnamed
<1>16. Faithful'
  <2> SUFFICES ASSUME ~bgError PROVE Faithful'
    BY <1>1 DEF Faithful
  <2>1. Len(manifest) = 2 /\ manifest[2].files = Apply(version, task.edit)
    BY <1>1, <1>2 DEF Faithful, Opened
  <2>2. d = manifest[2] /\ manifest'[1] = d
    BY <1>0, <1>1, <2>1 DEF Newest, Last
  <2> QED
    BY <1>1, <1>4, <1>5, <2>1, <2>2 DEF Faithful, Apply
<1>17. Asked' /\ Underway'
  BY <1>1, AskedKept, UnderwayKept
<1>18. SyncedOf(logFile)' = SyncedOf(logFile) /\ AllOf(logFile)' = AllOf(logFile)
  BY <1>1, SameLogs
<1>19. SyncedStay'
  BY <1>1, <1>2, <1>3, <1>4, <1>12, <1>18 DEF SyncedStay, Opened
<1>20. Durable'
  BY <1>1, <1>3, <1>4, <1>12, DurableMeans, DurableMeansNext, SameLogs
<1>21. Restartable'
  <2>1. Replayed(Newest, Whole)' = Replayed(Newest, Whole)
    BY <1>1, <1>8, <1>12, ReplayedLogs, ReplayedNext, SameLogs
  <2>2. Contents(Files(version))' = Contents(Files(version))
        /\ Contents(Files(Newest.files))' = Contents(Files(Newest.files))
    BY <1>8, <1>12
  <2> QED
    BY <1>1, <1>2, <1>18, <2>1, <2>2 DEF Restartable, Opened, Recovering
<1> QED
  BY <1>6, <1>7, <1>9, <1>10, <1>13, <1>14, <1>15, <1>16, <1>17, <1>19, <1>20, <1>21

(* Where the thread stands when a table is done with: nowhere, or in the   *)
(* merge that a flush has interrupted.                                     *)
Resumed ==
  Merging /\ task.table # task.job.output
    /\ task' = [step |-> "merging", job |-> task.job, table |-> 0, edit |-> NoEdit]

(* After a table the thread is idle or back in its merge. *)
LEMMA Returned ==
  ASSUME IInv, NEW e \in BOOLEAN, Return(e)
  PROVE  /\ task' = Idle \/ Resumed
         /\ scheduled' \in BOOLEAN /\ waiting' \in BOOLEAN
<1>1. scheduled \in BOOLEAN /\ waiting \in BOOLEAN
  BY TypeParts DEF IInv, FlagTypes
<1>2. CASE Merging /\ task.table # task.job.output
  <2>1. /\ task' = [task EXCEPT !.step = "merging", !.table = 0, !.edit = NoEdit]
        /\ waiting' = FALSE /\ UNCHANGED scheduled
    BY <1>2 DEF Return
  <2>2. task \in [step : Steps, table : Nat, edit : Edits,
                  job : [inputs : SUBSET Numbers, output : Nat]]
    BY TypeParts DEF IInv, TaskTypes
  <2>3. task' = [step |-> "merging", job |-> task.job, table |-> 0, edit |-> NoEdit]
    BY <2>1, <2>2
  <2> QED
    BY <1>1, <1>2, <2>1, <2>3 DEF Resumed
<1>3. CASE ~(Merging /\ task.table # task.job.output)
  BY <1>1, <1>3 DEF Return, EndCall
<1> QED
  BY <1>2, <1>3

(* The interrupted merge is as it was. *)
LEMMA BackToWork ==
  ASSUME IInv, task' = Idle \/ Resumed,
         Resumed => /\ task.job.inputs \subseteq Files(version')
                    /\ task.job.output \in DOMAIN tables' \cap pending'
                    /\ tables'[task.job.output] = tables[task.job.output]
                    /\ \A i \in task.job.inputs : tables'[i] = tables[i]
                    /\ task.job.output \notin Files(version')
  PROVE  /\ TaskTypes' /\ TaskShape' /\ EditShape' /\ Unnamed'
         /\ task'.step \in {"idle", "merging"} /\ task'.table = 0
         /\ task'.job \in {task.job, NoJob}
<1> USE DEF IInv
<1>1. NoEdit \in Edits /\ NoJob \in [inputs : SUBSET Numbers, output : Nat]
  BY DEF NoEdit, Edits, NoFiles, Versions, NoJob
<1>2. CASE task' = Idle
  <2>1. TaskTypes'
    BY <1>1, <1>2 DEF TaskTypes, Idle, Steps
  <2>2. TaskShape' /\ EditShape' /\ Unnamed'
    BY <1>2 DEF TaskShape, EditShape, Unnamed, Idle, Busy, Merging, NoJob
  <2> QED
    BY <1>2, <2>1, <2>2 DEF Idle
<1>3. CASE Resumed
  <2>0. PICK S : S = task.job.inputs
    OBVIOUS
  <2>1. /\ task' = [step |-> "merging", job |-> task.job, table |-> 0, edit |-> NoEdit]
        /\ Merging /\ task.table # task.job.output
    BY <1>3 DEF Resumed
  <2>2. /\ task'.step = "merging" /\ task'.job = task.job /\ task'.table = 0
        /\ task'.edit = NoEdit
    BY <2>1
  <2>3. TaskTypes'
    BY <1>1, <2>1, TypeParts DEF TaskTypes, Steps
  <2>4. /\ task.job.output # 0 /\ S # {} /\ task.job.output \notin S
        /\ Contents(S) = tables[task.job.output]
    BY <2>0, <2>1 DEF TaskShape
  <2>5. Contents(S)' = tables'[task.job.output]
    BY <1>3, <2>0, <2>4, SameContents
  <2>6. Contents(task.job.inputs)' = Contents(S)' /\ Files(version)' = Files(version')
    BY <2>0, <2>2
  <2>7. TaskShape'
    BY <1>3, <2>0, <2>1, <2>2, <2>4, <2>5, <2>6 DEF TaskShape, Merging, Busy
  <2>8. EditShape' /\ Unnamed'
    BY <1>3, <2>2 DEF EditShape, Busy, Unnamed
  <2> QED
    BY <2>2, <2>3, <2>7, <2>8
<1> QED
  BY <1>2, <1>3

(* A failed call: the error is kept, and nothing that is named goes. *)
LEMMA CallFailed ==
  ASSUME IInv, phase = "open", bgError' = TRUE, faults' \in Nat,
         scheduled' \in BOOLEAN, waiting' \in BOOLEAN,
         TaskTypes', TaskShape', EditShape', Unnamed',
         task'.table = 0, task'.job \in {task.job, NoJob},
         pending' \subseteq pending,
         DOMAIN tables' \subseteq DOMAIN tables,
         \A i \in DOMAIN tables' : tables'[i] = tables[i],
         \A m \in Descriptions : Files(m.files) \subseteq DOMAIN tables',
         Files(version) \cup held \subseteq DOMAIN tables',
         UNCHANGED <<logs, manifest, phase, fileVars, todo, mem, imm, writers, batch,
                     synced, held, asked, forced, outages, crashes>>
  PROVE  IInv'
<1> USE DEF IInv, fileVars
<1>1. todo = {}
  BY DEF Phases, Recovering
<1>2. UNCHANGED <<Newest, Descriptions, Files(version)>> /\ Newest \in Descriptions
  BY NewestIsThere DEF Newest, Descriptions, Files
<1>3. TypeOK'
  <2>1. TableTypes' /\ FlagTypes' /\ HistoryTypes'
    BY TypeParts DEF TableTypes, FlagTypes, HistoryTypes
  <2>2. ProcessTypes'
    BY TypeParts DEF ProcessTypes
  <2> QED
    BY <2>1, <2>2, TypeParts, TypePartsNext, TypesKept
<1>4. ManifestNumbers'
  BY <1>2 DEF ManifestNumbers
<1>5. ProcessNumbers'
  <2>1. nextFile > 0 /\ NoJob.inputs = {} /\ NoJob.output = 0
    BY NumberIsNew DEF Numbers, NoJob
  <2>2. /\ Below(task.job.inputs, nextFile) /\ task.job.output < nextFile
        /\ Below(pending', nextFile)
    BY DEF ProcessNumbers, Below
  <2>3. Below(task'.job.inputs, nextFile) /\ task'.job.output < nextFile
    BY <2>1, <2>2 DEF Below
  <2> QED
    BY <1>2, <2>1, <2>2, <2>3 DEF ProcessNumbers
<1>6. LogNumbers'
  BY LogNumbersKept
<1>7. Phases'
  BY <1>1, StaysOpen
<1>8. Faithful'
  BY DEF Faithful
<1>9. Asked'
  BY SameLogs DEF Asked
<1>10. Underway'
  BY UnderwayKept
<1>11. /\ \A m \in Descriptions : Contents(Files(m.files))' = Contents(Files(m.files))
       /\ Contents(Files(version))' = Contents(Files(version))
  <2>1. ASSUME NEW S, S \subseteq DOMAIN tables' PROVE Contents(S)' = Contents(S)
    BY <2>1, SameContents
  <2> QED
    BY <1>2, <2>1
<1>12. SyncedOf(logFile)' = SyncedOf(logFile) /\ AllOf(logFile)' = AllOf(logFile)
  BY SameLogs
<1>13. SyncedStay'
  BY <1>2, <1>11, <1>12 DEF SyncedStay, Opened
<1>14. Durable'
  BY <1>2, <1>11, DurableMeans, DurableMeansNext, SameLogs
<1>15. Restartable'
  <2>1. Replayed(Newest, Whole)' = Replayed(Newest, Whole)
    BY <1>2, <1>11, ReplayedLogs, ReplayedNext, SameLogs
  <2> QED
    BY <1>2, <1>11, <1>12, <2>1 DEF Restartable, Opened, Recovering
<1> QED
  BY <1>3, <1>4, <1>5, <1>6, <1>7, <1>8, <1>9, <1>10, <1>13, <1>14, <1>15

(* A table that was not written is named nowhere. *)
LEMMA TableFailsInv ==
  ASSUME IInv, TableFails
  PROVE  IInv'
<1> DEFINE t == task.table
<1>1. /\ task.step \in {"building", "merging"} /\ faults' = faults + 1
      /\ bgError' = TRUE
      /\ UNCHANGED <<logs, manifest, phase, fileVars, todo, mem, imm, writers, batch,
                     synced, held, asked, forced, outages, crashes>>
  BY DEF TableFails
<1>2. phase = "open" /\ faults' \in Nat
  BY <1>1, OnlyOpen, TypeParts DEF IInv, Idle, HistoryTypes
<1>3. version' = version /\ Files(version') = Files(version)
  BY <1>1 DEF fileVars
<1>4. CASE task.step = "building"
  <2>1. /\ tables' = [n \in DOMAIN tables \ {t} |-> tables[n]]
        /\ pending' = pending \ {t} /\ Return(TRUE)
    BY <1>4 DEF TableFails
  <2>2. /\ task' = Idle \/ Resumed
        /\ scheduled' \in BOOLEAN /\ waiting' \in BOOLEAN
    BY <2>1, Returned
  <2>3. /\ DOMAIN tables' = DOMAIN tables \ {t}
        /\ \A i \in DOMAIN tables' : tables'[i] = tables[i]
    BY <2>1
  <2>4. /\ \A m \in Descriptions : t \notin Files(m.files) \cup Files(version) \cup held
        /\ t \notin task.job.inputs
    BY <1>4 DEF IInv, Unnamed, TaskShape
  <2>5. Newest \in Descriptions
    BY NewestIsThere DEF IInv
  <2>6. /\ \A m \in Descriptions : Files(m.files) \subseteq DOMAIN tables'
        /\ Files(version) \cup held \subseteq DOMAIN tables'
    BY <1>2, <2>3, <2>4, <2>5 DEF IInv, ManifestNumbers, ProcessNumbers
  <2>7. Resumed => /\ task.job.inputs \subseteq Files(version')
                   /\ task.job.output \in DOMAIN tables' \cap pending'
                   /\ tables'[task.job.output] = tables[task.job.output]
                   /\ \A i \in task.job.inputs : tables'[i] = tables[i]
                   /\ task.job.output \notin Files(version')
    BY <1>3, <2>1, <2>3, <2>4, <2>6 DEF IInv, Resumed, TaskShape, Unnamed
  <2>8. /\ TaskTypes' /\ TaskShape' /\ EditShape' /\ Unnamed'
        /\ task'.table = 0 /\ task'.job \in {task.job, NoJob}
    BY <2>2, <2>7, BackToWork
  <2> QED
    BY <1>1, <1>2, <2>1, <2>2, <2>3, <2>6, <2>8, CallFailed
<1>5. CASE task.step = "merging"
  <2>1. /\ tables' = tables /\ pending' = pending \ {task.job.output}
        /\ task' = Idle /\ EndCall(TRUE)
    BY <1>5 DEF TableFails
  <2>2. scheduled' \in BOOLEAN /\ waiting' \in BOOLEAN
    BY <2>1 DEF EndCall
  <2>3. /\ TaskTypes' /\ TaskShape' /\ EditShape' /\ Unnamed'
        /\ task'.table = 0 /\ task'.job \in {task.job, NoJob}
    <3>1. ~Resumed
      BY <2>1 DEF Resumed, Idle
    <3> QED
      BY <2>1, <3>1, BackToWork
  <2>4. /\ \A m \in Descriptions : Files(m.files) \subseteq DOMAIN tables
        /\ Files(version) \cup held \subseteq DOMAIN tables
    BY <1>2 DEF IInv, ManifestNumbers, ProcessNumbers
  <2> QED
    BY <1>1, <1>2, <2>1, <2>2, <2>3, <2>4, CallFailed
<1> QED
  BY <1>1, <1>4, <1>5

(* After a failed sync either entry may count, and nothing is deleted any  *)
(* more.                                                                   *)
LEMMA SyncManifestFailsInv ==
  ASSUME IInv, SyncManifestFails
  PROVE  IInv'
<1>1. /\ task.step = "written" /\ faults' = faults + 1 /\ bgError' = TRUE
      /\ pending' = pending \ {task.table} /\ Return(TRUE)
      /\ UNCHANGED <<diskVars, phase, fileVars, todo, mem, imm, writers, batch,
                     synced, held, asked, forced, outages, crashes>>
  BY DEF SyncManifestFails
<1>2. phase = "open" /\ faults' \in Nat
  BY <1>1, OnlyOpen, TypeParts DEF IInv, Idle, HistoryTypes
<1>3. /\ version' = version /\ Files(version') = Files(version) /\ tables' = tables
      /\ logs' = logs /\ manifest' = manifest
  BY <1>1 DEF fileVars, diskVars
<1>4. /\ task' = Idle \/ Resumed
      /\ scheduled' \in BOOLEAN /\ waiting' \in BOOLEAN
  BY <1>1, Returned
<1>5. Resumed => /\ task.job.inputs \subseteq Files(version')
                 /\ task.job.output \in DOMAIN tables' \cap pending'
                 /\ task.job.output \notin Files(version')
  BY <1>1, <1>3 DEF IInv, Resumed, TaskShape, Unnamed
<1>6. /\ TaskTypes' /\ TaskShape' /\ EditShape' /\ Unnamed'
      /\ task'.table = 0 /\ task'.job \in {task.job, NoJob}
  BY <1>3, <1>4, <1>5, BackToWork
<1>7. /\ \A m \in Descriptions : Files(m.files) \subseteq DOMAIN tables
      /\ Files(version) \cup held \subseteq DOMAIN tables
  BY <1>2 DEF IInv, ManifestNumbers, ProcessNumbers
<1> QED
  BY <1>1, <1>2, <1>3, <1>4, <1>6, <1>7, CallFailed

(* What is deleted is named by no entry, and no reader's: only then are    *)
(* log and tables gone.                                                    *)
LEMMA InstallInv ==
  ASSUME IInv, Install
  PROVE  IInv' /\ Kept' = Kept
<1> USE DEF IInv, queueVars, countVars
<1>0. PICK v, k : v = Apply(version, task.edit) /\ k = task.edit.log
  OBVIOUS
<1>1. /\ task.step = "synced" /\ version' = v /\ logNumber' = k
      /\ imm' = IF task.table = task.job.output THEN imm ELSE {}
      /\ pending' = pending \ {task.table} /\ Return(bgError)
      /\ UNCHANGED <<manifest, phase, logFile, nextFile, todo, mem, writers, batch,
                     synced, bgError, held, asked, forced, countVars>>
      /\ DeleteObsoleteFiles
  BY <1>0 DEF Install
<1>2. phase = "open" /\ todo = {} /\ Busy
  BY <1>1, OnlyOpen DEF Idle, Busy
<1>3. /\ task.table \in Files(v) /\ Files(v) \subseteq Files(version) \cup {task.table}
      /\ task.table \in DOMAIN tables /\ task.table \in Numbers
      /\ tables[task.table] = IF Flushing THEN imm ELSE Contents(task.job.inputs)
      /\ v \in Versions
  BY <1>0, <1>2, EditApplied, TypeParts DEF ProcessTypes
<1>4. /\ Len(manifest) = 1 /\ Newest.log = k /\ task.table \in Files(Newest.files)
      /\ logNumber <= k /\ k <= logFile /\ k \in Nat /\ logFile \in Nat
      /\ logFile \in DOMAIN logs
  BY <1>0, <1>1, <1>2, TypeParts
  DEF EditShape, TaskTypes, Edits, ProcessTypes, LogNumbers, Opened
<1>5. /\ Descriptions = {Newest} /\ Newest = manifest[1] /\ Newest \in Descriptions
      /\ Newest \in Descriptors
  BY <1>4, NewestIsThere DEF Descriptions, Newest, Last
<1>6. UNCHANGED <<Newest, Descriptions>>
  BY <1>1 DEF Newest, Descriptions
<1>7. Flushing <=> task.table # task.job.output
  BY <1>2 DEF Flushing
<1>8. ~bgError => Newest.files = v
  BY <1>0, <1>1, <1>2, <1>5 DEF Faithful, Opened
<1>9. /\ DOMAIN logs' \subseteq DOMAIN logs /\ DOMAIN tables' \subseteq DOMAIN tables
      /\ \A l \in DOMAIN logs : l >= k => l \in DOMAIN logs'
      /\ \A l \in DOMAIN logs' : logs'[l] = logs[l]
      /\ \A i \in DOMAIN tables :
           i \in Files(v) \cup pending' \cup held => i \in DOMAIN tables'
      /\ \A i \in DOMAIN tables' : tables'[i] = tables[i]
      /\ \A l \in DOMAIN logs' : AllOf(l)' = AllOf(l) /\ SyncedOf(l)' = SyncedOf(l)
      /\ AllLogs(k)' = AllLogs(k) /\ SyncedLogs(k)' = SyncedLogs(k)
  <2>1. logNumber' \in Nat /\ k >= k /\ Files(version') = Files(v)
    BY <1>1, <1>4
  <2> QED
    BY <1>1, <1>4, <2>1, Deleted
<1>10. bgError => logs' = logs /\ tables' = tables
  BY <1>1 DEF DeleteObsoleteFiles
<1>11. /\ Files(version) \subseteq DOMAIN tables /\ held \subseteq DOMAIN tables
       /\ Files(Newest.files) \subseteq DOMAIN tables
  BY <1>2, <1>5 DEF ProcessNumbers, ManifestNumbers
<1>12. Files(v) \cup held \subseteq DOMAIN tables'
  BY <1>3, <1>9, <1>11
<1>13. Files(Newest.files) \subseteq DOMAIN tables'
  BY <1>8, <1>10, <1>11, <1>12
<1>14. /\ Contents(Files(v))' = Contents(Files(v))
       /\ Contents(Files(Newest.files))' = Contents(Files(Newest.files))
  <2>1. ASSUME NEW S, S \subseteq DOMAIN tables' PROVE Contents(S)' = Contents(S)
    BY <1>9, <2>1, SameContents
  <2>2. PICK S, T : S = Files(v) /\ T = Files(Newest.files)
    OBVIOUS
  <2>3. Contents(S)' = Contents(S) /\ Contents(T)' = Contents(T)
    BY <1>12, <1>13, <2>1, <2>2
  <2>4. Files(Newest.files)' = T
    BY <1>6, <2>2
  <2> QED
    BY <2>2, <2>3, <2>4
<1>15. logFile \in DOMAIN logs' /\ logs'[logFile] = logs[logFile]
       /\ AllOf(logFile)' = AllOf(logFile) /\ SyncedOf(logFile)' = SyncedOf(logFile)
  <2>1. logFile \in DOMAIN logs'
    BY <1>4, <1>9
  <2>2. PICK L : L = logFile
    OBVIOUS
  <2>3. AllOf(L)' = AllOf(L) /\ SyncedOf(L)' = SyncedOf(L)
    BY <1>9, <2>1, <2>2
  <2> QED
    BY <1>1, <1>9, <2>1, <2>2, <2>3
<1>16. /\ task' = Idle \/ Resumed
       /\ scheduled' \in BOOLEAN /\ waiting' \in BOOLEAN
  <2>1. bgError \in BOOLEAN
    BY TypeParts DEF FlagTypes
  <2> QED
    BY <1>1, <2>1, Returned
<1>17. Resumed => /\ task.job.inputs \subseteq Files(version')
                  /\ task.job.output \in DOMAIN tables' \cap pending'
                  /\ tables'[task.job.output] = tables[task.job.output]
                  /\ \A i \in task.job.inputs : tables'[i] = tables[i]
                  /\ task.job.output \notin Files(version')
  <2> SUFFICES ASSUME Resumed
               PROVE  /\ task.job.inputs \subseteq Files(version')
                      /\ task.job.output \in DOMAIN tables' \cap pending'
                      /\ tables'[task.job.output] = tables[task.job.output]
                      /\ \A i \in task.job.inputs : tables'[i] = tables[i]
                      /\ task.job.output \notin Files(version')
    OBVIOUS
  <2>1. Merging /\ task.table # task.job.output /\ Flushing
    BY <1>7 DEF Resumed
  <2>2. Files(v) = Files(version) \cup {task.table}
    BY <1>0, <1>2, <2>1 DEF EditShape, Apply, NoFiles, Files
  <2>3. /\ task.job.inputs \subseteq Files(version)
        /\ task.job.output \in DOMAIN tables \cap pending
        /\ task.job.output \notin Files(version)
    BY <2>1 DEF TaskShape, Unnamed
  <2>4. task.job.inputs \subseteq Files(v) /\ task.job.inputs \subseteq DOMAIN tables'
    BY <1>12, <2>2, <2>3
  <2>5. task.job.output \in pending' /\ task.job.output \in DOMAIN tables'
    BY <1>1, <1>9, <2>1, <2>3
  <2> QED
    BY <1>1, <1>9, <2>1, <2>2, <2>3, <2>4, <2>5
<1>18. /\ TaskTypes' /\ TaskShape' /\ EditShape' /\ Unnamed'
       /\ task'.step \in {"idle", "merging"} /\ task'.table = 0
       /\ task'.job \in {task.job, NoJob}
  BY <1>16, <1>17, BackToWork
<1>19. imm' \in {{}, imm}
  BY <1>1
<1>20. TypeOK'
  <2>1. LogTypes' /\ TableTypes'
    BY <1>9, TypeParts DEF LogTypes, TableTypes
  <2>2. FlagTypes'
    BY <1>1, <1>16, TypeParts DEF FlagTypes
  <2>3. ProcessTypes'
    BY <1>1, <1>3, <1>4, <1>15, <1>19, TypeParts DEF ProcessTypes
  <2> QED
    BY <1>1, <1>18, <2>1, <2>2, <2>3, TypeParts, TypePartsNext, TypesKept
<1>21. ManifestNumbers'
  BY <1>5, <1>6, <1>13 DEF ManifestNumbers
<1>22. ProcessNumbers'
  <2>1. nextFile > 0 /\ NoJob.inputs = {} /\ NoJob.output = 0
    BY <1>2, NumberIsNew DEF Numbers, NoJob
  <2>2. /\ Below(task.job.inputs, nextFile) /\ task.job.output < nextFile
        /\ Below(pending', nextFile) /\ Below(held, nextFile)
        /\ Below(DOMAIN logs' \ todo, nextFile) /\ Below(Files(v), nextFile)
        /\ Newest.next <= nextFile
    BY <1>1, <1>2, <1>3, <1>9 DEF ProcessNumbers, Below
  <2>3. Below(task'.job.inputs, nextFile) /\ task'.job.output < nextFile
    BY <1>18, <2>1, <2>2 DEF Below
  <2>4. Files(version)' = Files(v)
    BY <1>1 DEF Files
  <2> QED
    BY <1>1, <1>2, <1>6, <1>12, <1>18, <2>1, <2>2, <2>3, <2>4 DEF ProcessNumbers
<1>23. LogNumbers'
  BY <1>1, <1>2, <1>4, <1>5, <1>6, <1>15 DEF LogNumbers, Opened, Recovering
<1>24. Phases'
  BY <1>1, <1>2, StaysOpen
<1>25. Faithful'
  BY <1>1, <1>4, <1>5, <1>8, <1>18 DEF Faithful
<1>26. Asked'
  <2>1. /\ \A i \in DOMAIN tables' : tables'[i] \subseteq asked
        /\ \A l \in DOMAIN logs' : AllOf(l)' \subseteq asked
        /\ mem \cup imm' \subseteq asked
    BY <1>9, <1>19 DEF Asked
  <2> QED
    BY <1>1, <2>1 DEF Asked
<1>27. Underway'
  BY <1>1, <1>15 DEF Underway, Batch, Group
<1>28. imm \subseteq Contents(Files(Newest.files)) \cup imm'
  <2>1. CASE Flushing
    BY <1>3, <1>4, <2>1 DEF Contents
  <2>2. CASE ~Flushing
    BY <1>1, <1>7, <2>2
  <2> QED
    BY <2>1, <2>2
<1>29. SyncedStay'
  <2>1. forced \subseteq Contents(Files(Newest.files)) \cup imm
                           \cup (mem \cap SyncedOf(logFile))
    BY <1>2, <1>5 DEF SyncedStay, Opened
  <2>2. \A m \in Descriptions' : m = Newest
    BY <1>5, <1>6
  <2>3. \A m \in Descriptions' : Contents(Files(m.files))' = Contents(Files(Newest.files))
    BY <1>6, <1>14, <2>2
  <2> QED
    BY <1>1, <1>15, <1>28, <2>1, <2>3 DEF SyncedStay
<1>30. Durable'
  <2>1. forced \subseteq Contents(Files(Newest.files)) \cup SyncedLogs(k)
    BY <1>4, <1>5, DurableMeans
  <2>2. \A m \in Descriptions' : m = Newest
    BY <1>5, <1>6
  <2>3. \A m \in Descriptions' :
           /\ Files(m.files) \subseteq DOMAIN tables'
           /\ Contents(Files(m.files))' = Contents(Files(Newest.files))
           /\ SyncedLogs(m.log)' = SyncedLogs(k)
    BY <1>4, <1>6, <1>9, <1>13, <1>14, <2>2
  <2> QED
    BY <1>1, <2>1, <2>3, DurableMeansNext
<1>31. Restartable'
  <2>1. Replayed(Newest, Whole)' = Contents(Files(Newest.files)) \cup AllLogs(k)
    <3>1. PICK m : m = Newest
      OBVIOUS
    <3>2. Replayed(m, Whole)' = Contents(Files(m.files))' \cup AllLogs(m.log)'
      BY ReplayedNext
    <3>3. Replayed(Newest, Whole)' = Replayed(m, Whole)'
      BY <1>6, <3>1
    <3>4. Contents(Files(m.files))' = Contents(Files(Newest.files))
      BY <1>6, <1>14, <3>1
    <3>5. AllLogs(m.log)' = AllLogs(k)
      BY <1>4, <1>9, <3>1
    <3> QED
      BY <3>2, <3>3, <3>4, <3>5
  <2>2. Replayed(Newest, Whole) = Contents(Files(Newest.files)) \cup AllLogs(k)
    BY <1>4, ReplayedLogs
  <2>3. Contents(Files(v)) \subseteq Contents(Files(Newest.files))
    <3>1. Contents(Files(version)) \subseteq Contents(Files(Newest.files))
      BY <1>2 DEF Restartable, Opened
    <3>2. tables[task.table] \subseteq Contents(Files(Newest.files))
      BY <1>4 DEF Contents
    <3> QED
      BY <1>3, <3>1, <3>2 DEF Contents
  <2>4. Contents(Files(version))' = Contents(Files(v))
    BY <1>1, <1>14 DEF Files
  <2> QED
    BY <1>1, <1>2, <1>14, <1>15, <1>19, <2>1, <2>2, <2>3, <2>4
    DEF Restartable, Opened, Recovering
<1>k. Kept' = Kept
  <2>1. Contents(Files(v)) \cup imm' = Contents(Files(version)) \cup imm
    <3>1. tables[task.table] \subseteq Contents(Files(v))
      BY <1>3 DEF Contents
    <3>2. Contents(Files(v)) \subseteq Contents(Files(version)) \cup tables[task.table]
      BY <1>3 DEF Contents
    <3>3. Contents(Files(version)) \subseteq Contents(Files(v))
      BY <1>0, <1>2, EditApplied
    <3>4. CASE Flushing
      BY <1>1, <1>3, <1>7, <3>1, <3>2, <3>3, <3>4
    <3>5. CASE ~Flushing
      <4>1. task.job.inputs \subseteq Files(version)
        BY <1>2, <3>5 DEF TaskShape, EditShape
      <4>2. tables[task.table] \subseteq Contents(Files(version))
        BY <1>3, <3>5, <4>1 DEF Contents
      <4> QED
        BY <1>1, <1>7, <3>2, <3>3, <3>5, <4>2
    <3> QED
      BY <3>4, <3>5
  <2>2. Contents(Files(version))' = Contents(Files(v))
    BY <1>1, <1>14 DEF Files
  <2> QED
    BY <1>1, <1>2, <2>1, <2>2 DEF Kept
<1> QED
  BY <1>18, <1>20, <1>21, <1>22, <1>23, <1>24, <1>25, <1>26, <1>27, <1>29, <1>30, <1>31, <1>k

-----------------------------------------------------------------------------
(* Crashes *)

(* Whatever of log and manifest is left, if what was synced is. *)
LEMMA VanishInv ==
  ASSUME IInv, Vanish, LogTypes', ManifestTypes', outages' \in Nat,
         DOMAIN logs' = DOMAIN logs,
         \A n \in DOMAIN logs : AllOf(n)' \subseteq AllOf(n)
                                  /\ SyncedOf(n) \subseteq SyncedOf(n)',
         Descriptions' \subseteq Descriptions, Newest' \in Descriptions',
         \A m \in Descriptions' : m.next <= Newest'.next
  PROVE  IInv'
<1> USE DEF IInv
<1>1. /\ crashes' = crashes + 1 /\ phase' = "down" /\ version' = NoFiles
      /\ logNumber' = 0 /\ logFile' = 0 /\ nextFile' = 0 /\ todo' = {}
      /\ mem' = {} /\ imm' = {}
      /\ writers' = <<>> /\ batch' = 0 /\ synced' = FALSE /\ waiting' = FALSE
      /\ pending' = {} /\ bgError' = FALSE /\ scheduled' = FALSE /\ task' = Idle
      /\ held' = {}
      /\ UNCHANGED <<tables, asked, forced, faults>>
  BY DEF Vanish
<1>2. Quiet' /\ ~Opened' /\ phase' # "recovering"
  BY <1>1 DEF Quiet, Opened
<1>3. TypeOK'
  <2>1. NoEdit \in Edits /\ NoFiles \in Versions
    BY DEF NoEdit, Edits, NoFiles, Versions
  <2>2. TaskTypes'
    BY <1>1, <2>1 DEF TaskTypes, Idle, NoJob, Steps
  <2>3. ProcessTypes'
    BY <1>1, <2>1 DEF ProcessTypes
  <2>4. QueueTypes'
    BY <1>1 DEF QueueTypes
  <2>5. FlagTypes'
    BY <1>1 DEF FlagTypes
  <2>6. HistoryTypes'
    BY <1>1, TypeParts DEF HistoryTypes
  <2> QED
    BY <1>1, <2>2, <2>3, <2>4, <2>5, <2>6, TypeParts, TypePartsNext, TypesKept
<1>4. ManifestNumbers'
  BY <1>1 DEF ManifestNumbers
<1>5. ProcessNumbers' /\ LogNumbers'
  BY <1>1 DEF ProcessNumbers, LogNumbers, Opened, Recovering
<1>6. Phases'
  BY <1>1, <1>2 DEF Phases, Recovering
<1>7. TaskShape' /\ EditShape' /\ Unnamed' /\ Faithful' /\ Underway' /\ SyncedStay'
  BY <1>2, QuietNext
<1>8. Asked'
  <2>1. \A n \in DOMAIN logs' : AllOf(n)' \subseteq asked'
    BY <1>1 DEF Asked
  <2> QED
    BY <1>1, <2>1 DEF Asked
<1>9. Restartable'
  BY <1>1 DEF Restartable, Opened, Recovering
<1>10. Durable'
  <2>1. \A k : SyncedLogs(k) \subseteq SyncedLogs(k)'
    BY DEF SyncedLogs
  <2>2. \A S : Contents(S)' = Contents(S)
    BY <1>1, SameContents
  <2> QED
    BY <1>1, <2>1, <2>2, DurableMeans, DurableMeansNext
<1> QED
  BY <1>3, <1>4, <1>5, <1>6, <1>7, <1>8, <1>9, <1>10

(* A crash of the process leaves the disk alone. *)
LEMMA CrashInv ==
  ASSUME IInv, Crash
  PROVE  IInv'
<1>1. Vanish /\ logs' = logs /\ manifest' = manifest /\ outages' = outages
  BY DEF Crash
<1>2. LogTypes' /\ ManifestTypes' /\ outages' \in Nat
  BY <1>1, TypeParts, TypesKept DEF IInv, HistoryTypes
<1>3. Descriptions' = Descriptions /\ Newest' = Newest
  BY <1>1 DEF Descriptions, Newest
<1>4. Newest' \in Descriptions' /\ \A m \in Descriptions' : m.next <= Newest'.next
  BY <1>3, NewestIsThere DEF IInv, ManifestNumbers
<1>5. \A n : AllOf(n)' = AllOf(n) /\ SyncedOf(n)' = SyncedOf(n)
  BY <1>1, SameLogs
<1> QED
  BY <1>1, <1>2, <1>3, <1>4, <1>5, VanishInv

(* A crash of the machine leaves one entry of the manifest and the synced  *)
(* part of each log.                                                       *)
LEMMA OutageInv ==
  ASSUME IInv, Outage
  PROVE  IInv'
<1>1. PICK i \in DOMAIN manifest : manifest' = <<manifest[i]>>
  BY DEF Outage
<1>2. PICK upTo \in [DOMAIN logs -> 0 .. Cardinality(Writes)] :
        /\ \A n \in DOMAIN logs : upTo[n] \in Synced[n] .. Whole[n]
        /\ logs' = [n \in DOMAIN logs |->
                      [records |-> SubSeq(logs[n].records, 1, upTo[n]),
                       synced |-> upTo[n]]]
  BY DEF Outage
<1>3. Vanish /\ outages' = outages + 1
  BY DEF Outage
<1>4. ASSUME NEW n \in DOMAIN logs
      PROVE  /\ logs'[n] \in [records : Seq(SUBSET Writes), synced : Nat]
             /\ logs'[n].synced = Len(logs'[n].records)
             /\ AllOf(n)' \subseteq AllOf(n) /\ SyncedOf(n) \subseteq SyncedOf(n)'
  <2> DEFINE r == logs[n].records
             u == upTo[n]
             s == SubSeq(r, 1, u)
  <2>1. /\ r \in Seq(SUBSET Writes) /\ Len(r) \in Nat /\ logs[n].synced \in Nat
        /\ logs[n].synced <= Len(r)
    BY TypeParts DEF IInv, LogTypes
  <2>2. u \in logs[n].synced .. Len(r)
    BY <1>2 DEF Synced, Whole
  <2>3. u \in Nat /\ logs[n].synced <= u /\ u <= Len(r)
    BY <2>1, <2>2
  <2>4. /\ s \in Seq(SUBSET Writes) /\ Len(s) = u
        /\ \A j \in 1 .. u : s[j] = r[j]
    BY <2>1, <2>3
  <2>5. logs'[n] = [records |-> s, synced |-> u]
    BY <1>2
  <2> HIDE DEF r, u, s
  <2>6. AllOf(n)' = UNION {r[j] : j \in 1 .. u} /\ SyncedOf(n)' = UNION {r[j] : j \in 1 .. u}
    BY <2>4, <2>5 DEF AllOf, SyncedOf, Logged
  <2>7. AllOf(n) = UNION {r[j] : j \in 1 .. Len(r)}
        /\ SyncedOf(n) = UNION {r[j] : j \in 1 .. logs[n].synced}
    BY DEF AllOf, SyncedOf, Logged, r
  <2> QED
    BY <2>1, <2>3, <2>4, <2>5, <2>6, <2>7
<1>5. DOMAIN logs' = DOMAIN logs
  BY <1>2
<1>6. LogTypes'
  <2>1. \A n \in DOMAIN logs : logs'[n].synced <= Len(logs'[n].records)
    BY <1>4
  <2> QED
    BY <1>4, <1>5, <2>1, TypeParts DEF IInv, LogTypes
<1>7. PICK d : d = manifest[i]
  OBVIOUS
<1>8. d \in Descriptions /\ d \in Descriptors
  BY <1>7, NewestIsThere DEF IInv, Descriptions
<1>9. Descriptions' = {d} /\ Newest' = d
  BY <1>1, <1>7, Alone
<1>10. ManifestTypes'
  BY <1>1, <1>7, <1>8 DEF ManifestTypes
<1>11. d.next <= d.next /\ outages' \in Nat
  BY <1>3, <1>8, TypeParts DEF IInv, HistoryTypes, Descriptors, Numbers
<1> QED
  BY <1>3, <1>4, <1>5, <1>6, <1>8, <1>9, <1>10, <1>11, VanishInv

-----------------------------------------------------------------------------
(* The invariant, and what a reader finds *)

(* While the store is open, logs and manifest do not show. *)
LEMMA KeptSame ==
  ASSUME phase = "open", phase' = "open",
         UNCHANGED <<tables, version, imm, mem>>
  PROVE  Kept' = Kept
  BY DEF Kept, Contents, Files

(* Only what was asked for is kept, now *)
LEMMA KeptAsked ==
  ASSUME IInv
  PROVE  Kept \subseteq asked
<1> USE DEF IInv
<1>1. phase = "open" => Files(version) \subseteq DOMAIN tables
  BY DEF ProcessNumbers
<1>2. /\ Files(Newest.files) \subseteq DOMAIN tables
      /\ Replayed(Newest, Whole) = Contents(Files(Newest.files)) \cup AllLogs(Newest.log)
  BY NewestIsThere, ReplayedLogs DEF ManifestNumbers
<1>3. \A S \in SUBSET DOMAIN tables : Contents(S) \subseteq asked
  BY DEF Asked, Contents
<1>4. \A k : AllLogs(k) \subseteq asked
  BY DEF Asked, AllLogs
<1> QED
  BY <1>1, <1>2, <1>3, <1>4 DEF Kept, Newest, Asked

(* and after a step. *)
LEMMA KeptAskedNext ==
  ASSUME IInv'
  PROVE  Kept' \subseteq asked'
<1> USE DEF IInv
<1>1. phase' = "open" => Files(version)' \subseteq DOMAIN tables'
  BY DEF ProcessNumbers
<1>2. PICK m : m = Newest'
  OBVIOUS
<1>3. manifest' \in Seq(Descriptors) /\ manifest' # <<>>
  BY DEF TypeOK
<1>4. m \in Descriptions'
  BY <1>2, <1>3 DEF Newest, Last, Descriptions
<1>5. Files(m.files) \subseteq DOMAIN tables'
  BY <1>4 DEF ManifestNumbers
<1>6. Replayed(Newest, Whole)' = Contents(Files(m.files))' \cup AllLogs(m.log)'
  BY <1>2, ReplayedNext
<1>7. \A S \in SUBSET DOMAIN tables' : Contents(S)' \subseteq asked'
  BY DEF Asked, Contents
<1>8. \A k : AllLogs(k)' \subseteq asked'
  BY DEF Asked, AllLogs
<1>9. phase' = "open" => Kept' \subseteq asked'
  <2> SUFFICES ASSUME phase' = "open" PROVE Kept' \subseteq asked'
    OBVIOUS
  <2>1. Kept' = Contents(Files(version))' \cup imm' \cup mem'
    BY DEF Kept
  <2>2. PICK S : S = Files(version)'
    OBVIOUS
  <2>3. Contents(S)' \subseteq asked' /\ Contents(Files(version))' = Contents(S)'
    BY <1>1, <1>7, <2>2
  <2> QED
    BY <2>1, <2>3 DEF Asked
<1>10. phase' # "open" => Kept' = Replayed(Newest, Whole)'
  BY DEF Kept, Newest
<1> QED
  BY <1>5, <1>6, <1>7, <1>8, <1>9, <1>10

LEMMA InvStutter ==
  IInv /\ UNCHANGED vars => IInv'
<1> SUFFICES ASSUME IInv, UNCHANGED vars
             PROVE  IInv'
  OBVIOUS
<1> USE DEF IInv, vars, diskVars, fileVars, queueVars, backVars, countVars
<1>1. TypeOK'
  <2>1. ProcessTypes'
    BY TypeParts DEF ProcessTypes
  <2> QED
    BY <2>1, TypeParts, TypePartsNext, TypesKept
<1>2. Phases'
  BY DEF Phases, Opened, Recovering, Quiet
<1>3. /\ ManifestNumbers' /\ ProcessNumbers' /\ LogNumbers' /\ TaskShape' /\ EditShape'
      /\ Unnamed'
  BY ManifestNumbersKept, ProcessNumbersKept, LogNumbersKept, TaskShapeKept,
     EditShapeKept, UnnamedKept
<1>4. Faithful' /\ Asked' /\ Underway' /\ SyncedStay' /\ Restartable' /\ Durable'
  BY FaithfulKept, AskedKept, UnderwayKept, SyncedStayKept, RestartableKept, DurableKept
<1> QED
  BY <1>1, <1>2, <1>3, <1>4

(* Every step keeps the invariant. *)
LEMMA NextInv ==
  IInv /\ [Next]_vars => IInv'
<1> SUFFICES ASSUME IInv, [Next]_vars
             PROVE  IInv'
  OBVIOUS
<1>1. CASE Opening
  BY <1>1, RecoverInv, RecoverLogFileInv, CreateLogInv, SetCurrentFileInv, OpenInv
  DEF Opening
<1>2. CASE \E w \in Writes : Enqueue(w)
  BY <1>2, EnqueueInv
<1>3. CASE Writer
  BY <1>3, RefuseWriteInv, WaitForRoomInv, SwitchMemTableInv, AddRecordInv, SyncLogInv,
     SyncLogFailsInv, AcknowledgeInv DEF Writer
<1>4. CASE Reader
  BY <1>4, ReaderInv
<1>5. CASE Background
  BY <1>5, NothingToDoInv, BeginFlushInv, FinishFlushInv, BeginMergeInv, FinishMergeInv,
     TableFailsInv, WriteManifestInv, SyncManifestInv, SyncManifestFailsInv, InstallInv
  DEF Background
<1>6. CASE Crash
  BY <1>6, CrashInv
<1>7. CASE Outage
  BY <1>7, OutageInv
<1>8. CASE UNCHANGED vars
  BY <1>8, InvStutter
<1> QED
  BY <1>1, <1>2, <1>3, <1>4, <1>5, <1>6, <1>7, <1>8 DEF Next

(* The invariant holds in every reachable state. *)
LEMMA StoreInvariant == Spec => []IInv
  BY InitIInv, NextInv, PTL DEF Spec

-----------------------------------------------------------------------------
(* The store has its type in every reachable state, and an open one has    *)
(* the log it writes to.                                                   *)
THEOREM StoreTypeCorrect == Spec => []TypeOK
<1>1. IInv => TypeOK
  BY DEF IInv
<1> QED
  BY StoreInvariant, <1>1, PTL

(* Whenever the machine goes down, however often, and whichever file       *)
(* operation fails before it: what the manifest and the synced logs lead   *)
(* to has all synced writes that were acknowledged, and is all there.      *)
THEOREM StoreDurable == Spec => []Durable
<1>1. IInv => Durable
  BY DEF IInv
<1> QED
  BY StoreInvariant, <1>1, PTL

(* No table a reader may be reading is deleted. *)
THEOREM StoreReadersKeepTables == Spec => []ReadersKeepTables
<1>1. IInv => ReadersKeepTables
  <2> SUFFICES ASSUME IInv PROVE ReadersKeepTables
    OBVIOUS
  <2>1. CASE phase = "down"
    BY <2>1 DEF IInv, Phases, Opened, Quiet, Files, NoFiles, ReadersKeepTables
  <2>2. CASE phase # "down"
    BY <2>2 DEF IInv, ProcessNumbers, ReadersKeepTables
  <2> QED
    BY <2>1, <2>2
<1> QED
  BY StoreInvariant, <1>1, PTL

-----------------------------------------------------------------------------
(* The store implements DurableStore *)

(* A step that reader and history do not notice. *)
LEMMA Unnoticed ==
  ASSUME Kept' = Kept, UNCHANGED <<asked, forced, outages>>
  PROVE  [Promise!Next]_(Promise!vars)
  BY DEF Promise!vars

(* What the steps of the threads are to the promise. *)
LEMMA WriterSteps ==
  ASSUME IInv, IInv', Writer
  PROVE  [Promise!Next]_(Promise!vars)
<1> USE DEF diskVars, fileVars, queueVars, backVars, countVars
<1>1. CASE RefuseWrite
  BY <1>1, KeptSame, Unnoticed DEF RefuseWrite, Ready
<1>2. CASE WaitForRoom
  BY <1>2, KeptSame, Unnoticed DEF WaitForRoom, Ready
<1>3. CASE SwitchMemTable
  <2>1. /\ phase = "open" /\ phase' = "open" /\ imm = {} /\ imm' = mem /\ mem' = {}
        /\ UNCHANGED <<tables, version, asked, forced, outages>>
    BY <1>3 DEF SwitchMemTable, Ready, NoRoom
  <2>2. Contents(Files(version))' = Contents(Files(version))
    BY <2>1 DEF Contents, Files
  <2>3. Kept' = Kept
    BY <2>1, <2>2 DEF Kept
  <2> QED
    BY <2>1, <2>3, Unnoticed
<1>4. ASSUME NEW k \in 1 .. Len(writers), AddRecord(k)
      PROVE  [Promise!Next]_(Promise!vars)
  BY <1>4, KeptSame, Unnoticed DEF AddRecord, Ready
<1>5. batch > 0 => phase = "open"
  BY OnlyOpen, TypeParts DEF IInv, QueueTypes
<1>6. CASE SyncLog
  BY <1>5, <1>6, KeptSame, Unnoticed DEF SyncLog, WantsSync
<1>7. CASE SyncLogFails
  BY <1>5, <1>7, KeptSame, Unnoticed DEF SyncLogFails, WantsSync
<1>8. CASE Acknowledge
  <2>1. PICK W : W = Batch(batch)
    OBVIOUS
  <2>2. /\ phase = "open" /\ phase' = "open"
        /\ mem' = mem \cup W /\ forced' = forced \cup (W \cap SyncWrites)
        /\ UNCHANGED <<tables, version, imm, asked, outages>>
    BY <1>5, <1>8, <2>1 DEF Acknowledge
  <2>3. W \in SUBSET asked
    BY <2>1, GroupAsked, TypeParts DEF IInv, QueueTypes
  <2>4. Contents(Files(version))' = Contents(Files(version))
    BY <2>2 DEF Contents, Files
  <2>5. Kept' = Kept \cup W
    BY <2>2, <2>4 DEF Kept
  <2>6. Promise!Acknowledge(W)
    BY <2>2, <2>5 DEF Promise!Acknowledge
  <2> QED
    BY <2>3, <2>6 DEF Promise!Next
<1> QED
  BY <1>1, <1>2, <1>3, <1>4, <1>6, <1>7, <1>8 DEF Writer

LEMMA BackgroundSteps ==
  ASSUME IInv, Background
  PROVE  [Promise!Next]_(Promise!vars)
<1> USE DEF diskVars, fileVars, queueVars, backVars, countVars
<1>1. CASE NothingToDo
  <2>1. phase = "open"
    BY <1>1 DEF NothingToDo, Called, IInv, Phases, Opened
  <2> QED
    BY <1>1, <2>1, KeptSame, Unnoticed DEF NothingToDo
<1>2. task.step # "idle" => phase = "open"
  BY OnlyOpen DEF IInv, Idle
<1>3. CASE FinishFlush
  BY <1>2, <1>3, KeptSame, Unnoticed DEF FinishFlush
<1>4. CASE FinishMerge
  BY <1>2, <1>4, KeptSame, Unnoticed DEF FinishMerge
<1>5. CASE WriteManifest
  BY <1>2, <1>5, KeptSame, Unnoticed DEF WriteManifest
<1>6. CASE SyncManifest
  BY <1>2, <1>6, KeptSame, Unnoticed DEF SyncManifest
<1>7. CASE SyncManifestFails
  BY <1>2, <1>7, KeptSame, Unnoticed DEF SyncManifestFails
<1>8. CASE Install
  BY <1>8, InstallInv, Unnoticed DEF Install
<1>9. ASSUME NEW c \in SUBSET Writes, NewTable(c), phase = "open",
             UNCHANGED <<phase, version, imm, mem, asked, forced, outages>>
      PROVE  [Promise!Next]_(Promise!vars)
  <2>1. PICK S : S = Files(version)
    OBVIOUS
  <2>2. Contents(S)' = Contents(S)
    BY <1>9, <2>1, NewTableKeeps DEF IInv
  <2>3. Contents(Files(version))' = Contents(S)'
    BY <1>9, <2>1 DEF Files
  <2>4. Kept' = Kept
    BY <1>9, <2>1, <2>2, <2>3 DEF Kept
  <2> QED
    BY <1>9, <2>4, Unnoticed
<1>10. CASE BeginFlush
  <2>1. imm # {} /\ imm \subseteq Writes
    BY <1>10, TypeParts DEF BeginFlush, IInv, ProcessTypes
  <2>2. phase = "open"
    BY <2>1, OnlyOpen DEF IInv
  <2> QED
    BY <1>9, <1>10, <2>1, <2>2 DEF BeginFlush
<1>11. CASE BeginMerge
  <2>1. phase = "open"
    BY <1>11 DEF BeginMerge, Called, IInv, Phases, Opened
  <2>2. Files(version) \subseteq DOMAIN tables
    BY <2>1 DEF IInv, ProcessNumbers
  <2>3. Contents(Files(version)) \in SUBSET Writes
    BY <2>2, TypeParts DEF IInv, TableTypes, Contents
  <2> QED
    BY <1>9, <1>11, <2>1, <2>3 DEF BeginMerge
<1>12. CASE TableFails
  <2>1. /\ phase = "open" /\ phase' = "open"
        /\ UNCHANGED <<version, imm, mem, asked, forced, outages>>
    BY <1>2, <1>12 DEF TableFails
  <2>2. \A i \in Files(version) : tables'[i] = tables[i]
    <3>1. CASE task.step = "building"
      <4>1. tables' = [n \in DOMAIN tables \ {task.table} |-> tables[n]]
        BY <1>12, <3>1 DEF TableFails
      <4>2. task.table \notin Files(version) /\ Files(version) \subseteq DOMAIN tables
        BY <2>1, <3>1, NewestIsThere DEF IInv, Unnamed, ProcessNumbers
      <4> QED
        BY <4>1, <4>2
    <3>2. CASE task.step = "merging"
      BY <1>12, <3>2 DEF TableFails
    <3> QED
      BY <1>12, <3>1, <3>2 DEF TableFails
  <2>3. PICK S : S = Files(version)
    OBVIOUS
  <2>4. Contents(S)' = Contents(S)
    BY <2>2, <2>3, SameContents
  <2>5. Contents(Files(version))' = Contents(S)'
    BY <2>1, <2>3 DEF Files
  <2>6. Kept' = Kept
    BY <2>1, <2>3, <2>4, <2>5 DEF Kept
  <2> QED
    BY <2>1, <2>6, Unnoticed
<1> QED
  BY <1>1, <1>3, <1>4, <1>5, <1>6, <1>7, <1>8, <1>10, <1>11, <1>12 DEF Background

(* A crash leaves what is in tables and logs, and that is all a reader     *)
(* found before; a crash of the machine what is synced.                    *)
LEMMA CrashSteps ==
  ASSUME IInv, IInv', Crash \/ Outage
  PROVE  [Promise!Next]_(Promise!vars)
<1>1. /\ phase' = "down" /\ UNCHANGED <<tables, asked, forced>>
  BY DEF Crash, Outage, Vanish
<1>2. Kept' \in SUBSET asked
  BY <1>1, KeptAskedNext
<1>3. Kept' = Replayed(Newest, Whole)'
  BY <1>1 DEF Kept, Newest
<1>4. CASE Crash
  <2>1. UNCHANGED <<logs, manifest, outages>>
    BY <1>4 DEF Crash
  <2>2. Replayed(Newest, Whole)' = Replayed(Newest, Whole)
    BY <1>1, <2>1 DEF Newest, Replayed, Contents, Logged, Whole
  <2>3. Kept \subseteq Replayed(Newest, Whole)
    <3>1. CASE phase = "open"
      <4>1. /\ Contents(Files(version)) \subseteq Contents(Files(Newest.files))
            /\ imm \subseteq Replayed(Newest, Whole) /\ mem \subseteq AllOf(logFile)
        BY <3>1 DEF IInv, Restartable, Opened
      <4>2. AllOf(logFile) \subseteq AllLogs(Newest.log)
        <5>1. logFile \in DOMAIN logs /\ Newest.log <= logFile
          BY <3>1, NewestIsThere DEF IInv, LogNumbers, Opened
        <5>2. Newest.log \in Nat /\ logFile \in Nat
          BY NewestIsThere, TypeParts DEF IInv, Descriptors, ProcessTypes
        <5> QED
          BY <5>1, <5>2 DEF AllLogs
      <4> QED
        BY <3>1, <4>1, <4>2, ReplayedLogs DEF Kept
    <3>2. CASE phase # "open"
      BY <3>2 DEF Kept, Newest
    <3> QED
      BY <3>1, <3>2
  <2>4. Promise!Restart
    BY <1>1, <1>2, <1>3, <2>1, <2>2, <2>3 DEF Promise!Restart
  <2> QED
    BY <2>4 DEF Promise!Next
<1>5. CASE Outage
  <2>1. outages' = outages + 1
    BY <1>5 DEF Outage
  <2>2. forced' \subseteq Kept'
    <3>1. PICK m : m = Newest'
      OBVIOUS
    <3>2. m \in Descriptions'
      <4>1. manifest' \in Seq(Descriptors) /\ manifest' # <<>>
        BY DEF IInv, TypeOK
      <4> QED
        BY <3>1, <4>1 DEF Newest, Last, Descriptions
    <3>3. forced' \subseteq Contents(Files(m.files))' \cup SyncedLogs(m.log)'
      BY <3>2, DurableMeansNext DEF IInv
    <3>4. SyncedLogs(m.log)' \subseteq AllLogs(m.log)'
      BY SyncedInAllNext DEF IInv
    <3>5. Replayed(Newest, Whole)' = Contents(Files(m.files))' \cup AllLogs(m.log)'
      BY <3>1, ReplayedNext
    <3> QED
      BY <1>3, <3>3, <3>4, <3>5
  <2>3. Promise!Outage
    BY <1>1, <1>2, <2>1, <2>2 DEF Promise!Outage
  <2> QED
    BY <2>3 DEF Promise!Next
<1> QED
  BY <1>4, <1>5

(* The first state, and every step, is one of DurableStore. *)
LEMMA InitPromise == Init => Promise!Init
<1> SUFFICES ASSUME Init PROVE Promise!Init
  OBVIOUS
<1>1. asked = {} /\ forced = {} /\ outages = 0
  BY DEF Init
<1>2. Kept \subseteq asked
  BY InitIInv, KeptAsked
<1> QED
  BY <1>1, <1>2 DEF Promise!Init

LEMMA StepsPromise ==
  ASSUME IInv, [Next]_vars
  PROVE  [Promise!Next]_(Promise!vars)
<1>1. IInv'
  BY NextInv
<1>2. CASE Opening
  <2>1. UNCHANGED <<asked, forced, outages>>
    BY <1>2 DEF Opening, Recover, RecoverLogFile, CreateLog, SetCurrentFile, Open, countVars
  <2>2. Kept' = Kept
    BY <1>2, RecoverInv, RecoverLogFileInv, CreateLogInv, SetCurrentFileInv, OpenInv
    DEF Opening
  <2> QED
    BY <2>1, <2>2, Unnoticed
<1>3. ASSUME NEW w \in Writes, Enqueue(w)
      PROVE  [Promise!Next]_(Promise!vars)
  <2>1. Kept' = Kept
    BY <1>3, KeptSame DEF Enqueue, diskVars, fileVars
  <2>2. Promise!Ask(w)
    BY <1>3, <2>1 DEF Enqueue, countVars, Promise!Ask
  <2> QED
    BY <2>2 DEF Promise!Next
<1>4. CASE Writer
  BY <1>1, <1>4, WriterSteps
<1>5. CASE Reader
  <2>1. phase = "open"
    BY <1>5, OnlyOpen DEF Reader, Hold, Release, IInv
  <2> QED
    BY <1>5, <2>1, KeptSame, Unnoticed DEF Reader, Hold, Release, diskVars, fileVars, countVars
<1>6. CASE Background
  BY <1>6, BackgroundSteps
<1>7. CASE Crash \/ Outage
  BY <1>1, <1>7, CrashSteps
<1>8. CASE UNCHANGED vars
  <2>1. UNCHANGED <<phase, logs, tables, manifest, version, imm, mem, asked, forced, outages>>
    BY <1>8 DEF vars, diskVars, fileVars, countVars
  <2>2. Kept' = Kept
    BY <2>1 DEF Kept, Contents, Files, Replayed, Logged, Whole
  <2> QED
    BY <2>1, <2>2, Unnoticed
<1> QED
  BY <1>2, <1>3, <1>4, <1>5, <1>6, <1>7, <1>8 DEF Next

(* Every behaviour of the store is one of DurableStore: an acknowledged    *)
(* write is there for every reader and after every restart, except one     *)
(* that was not synced after a crash of the machine, and no write turns up *)
(* that nobody asked for.                                                  *)
THEOREM StoreImplementsDurableStore == Spec => ImplementsDurableStore
  BY StoreInvariant, InitPromise, StepsPromise, PTL
  DEF Spec, ImplementsDurableStore, Promise!Spec
=============================================================================
