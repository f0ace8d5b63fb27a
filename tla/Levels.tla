------------------------------- MODULE Levels --------------------------------
(***************************************************************************)
(* leveldb's log-structured merge tree, the store under the Firebase SDK's *)
(* disk cache: memtables, files in levels, snapshots, and the background   *)
(* thread that flushes memtables and compacts a level into the next one.   *)
(*                                                                         *)
(* An entry is its sequence number; history says which key it was written  *)
(* for and whether it is a deletion marker.  Entries are ordered by key    *)
(* and, for one key, newest first.  A file is the set of its entries, and  *)
(* its size their number.                                                  *)
(*                                                                         *)
(* The background thread releases the mutex while it merges: writes,       *)
(* snapshots and flushes go on between the start of a compaction, where    *)
(* inputs and oldest snapshot are read, and its end.                       *)
(***************************************************************************)
EXTENDS Integers, Sequences, FiniteSets, SequencesExt, FiniteSetsExt, Folds

CONSTANTS
  Keys,              \* user keys, a set of integers
  Deletable,         \* the keys that may be deleted
  NumLevels,         \* config::kNumLevels
  MaxMemLevel,       \* config::kMaxMemCompactLevel
  MaxFileSize,       \* entries an output file is closed at
  GrandparentLimit,  \* MaxGrandParentOverlapBytes, in entries
  ExpandLimit,       \* ExpandedCompactionByteSizeLimit, in entries
  MaxSeq,            \* bounds: writes in all,
  MaxSnapshots       \*   snapshots held at a time

ASSUME KeysAssumption == Keys \subseteq Int /\ Deletable \subseteq Keys
ASSUME SizesAssumption ==
  /\ NumLevels \in Nat /\ MaxMemLevel \in Nat /\ MaxMemLevel < NumLevels
  /\ {MaxFileSize, GrandparentLimit, ExpandLimit} \subseteq Nat
  /\ MaxSeq \in Nat /\ MaxSnapshots \in Nat

VARIABLES
  history,  \* history[n]: the write with sequence number n
  snaps,    \* sequence numbers of the live snapshots
  mem, imm, \* entries of the memtable, and of the one being flushed
  levels,   \* levels[l]: the files of level l in the current version
  job       \* the compaction at work, or NoJob

vars == <<history, snaps, mem, imm, levels, job>>

NoJob == [level |-> -1, inputs |-> {}, parents |-> {}, outputs |-> {}]

-----------------------------------------------------------------------------
(* Entries and files *)

LastSequence == Len(history)
KeyOf(n) == history[n].key
IsDeletion(n) == history[n].deletion

(* InternalKeyComparator: by key, the newest entry of a key first. *)
Before(a, b) == KeyOf(a) < KeyOf(b) \/ (KeyOf(a) = KeyOf(b) /\ a > b)

Smallest(f) == CHOOSE n \in f : \A m \in f \ {n} : Before(n, m)
Largest(f) == CHOOSE n \in f : \A m \in f \ {n} : Before(m, n)
FirstKey(f) == KeyOf(Smallest(f))
LastKey(f) == KeyOf(Largest(f))
Covers(f, k) == FirstKey(f) <= k /\ k <= LastKey(f)

Size(files) == MapThenSumSet(Cardinality, files)
Level(l) == IF l < NumLevels THEN levels[l] ELSE {}

(* GetRange, in user keys. *)
RangeOf(files) == [first |-> FirstKey(UNION files), last |-> LastKey(UNION files)]

Overlapping(files, r) ==
  {f \in files : LastKey(f) >= r.first /\ FirstKey(f) <= r.last}

(* Files of level 0 overlap each other: a file that reaches beyond the     *)
(* range widens it.                                                        *)
GetOverlappingInputs(l, r) ==
  LET widen[i \in 0 .. Cardinality(Level(l))] ==
        IF i = 0 THEN r
        ELSE LET w == widen[i - 1]
                 all == RangeOf(Overlapping(Level(l), w))
             IN  IF Overlapping(Level(l), w) = {} THEN w
                 ELSE [first |-> Min({w.first, all.first}),
                       last |-> Max({w.last, all.last})]
  IN  Overlapping(Level(l), IF l = 0 THEN widen[Cardinality(Level(0))] ELSE r)

-----------------------------------------------------------------------------
(* Reading *)

(* The newest entry of k at or below s in a memtable or file; 0 if none. *)
Newest(entries, k, s) == Max({0} \cup {n \in entries : KeyOf(n) = k /\ n <= s})

(* Level 0: its files from the newest to the oldest, until one answers.    *)
(* Files are numbered in the order of their writes.                        *)
GetLevel0(k, s) ==
  LET hits == {f \in levels[0] : Newest(f, k, s) > 0}
      newest == CHOOSE f \in hits : \A g \in hits : Max(f) >= Max(g)
  IN  IF hits = {} THEN 0 ELSE Newest(newest, k, s)

(* Deeper levels: the first file that ends at or after (k, s), no other.   *)
GetLevel(l, k, s) ==
  LET Ends(f) == LET e == Largest(f) IN KeyOf(e) > k \/ (KeyOf(e) = k /\ e <= s)
      ahead == {f \in levels[l] : Ends(f)}
      found == CHOOSE f \in ahead :
                 \A g \in ahead \ {f} : Before(Smallest(f), Smallest(g))
  IN  IF ahead = {} THEN 0 ELSE Newest(found, k, s)

(* DBImpl::Get: memtables, then level by level; the first entry found is   *)
(* the answer, and a deletion marker means there is none.                  *)
Get(k, s) ==
  LET place == <<Newest(mem, k, s), Newest(imm, k, s), GetLevel0(k, s)>>
               \o [l \in 1 .. NumLevels - 1 |-> GetLevel(l, k, s)]
      found == SelectInSeq(place, LAMBDA n : n > 0)
  IN  IF found = 0 \/ IsDeletion(place[found]) THEN 0 ELSE place[found]

-----------------------------------------------------------------------------
Init ==
  /\ history = <<>> /\ snaps = {}
  /\ mem = {} /\ imm = {}
  /\ levels = [l \in 0 .. NumLevels - 1 |-> {}]
  /\ job = NoJob

-----------------------------------------------------------------------------
(* The user *)

Write(k, deletion) ==
  /\ LastSequence < MaxSeq
  /\ history' = Append(history, [key |-> k, deletion |-> deletion])
  /\ mem' = mem \cup {LastSequence + 1}
  /\ UNCHANGED <<snaps, imm, levels, job>>

Put(k) == Write(k, FALSE)
Delete(k) == k \in Deletable /\ Write(k, TRUE)

GetSnapshot ==
  /\ Cardinality(snaps) < MaxSnapshots
  /\ snaps' = snaps \cup {LastSequence}
  /\ UNCHANGED <<history, mem, imm, levels, job>>

ReleaseSnapshot(s) ==
  /\ s \in snaps
  /\ snaps' = snaps \ {s}
  /\ UNCHANGED <<history, mem, imm, levels, job>>

(* MakeRoomForWrite: the memtable is full and waits to be flushed. *)
SwitchMemTable ==
  /\ imm = {} /\ mem # {}
  /\ imm' = mem /\ mem' = {}
  /\ UNCHANGED <<history, snaps, levels, job>>

-----------------------------------------------------------------------------
(* Flushing *)

(* As deep as there is no overlap, and not too much of it one level below. *)
PickLevelForMemTableOutput(r) ==
  LET Sinks(l) == /\ Overlapping(Level(l + 1), r) = {}
                  /\ Size(Overlapping(Level(l + 2), r)) <= GrandparentLimit
  IN  IF Overlapping(Level(0), r) # {} THEN 0
      ELSE Min({l \in 0 .. MaxMemLevel : l = MaxMemLevel \/ ~Sinks(l)})

(* CompactMemTable: at any time, in the middle of a compaction too. *)
CompactMemTable ==
  /\ imm # {}
  /\ LET l == PickLevelForMemTableOutput(RangeOf({imm}))
     IN  levels' = [levels EXCEPT ![l] = @ \cup {imm}]
  /\ imm' = {}
  /\ UNCHANGED <<history, snaps, mem, job>>

-----------------------------------------------------------------------------
(* Picking the inputs of a compaction *)

(* Wrong: boundary files stay where they are. *)
NoBoundaryInputs(files, picked) == picked

(* A file whose first entry continues the key the last picked file ends    *)
(* with has to come along, and so on.                                      *)
AddBoundaryInputs(files, picked) ==
  LET grow[i \in 0 .. Cardinality(files)] ==
        IF i = 0 THEN [picked |-> picked, last |-> Largest(UNION picked)]
        ELSE LET g == grow[i - 1]
                 next == {f \in files : /\ Before(g.last, Smallest(f))
                                        /\ FirstKey(f) = KeyOf(g.last)}
                 f == CHOOSE x \in next :
                        \A y \in next \ {x} : Before(Smallest(x), Smallest(y))
             IN  IF next = {} THEN g
                 ELSE [picked |-> g.picked \cup {f}, last |-> Largest(f)]
  IN  grow[Cardinality(files)].picked

(* SetupOtherInputs: the files of the next level under the picked ones; if *)
(* that does not draw in more of the next level, more of this level.       *)
Inputs(l, picked) ==
  LET in0 == AddBoundaryInputs(Level(l), picked)
      in1 == GetOverlappingInputs(l + 1, RangeOf(in0))
      more0 == AddBoundaryInputs(Level(l),
                 GetOverlappingInputs(l, RangeOf(in0 \cup in1)))
      more1 == GetOverlappingInputs(l + 1, RangeOf(more0))
      grows == /\ in1 # {} /\ Cardinality(more0) > Cardinality(in0)
               /\ Size(in1) + Size(more0) < ExpandLimit
               /\ Cardinality(more1) = Cardinality(in1)
  IN  IF grows THEN <<more0, more1>> ELSE <<in0, in1>>

-----------------------------------------------------------------------------
(* Merging *)

(* Wrong: snapshots are forgotten. *)
NoSnapshot == LastSequence

SmallestSnapshot == IF snaps = {} THEN LastSequence ELSE Min(snaps)

IsBaseLevelForKey(l, k) ==
  \A d \in l + 2 .. NumLevels - 1 : \A f \in levels[d] : ~Covers(f, k)

(* ShouldStopBefore: how much of the grandparents the output at hand has   *)
(* passed when n comes.                                                    *)
Overlapped(grandparents, st, n) ==
  st.overlapped + Size({g \in grandparents : /\ Before(Largest(g), n) /\ st.prev > 0
                                             /\ ~Before(Largest(g), st.prev)})

(* One turn of DoCompactionWork's loop: a new output before an entry that  *)
(* has passed too much of the grandparents, the drop rules, and an output  *)
(* that is full.                                                           *)
Merge(l, grandparents, st, n) ==
  LET overlapped == Overlapped(grandparents, st, n)
      stop == overlapped > GrandparentLimit
      hidden == /\ st.prev > 0 /\ KeyOf(st.prev) = KeyOf(n)
                /\ st.prev <= SmallestSnapshot
      obsolete == /\ IsDeletion(n) /\ n <= SmallestSnapshot
                  /\ IsBaseLevelForKey(l, KeyOf(n))
      closed == IF stop THEN st.closed \cup {st.open} ELSE st.closed
      open == (IF stop THEN {} ELSE st.open)
              \cup (IF hidden \/ obsolete THEN {} ELSE {n})
      full == Cardinality(open) >= MaxFileSize
  IN  [prev |-> n, overlapped |-> IF stop THEN 0 ELSE overlapped,
       closed |-> IF full THEN closed \cup {open} ELSE closed,
       open |-> IF full THEN {} ELSE open]

MergeAll(l, files) ==
  LET grandparents == Overlapping(Level(l + 2), RangeOf(files))
      start == [prev |-> 0, overlapped |-> 0, closed |-> {}, open |-> {}]
  IN  MapThenFoldSet(LAMBDA n, st : Merge(l, grandparents, st, n),
                     start, LAMBDA n : n, Largest, UNION files)

(* Wrong: an output nothing went into is installed, too. *)
OutputsWithEmpty(l, files) ==
  LET end == MergeAll(l, files) IN end.closed \cup {end.open}

(* The files a compaction writes.  All they depend on is read when it      *)
(* starts: its inputs, its version and the oldest snapshot.                *)
Outputs(l, files) ==
  LET end == MergeAll(l, files) IN (end.closed \cup {end.open}) \ {{}}

-----------------------------------------------------------------------------
(* Compacting *)

Install(l, in0, in1, outputs) ==
  levels' = [levels EXCEPT ![l] = @ \ in0, ![l + 1] = (@ \ in1) \cup outputs]

Compact(l, in0, in1) ==
  /\ job' = [level |-> l, inputs |-> in0, parents |-> in1,
             outputs |-> Outputs(l, in0 \cup in1)]
  /\ UNCHANGED <<history, snaps, mem, imm, levels>>

Idle == job = NoJob /\ imm = {}

IsTrivialMove(l, in) ==
  /\ Cardinality(in[1]) = 1 /\ in[2] = {}
  /\ Size(Overlapping(Level(l + 2), RangeOf(in[1]))) <= GrandparentLimit

(* PickCompaction.  Where it starts is a matter of bytes, of the pointer   *)
(* that goes round each level and of seeks that missed: any file that has  *)
(* a level under it.  A lone file is moved down as it is, unless that      *)
(* would put it over too much of the grandparents.                         *)
PickCompaction(l, file) ==
  /\ Idle /\ l + 1 < NumLevels /\ file \in levels[l]
  /\ LET picked == IF l = 0 THEN GetOverlappingInputs(0, RangeOf({file}))
                            ELSE {file}
         in == Inputs(l, picked)
     IN  IF IsTrivialMove(l, in)
         THEN /\ Install(l, in[1], {}, in[1])
              /\ UNCHANGED <<history, snaps, mem, imm, job>>
         ELSE Compact(l, in[1], in[2])

(* CompactRange: the files of one level in a range of keys, below level 0  *)
(* no more than fill an output file.                                       *)
CompactRange(l, r) ==
  /\ Idle /\ l + 1 < NumLevels
  /\ LET files == GetOverlappingInputs(l, r)
         Earlier(f) == {g \in files : Before(Smallest(g), Smallest(f))}
         some == IF l = 0 THEN files
                 ELSE {f \in files : Size(Earlier(f)) < MaxFileSize}
         in == Inputs(l, some)
     IN  files # {} /\ Compact(l, in[1], in[2])

FinishCompaction ==
  /\ job # NoJob
  /\ Install(job.level, job.inputs, job.parents, job.outputs)
  /\ job' = NoJob
  /\ UNCHANGED <<history, snaps, mem, imm>>

-----------------------------------------------------------------------------
User ==
  \/ \E k \in Keys : Put(k) \/ Delete(k)
  \/ GetSnapshot \/ \E s \in snaps : ReleaseSnapshot(s)
  \/ SwitchMemTable

Background ==
  \/ CompactMemTable \/ FinishCompaction
  \/ \E l \in 0 .. NumLevels - 1 :
       \/ \E file \in levels[l] : PickCompaction(l, file)
       \/ \E b, e \in Keys : b <= e /\ CompactRange(l, [first |-> b, last |-> e])

Next == User \/ Background

Spec == Init /\ [][Next]_vars
-----------------------------------------------------------------------------
(* Properties *)

Entries == 1 .. MaxSeq

(* The tree's state has its type: files are never empty (builder.cc:70-76).*)
TypeOK ==
  /\ history \in Seq([key : Keys, deletion : BOOLEAN])
  /\ LastSequence <= MaxSeq /\ snaps \subseteq 0 .. LastSequence
  /\ mem \subseteq 1 .. LastSequence /\ imm \subseteq 1 .. LastSequence
  /\ levels \in [0 .. NumLevels - 1 -> SUBSET (SUBSET (1 .. LastSequence) \ {{}})]
  /\ DOMAIN job = DOMAIN NoJob /\ job.level \in -1 .. NumLevels - 2

(* What a reader is promised, whatever has been flushed, moved, merged and *)
(* dropped: the newest write of the key at or before its snapshot, unless  *)
(* that is a deletion (db_impl.cc:1100-1145, version_set.cc:326-421).      *)
Expected(k, s) ==
  LET n == Newest(1 .. LastSequence, k, s)
  IN  IF n = 0 \/ IsDeletion(n) THEN 0 ELSE n

ReadsExact ==
  \A k \in Keys : \A s \in snaps \cup {LastSequence} : Get(k, s) = Expected(k, s)

(* version_set.cc:724: "Make sure there is no overlap in levels > 0": a     *)
(* read of such a level looks at one file only, whatever was flushed while  *)
(* a compaction was at work (version_set.cc:491, 723-737, 747-749).         *)
LevelsDisjoint ==
  \A l \in 1 .. NumLevels - 1 : \A f, g \in levels[l] :
    f # g => Before(Largest(f), Smallest(g)) \/ Before(Largest(g), Smallest(f))

(* Of one key, the entries of a level are newer than those below it, and   *)
(* those in memory newer than both (version_set.cc:341-343).               *)
EntriesNeverHop ==
  LET Place(l) == UNION levels[l]
      Newer(A, B) == \A a \in A, b \in B : KeyOf(a) = KeyOf(b) => a > b
  IN  /\ Newer(mem, imm)
      /\ \A l \in 0 .. NumLevels - 1 :
           /\ Newer(mem \cup imm, Place(l))
           /\ \A d \in l + 1 .. NumLevels - 1 : Newer(Place(l), Place(d))

(* db_impl.cc:952-958: a deletion marker is dropped only when it is        *)
(* obsolete, "there is no data in higher levels" and what is being         *)
(* compacted "will be dropped": nothing the marker hid is left.            *)
DroppedMarkersHideNothing ==
  [][FinishCompaction =>
       LET left(lv) == UNION UNION {lv[l] : l \in DOMAIN lv}
       IN  \A n \in left(levels) \ left(levels') :
             IsDeletion(n) =>
               \/ \E m \in left(levels') \cup mem \cup imm :
                    m > n /\ KeyOf(m) = KeyOf(n)
               \/ \A m \in left(levels') : m < n => KeyOf(m) # KeyOf(n)]_vars
=============================================================================
