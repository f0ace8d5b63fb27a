-------------------------------- MODULE Scan ---------------------------------
(***************************************************************************)
(* leveldb's user iterator (DBIter): a scan of the tree as of a sequence   *)
(* number.  Under it, the merging iterator shows every entry the memtables *)
(* and the files hold, in their order; DBIter shows one entry per key.     *)
(* An open iterator holds its version of the tree: what it does depends on *)
(* the state it was opened in only.                                        *)
(***************************************************************************)
EXTENDS Levels

(* What the merging iterator goes through. *)
Merged == SetToSortSeq(mem \cup imm \cup UNION UNION {levels[l] : l \in DOMAIN levels},
                       Before)

(* at is the position of the merging iterator, 0 when it is off either     *)
(* end; saved the entry behind saved_key_ and saved_value_, 0 when cleared.*)
Iterator(at, forward, saved, valid) ==
  [at |-> at, forward |-> forward, saved |-> saved, valid |-> valid]

Exhausted == Iterator(0, TRUE, 0, FALSE)

(* key() and value(). *)
Shown(es, it) == IF it.forward THEN es[it.at] ELSE it.saved

(* From position at on, the first entry that is old enough, no deletion,   *)
(* and not of a key to be skipped: skip's, if there is one, or that of the *)
(* last deletion passed.                                                   *)
FindNextUserEntry(es, s, at, skip) ==
  LET visible == {i \in at .. Len(es) : es[i] <= s}
      SkipAt(i) == LET passed == {j \in visible : j < i /\ IsDeletion(es[j])}
                   IN  IF passed = {} THEN skip ELSE es[Max(passed)]
      Yields(i) == /\ ~IsDeletion(es[i])
                   /\ SkipAt(i) = 0 \/ KeyOf(es[i]) > KeyOf(SkipAt(i))
      found == {i \in visible : Yields(i)}
  IN  IF at = 0 \/ found = {} THEN Exhausted ELSE Iterator(Min(found), TRUE, 0, TRUE)

(* Wrong: entries newer than the iterator's sequence number count.         *)
FindPrevTooNew(es, s, at) ==
  LET stop == Max({0} \cup {i \in 1 .. at - 1 : KeyOf(es[i]) < KeyOf(es[i + 1])
                                                /\ ~IsDeletion(es[i + 1])})
  IN  IF at = 0 \/ IsDeletion(es[stop + 1]) THEN Exhausted
      ELSE Iterator(stop, FALSE, es[stop + 1], TRUE)

(* From position at back, to the first entry of an earlier key after one   *)
(* that is no deletion; what it passed last is what is shown.              *)
FindPrevUserEntry(es, s, at) ==
  LET visible == {i \in 1 .. at : es[i] <= s}
      After(i) == Min({j \in visible : j > i})
      stop == Max({0} \cup {i \in visible \ {Max(visible)} :
                              /\ ~IsDeletion(es[After(i)])
                              /\ KeyOf(es[i]) < KeyOf(es[After(i)])})
  IN  IF visible = {} \/ IsDeletion(es[After(stop)]) THEN Exhausted
      ELSE Iterator(stop, FALSE, es[After(stop)], TRUE)

SeekToFirst(es, s) == FindNextUserEntry(es, s, IF es = <<>> THEN 0 ELSE 1, 0)

SeekToLast(es, s) == FindPrevUserEntry(es, s, Len(es))

(* To the first entry of k that s can see, or whatever comes after it. *)
Seek(es, s, k) ==
  LET ahead == {i \in 1 .. Len(es) :
                  KeyOf(es[i]) > k \/ (KeyOf(es[i]) = k /\ es[i] <= s)}
  IN  FindNextUserEntry(es, s, IF ahead = {} THEN 0 ELSE Min(ahead), 0)

(* Going backwards, the merging iterator stands just before the entries of *)
(* the key shown: turning round, it steps into them.                       *)
MoveNext(es, s, it) ==
  LET turned == IF it.at = Len(es) THEN 0 ELSE it.at + 1
  IN  IF it.forward THEN FindNextUserEntry(es, s, it.at, es[it.at])
      ELSE FindNextUserEntry(es, s, turned, it.saved)

(* Going forward, it stands on the entry shown: turning round, it leaves   *)
(* the entries of that key first.                                          *)
MovePrev(es, s, it) ==
  LET earlier == {i \in 1 .. it.at : KeyOf(es[i]) < KeyOf(es[it.at])}
      turned == Max({0} \cup earlier)
  IN  IF it.forward THEN FindPrevUserEntry(es, s, turned)
      ELSE FindPrevUserEntry(es, s, it.at)

-----------------------------------------------------------------------------
(* A scan at a live snapshot, or at the last write, shows each key that is *)
(* there with its newest visible value, and no other, in both directions   *)
(* and through every turn: Next goes to the next such key and Prev to the  *)
(* one before, wherever the iterator was sought (db_iter.cc:143-309).      *)
ScansExact ==
  LET es == Merged
      Turns(s, its) ==
        its \cup UNION {{MoveNext(es, s, it), MovePrev(es, s, it)} :
                          it \in {i \in its : i.valid}}
      Shows(it, n) == IF n = 0 THEN ~it.valid ELSE it.valid /\ Shown(es, it) = n
      Exact(s) ==
        LET there == {k \in Keys : Expected(k, s) # 0}
            Lowest(ks) == IF ks = {} THEN 0 ELSE Expected(Min(ks), s)
            Highest(ks) == IF ks = {} THEN 0 ELSE Expected(Max(ks), s)
            sought == {SeekToFirst(es, s), SeekToLast(es, s)}
                      \cup {Seek(es, s, k) : k \in Keys}
        IN  /\ Shows(SeekToFirst(es, s), Lowest(there))
            /\ Shows(SeekToLast(es, s), Highest(there))
            /\ \A k \in Keys : Shows(Seek(es, s, k), Lowest({i \in there : i >= k}))
            /\ \A it \in Turns(s, Turns(s, sought)) : it.valid =>
                 LET k == KeyOf(Shown(es, it))
                 IN  /\ Shows(MoveNext(es, s, it), Lowest({i \in there : i > k}))
                     /\ Shows(MovePrev(es, s, it), Highest({i \in there : i < k}))
  IN  \A s \in snaps \cup {LastSequence} : Exact(s)
=============================================================================
