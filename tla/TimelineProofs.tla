--------------------------- MODULE TimelineProofs ---------------------------
(***************************************************************************)
(* Proofs about one timeline screen, for any posts, users, authors,        *)
(* timestamps and bound on the rows: the state keeps its type, the table   *)
(* mirrors the view model, only own posts are ever asked to be removed, an *)
(* open Delete button stays on its post, and the screen is a bag of rows.  *)
(***************************************************************************)
EXTENDS Timeline, FiniteSetTheorems, SequenceTheorems, WellFoundedInduction,
        TLAPS

-----------------------------------------------------------------------------
(* What the two edits by index do to a sequence. *)

(* Inserting an element shifts what follows by one place. *)
LEMMA InsertAtProperties ==
  ASSUME NEW S, NEW s \in Seq(S), NEW e \in S, NEW i \in 1 .. Len(s) + 1
  PROVE  /\ InsertAt(s, i, e) \in Seq(S)
         /\ Len(InsertAt(s, i, e)) = Len(s) + 1
         /\ InsertAt(s, i, e)[i] = e
         /\ \A j \in 1 .. i - 1 : InsertAt(s, i, e)[j] = s[j]
         /\ \A j \in i .. Len(s) : InsertAt(s, i, e)[j + 1] = s[j]
<1> DEFINE before == SubSeq(s, 1, i - 1)
           after == SubSeq(s, i, Len(s))
<1>1. /\ before \in Seq(S) /\ Len(before) = i - 1
      /\ \A j \in 1 .. i - 1 : before[j] = s[j]
  BY SubSeqProperties
<1>2. /\ after \in Seq(S) /\ Len(after) = Len(s) - i + 1
      /\ \A j \in 1 .. Len(s) - i + 1 : after[j] = s[i + j - 1]
  BY SubSeqProperties
<1>3. InsertAt(s, i, e) = before \o <<e>> \o after
  BY DEF InsertAt
<1> HIDE DEF before, after
<1>4. /\ before \o <<e>> \in Seq(S) /\ Len(before \o <<e>>) = i
      /\ (before \o <<e>>)[i] = e
      /\ \A j \in 1 .. i - 1 : (before \o <<e>>)[j] = s[j]
  BY <1>1
<1> DEFINE front == before \o <<e>>
<1>5. InsertAt(s, i, e) = front \o after
  BY <1>3
<1> HIDE DEF front
<1>6. /\ front \in Seq(S) /\ Len(front) = i /\ front[i] = e
      /\ \A j \in 1 .. i - 1 : front[j] = s[j]
  BY <1>4 DEF front
<1>7. /\ front \o after \in Seq(S)
      /\ Len(front \o after) = Len(front) + Len(after)
      /\ \A j \in 1 .. Len(front) + Len(after) :
           (front \o after)[j] = IF j <= Len(front) THEN front[j]
                                 ELSE after[j - Len(front)]
  BY <1>2, <1>6, ConcatProperties
<1>8. \A j \in i .. Len(s) : after[(j + 1) - i] = s[j]
  BY <1>2
<1>9. Len(front) + Len(after) = Len(s) + 1
  BY <1>2, <1>6
<1>10. \A j \in 1 .. i : (front \o after)[j] = front[j]
  BY <1>2, <1>6, <1>7
<1>11. \A j \in i .. Len(s) : (front \o after)[j + 1] = s[j]
  BY <1>2, <1>6, <1>7, <1>8
<1> QED
  BY <1>5, <1>6, <1>7, <1>9, <1>10, <1>11

(* Removing an element moves what follows one place down. *)
LEMMA RemoveAtProperties ==
  ASSUME NEW S, NEW s \in Seq(S), NEW i \in 1 .. Len(s)
  PROVE  /\ RemoveAt(s, i) \in Seq(S)
         /\ Len(RemoveAt(s, i)) = Len(s) - 1
         /\ \A j \in 1 .. i - 1 : RemoveAt(s, i)[j] = s[j]
         /\ \A j \in i + 1 .. Len(s) : RemoveAt(s, i)[j - 1] = s[j]
<1> DEFINE before == SubSeq(s, 1, i - 1)
           after == SubSeq(s, i + 1, Len(s))
<1>1. /\ before \in Seq(S) /\ Len(before) = i - 1
      /\ \A j \in 1 .. i - 1 : before[j] = s[j]
  BY SubSeqProperties
<1>2. /\ after \in Seq(S) /\ Len(after) = Len(s) - i
      /\ \A j \in 1 .. Len(s) - i : after[j] = s[i + j]
  BY SubSeqProperties
<1>3. RemoveAt(s, i) = before \o after
  BY DEF RemoveAt
<1> HIDE DEF before, after
<1>4. /\ before \o after \in Seq(S) /\ Len(before \o after) = Len(s) - 1
      /\ \A j \in 1 .. i - 1 : (before \o after)[j] = before[j]
      /\ \A j \in i .. Len(s) - 1 : (before \o after)[j] = after[j - i + 1]
  BY <1>1, <1>2, ConcatProperties
<1>5. \A j \in i + 1 .. Len(s) : after[(j - 1) - i + 1] = s[j]
  BY <1>2
<1> QED
  BY <1>1, <1>3, <1>4, <1>5

(* A non-empty set of naturals has a least element. *)
LEMMA MinProperties ==
  ASSUME NEW I \in SUBSET Nat, I # {}
  PROVE  Min(I) \in I /\ \A j \in I : Min(I) <= j
<1>1. PICK x \in I : \A y \in I : ~ (<<y, x>> \in OpToRel(<, Nat))
  BY NatLessThanWellFounded, WFMin
<1>2. ASSUME NEW y \in I PROVE ~ (y < x)
  <2>1. <<y, x>> \in Nat \X Nat /\ <<y, x>>[1] = y /\ <<y, x>>[2] = x
    OBVIOUS
  <2> QED
    BY <1>1, <2>1, Zenon DEF OpToRel
<1>3. \A y \in I : x <= y
  BY <1>2
<1> QED
  BY <1>3 DEF Min

(* firstIndex is the first position of the post, or 0 (nil). *)
LEMMA FirstIndexProperties ==
  ASSUME NEW s \in Seq(Posts), NEW p, FirstIndex(s, p) # 0
  PROVE  FirstIndex(s, p) \in 1 .. Len(s) /\ s[FirstIndex(s, p)] = p
<1> DEFINE I == {i \in 1 .. Len(s) : s[i] = p}
<1>1. FirstIndex(s, p) = IF I # {} THEN Min(I) ELSE 0
  BY DEF FirstIndex, SelectInSeq
<1>2. I # {} /\ FirstIndex(s, p) = Min(I)
  BY <1>1
<1>3. I \in SUBSET Nat
  OBVIOUS
<1> QED
  BY <1>2, <1>3, MinProperties
-----------------------------------------------------------------------------
(* A sorted load is a sequence of posts. *)
LEMMA SetToSeqsType ==
  ASSUME NEW S \in SUBSET Posts, NEW s \in SetToSeqs(S)
  PROVE  s \in Seq(Posts)
<1>1. Cardinality(S) \in Nat
  BY PostsAssumption, FS_Subset, FS_CardinalityType
<1>2. s \in [1 .. Cardinality(S) -> Posts]
  BY DEF SetToSeqs
<1> QED
  BY <1>1, <1>2, IsASeq

(* An open Delete button is on an own post: what CommitDelete relies on,   *)
(* since it does not look at the author again.                             *)
SwipedIsOwn == swipe # 0 => canErasePostAt(swipe)

(* The inductive invariant.  RowsMirrorPosts makes the row the user sees   *)
(* and the post the index finds the same; SwipedIsOwn carries the check of *)
(* canEditRowAt over the insertions and removals up to the tap.            *)
IInv == TypeOK /\ RowsMirrorPosts /\ SwipedIsOwn /\ OnlyOwnRequested

LEMMA InitIInv == Init => IInv
  BY DEF Init, IInv, TypeOK, RowsMirrorPosts, SwipedIsOwn, OnlyOwnRequested

LEMMA FeedAddedIInv ==
  ASSUME IInv, NEW p \in Posts, FeedAdded(p)
  PROVE  IInv'
<1> USE DEF IInv, TypeOK, RowsMirrorPosts, SwipedIsOwn, OnlyOwnRequested,
            canErasePostAt
<1>1. /\ posts' \in Seq(Posts) /\ Len(posts') = Len(posts) + 1 /\ posts'[1] = p
      /\ \A j \in 1 .. Len(posts) : posts'[j + 1] = posts[j]
  <2>1. 1 \in 1 .. Len(posts) + 1 /\ posts' = InsertAt(posts, 1, p)
    BY DEF FeedAdded
  <2> QED
    BY <2>1, InsertAtProperties
<1>2. table' = posts'
  BY <1>1 DEF FeedAdded, InsertRow, insertIndex
<1>3. swipe' \in 0 .. Len(table')
  BY <1>1, <1>2 DEF FeedAdded, insertIndex
<1>4. swipe' # 0 => Author[posts'[swipe']] = user'
  BY <1>1 DEF FeedAdded, insertIndex
<1> QED
  BY <1>1, <1>2, <1>3, <1>4 DEF FeedAdded

LEMMA FeedRemovedIInv ==
  ASSUME IInv, NEW p \in Posts, FeedRemoved(p)
  PROVE  IInv'
<1> USE DEF IInv, TypeOK, RowsMirrorPosts, SwipedIsOwn, OnlyOwnRequested,
            canErasePostAt
<1> DEFINE index == FirstIndex(posts, p)
<1>1. index \in 1 .. Len(posts)
  BY FirstIndexProperties DEF FeedRemoved
<1>2. /\ posts' = RemoveAt(posts, index) /\ table' = RemoveAt(table, index)
      /\ swipe' = CASE swipe = index -> 0
                    [] swipe > index -> swipe - 1
                    [] swipe < index -> swipe
      /\ UNCHANGED <<phase, user, requested>>
  BY DEF FeedRemoved, DeleteRow
<1> HIDE DEF index
<1>3. /\ posts' \in Seq(Posts) /\ Len(posts') = Len(posts) - 1
      /\ \A j \in 1 .. index - 1 : posts'[j] = posts[j]
      /\ \A j \in index + 1 .. Len(posts) : posts'[j - 1] = posts[j]
  BY <1>1, <1>2, RemoveAtProperties
<1>4. \/ swipe' = 0
      \/ swipe > index /\ swipe' = swipe - 1
      \/ swipe < index /\ swipe' = swipe
  BY <1>1, <1>2
<1>5. swipe' \in 0 .. Len(table')
  BY <1>1, <1>2, <1>3, <1>4
<1>6. swipe' # 0 => posts'[swipe'] = posts[swipe] /\ swipe # 0
  BY <1>1, <1>3, <1>4
<1> QED
  BY <1>2, <1>3, <1>5, <1>6

LEMMA NextIInv == IInv /\ [Next]_vars => IInv'
<1> SUFFICES ASSUME IInv, [Next]_vars PROVE IInv'
  OBVIOUS
<1> USE DEF IInv, TypeOK, RowsMirrorPosts, SwipedIsOwn, OnlyOwnRequested,
            canErasePostAt
<1>1. ASSUME NEW u \in Users, Open(u) PROVE IInv'
  BY <1>1 DEF Open
<1>2. ASSUME NEW S \in SUBSET Posts, Load(S) PROVE IInv'
  BY <1>2, SetToSeqsType DEF Load, ReloadData
<1>3. CASE Fail
  BY <1>3 DEF Fail
<1>4. CASE Dismiss
  BY <1>4 DEF Dismiss
<1>5. CASE CommitDelete
  <2>1. posts[swipe] \in Posts /\ Author[posts[swipe]] = user
    BY <1>5 DEF CommitDelete
  <2> QED
    BY <1>5, <2>1 DEF CommitDelete
<1>6. CASE Logout
  BY <1>6 DEF Logout
<1>7. ASSUME NEW p \in Posts, FeedAdded(p) PROVE IInv'
  BY <1>7, FeedAddedIInv
<1>8. ASSUME NEW p \in Posts, FeedRemoved(p) PROVE IInv'
  BY <1>8, FeedRemovedIInv
<1>9. ASSUME NEW index \in DOMAIN table, Swipe(index) PROVE IInv'
  BY <1>9 DEF Swipe
<1>10. CASE UNCHANGED vars
  BY <1>10 DEF vars
<1> QED
  BY <1>1, <1>2, <1>3, <1>4, <1>5, <1>6, <1>7, <1>8, <1>9, <1>10 DEF Next

LEMMA IInvInvariant == Spec => []IInv
<1> QED
  BY InitIInv, NextIInv, PTL DEF Spec

(* The screen's state keeps its type, for any number of posts and rows. *)
THEOREM TypeCorrect == Spec => []TypeOK
<1>1. IInv => TypeOK
  BY DEF IInv
<1> QED
  BY IInvInvariant, <1>1, PTL

(* The table always shows the view model's posts, row by row: no index the *)
(* table passes back can be out of bounds or name another post than the    *)
(* one its cell displays.                                                  *)
THEOREM RowsAlwaysMirror == Spec => []RowsMirrorPosts
<1>1. IInv => RowsMirrorPosts
  BY DEF IInv
<1> QED
  BY IInvInvariant, <1>1, PTL

(* No user ever asks for the removal of another user's post, however the   *)
(* feed moves the rows between his swipe and his tap.                      *)
THEOREM OnlyOwnEverRequested == Spec => []OnlyOwnRequested
<1>1. IInv => OnlyOwnRequested
  BY DEF IInv
<1> QED
  BY IInvInvariant, <1>1, PTL

(* An open Delete button never comes to act on another post. *)
THEOREM ButtonAlwaysStays == Spec => ButtonStaysOnPost
<1>1. IInv /\ [Next]_vars =>
        [swipe # 0 /\ swipe' # 0 => posts'[swipe'] = table[swipe]]_vars
  <2> SUFFICES ASSUME IInv, Next, swipe # 0, swipe' # 0
               PROVE  posts'[swipe'] = table[swipe]
    BY DEF vars
  <2> USE DEF IInv, TypeOK, RowsMirrorPosts
  <2>1. ASSUME NEW p \in Posts, FeedAdded(p)
        PROVE  posts'[swipe'] = table[swipe]
    <3>1. /\ posts' = InsertAt(posts, 1, p) /\ swipe' = swipe + 1
          /\ swipe \in 1 .. Len(posts)
      BY <2>1 DEF FeedAdded, insertIndex
    <3>2. posts'[swipe + 1] = posts[swipe]
      BY <3>1, InsertAtProperties
    <3> QED
      BY <2>1, <3>1, <3>2, FeedAddedIInv
  <2>2. ASSUME NEW p \in Posts, FeedRemoved(p)
        PROVE  posts'[swipe'] = table[swipe]
    <3> DEFINE index == FirstIndex(posts, p)
    <3>1. index \in 1 .. Len(posts)
      BY <2>2, FirstIndexProperties DEF FeedRemoved
    <3>2. /\ posts' = RemoveAt(posts, index)
          /\ swipe' = CASE swipe = index -> 0
                        [] swipe > index -> swipe - 1
                        [] swipe < index -> swipe
      BY <2>2 DEF FeedRemoved
    <3> HIDE DEF index
    <3>3. \/ swipe > index /\ swipe' = swipe - 1
          \/ swipe < index /\ swipe' = swipe
      BY <3>1, <3>2
    <3>4. /\ \A j \in 1 .. index - 1 : posts'[j] = posts[j]
          /\ \A j \in index + 1 .. Len(posts) : posts'[j - 1] = posts[j]
      BY <3>1, <3>2, RemoveAtProperties
    <3> QED
      BY <3>1, <3>3, <3>4
  <2>3. ASSUME NEW u \in Users, Open(u) PROVE FALSE
    BY <2>3 DEF Open
  <2>4. ASSUME NEW S \in SUBSET Posts, Load(S) PROVE FALSE
    BY <2>4 DEF Load
  <2>5. Fail => posts'[swipe'] = table[swipe]
    BY DEF Fail
  <2>6. ~Dismiss /\ ~CommitDelete /\ ~Logout
    BY DEF Dismiss, CommitDelete, Logout
  <2>7. ASSUME NEW index \in DOMAIN table, Swipe(index) PROVE FALSE
    BY <2>7 DEF Swipe
  <2> QED
    BY <2>1, <2>2, <2>3, <2>4, <2>5, <2>6, <2>7 DEF Next
<1> QED
  BY IInvInvariant, <1>1, PTL DEF Spec, ButtonStaysOnPost

-----------------------------------------------------------------------------
(* The screen implements the bag of rows *)

(* The positions of q in s; Copies(q) is their number. *)
Places(s, q) == {i \in DOMAIN s : s[i] = q}

LEMMA PlacesFinite ==
  ASSUME NEW S, NEW s \in Seq(S), NEW q
  PROVE  /\ Places(s, q) \subseteq 1 .. Len(s) /\ IsFiniteSet(Places(s, q))
         /\ Cardinality(Places(s, q)) \in Nat
<1>1. Places(s, q) \subseteq 1 .. Len(s) BY LenProperties DEF Places
<1>2. IsFiniteSet(1 .. Len(s)) BY FS_Interval
<1> QED BY <1>1, <1>2, FS_Subset, FS_CardinalityType

(* Sets of places that correspond one to one have as many elements. *)
LEMMA SameNumber ==
  ASSUME NEW I, NEW J, IsFiniteSet(I), NEW f \in [I -> J],
         \A i, k \in I : f[i] = f[k] => i = k,
         \A j \in J : \E i \in I : f[i] = j
  PROVE  Cardinality(J) = Cardinality(I)
<1>1. f \in Bijection(I, J)
  BY DEF Bijection, Injection, Surjection, IsInjective
<1> QED BY <1>1, FS_Bijection DEF ExistsBijection

(* An insertion at the top adds one place, of the post inserted. *)
LEMMA InsertedPlaces ==
  ASSUME NEW s \in Seq(Posts), NEW p \in Posts, NEW q \in Posts
  PROVE  Cardinality(Places(InsertAt(s, 1, p), q)) =
           IF q = p THEN Cardinality(Places(s, q)) + 1 ELSE Cardinality(Places(s, q))
<1> DEFINE t == InsertAt(s, 1, p)
           I == Places(s, q)
           J == Places(t, q) \ {1}
           f == [i \in I |-> i + 1]
<1>1. /\ t \in Seq(Posts) /\ Len(t) = Len(s) + 1 /\ t[1] = p
      /\ \A j \in 1 .. Len(s) : t[j + 1] = s[j]
  <2>1. 1 \in 1 .. Len(s) + 1 OBVIOUS
  <2> QED BY <2>1, InsertAtProperties
<1> HIDE DEF t
<1>2. IsFiniteSet(I) /\ I \subseteq 1 .. Len(s) /\ IsFiniteSet(Places(t, q))
  BY <1>1, PlacesFinite
<1>3. f \in [I -> J] BY <1>1, <1>2 DEF Places
<1>4. \A i, k \in I : f[i] = f[k] => i = k BY <1>2
<1>5. ASSUME NEW j \in J PROVE \E i \in I : f[i] = j
  <2>1. j \in 2 .. Len(s) + 1 /\ t[j] = q BY <1>1 DEF Places
  <2>2. j - 1 \in 1 .. Len(s) /\ t[(j - 1) + 1] = s[j - 1] BY <1>1, <2>1
  <2>3. j - 1 \in I BY <2>1, <2>2 DEF Places
  <2> QED BY <2>1, <2>3
<1>6. Cardinality(J) = Cardinality(I)
  <2> HIDE DEF I, J, f
  <2> QED BY <1>2, <1>3, <1>4, <1>5, SameNumber
<1>7. 1 \in Places(t, q) <=> q = p BY <1>1 DEF Places
<1>8. Cardinality(J) = IF q = p THEN Cardinality(Places(t, q)) - 1
                       ELSE Cardinality(Places(t, q))
  BY <1>2, <1>7, FS_RemoveElement
<1>9. Cardinality(Places(t, q)) \in Nat /\ Cardinality(I) \in Nat
  BY <1>1, PlacesFinite
<1> QED BY <1>6, <1>8, <1>9 DEF t

(* A removal takes one place, of the post that was there. *)
LEMMA RemovedPlaces ==
  ASSUME NEW s \in Seq(Posts), NEW n \in 1 .. Len(s), NEW q \in Posts
  PROVE  Cardinality(Places(RemoveAt(s, n), q)) =
           IF q = s[n] THEN Cardinality(Places(s, q)) - 1
           ELSE Cardinality(Places(s, q))
<1> DEFINE t == RemoveAt(s, n)
           I == Places(s, q) \ {n}
           J == Places(t, q)
           f == [i \in I |-> IF i < n THEN i ELSE i - 1]
<1>1. /\ t \in Seq(Posts) /\ Len(t) = Len(s) - 1
      /\ \A j \in 1 .. n - 1 : t[j] = s[j]
      /\ \A j \in n + 1 .. Len(s) : t[j - 1] = s[j]
  BY RemoveAtProperties
<1> HIDE DEF t
<1>2. IsFiniteSet(I) /\ I \subseteq 1 .. Len(s) /\ IsFiniteSet(Places(s, q))
  BY PlacesFinite, FS_RemoveElement
<1>3. f \in [I -> J]
  <2> SUFFICES ASSUME NEW i \in I PROVE f[i] \in J OBVIOUS
  <2>1. i \in 1 .. Len(s) /\ i # n /\ s[i] = q BY <1>2 DEF Places
  <2>2. CASE i < n
    <3>1. f[i] = i /\ i \in 1 .. n - 1 /\ i \in 1 .. Len(s) - 1 BY <2>1, <2>2
    <3> QED BY <1>1, <2>1, <3>1 DEF Places
  <2>3. CASE i > n
    <3>1. f[i] = i - 1 /\ i \in n + 1 .. Len(s) /\ i - 1 \in 1 .. Len(s) - 1
      BY <2>1, <2>3
    <3> QED BY <1>1, <2>1, <3>1 DEF Places
  <2> QED BY <2>1, <2>2, <2>3
<1>4. \A i, k \in I : f[i] = f[k] => i = k BY <1>2
<1>5. ASSUME NEW j \in J PROVE \E i \in I : f[i] = j
  <2>1. j \in 1 .. Len(s) - 1 /\ t[j] = q BY <1>1 DEF Places
  <2>2. CASE j < n
    <3>1. j \in I BY <1>1, <2>1, <2>2 DEF Places
    <3> QED BY <2>2, <3>1
  <2>3. CASE j >= n
    <3>1. j + 1 \in n + 1 .. Len(s) /\ t[(j + 1) - 1] = s[j + 1] BY <1>1, <2>1, <2>3
    <3>2. j + 1 \in I BY <2>1, <3>1 DEF Places
    <3> QED BY <2>1, <2>3, <3>2
  <2> QED BY <2>1, <2>2, <2>3
<1>6. Cardinality(J) = Cardinality(I)
  <2> HIDE DEF I, J, f
  <2> QED BY <1>2, <1>3, <1>4, <1>5, SameNumber
<1>7. n \in Places(s, q) <=> q = s[n] BY DEF Places
<1>8. Cardinality(I) = IF q = s[n] THEN Cardinality(Places(s, q)) - 1
                       ELSE Cardinality(Places(s, q))
  BY <1>2, <1>7, FS_RemoveElement
<1> QED BY <1>6, <1>8 DEF t

(* A load lists each post of the snapshot once. *)
LEMMA LoadedPlaces ==
  ASSUME NEW S \in SUBSET Posts, NEW s \in SetToSeqs(S), NEW q \in Posts
  PROVE  Cardinality(Places(s, q)) = IF q \in S THEN 1 ELSE 0
<1> DEFINE n == Cardinality(S)
<1>1. IsFiniteSet(S) /\ n \in Nat BY PostsAssumption, FS_Subset, FS_CardinalityType
<1> HIDE DEF n
<1>2. s \in [1 .. n -> S] /\ \A i, j \in 1 .. n : i # j => s[i] # s[j]
  BY DEF SetToSeqs, n
<1>3. \A r \in S : \E i \in 1 .. n : s[i] = r
  <2>1. s \in Injection(1 .. n, S) BY <1>2 DEF Injection, IsInjective
  <2>2. Cardinality(1 .. n) = n BY <1>1, FS_Interval
  <2>3. s \in Surjection(1 .. n, S) BY <1>1, <2>1, <2>2, FS_Injection DEF n
  <2> QED BY <2>3 DEF Surjection
<1>4. CASE q \in S
  <2>1. PICK i \in 1 .. n : s[i] = q BY <1>3, <1>4
  <2>2. Places(s, q) = {i} BY <1>2, <2>1 DEF Places
  <2> QED BY <1>4, <2>2, FS_Singleton
<1>5. CASE q \notin S
  <2>1. Places(s, q) = {} BY <1>2, <1>5 DEF Places
  <2> QED BY <1>5, <2>1, FS_EmptySet
<1> QED BY <1>4, <1>5

(* Initially there are no rows, *)
LEMMA RowsInit == Init => Bag!Init
<1> SUFFICES ASSUME Init PROVE Bag!Init OBVIOUS
<1>1. ASSUME NEW p \in Posts PROVE Copies(p) = 0
  <2>1. {i \in DOMAIN posts : posts[i] = p} = {} BY DEF Init
  <2> QED BY <2>1, FS_EmptySet DEF Copies
<1> QED BY <1>1 DEF Init, Bag!Init, Bag!NoRows

(* and every step is one of the bag's, or leaves it as it is. *)
LEMMA RowsStep == IInv /\ [Next]_vars => [Bag!Next]_(Bag!vars)
<1> SUFFICES ASSUME IInv, [Next]_vars PROVE [Bag!Next]_(Bag!vars) OBVIOUS
<1> DEFINE r == [p \in Posts |-> Copies(p)]
<1>1. posts \in Seq(Posts) BY DEF IInv, TypeOK
<1>2. \A q \in Posts : /\ Copies(q) = Cardinality(Places(posts, q))
                       /\ Copies(q)' = Cardinality(Places(posts', q))
  BY DEF Copies, Places
<1>3. (posts' = <<>>) => r' = Bag!NoRows
  <2> SUFFICES ASSUME posts' = <<>>, NEW p \in Posts PROVE Copies(p)' = 0
    BY DEF Bag!NoRows
  <2>1. Places(posts', p) = {} BY DEF Places
  <2> QED BY <1>2, <2>1, FS_EmptySet
<1>4. posts' = posts => r' = r BY <1>2
<1>5. ASSUME NEW p \in Posts, FeedAdded(p) PROVE Bag!Insert(p)
  <2>1. posts' = InsertAt(posts, 1, p) /\ phase = "live" /\ phase' = phase
    BY <1>5 DEF FeedAdded
  <2>2. ASSUME NEW q \in Posts
        PROVE  Copies(q)' = IF q = p THEN Copies(q) + 1 ELSE Copies(q)
    BY <1>1, <1>2, <2>1, InsertedPlaces
  <2>3. r' = [r EXCEPT ![p] = @ + 1] BY <2>2
  <2> QED BY <2>1, <2>3 DEF Bag!Insert
<1>6. ASSUME NEW p \in Posts, FeedRemoved(p) PROVE Bag!Drop(p)
  <2> DEFINE n == FirstIndex(posts, p)
  <2>1. /\ posts' = RemoveAt(posts, n) /\ phase = "live" /\ phase' = phase
        /\ n \in 1 .. Len(posts) /\ posts[n] = p
    BY <1>1, <1>6, FirstIndexProperties DEF FeedRemoved
  <2> HIDE DEF n
  <2>2. ASSUME NEW q \in Posts
        PROVE  Copies(q)' = IF q = p THEN Copies(q) - 1 ELSE Copies(q)
    BY <1>1, <1>2, <2>1, RemovedPlaces
  <2>3. r' = [r EXCEPT ![p] = @ - 1] BY <2>2
  <2>4. Copies(p) > 0
    <3>1. n \in Places(posts, p) BY <2>1 DEF Places
    <3>2. Places(posts, p) # {} BY <3>1
    <3>3. IsFiniteSet(Places(posts, p)) /\ Cardinality(Places(posts, p)) \in Nat
      BY <1>1, PlacesFinite
    <3> QED BY <1>2, <3>2, <3>3, FS_EmptySet
  <2> QED BY <2>1, <2>3, <2>4 DEF Bag!Drop
<1>7. ASSUME NEW S \in SUBSET Posts, Load(S) PROVE Bag!Load(S)
  <2>1. posts' \in SetToSeqs(S) /\ phase = "loading" /\ phase' = "live"
    BY <1>7 DEF Load
  <2>2. ASSUME NEW q \in Posts PROVE Copies(q)' = IF q \in S THEN 1 ELSE 0
    BY <1>2, <2>1, LoadedPlaces
  <2> QED BY <2>1, <2>2 DEF Bag!Load, Bag!OneRowEach
<1>8. ASSUME NEW u \in Users, Open(u) PROVE Bag!Open
  BY <1>3, <1>8 DEF Open, Bag!Open
<1>9. Fail => Bag!Fail BY <1>4 DEF Fail, Bag!Fail
<1>10. Logout => Bag!Close BY <1>3 DEF Logout, Bag!Close
<1>11. ASSUME \/ Dismiss \/ CommitDelete \/ UNCHANGED vars
              \/ \E index \in DOMAIN table : Swipe(index)
       PROVE  UNCHANGED Bag!vars
  <2>1. posts' = posts /\ phase' = phase
    BY <1>11 DEF Dismiss, CommitDelete, Swipe, vars
  <2> QED BY <1>4, <2>1 DEF Bag!vars
<1> HIDE DEF r
<1> QED
  BY <1>5, <1>6, <1>7, <1>8, <1>9, <1>10, <1>11 DEF Next, Bag!Next

(* The screen implements Rows, for any posts and any feed: every event of  *)
(* the feed changes the number of rows of its own post by one, however     *)
(* often the post is listed (TimelineViewModel.swift:64-97).               *)
THEOREM TimelineImplementsRows == Spec => ImplementsRows
<1> QED BY RowsInit, RowsStep, IInvInvariant, PTL DEF Spec, ImplementsRows, Bag!Spec
=============================================================================
