------------------------------ MODULE Timeline ------------------------------
(***************************************************************************)
(* One timeline screen: TimelineViewModel's array of posts and the rows    *)
(* TimelineViewController keeps in its table view.  The table is updated   *)
(* by index path only, and the user's swipe names a row, not a post, so    *)
(* both depend on the two lists never drifting apart.                      *)
(*                                                                         *)
(* The feed (Firebase's load and live events) is the environment here: any *)
(* post may be announced or removed at any time, more than once.           *)
(* PostsSync.tla says which of these feeds the backend really produces.    *)
(*                                                                         *)
(* Everything below runs on the main thread, one callback at a time; an    *)
(* action is one callback.                                                 *)
(***************************************************************************)
EXTENDS Integers, Sequences, SequencesExt

CONSTANTS Posts,       \* database keys
          Users,       \* usernames
          Author,      \* Author[p]: the "user" field of post p
          Timestamp,   \* Timestamp[p]: the "timestamp" field of post p
          MaxRows      \* bound on the rows of the screen (TLC only)

ASSUME PostsAssumption == IsFiniteSet(Posts)
ASSUME AuthorAssumption == Author \in [Posts -> Users]
ASSUME TimestampAssumption == Timestamp \in [Posts -> Nat]
ASSUME MaxRowsAssumption == MaxRows \in Nat

VARIABLES
  phase,      \* "closed", "loading", "live" or "failed"
  user,       \* viewModel.user: who signed in last
  posts,      \* viewModel.posts
  table,      \* the rows the table view shows: the post each cell displays
  swipe,      \* the row whose Delete button is out, 0 if there is none
  requested   \* <<u, p>>: removePost(p) was called while u was signed in

vars == <<phase, user, posts, table, swipe, requested>>

-----------------------------------------------------------------------------
(* TimelineViewModel *)

(* Wrong: the new row goes to the end. *)
AppendIndex == Len(posts) + 1

(* TLA+ counts from 1: the view model's insertIndex is 0. *)
insertIndex == 1

FirstIndex(s, p) == SelectInSeq(s, LAMBDA q : q = p)

canErasePostAt(index) == Author[posts[index]] = user

(* sorted(by:) on the snapshot's dictionary: any order of it that descends *)
(* (the sort is not stable, and the dictionary has no order of its own).   *)
SortedDescending(s) ==
  \A i, j \in DOMAIN s : i < j => Timestamp[s[i]] >= Timestamp[s[j]]

-----------------------------------------------------------------------------
(* UITableView, told by index path only *)

(* insertRows: the data source is asked for the new row's post. *)
InsertRow(index) == table' = InsertAt(table, index, posts'[index])

DeleteRow(index) == table' = RemoveAt(table, index)

(* Wrong: the table is not told of the load. *)
KeepRows == UNCHANGED table

(* reloadData: every row is asked for again. *)
ReloadData == table' = posts'

-----------------------------------------------------------------------------
Init ==
  /\ phase = "closed" /\ user \in Users
  /\ posts = <<>> /\ table = <<>>
  /\ swipe = 0 /\ requested = {}

(* A sign-in pushes a new screen with a new view model; viewDidLoad asks   *)
(* for all posts.                                                          *)
Open(u) ==
  /\ phase = "closed"
  /\ phase' = "loading" /\ user' = u
  /\ posts' = <<>> /\ table' = <<>> /\ swipe' = 0
  /\ UNCHANGED requested

(* The load succeeds: retrieveAllPosts stores the sorted posts, then the   *)
(* controller reloads the table and starts the live updates.               *)
Load(snapshot) ==
  /\ phase = "loading"
  /\ posts' \in {s \in SetToSeqs(snapshot) : SortedDescending(s)}
  /\ ReloadData
  /\ phase' = "live" /\ swipe' = 0
  /\ UNCHANGED <<user, requested>>

(* The load fails: an alert, and neither a retry nor live updates. *)
Fail ==
  /\ phase = "loading" /\ phase' = "failed"
  /\ UNCHANGED <<user, posts, table, swipe, requested>>

(* An "added" event: postOperation gives insertIndex, updateDataSource     *)
(* inserts at 0, then the table inserts a row at the operation's index.    *)
FeedAdded(p) ==
  /\ phase = "live" /\ Len(posts) < MaxRows
  /\ posts' = InsertAt(posts, 1, p)
  /\ InsertRow(insertIndex)
  /\ swipe' = IF swipe >= insertIndex THEN swipe + 1 ELSE swipe
  /\ UNCHANGED <<phase, user, requested>>

(* Wrong: every copy of the post goes, not the first. *)
FeedRemovedAll(p) ==
  /\ phase = "live" /\ FirstIndex(posts, p) # 0
  /\ posts' = SelectSeq(posts, LAMBDA q : q # p) /\ ReloadData /\ swipe' = 0
  /\ UNCHANGED <<phase, user, requested>>

(* A "removed" event for a listed post: its first row goes.  For a post    *)
(* that is not listed postOperation is nil and nothing happens.            *)
FeedRemoved(p) ==
  LET index == FirstIndex(posts, p)
  IN /\ phase = "live" /\ index # 0
     /\ posts' = RemoveAt(posts, index)
     /\ DeleteRow(index)
     /\ swipe' = CASE swipe = index -> 0
                   [] swipe > index -> swipe - 1
                   [] swipe < index -> swipe
     /\ UNCHANGED <<phase, user, requested>>

(* The user swipes a row; the Delete button appears if canEditRowAt says so. *)
Swipe(index) ==
  /\ swipe = 0 /\ index \in DOMAIN table
  /\ canErasePostAt(index)
  /\ swipe' = index
  /\ UNCHANGED <<phase, user, posts, table, requested>>

Dismiss ==
  /\ swipe # 0 /\ swipe' = 0
  /\ UNCHANGED <<phase, user, posts, table, requested>>

(* The user taps Delete: commit passes the row's present index, and the    *)
(* ownership is not looked at again.                                       *)
CommitDelete ==
  /\ swipe # 0
  /\ requested' = requested \cup {<<user, posts[swipe]>>}
  /\ swipe' = 0
  /\ UNCHANGED <<phase, user, posts, table>>

(* Wrong: the Delete button survives its screen. *)
LogoutSwiped ==
  /\ phase # "closed" /\ phase' = "closed"
  /\ posts' = <<>> /\ table' = <<>>
  /\ UNCHANGED <<swipe, user, requested>>

(* Logout completes: the screen is popped, its view model goes with it. *)
Logout ==
  /\ phase # "closed" /\ phase' = "closed"
  /\ posts' = <<>> /\ table' = <<>> /\ swipe' = 0
  /\ UNCHANGED <<user, requested>>

Next ==
  \/ \E u \in Users : Open(u)
  \/ \E S \in SUBSET Posts : Load(S)
  \/ Fail \/ Dismiss \/ CommitDelete \/ Logout
  \/ \E p \in Posts : FeedAdded(p) \/ FeedRemoved(p)
  \/ \E index \in DOMAIN table : Swipe(index)

Spec == Init /\ [][Next]_vars
-----------------------------------------------------------------------------
(* The screen's state has its type (TimelineViewModel.swift:18-22). *)
TypeOK ==
  /\ phase \in {"closed", "loading", "live", "failed"}
  /\ user \in Users
  /\ posts \in Seq(Posts) /\ table \in Seq(Posts)
  /\ swipe \in 0 .. Len(table)
  /\ requested \subseteq Users \X Posts

(* Row i of the table shows post i of the view model, after any mix of     *)
(* loads, insertions and removals: the row counts the table view asserts   *)
(* on each insertRows and deleteRows, and every index it passes back to    *)
(* the view model, are right (TimelineViewController.swift:81-93).         *)
RowsMirrorPosts == table = posts

(* Whatever moved between the swipe and the tap on Delete, the only posts  *)
(* a user ever asks the backend to remove are his own: commit does not     *)
(* check it again (TimelineViewController.swift:110-118, README.md:25).    *)
OnlyOwnRequested == \A r \in requested : Author[r[2]] = r[1]

(* The post that a tap on Delete would remove is the one whose row the     *)
(* button was opened on: what comes and goes meanwhile never puts another  *)
(* post at the index the table passes to commit                            *)
(* (TimelineViewController.swift:81-93, 114-118).                           *)
ButtonStaysOnPost ==
  [][swipe # 0 /\ swipe' # 0 => posts'[swipe'] = table[swipe]]_vars

(* The number of rows that show post p. *)
Copies(p) == Cardinality({i \in DOMAIN posts : posts[i] = p})

(* The abstract bag of rows. *)
Bag == INSTANCE Rows WITH rows <- [p \in Posts |-> Copies(p)]

(* The screen implements Rows: each event of the feed changes the number   *)
(* of rows of one post by one, even when a post is listed twice, and a     *)
(* load shows each post once (TimelineViewModel.swift:64-97).              *)
ImplementsRows == Bag!Spec
=============================================================================
