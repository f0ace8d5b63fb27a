# Social Timeline: verification project

Social Timeline is an iOS app (MVVM, RxSwift, Firebase) with a shared board of
posts: users sign in, see all posts, add posts and delete their own. The
timeline is to follow the board by itself. This directory holds TLA+ models of
the code that makes this work, and of leveldb, the store the Firebase SDK keeps
its disk cache in, with the TLC runs that check them and proofs for TLAPS.

Paths of app code are relative to `src/Timeline/Timeline`; SDK files are in
`src/Timeline/Pods/FirebaseDatabase/Firebase/Database`, leveldb's in
`src/Timeline/Pods/leveldb-library`.

## Inventory

| Component | State | Operations | Talks to |
|---|---|---|---|
| Timeline screen (`Views/Timeline/TimelineViewModel.swift`, `TimelineViewController.swift`) | `posts`, the table's rows, the row being swiped | load, event added/removed, swipe, delete, logout | posts service (observables), account service, UIKit |
| Posts service (`Services/FirebaseTimelineService.swift`) | none of its own; callbacks waiting in the SDK | `createPost` (two writes), `retrievePosts`, `startLiveUpdating`, `removePost` | Firebase SDK |
| Firebase database client (`Core/FRepo.m`, `FSyncTree.m`, `FViewProcessor.m`, `FWriteTree.m`, `FPersistentConnection.m`) | registrations, view cache, write tree, outstanding puts and listens | observe, remove observer, set, update, pushes, responses, reconnect | server by socket, app by the main queue |
| Database server (external) | the board, who listens | listen, unlisten, write | clients |
| Composer (`NewPostViewModel.swift`, `NewPostViewController.swift`) | text, message, button, submissions in flight | edit, Post, Cancel | posts service |
| Account service (`Services/FirebaseAccountService.swift`) | the signed-in user, kept by Firebase Auth | sign in, create account, log out | Firebase Auth |
| Sign-in and create-account screens (`Views/Account/*`) | three text relays, button and label state, pending call | edit, submit, back | account service, navigation |
| Navigation and indicator (`Extensions/UIViewController+Utils.swift`) | stack of screens, indicator | push, pop, show, hide | all screens |
| leveldb, the tree (`db/version_set.cc`, `db_impl.cc`, `db_iter.cc`) | memtables, files in levels, snapshots, the compaction at work | put, delete, get, scan, snapshot, flush, compact | the background thread, readers |
| leveldb, the store (`db/db_impl.cc`, `version_set.cc`) | logs, tables, manifest; writers' queue, background thread | open and recover, write, sync, flush, merge, delete files | the file system |
| Cells, text field, strings, errors, delegates, generated resources | none that changes | | |

What is hard here:

* `createPost` is two writes, with a network round trip between them; the live
  observers hear of the second one only (`FirebaseTimelineService.swift:25-36`).
* The load and the live feed are two registrations, the first withdrawn before
  the second is made, and the SDK drops its view in between.
* Each client runs its main thread, the SDK's queue and a socket side by side.
* Connections are lost, writes are sent again, the server may refuse writes and
  listens, and take a listen back, the process may die.
* Firebase Auth answers in its own time and changes the current user before its
  answer is heard; only an indicator keeps the user from tapping meanwhile.
* The account form's Rx graph takes the password directly and through a
  comparison, and passes through inconsistent combinations.
* The composer's text reaches the view model a turn of the main queue late, and
  every composer presented starts anew.
* leveldb's writers, background thread and readers share one mutex and let go of
  it around every file operation; a crash comes between any two of them, a file
  operation may fail, and unsynced data may be lost.
* Compactions pick their inputs by ranges of user keys, while several entries of
  one key, kept apart by snapshots, may lie in several files.
* The table is updated by index and the Delete button names a row, while rows
  come and go.

What makes each part right: the screen's rows mirror its posts and a user
removes only his own posts; the SDK's cache follows the server and no write is
lost or doubled; the feed neither invents, loses nor repeats events; the board
ends in the same state everywhere; the open timeline is the signed-in user's,
a failure is reported, and nobody is locked out; a form's button and label agree
with its texts, and Post submits what the user wrote. The tree answers every read
with the newest write it may see; the store keeps every acknowledged write
through restarts, and every synced one through crashes of the machine, and no
reader loses a file.

The app does not turn the SDK's disk cache on (nothing in it sets
`isPersistenceEnabled`), so leveldb does not run under it as it is. It is by far
the largest body of concurrent code with state of its own in the repository, and
it is built into the app; the two models take it as the library it is.

`PROJECT.json` lists the hazards, each at its line, with the properties that
cover it.

## Modules

**`Timeline.tla`** is one screen. `posts` is the view model's array, `table` what
the table view shows, changed only through `InsertRow`, `DeleteRow` and
`ReloadData`, as UIKit does. An action is one callback on the main thread:
`Load` (`retrieveAllPosts` + `reloadData`), `FeedAdded`, `FeedRemoved`
(`postOperation`, `updateDataSource`, then the row operation), `Swipe`
(`canEditRowAt`), `CommitDelete` (`commit`, with the row's present index),
`Open`, `Fail`, `Logout`. The feed is the environment and may do anything: any
post may be announced or removed at any time, also twice. `requested` records
what the user asked to remove. **`Rows.tla`** is the abstract screen: how many
rows show each post.

**`PostsSync.tla`** is the system: server, clients, the SDK and the posts
service. FIFO queues tie the parties of a client together: `repoQ` (blocks for
the SDK), `up` and `down` (the socket), `mainQ` (callbacks). An action is one
block. The correspondence:

| TLA+ | Code |
|---|---|
| `regs`, `AddObserver`, `RemoveObserver` | `FSyncTree addEventRegistration`, `removeEventRegistration`: the first registration sends a listen, the last one drops view and listen |
| `cache`, `complete`, `ReceivePush`, `ReceiveSnapshot`, `Patch` | the view's server cache, `FViewProcessor applyServerOverwrite/Merge` |
| `writes`, `LocalWrite`, `Overlay`, `Settle` | `FWriteTree`, acknowledgement and roll-back in `FViewProcessor` |
| `held`, `ListenPending`, `ReceiveAck`, `AckPuts` | `putsToAck` and `unackedListensCount` of `FPersistentConnection` |
| `ReceiveRefusal`, `ReceiveRevocation`, `CancelView`, `Cancelled` | a listen's response other than "ok", `onListenRevoked`: all registrations go, and those with a cancel block are told |
| `Disconnect`, `Reconnect` | `onDisconnect`, `restoreState` |
| `ChildEvents`, `ValueEvents` | `FEventGenerator`, `maybeAddValue` |
| `CreatePost`, `PostWritten` | `createPost` and its completion block |
| `PostsRetrieved`, `RetrievalFailed` | `observeSingleEvent`'s wrapper, then the screen starting its live updates, or showing the error |
| `PostAdded`, `PostRemoved` | the live observers and the view model's row counting |

A record is abstracted to `none`, `created`, `stamped` or `stub` (a timestamp
without a post, which `Post.fromDictionary` refuses). Row order is left to
`Timeline.tla`. **`LiveList.tla`** is the abstract specification of all screens,
with no server or queue.

**`Screens.tla`** is navigation and account service together: the stack of
screens, the alert or composer presented over it, the indicator of each screen,
and Firebase Auth with its calls, its answers on the main queue and its current
user. An action is one callback or tap, or one step of Auth's queue:
`CallSucceeds` sets the current user (`FIRAuth.m`, `updateCurrentUser`), the
main queue hears of it later (`LoginSucceeded`, `AccountCreated`). `Touchable`
is the external assumption that a tap reaches the topmost view only. It does not
share state with `PostsSync`: the database side is `PostsRetrieved`,
`PostCompleted` and their failures, at any time or never.

**`Forms.tla`** is the create-account form (`CreateAccountViewModel.swift:21-37`,
`CreateAccountViewController.swift:61-77`). A relay tells its observers one
after the other; a step tells one of them: `TellDirect` (the button's
`combineLatest`), `TellMatches` (`passwordMatches` below it, with
`distinctUntilChanged`), `TellLabel` (the label's own instance of it).

**`Composer.tla`** is the text of a post on its way to the view model
(`NewPostViewController.swift:55-62`, `UITextView+Rx.swift`): `Typed` changes what
the user sees, `PassOn` brings it to `postMessage` and the button in a later turn
of the main queue, `Present` starts with a new view model.

**`App.tla`** composes `Screens`, `Forms` and `Composer`: the Create button is the
form's and the name asked for is the text in it; the form goes on changing while
an answer is outstanding, since the keyboard stays up; every push of a screen
starts a form of its own. One turn of the main thread tells all observers of a
keystroke, so nothing else of that thread runs meanwhile. Auth's queue does, and
the process may die (`Restart`).

**`Levels.tla`** is leveldb's tree. An entry is its sequence number, a file the
set of its entries, its size their number.

| TLA+ | Code |
|---|---|
| `Before`, `Smallest`, `Largest` | `InternalKeyComparator`, `FileMetaData` |
| `Get`, `GetLevel0`, `GetLevel` | `DBImpl::Get`, `Version::ForEachOverlapping`, `FindFile` |
| `PickLevelForMemTableOutput`, `CompactMemTable` | the same, with `WriteLevel0Table` |
| `GetOverlappingInputs`, `AddBoundaryInputs`, `Inputs` | the same, and `SetupOtherInputs` |
| `PickCompaction`, `CompactRange`, `IsTrivialMove` | `VersionSet::PickCompaction`, `CompactRange`, `BackgroundCompaction` |
| `Merge`, `Overlapped`, `IsBaseLevelForKey`, `Outputs` | the loop of `DoCompactionWork`, `ShouldStopBefore` |
| `FinishCompaction`, `Install` | `InstallCompactionResults` |

The mutex is released while a compaction works: `job` holds what it read at its
start, and writes, snapshots and flushes go on until it is installed. Where a
compaction starts is a matter of bytes, seeks and the pointer of the level, so
any file may be picked. **`Scan.tla`** is the user iterator, `DBIter`, with its
two directions and their turns, as operators on the merged entries.

**`Store.tla`** is `DBImpl` between its writers and its files. A step is what one
thread does between two releases of the mutex, or one file operation without it.

| TLA+ | Code |
|---|---|
| `Recover`, `RecoverLogFile`, `CreateLog`, `SetCurrentFile`, `Open` | `DB::Open`, `VersionSet::Recover`, `DBImpl::RecoverLogFile`, first `LogAndApply` |
| `Enqueue`, `Group`, `AddRecord`, `SyncLog`, `Acknowledge` | `DBImpl::Write`, `BuildBatchGroup` |
| `WaitForRoom`, `SwitchMemTable`, `RefuseWrite` | `MakeRoomForWrite` |
| `BeginFlush`, `FinishFlush` | `CompactMemTable`, `WriteLevel0Table` |
| `BeginMerge`, `FinishMerge` | `DoCompactionWork`, with a flush in the middle of it |
| `WriteManifest`, `SyncManifest`, `Install` | `VersionSet::LogAndApply`, and what follows it |
| `Live`, `Needed`, `DeleteObsoleteFiles` | `DeleteObsoleteFiles`, `AddLiveFiles` |
| `Return`, `EndCall`, `NothingToDo` | the end of `BackgroundCall`, `MaybeScheduleCompaction` |
| `Hold`, `Release` | a reader's reference on a version |
| `SyncLogFails`, `TableFails`, `SyncManifestFails` | `RecordBackgroundError` and the error paths to it |
| `Crash`, `Outage` | the process dies; the machine does, and unsynced data with it |

A table is the set of writes in it: keys and levels are the business of `Levels`.
A merge takes level 0 and all below into one output. The memtable counts as full
as soon as it holds anything, which lets every write be the one that switches.
Creating, renaming and deleting a file takes effect at once and in order; the
contents of logs and manifest are lost from their last sync on, as far as the
crash likes. **`DurableStore.tla`** is what the store promises, with no file in it.

`MCTimeline.tla`, `MCPostsSync.tla`, `MCApp.tla`, `MCLevels.tla` and `MCStore.tla`
give the constants their values for TLC.
Operators with a comment that begins "Wrong:" are faulty variants of the
definition that follows them. No action uses them; putting one in the place of
its definition must break a property (`PROJECT.json`, "mutants").

## Runs

| Run | Instance | Result |
|---|---|---|
| `Timeline` | 3 posts of 2 users, two equal timestamps, at most 5 rows | all five properties hold, 19 000 states |
| `SyncDrop` | 2 users, 1 post, 1 Delete tap by its author, 1 lost connection | all eight properties hold, 1.08 M states |
| `SyncLive` | 2 devices of one user, 1 post, the device that made it opens the timeline twice, a Delete tap on the other one, fair | both hold, 271 000 states |
| `SyncRetry` | 1 client, 1 post, 2 screens, refused writes and listens, 1 lost connection or revoked listen, 1 Delete tap, 1 crash, fair | all five hold, 198 000 states |
| `SyncStale` | 2 users, 1 post, one screen each | **`TimelineUpToDate` fails** |
| `SyncTwice` | the same | **`AnnouncesOnlyNewPosts` fails** |
| `SyncHeld` | 1 client, 1 post, 2 screens, 2 lost connections, nothing refused, no Delete taps, fair | **`EveryWriteSettles` fails** |
| `App` | 2 users, 2 taps on Post, 2 edits not passed on, fair | all eleven properties hold, 405 000 states |
| `Levels` | 2 keys, 4 writes, 4 levels, 1 snapshot, deletions of the first key | all four properties hold, 248 000 states |
| `LevelsBoundary` | the same, deletions of both keys | **`DroppedMarkersHideNothing` fails** |
| `LevelsGap` | 3 keys, 5 writes, 4 levels, no deletions, no snapshots | **`LevelsDisjoint` fails** |
| `Store` | 3 writes, 2 of them synced, 2 crashes, 1 failing file operation, fair | all five properties hold, 1.2 M states |

What they show. `Timeline`: rows, indexes and swipes stay consistent under any
feed. `SyncDrop`, `SyncLive`, `SyncRetry`: the SDK's cache and write
tree keep up with the server, the feed invents nothing, every write is tracked
and answered, the board settles, and a refused or revoked listen leaves neither an
answer held back for it nor a load that never ends. (The live observers have no cancel block: after a revocation an
open timeline goes on showing what it had, without a word.) `App`: the timeline is the current user's, a
failure is shown, a covered screen is uncovered in the end, what is submitted is
what form and composer mean to submit. `Levels`: whatever is flushed, moved,
merged and dropped, reads and scans give what was written. `Store`: no
acknowledged write is lost that was not to be lost, no file is deleted too early,
and no writer waits for ever.

Bounds. One post and two clients are enough for every race the design has:
posts do not interact on the server, and the only thing two of them share is
the order of a client's queue. (`SyncDrop.cfg` with `OneClient` and `TwoPosts`
covers that: 394 000 states, and all holds.) In `SyncDrop` the author removes the
post himself, in `SyncLive` another device of his does. Two sessions on a client
(`SyncLive`, `SyncRetry`) let observers of a screen that is gone meet those of a
new one. What these runs do not combine, such as a removal by another device with
a lost connection, is left to the theorems below, which have no bounds.
One lost connection gives a resend in every state of the protocol. In
`SyncRetry`, a listen is refused as often as it is sent; `MaxDrops` counts lost
connections and revoked listens together. In
`App`, two users are the one who is signed in and the other one, and with the
empty text they are the three texts the form can tell apart: a missing one and
two that differ; two edits may be on their way to the composer's message. In
`Timeline`, five rows over three posts let posts be listed twice. In `Levels`,
four entries of two keys fill output files of two entries, so that a key goes on
from one file into the next; a grandparent limit of one entry closes outputs
early; four levels are one more than a compaction and its grandparents take. In `Store`, a merge
starts with every table of level 0 and writers stop at two, so that a flush meets
a merge; the second crash hits the recovery from the first. Deadlock is not
checked in the `Sync`, `Levels` and `Store` runs: with all bounds used up, users
who do nothing leave nothing to do.

Fairness is given only to machinery. `PostsSync.FairSpec`: dispatch queues run
their blocks, the socket delivers, the server answers, the SDK's retry timer
reconnects, each weakly. `AppSpec`: Auth answers a call or lets it time out, and
the main thread ends its turn, weakly; answers waiting on the main queue are
strongly fair, since the main thread also serves the user, whose typing keeps
disabling them for the length of a turn, and its queue is first in, first out.
The database gets no fairness there, since offline it never answers.
`Store.FairSpec`: the first writer and the background thread go on when they
can, weakly. Users, readers, faults and crashes get none.

### Disagreements with the documents

* `README.md:4` promises a timeline that needs no refresh. After the load,
  `observeSingleEvent` withdraws its registration; with it go the SDK's view and
  the listen. The live observers' own listen brings a new snapshot, in which a
  post made in the gap is *childAdded*. The app observes *childChanged* only, so
  the post has no row until the screen is opened anew.
* `FirebaseTimelineService.swift:97` wants only posts "added after the observer
  was created". A post on the board whose timestamp has not been rewritten yet
  is loaded, then announced, and is listed twice. A removal takes one row away.
* `FIRDatabaseReference.h:100` says that a write's block is called after the
  write has been committed. An answer that comes while a listen is unanswered
  is held back until a listen is answered (`FPersistentConnection.m:689-697`,
  `810-815`). If the connection is lost then, `onDisconnect` forgets the listens
  it waited for and keeps the answer; if the timeline's registrations are gone
  too, no listen is restored and nothing releases it. `createPost`'s second write
  waits with it. In the run it takes two lost connections, so it is rare: the first
  has the write sent again behind a restored listen, so that its answer meets a
  second listen in flight, and the second forgets that listen. (With one lost
  connection the property holds, for up to three screens.)
  `EveryWriteAnswered` states what holds instead.

* `db/db_impl.cc:952-958` says why a deletion marker may be dropped: no deeper
  level has the key, and what is being compacted will drop the older entries.
  `SetupOtherInputs` (`db/version_set.cc:1407-1422`) adds the boundary files of
  the compacted level, not those of the next one. If a file of the next level
  ends with the marker and the following one goes on with an older put of the
  same key, a compaction that only reaches the first takes it alone. The marker
  is dropped (`IsBaseLevelForKey` looks from level + 2 down), the put stays, and
  the deleted key is there again. It takes a snapshot, to have kept the put, and
  an output closed between the two. In `Levels` only the first key is deleted,
  where this cannot happen.
* `db/version_set.cc:724` is to "make sure there is no overlap in levels > 0", and
  aborts if there is (723-737, in builds without `NDEBUG`; 747-749 asserts the
  same). `PickLevelForMemTableOutput` (491-518) looks at the current version, not at
  the compaction at work. A manual compaction (`DBImpl::CompactRange`) may take two
  files of level 1 with a gap between them and merge them into one output; a
  memtable with keys of the gap that is flushed meanwhile (`db_impl.cc:912`) meets
  nothing in levels 1 and 2, goes to level 2, and the output is installed over
  it. Two keys leave no gap, so `Levels` cannot reach it and does not check it. It
  takes `CompactRange`, which the Firebase SDK never calls: automatic compactions
  take no files with a gap between them, and without the action
  `CompactRange` the instance of `LevelsGap` keeps `LevelsDisjoint` (229 000 states).

More facts shaped the properties. A removal by another device of the author
can be overtaken by the author's second write: the board then holds a stub. And
a creation resent after a reconnection can bring back a post that another device
removed in the meantime. `LiveRowsExact` and `RemovedStaysRemoved` name these
exceptions.

## Proofs

`TimelineProofs.tla` proves for every set of users, every finite set of posts,
every authorship, all timestamps and any `MaxRows`:

* `TypeCorrect`: `Spec => []TypeOK`
* `RowsAlwaysMirror`: `Spec => []RowsMirrorPosts`
* `OnlyOwnEverRequested`: `Spec => []OnlyOwnRequested`
* `ButtonAlwaysStays`: `Spec => ButtonStaysOnPost`
* `TimelineImplementsRows`: `Spec => ImplementsRows`

They rest on the assumptions on the constants named in `Timeline.tla`.
`OnlyOwnRequested` is not inductive: a tap on Delete does not look at the post's
author again. The inductive invariant `IInv` adds that the swiped row, if any,
shows a post of the user, and that table and posts agree, so that insertions and
removals above the row move the swipe by exactly the rows they move. Lemmas give
what insertion and removal do to length and elements of a sequence, and the range
of `FirstIndex`; one lemma per feed event carries the invariant. For the
refinement, the places of a post in the sequence are counted: an insertion or a
removal puts the places of every other post into a one-to-one correspondence
with those before, and adds or takes one of its own.

`AppProofs.tla` proves of the screens by themselves, for every set of users and
any `MaxTaps`:

* `ScreensTypeCorrect`: `Spec => []TypeOK`
* `TimelineAlwaysOfCurrentUser`: `Spec => []TimelineOfCurrentUser`
* `FailureAlwaysShown`: `Spec => FailureIsShown`

None of the three is inductive: a late answer would push a second timeline or
change the user under one, and only the indicator prevents it. The invariant
`IInv` says so: either nothing is pending (`Idle`), or exactly one call or answer
is, it belongs to the screen on top of the stack, that screen is covered and
nothing is presented over it (`Pending`); if the answer is a success, the current
user is already its user. `LoadingIsOpen` keeps the alert of a failed load away
from the other screens. One lemma per kind of step carries the invariant.

and of the app, for every set of users and texts, any `MaxTaps` and any
`MaxLate`:

* `AppImplementsScreens`: `AppSpec => Spec`, the app is its screens, with taps
  held back by form and composer. Through it the three theorems above and
  `ScreensCovered` (`Spec => []CoveredWhilePending`) give `AppTypeCorrect`,
  `AppTimelineOfCurrentUser`, `AppCoveredWhilePending` and `AppFailureShown`.
* `AppFormTypeCorrect`, `AppFormAgrees`, `AppNeverRefused`, `AppNoFlash`,
  `AppOnlyCompleteForms`: the form's promises, in the app.
* `AppMessageFollowsText`, `AppNoEmptyPost`: the composer's.

`FormAgrees` speaks of the moments between two keystrokes. Its invariant
`FormInv` says of every moment in between what the graph holds: between two
keystrokes everything agrees with the relays (`Settled`), and of the field that
was edited exactly the observers told so far have the new text. The one state
where direct password and comparison contradict each other then cannot enable
the button, which is `NoFlash`.

`StoreProofs.tla` proves for every set of writes, all triggers and any number of
crashes and faults:

* `StoreTypeCorrect`: `Spec => []TypeOK`
* `StoreDurable`: `Spec => []Durable`
* `StoreReadersKeepTables`: `Spec => []ReadersKeepTables`
* `StoreImplementsDurableStore`: `Spec => ImplementsDurableStore`

The inductive invariant `IInv` follows a write from the log into a table.

* `SyncedStay` and `Restartable`: a synced write is in the tables of every entry
  of the manifest, or in a memtable, and if in `mem`, in the synced part of the
  log in use; what a reader finds now a restart would find again. This is why
  `Acknowledge` may promise something, and why a crash keeps the promise.
* `ManifestNumbers`, `ProcessNumbers`: the number of the next file is above all
  that matter, in the manifest too, so a new file never replaces one. Recovery
  has to see every log for it (`MarkFileNumberUsed`).
* `LogNumbers`, `EditShape`: no entry asks for a log that may be deleted. A flush
  names the log in use as the oldest one needed, which is right because no switch
  is possible while `imm` is there; a merge names what was named before.
* `TaskShape`, `Unnamed`: a flush's table has what `imm` has, a merge's output
  what its inputs have, and neither is in a version yet.
* `Faithful`: as long as nothing has failed, the manifest is the current version,
  with the edit under way or without it. After an error it need not be, and for
  that reason `DeleteObsoleteFiles` does nothing then. Either entry may count.
* `Underway`, `Phases`, `Asked`: the group at work is the last record of the log;
  a store that is not open has nothing in memory; nothing turns up unasked.

There is a lemma for each action. For the refinement, `Kept` (what a reader
finds, or would find after a restart) changes in three steps only: `Acknowledge`, `Crash`,
which may bring back the record of a writer without an answer, and `Outage`.
`Enqueue` asks, all other steps stutter.

`PostsSyncProofs.tla` proves, for any number of clients and posts, of screens,
lost connections, revoked listens and crashes, and whether or not the server
refuses writes or listens:

* `TypeCorrect`: `Spec => []TypeOK`
* `WritesAlwaysTracked`: `Spec => []EveryWriteTracked`
* `HeldOnlyForAListen`: `Spec => []HeldForAListen`
* `CacheAlwaysFollows`: `Spec => []CacheFollowsServer`
* `AcksMeetWholeView`: `Spec => AckMeetsWholeView`
* `BoardSettles`: `Spec => []SettledBoard`

The invariant behind them (`SyncInv`, `SyncAlways`) joins the queues of each
client. Not even the type is inductive: `AckPuts` takes writes off the tree by
number, and only because responses meet their own writes are there as many.

* `Tracked`: the write tree is, in this order, the writes with a response held
  back, those with one on its way down, and those on their way up. After a lost
  connection it begins with the first of these only, and the rest is sent again.
* `Synced`: once a listen is served, cache and pushes on their way make the
  server's board (`Delivered`, a fold over `down`), unless a revocation, or a
  refusal with no snapshot after it, is on its way too.
* `Awaits`: a view that is not whole has a listen under way or an answer to come.
* `Wire`: no listen is left behind an unlisten while a view is there.
* `HeldFor`: answers are held back only while a listen is unanswered.

`BoardSettles` needs more (`BoardInv`): with no refusals every response is an
acceptance (`AllAccepted`), and for a post that is on the board without its
timestamp some client still has the creation in its tree, the completion on its
main queue, or the update on its way (`Announcing`). The server answers in order, so
the only way to lose the update is a crash, or an answer held back for a listen
that was given up, which `SettledBoard` excepts: see `EveryWriteSettles` above.

`PostProofs.tla` proves two things of a post. First,

* `NoRemovalUnasked`: `Spec => []NoPhantomRemoval`

A view is the cache under the local writes, so a post could seem to go when its
creation is acknowledged and taken off the tree before the cache has it. The
invariant (`FeedInv`) adds to `SyncInv`, for a post nobody asked to remove:

* `Kept`: no write, request, response or callback removes it;
* `Ahead`: what a client knows of, or will hear of, the server has;
* `Lasting`: no snapshot without the post is behind news of it, or on its way to
  a client that knows it;
* `Shown`: the acknowledgement comes down behind the post itself, or behind the
  end of the view, or a listen's answer is to come in between, for which it is
  held back.

`Deaf`: a view that the server does not push to is about to learn so. The proof
shows what `FPersistentConnection` holds answers back for: otherwise an
acknowledgement could uncover a post while the snapshot that has it is still to
come.

and, on top of it,

* `RemovedStayRemoved`: `Spec => []RemovedStaysRemoved`

A reconnection sends every write without an answer again, a creation too that
the server performed long ago, and by then somebody may have removed the post.
The invariant (`PostInv`) follows a post from its creation on:

* `Hidden`: as long as a post is not made, or its creation has not been served
  on its creator's first connection, the server does not have it and no other
  client has heard of it (`Unheard`: no queue, cache, row or request names it).
  So nobody can remove it too early.
* `Orderly`, of a client's writes without a response (`Unacked`) and of those the
  server has still to perform (`Unserved`): only the creator sends the creation,
  nothing about the post comes before it, and if the user asked for a removal,
  one comes after it. Every step makes, answers, performs or resends writes at
  one end of these queues (`Issued`, `Acked`, `Served`, `Resent`).
* `Removing`: a post on the board that was asked to be removed has a removal
  still to be performed. That holds for any client's removal until a connection is
  lost; then only the creator's own is sure to follow the creation, which
  is the exception `RemovedStaysRemoved` makes. With refusals or crashes a
  removal can be lost.

`RowsProofs.tla` proves, for the same constants,

* `LiveRowsAlwaysExact`: `Spec => []LiveRowsExact`

the promise the feed is there for. `LiveRowsExact` speaks of a moment when all
queues are empty; its invariant (`RowsInv`) says of every moment before what the
queues of a client that is tuned in will still make of its rows.

* `Shows`: the callbacks on the main queue, in their order, turn the rows of a
  post into one row if the SDK's picture of it (cache under local writes) is
  stamped, and none if not. A registration hears of changes and removals in the
  order the picture makes them, and a callback counts for the session it was made
  for only (`Leads`, `Counted`).
* `Wired`: what is on the way down. A write's answer comes right behind the
  write's own push, so that taking the write off the tree changes no picture;
  the creation comes before the update, and the update not before the creation
  was answered. Otherwise a picture could go from one post to another in a way that
  no event tells (`Goes`).
* `PostPhase`: an update is its creator's, and comes when the creation is off the
  tree; a removal was asked for.
* `StopsLoads`: only a load's registration is ever withdrawn while its screen is up.
* `Void` is the exception that `LiveRowsExact` makes: a post that is gone, but not
  by its creator's hand. The creator may have its own update still to be
  answered, which makes a stub where there was a post.

`Shows` and `Wired` were checked by TLC before they were proved, on one client
with two screens to the end, and with two clients over 6.1 M states.

`ListProofs.tla` proves, for the same constants and a server that refuses no write,

* `ListsImplemented`: `~RejectsWrites => (Spec => ImplementsLiveList)`
* `ListsInOrder`: `Spec => [](ListInv /\ ListsTwice)`

`LiveRowsExact` leaves out the screens that were not tuned in from the start, which
may list a post twice. `LiveList` allows that, and no third row; so no
screen may be told twice of the same change of a record, by whichever of local
write, answer, push and snapshot the SDK learns of it. The invariant (`ListInv`)
takes `FeedInv` and `RowsInv` and adds what comes in which order down to a client,
tuned in or not, which is the business of `OrderProofs.tla`:

* `Aged`: no creation comes after the post's announcement. `Tailed`: the creator
  hears of the creation before the answer to it.
* `Backed`: a write's answer comes after the write's effect, or a listen's answer
  is still to come, for which it is held back.
* `Course`: the records a client's queue brings one after the other, from its
  cache to the server's board, never turn from a stub into a post.
* `Settling`: a post its creator knows to be gone does not come back to it.
* `Dated`, `Blank`, `Fresh`: a stamp is from an announcement; there is no view
  without registrations; a screen gets its first rows from its load, and nothing
  that could insert others is set up before (`Unlive`).

From these, a change that is worth an insertion finds the record "created" in the
client's picture (`TurnsFinal`), and leaves it `Final`: announced, and not to be
"created" again (`FinalStays`). `ListsTwice` then counts rows and waiting callbacks
of a live screen (`Twice`). It is a second induction, over steps between states
that satisfy `ListInv`. Each action is then one step of `LiveList` or a stutter: the
proof says which.

The first part of `PostsSyncProofs.tla` is what these modules need of sequences: prefixes, the
removal of an element, which messages are in a queue, and in which order. The
two operators of the model that are defined by recursion, `AckPuts` and
`AckPutsEvents`, and the fold `Delivered` are reasoned about by induction on a set of
numbers (`InductionOnNat`), not on a formula: the library's theorem on well-founded
minima takes a set, where those on induction take an operator.

Only model-checked: `Levels.tla` and `Scan.tla`, whose reads and merges are folds,
`CHOOSE`s and functions defined by recursion over entries. Liveness is out of reach of
the prover: `NewPostAppears`, `EveryWriteAnswered`, `EveryLoadEnds`,
`UncoveredInTheEnd`, `WritersAnswered`.

## Not modelled

* Posts: security rules (a refusal or a revocation is any choice of the server).
* SDK: priorities, queries with parameters, transactions, `onDisconnect`
  operations and its disk cache, none of which the app uses; token handling and
  back-off times. The sign-in form's button is two texts without a comparison.
* Order of posts: live ones go to the top, a load sorts by timestamps; no
  document says which is right.
* leveldb, the tree: statistics of bytes and seeks, file numbers, read errors
  and corruption.
* leveldb, the store: an append that fails half-way. No error is kept then
  (`db_impl.cc:1215-1232` keeps those of a sync only), and recovery may stop or
  skip at the torn record, so later writes can be acknowledged and not be read
  again. `options.h:168-181` promises otherwise: without a crash of the machine no
  write is lost, and a synced one not even then. `Durable` and
  `ImplementsDurableStore`, and the theorems about them, hold for syncs and
  tables that fail, and appends that succeed. Also closing, `reuse_logs` (off by
  default), the slowdown of a millisecond, a log file that cannot be created,
  manual compactions (they are in `Levels`), and a crash in the midst of
  `DeleteObsoleteFiles`, which here deletes all its files in one step, under the
  same hold of the mutex as the installation before it.
* Tables, blocks, caches, skip list, log format, environment: a table is the set
  of what was put into it, a log the sequence of its records.
* Layout, localization, generated resources, unit tests and mocks, the other
  pods (RxSwift, Firebase Auth and Core, nanopb, GTMSessionFetcher, and so on),
  read where the modelled code calls them.

## Plan

1. *Done*: `Timeline`, `Rows`, `PostsSync`, `LiveList`, their runs and proofs.
2. *Done*: `Screens`, `Forms`, `Composer`, composed in `App`, and their proofs.
3. *Done*: leveldb: `Levels`, `Scan`, `Store`, `DurableStore`, and the proofs of
   `Store`.
4. *Done*: `PostsSync` with loads that fail and listens that are refused or
   revoked; its inductive invariant and what follows from it, in
   `PostsSyncProofs`; what the feed may tell and what becomes of a
   post that was removed, in `PostProofs`; that the rows are exact, in `RowsProofs`;
   that the screens implement `LiveList`, in `OrderProofs` and `ListProofs`.
5. *Left*: `TypeOK` of `Levels`; appends that fail half-way in `Store`; the SDK's disk
   cache over `DurableStore`, were the app to turn it on.
