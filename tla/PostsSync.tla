----------------------------- MODULE PostsSync ------------------------------
(***************************************************************************)
(* The shared board of posts: the database server, and on each client the  *)
(* Firebase SDK's view of /posts, FirebaseTimelineService on top of it and *)
(* the rows of the timeline screen.                                        *)
(*                                                                         *)
(* Three parties work in parallel for each client: the main thread (the    *)
(* app's callbacks), the SDK's repo queue, and the network.  They are tied *)
(* by FIFO queues: repoQ (main thread to SDK), up and down (the socket),   *)
(* mainQ (SDK callbacks to main thread).  One action is one block executed *)
(* by one of them.                                                         *)
(*                                                                         *)
(* A post's record is abstracted to what the program tells apart:          *)
(*    "none"     no record                                                 *)
(*    "created"  written by createPost's setValue                          *)
(*    "stamped"  its timestamp rewritten by createPost's updateChildValues *)
(*    "stub"     only a timestamp: the update hit a record that was gone;  *)
(*               Post.fromDictionary refuses it                            *)
(* Row order is Timeline.tla's business; here rows are counted (Rows.tla). *)
(***************************************************************************)
EXTENDS Integers, Sequences, FiniteSets, SequencesExt

CONSTANTS
  Clients,        \* running copies of the app
  Posts,          \* database keys (childByAutoId never repeats one)
  Creator,        \* Creator[p]: the client that creates post p
  UserOf,         \* UserOf[c]: the username signed in on client c
  RejectsWrites,  \* may the server refuse a write,
  RejectsListens, \*   or a listen, or take one back?
  MaxSessions,    \* bounds: MaxSessions[c] screens opened on client c,
  MaxRemovals,    \*   MaxRemovals[c] Delete taps on a post there,
  MaxDrops,       \*   lost connections and revoked listens in all,
  MaxCrashes      \*   crashes in all

ASSUME PostsAssumption == IsFiniteSet(Posts)
ASSUME CreatorAssumption == Creator \in [Posts -> Clients]
ASSUME RejectsAssumption == {RejectsWrites, RejectsListens} \subseteq BOOLEAN
ASSUME BoundsAssumption ==
  /\ MaxSessions \in [Clients -> Nat] /\ MaxRemovals \in [Clients -> Nat]
  /\ MaxDrops \in Nat /\ MaxCrashes \in Nat
ASSUME UserAssumption == DOMAIN UserOf = Clients

VARIABLES
  server,     \* server[p]: the record of post p
  listening,  \* listening[c]: the server pushes changes of /posts to c
  connected,  \* connected[c]
  up, down,   \* up[c], down[c]: the two directions of c's socket
  repoQ,      \* repoQ[c]: blocks dispatched to the SDK's queue
  regs,       \* regs[c]: the view's registrations <<event type, session>>
  complete,   \* complete[c]: the view's server cache is fully initialized
  cache,      \* cache[c][p]: the view's server cache
  writes,     \* writes[c]: the write tree, local writes not yet settled
  held,       \* held[c]: write responses waiting for a listen response
  mainQ,      \* mainQ[c]: callbacks dispatched to the main queue
  phase,      \* phase[c]: "closed", "loading", "live" or "failed"
  session,    \* session[c]: number of the screen last opened
  rows,       \* rows[c][p]: how many rows show p
  posted,     \* posts the Post button was pressed for
  asked,      \* asked[c][p]: Delete taps of c on rows of p
  tuned,      \* tuned[p]: see TunedIn
  drops, crashes

sdkVars == <<regs, complete, cache, writes, held>>
appVars == <<phase, session, rows>>
historyVars == <<posted, asked, tuned>>
envVars == <<drops, crashes>>
vars == <<server, listening, connected, up, down, repoQ, sdkVars, mainQ,
          appVars, historyVars, envVars>>

-----------------------------------------------------------------------------
(* Records and writes *)

Records == {"none", "created", "stamped", "stub"}
WriteOps == {"set", "update", "remove"}
Write(op, p) == [type |-> op, post |-> p]

(* Post.fromDictionary: only a record with all its fields is a post. *)
IsPost(r) == r \in {"created", "stamped"}

(* Wrong: the update makes a whole post of a record that is gone.         *)
RevivingApply(op, r) ==
  CASE op = "set" -> "created" [] op = "remove" -> "none"
    [] op = "update" -> "stamped"

(* What a write makes of a record.  The update writes the timestamp only.  *)
(* "unknown" is a record the cache has not been told of.                   *)
Apply(op, r) ==
  CASE op = "set" -> "created"
    [] op = "remove" -> "none"
    [] op = "update" -> IF r \in {"none", "stub"} THEN "stub"
                        ELSE IF r = "unknown" THEN r ELSE "stamped"

(* What the writes of ws, one after the other, make of record r of p. *)
Written(ws, p, r) ==
  LET after[n \in 0 .. Len(ws)] ==
        IF n = 0 THEN r
        ELSE IF ws[n].post = p THEN Apply(ws[n].type, after[n - 1])
        ELSE after[n - 1]
  IN  after[Len(ws)]

(* The SDK's picture of a board: the local writes laid over the server     *)
(* cache.  Under a cache that is not whole, an absent record is unknown,   *)
(* and it stays out of the picture until a write or the server names it.   *)
Overlay(ca, whole, ws) ==
  [p \in Posts |->
     LET base == IF ca[p] = "none" /\ ~whole THEN "unknown" ELSE ca[p]
         seen == Written(ws, p, base)
     IN  IF seen = "unknown" THEN "none" ELSE seen]

Picture(c) == Overlay(cache[c], complete[c], writes[c])

Nothing == [p \in Posts |-> "none"]
NoRows == [p \in Posts |-> 0]
OneRowEach(S) == [p \in Posts |-> IF p \in S THEN 1 ELSE 0]

-----------------------------------------------------------------------------
(* SDK: events.  A change of the picture is told to those of rs that are of*)
(* its kind, removals first.  childAdded has no registration in this app.  *)
(* Events of screens that are gone reach disposed subscriptions, and ones  *)
(* whose record is not a post are dropped by the service: both left out.   *)

Event(kind, c, p) == [type |-> kind, session |-> session[c], post |-> p]

(* Wrong: a record is told again although nothing in it changed.          *)
RepeatingChildEvents(c, rs, before, after) ==
  LET Tell(kind, S) == IF <<kind, session[c]>> \in rs
                       THEN [i \in 1 .. Cardinality(S) |->
                               Event(kind, c, SetToSeq(S)[i])]
                       ELSE <<>>
  IN  Tell("removed", {p \in Posts : IsPost(before[p]) /\ after[p] = "none"})
      \o Tell("changed", {p \in Posts : before[p] # "none" /\ IsPost(after[p])})

ChildEvents(c, rs, before, after) ==
  LET removed == {p \in Posts : IsPost(before[p]) /\ after[p] = "none"}
      changed == {p \in Posts : /\ before[p] # "none" /\ before[p] # after[p]
                                /\ IsPost(after[p])}
      Tell(kind, S) == IF <<kind, session[c]>> \in rs
                       THEN [i \in 1 .. Cardinality(S) |->
                               Event(kind, c, SetToSeq(S)[i])]
                       ELSE <<>>
  IN  Tell("removed", removed) \o Tell("changed", changed)

(* A single-value observer gets its first value as soon as the view is     *)
(* whole; it ignores any later one.                                        *)
ValueEvents(c, which, picture) ==
  LET waiting == SetToSeq(which)
  IN  [i \in 1 .. Cardinality(which) |->
         [type |-> "value", session |-> waiting[i][2],
          posts |-> {p \in Posts : IsPost(picture[p])}]]

ValueRegs(c) == {r \in regs[c] : r[1] = "value"}

(* Wrong: a refused write stays in the tree. *)
SettleAcceptedOnly(ws, ack) == IF ack.ok THEN RemoveFirst(ws, ack.write) ELSE ws

(* The response to a write: performed or refused, it leaves the tree. *)
Settle(ws, ack) == RemoveFirst(ws, ack.write)

(* The writes without a response: those held back are of the oldest ones. *)
Unanswered(c) == SubSeq(writes[c], Len(held[c]) + 1, Len(writes[c]))

(* The tree after the response that comes next. *)
Left(c, ack) ==
  SubSeq(writes[c], 1, Len(held[c])) \o Settle(Unanswered(c), ack)

(* What it covered shows again, then setValue's completion block runs on   *)
(* the main queue.  The app acts on a successful setValue only.            *)
SettleEvents(c, rs, ca, whole, ws, left, ack) ==
  ChildEvents(c, rs, Overlay(ca, whole, ws), Overlay(ca, whole, left))
  \o IF ack.ok /\ ack.write.type = "set"
     THEN <<[type |-> "written", post |-> ack.write.post]>>
     ELSE <<>>

(* The write responses held back are acted on, one after the other. *)
AckPuts(c, n) ==
  LET left[i \in 0 .. n] == IF i = 0 THEN writes[c]
                            ELSE Settle(left[i - 1], held[c][i])
  IN  left[n]

AckPutsEvents(c, rs, ca, whole) ==
  LET told[n \in 0 .. Len(held[c])] ==
        IF n = 0 THEN <<>>
        ELSE told[n - 1] \o SettleEvents(c, rs, ca, whole, AckPuts(c, n - 1),
                                         AckPuts(c, n), held[c][n])
  IN  told[Len(held[c])]

(* Wrong: write responses never wait for a listen. *)
NeverPending(upc, downc) == FALSE

(* Listens sent and not answered. *)
ListenPending(upc, downc) ==
  \/ \E i \in DOMAIN upc : upc[i].type = "listen"
  \/ \E i \in DOMAIN downc : downc[i].type \in {"snapshot", "refusal"}

-----------------------------------------------------------------------------
Init ==
  /\ server = Nothing
  /\ listening = [c \in Clients |-> FALSE]
  /\ connected = [c \in Clients |-> TRUE]
  /\ up = [c \in Clients |-> <<>>] /\ down = [c \in Clients |-> <<>>]
  /\ repoQ = [c \in Clients |-> <<>>]
  /\ regs = [c \in Clients |-> {}]
  /\ complete = [c \in Clients |-> FALSE]
  /\ cache = [c \in Clients |-> Nothing]
  /\ writes = [c \in Clients |-> <<>>]
  /\ held = [c \in Clients |-> <<>>]
  /\ mainQ = [c \in Clients |-> <<>>]
  /\ phase = [c \in Clients |-> "closed"]
  /\ session = [c \in Clients |-> 0]
  /\ rows = [c \in Clients |-> NoRows]
  /\ posted = {}
  /\ asked = [c \in Clients |-> NoRows]
  /\ tuned = [p \in Posts |-> {}]
  /\ drops = 0 /\ crashes = 0

(* The server follows c's view: the connection is up, the view's own       *)
(* listen has been answered and not been taken back since.                 *)
Following(c) ==
  /\ regs[c] # {} /\ connected[c]
  /\ \A i \in DOMAIN up[c] : up[c][i].type # "unlisten"
  /\ ~ListenPending(up[c], down[c])
  /\ \A i \in DOMAIN down[c] : down[c][i].type # "revocation"

(* Client c has live updates running: both observers of its screen are     *)
(* registered on a view the server follows.                                *)
TunedIn(c) ==
  /\ phase[c] = "live" /\ Following(c)
  /\ {<<"changed", session[c]>>, <<"removed", session[c]>>} \subseteq regs[c]

TuneOut(c) == tuned' = [p \in Posts |-> tuned[p] \ {c}]

-----------------------------------------------------------------------------
(* Main thread: the user *)

(* The timeline screen opens and asks for all posts. *)
OpenTimeline(c) ==
  /\ phase[c] = "closed" /\ session[c] < MaxSessions[c]
  /\ phase' = [phase EXCEPT ![c] = "loading"]
  /\ session' = [session EXCEPT ![c] = @ + 1]
  /\ rows' = [rows EXCEPT ![c] = NoRows]
  /\ repoQ' = [repoQ EXCEPT ![c] =
                 Append(@, [type |-> "observe", reg |-> <<"value", session'[c]>>])]
  /\ UNCHANGED <<server, listening, connected, up, down, sdkVars, mainQ,
                 historyVars, envVars>>

(* Logout pops the screen.  No observer is removed, and queued writes and  *)
(* their completion blocks stay.                                           *)
Logout(c) ==
  /\ phase[c] # "closed"
  /\ phase' = [phase EXCEPT ![c] = "closed"]
  /\ rows' = [rows EXCEPT ![c] = NoRows]
  /\ TuneOut(c)
  /\ UNCHANGED <<server, listening, connected, up, down, repoQ, sdkVars, mainQ,
                 session, posted, asked, envVars>>

CreatePost(c, p) ==
  /\ phase[c] # "closed"
  /\ Creator[p] = c /\ p \notin posted
  /\ posted' = posted \cup {p}
  /\ tuned' = [tuned EXCEPT ![p] = {d \in Clients : TunedIn(d)}]
  /\ repoQ' = [repoQ EXCEPT ![c] = Append(@, Write("set", p))]
  /\ UNCHANGED <<server, listening, connected, up, down, sdkVars, mainQ,
                 appVars, asked, envVars>>

(* Delete on a row of a post whose username is the user's own. *)
RemovePost(c, p) ==
  /\ phase[c] = "live" /\ rows[c][p] > 0
  /\ UserOf[c] = UserOf[Creator[p]]
  /\ asked[c][p] < MaxRemovals[c]
  /\ asked' = [asked EXCEPT ![c][p] = @ + 1]
  /\ repoQ' = [repoQ EXCEPT ![c] = Append(@, Write("remove", p))]
  /\ UNCHANGED <<server, listening, connected, up, down, sdkVars, mainQ,
                 appVars, posted, tuned, envVars>>

-----------------------------------------------------------------------------
(* Main thread: callbacks, in the order of mainQ *)

Callback(c, type) == mainQ[c] # <<>> /\ Head(mainQ[c]).type = type

(* The first value: observeSingleEvent takes its registration back before  *)
(* it calls the app.  If the screen is still there it shows the posts, and *)
(* only now asks for the two live observers.                               *)
PostsRetrieved(c) ==
  /\ Callback(c, "value")
  /\ LET m == Head(mainQ[c])
         off == [type |-> "stop", reg |-> <<"value", m.session>>]
         on(kind) == [type |-> "observe", reg |-> <<kind, m.session>>]
         awaited == phase[c] = "loading" /\ session[c] = m.session
     IN  /\ repoQ' = [repoQ EXCEPT ![c] = @ \o
              IF awaited THEN <<off, on("changed"), on("removed")>>
                         ELSE <<off>>]
         /\ phase' = [phase EXCEPT ![c] = IF awaited THEN "live" ELSE @]
         /\ rows' = [rows EXCEPT ![c] =
                       IF awaited THEN OneRowEach(m.posts) ELSE @]
  /\ mainQ' = [mainQ EXCEPT ![c] = Tail(@)]
  /\ UNCHANGED <<server, listening, connected, up, down, sdkVars, session,
                 historyVars, envVars>>

(* The load is refused: an alert, and no live updates. *)
RetrievalFailed(c) ==
  /\ Callback(c, "cancelled")
  /\ LET m == Head(mainQ[c])
     IN  /\ repoQ' = [repoQ EXCEPT ![c] =
                        Append(@, [type |-> "stop", reg |-> <<"value", m.session>>])]
         /\ phase' = [phase EXCEPT ![c] =
                        IF @ = "loading" /\ session[c] = m.session THEN "failed" ELSE @]
  /\ mainQ' = [mainQ EXCEPT ![c] = Tail(@)]
  /\ UNCHANGED <<server, listening, connected, up, down, sdkVars, session, rows,
                 historyVars, envVars>>

(* Wrong: the subscription outlives its screen. *)
UndisposedFeedEvent(c, type, inserted) ==
  /\ Callback(c, type)
  /\ rows' = [rows EXCEPT ![c][Head(mainQ[c]).post] = inserted]
  /\ mainQ' = [mainQ EXCEPT ![c] = Tail(@)]
  /\ UNCHANGED <<server, listening, connected, up, down, repoQ, sdkVars, phase,
                 session, historyVars, envVars>>

(* childChanged is the app's "added", childRemoved its "removed"; a screen *)
(* that is gone no longer listens.                                         *)
FeedEvent(c, type, inserted) ==
  /\ Callback(c, type)
  /\ LET m == Head(mainQ[c])
     IN  rows' = IF phase[c] = "live" /\ session[c] = m.session
                 THEN [rows EXCEPT ![c][m.post] = inserted]
                 ELSE rows
  /\ mainQ' = [mainQ EXCEPT ![c] = Tail(@)]
  /\ UNCHANGED <<server, listening, connected, up, down, repoQ, sdkVars, phase,
                 session, historyVars, envVars>>

PostAdded(c) == FeedEvent(c, "changed", rows[c][Head(mainQ[c]).post] + 1)

(* Wrong: a row is taken away for a post that has none. *)
PostRemovedUnlisted(c) ==
  FeedEvent(c, "removed", rows[c][Head(mainQ[c]).post] - 1)

(* Without a row for the post, firstIndex is nil and nothing happens. *)
PostRemoved(c) ==
  LET n == rows[c][Head(mainQ[c]).post]
  IN  FeedEvent(c, "removed", IF n > 0 THEN n - 1 ELSE 0)

(* Wrong: the timestamp is not written again. *)
PostWrittenOnce(c) ==
  /\ Callback(c, "written")
  /\ mainQ' = [mainQ EXCEPT ![c] = Tail(@)]
  /\ UNCHANGED <<server, listening, connected, up, down, repoQ, sdkVars,
                 appVars, historyVars, envVars>>

(* setValue's completion block: rewrite the timestamp, so that the others' *)
(* childChanged observers hear of the post.                                *)
PostWritten(c) ==
  /\ Callback(c, "written")
  /\ repoQ' = [repoQ EXCEPT ![c] =
                 Append(@, Write("update", Head(mainQ[c]).post))]
  /\ mainQ' = [mainQ EXCEPT ![c] = Tail(@)]
  /\ UNCHANGED <<server, listening, connected, up, down, sdkVars, appVars,
                 historyVars, envVars>>

MainThread(c) ==
  \/ PostsRetrieved(c) \/ RetrievalFailed(c)
  \/ PostAdded(c) \/ PostRemoved(c) \/ PostWritten(c)

-----------------------------------------------------------------------------
(* SDK: blocks of the repo queue *)

Block(c, type) == repoQ[c] # <<>> /\ Head(repoQ[c]).type = type

Send(c, messages) ==
  up' = [up EXCEPT ![c] = IF connected[c] THEN @ \o messages ELSE @]

(* A first registration makes a view and listens; on a view that exists a  *)
(* value registration is served at once if the view is whole.              *)
AddObserver(c) ==
  /\ Block(c, "observe")
  /\ LET reg == Head(repoQ[c]).reg
         isNew == regs[c] = {}
     IN  /\ regs' = [regs EXCEPT ![c] = @ \cup {reg}]
         /\ Send(c, IF isNew THEN <<[type |-> "listen"]>> ELSE <<>>)
         /\ mainQ' = [mainQ EXCEPT ![c] =
              IF reg[1] = "value" /\ complete[c]
              THEN @ \o ValueEvents(c, {reg}, Picture(c)) ELSE @]
  /\ repoQ' = [repoQ EXCEPT ![c] = Tail(@)]
  /\ UNCHANGED <<server, listening, connected, down, complete, cache, writes,
                 held, appVars, historyVars, envVars>>

(* The last registration takes the view, its cache and the listen along. *)
RemoveObserver(c) ==
  /\ Block(c, "stop")
  /\ LET left == regs[c] \ {Head(repoQ[c]).reg}
         isLast == left = {} /\ regs[c] # {}
     IN  /\ regs' = [regs EXCEPT ![c] = left]
         /\ Send(c, IF isLast THEN <<[type |-> "unlisten"]>> ELSE <<>>)
         /\ complete' = [complete EXCEPT ![c] = @ /\ ~isLast]
         /\ cache' = [cache EXCEPT ![c] = IF isLast THEN Nothing ELSE @]
  /\ repoQ' = [repoQ EXCEPT ![c] = Tail(@)]
  /\ UNCHANGED <<server, listening, connected, down, writes, held, mainQ,
                 appVars, historyVars, envVars>>

(* A write is laid over the cache, told to the observers and sent. *)
LocalWrite(c) ==
  /\ \E op \in WriteOps : Block(c, op)
  /\ LET w == Head(repoQ[c])
         ws == Append(writes[c], w)
     IN  /\ writes' = [writes EXCEPT ![c] = ws]
         /\ Send(c, <<w>>)
         /\ mainQ' = [mainQ EXCEPT ![c] = @ \o
              ChildEvents(c, regs[c], Picture(c),
                          Overlay(cache[c], complete[c], ws))]
  /\ repoQ' = [repoQ EXCEPT ![c] = Tail(@)]
  /\ UNCHANGED <<server, listening, connected, down, regs, complete, cache,
                 held, appVars, historyVars, envVars>>

RepoBlock(c) == AddObserver(c) \/ RemoveObserver(c) \/ LocalWrite(c)

-----------------------------------------------------------------------------
(* SDK: messages from the socket, on the repo queue *)

Message(c, type) == down[c] # <<>> /\ Head(down[c]).type = type

(* A write of somebody, told by the server.  Without a view nobody cares;  *)
(* in a view that is not whole yet an update of an unknown record has      *)
(* nothing to apply to.                                                    *)
Patch(c, w) ==
  LET p == w.post
      known == complete[c] \/ cache[c][p] # "none" \/ w.type # "update"
  IN  IF regs[c] # {} /\ known
      THEN [cache[c] EXCEPT ![p] = Apply(w.type, @)]
      ELSE cache[c]

ReceivePush(c) ==
  /\ Message(c, "push")
  /\ cache' = [cache EXCEPT ![c] = Patch(c, Head(down[c]).write)]
  /\ mainQ' = [mainQ EXCEPT ![c] = @ \o
       ChildEvents(c, regs[c], Picture(c),
                   Overlay(cache'[c], complete[c], writes[c]))]
  /\ down' = [down EXCEPT ![c] = Tail(@)]
  /\ UNCHANGED <<server, listening, connected, up, repoQ, regs, complete,
                 writes, held, appVars, historyVars, envVars>>

(* The answer to a listen: the whole of /posts, then "ok".  If no other    *)
(* listen is unanswered, the write responses held back are acted on now.   *)
ReceiveSnapshot(c) ==
  /\ Message(c, "snapshot")
  /\ LET board == Head(down[c]).board
         viewed == regs[c] # {}
         ca == IF viewed THEN board ELSE cache[c]
         whole == viewed \/ complete[c]
         shown == Overlay(ca, whole, writes[c])
         values == IF complete[c] THEN <<>>
                   ELSE ValueEvents(c, ValueRegs(c), shown)
         wait == ListenPending(up[c], Tail(down[c]))
     IN  /\ cache' = [cache EXCEPT ![c] = ca]
         /\ complete' = [complete EXCEPT ![c] = whole]
         /\ writes' = [writes EXCEPT ![c] =
                         IF wait THEN @ ELSE AckPuts(c, Len(held[c]))]
         /\ mainQ' = [mainQ EXCEPT ![c] =
              @ \o ChildEvents(c, regs[c], Picture(c), shown) \o values
                \o IF wait THEN <<>> ELSE AckPutsEvents(c, regs[c], ca, whole)]
         /\ held' = [held EXCEPT ![c] = IF wait THEN @ ELSE <<>>]
  /\ down' = [down EXCEPT ![c] = Tail(@)]
  /\ UNCHANGED <<server, listening, connected, up, repoQ, regs, appVars,
                 historyVars, envVars>>

(* Wrong: a load is not told. *)
CancelledSilently(c) == <<>>

(* Only a load has a callback for a listen that failed: live updates end   *)
(* without a word.                                                         *)
Cancelled(c) ==
  LET loads == SetToSeq(ValueRegs(c))
  IN  [i \in 1 .. Cardinality(ValueRegs(c)) |->
         [type |-> "cancelled", session |-> loads[i][2]]]

(* All registrations go, with view and cache, and no unlisten is sent. *)
CancelView(c) ==
  /\ regs' = [regs EXCEPT ![c] = {}]
  /\ complete' = [complete EXCEPT ![c] = FALSE]
  /\ cache' = [cache EXCEPT ![c] = Nothing]

(* Wrong: a refusal does not release the answers held back. *)
ReceiveRefusalHolding(c) ==
  /\ Message(c, "refusal")
  /\ IF ListenPending(up[c], Tail(down[c]))
     THEN UNCHANGED <<sdkVars, mainQ>>
     ELSE /\ CancelView(c)
          /\ mainQ' = [mainQ EXCEPT ![c] = @ \o Cancelled(c)]
          /\ UNCHANGED <<writes, held>>
  /\ down' = [down EXCEPT ![c] = Tail(@)]
  /\ UNCHANGED <<server, listening, connected, up, repoQ, appVars, historyVars,
                 envVars>>

(* A listen is refused.  If another one has been sent since, the view is   *)
(* that one's business; if not, it goes, if there is one, and the write    *)
(* responses held back are acted on now.                                   *)
ReceiveRefusal(c) ==
  /\ Message(c, "refusal")
  /\ IF ListenPending(up[c], Tail(down[c]))
     THEN UNCHANGED <<sdkVars, mainQ>>
     ELSE /\ CancelView(c)
          /\ writes' = [writes EXCEPT ![c] = AckPuts(c, Len(held[c]))]
          /\ mainQ' = [mainQ EXCEPT ![c] =
               @ \o Cancelled(c) \o AckPutsEvents(c, {}, Nothing, FALSE)]
          /\ held' = [held EXCEPT ![c] = <<>>]
  /\ down' = [down EXCEPT ![c] = Tail(@)]
  /\ UNCHANGED <<server, listening, connected, up, repoQ, appVars, historyVars,
                 envVars>>

(* The server takes the listen back; one sent since is given up, too, and  *)
(* its answer will find no view.                                           *)
ReceiveRevocation(c) ==
  /\ Message(c, "revocation")
  /\ CancelView(c)
  /\ mainQ' = [mainQ EXCEPT ![c] = @ \o Cancelled(c)]
  /\ down' = [down EXCEPT ![c] = Tail(@)]
  /\ UNCHANGED <<server, listening, connected, up, repoQ, writes, held, appVars,
                 historyVars, envVars>>

(* The answer to a write waits while a listen is unanswered: the listen's  *)
(* snapshot may hold the write's effect, and must come first.              *)
ReceiveAck(c) ==
  /\ Message(c, "ack")
  /\ LET ack == Head(down[c])
         told == SettleEvents(c, regs[c], cache[c], complete[c], writes[c],
                              Left(c, ack), ack)
     IN  IF ListenPending(up[c], down[c])
         THEN /\ held' = [held EXCEPT ![c] = Append(@, ack)]
              /\ UNCHANGED <<writes, mainQ>>
         ELSE /\ writes' = [writes EXCEPT ![c] = Left(c, ack)]
              /\ mainQ' = [mainQ EXCEPT ![c] = @ \o told]
              /\ UNCHANGED held
  /\ down' = [down EXCEPT ![c] = Tail(@)]
  /\ UNCHANGED <<server, listening, connected, up, repoQ, regs, complete,
                 cache, appVars, historyVars, envVars>>

Receive(c) ==
  \/ ReceivePush(c) \/ ReceiveSnapshot(c) \/ ReceiveAck(c)
  \/ ReceiveRefusal(c) \/ ReceiveRevocation(c)

-----------------------------------------------------------------------------
(* The database server (external): serves one message of one client *)

Request(c, type) == up[c] # <<>> /\ Head(up[c]).type = type

ServeListen(c) ==
  /\ Request(c, "listen")
  /\ \E ok \in IF RejectsListens THEN BOOLEAN ELSE {TRUE} :
       /\ listening' = [listening EXCEPT ![c] = ok]
       /\ down' = [down EXCEPT ![c] =
                     Append(@, IF ok THEN [type |-> "snapshot", board |-> server]
                                     ELSE [type |-> "refusal"])]
  /\ up' = [up EXCEPT ![c] = Tail(@)]
  /\ UNCHANGED <<server, connected, repoQ, sdkVars, mainQ, appVars,
                 historyVars, envVars>>

ServeUnlisten(c) ==
  /\ Request(c, "unlisten")
  /\ listening' = [listening EXCEPT ![c] = FALSE]
  /\ up' = [up EXCEPT ![c] = Tail(@)]
  /\ UNCHANGED <<server, connected, down, repoQ, sdkVars, mainQ, appVars,
                 historyVars, envVars>>

(* The rules have changed under a listen that was answered. *)
RevokeListen(c) ==
  /\ RejectsListens /\ listening[c] /\ drops < MaxDrops
  /\ drops' = drops + 1
  /\ listening' = [listening EXCEPT ![c] = FALSE]
  /\ down' = [down EXCEPT ![c] = Append(@, [type |-> "revocation"])]
  /\ TuneOut(c)
  /\ UNCHANGED <<server, connected, up, repoQ, sdkVars, mainQ, appVars, posted,
                 asked, crashes>>

(* A write is performed and pushed to all who listen, or refused; the      *)
(* writer gets the push, if any, before the response.                      *)
ServeWrite(c) ==
  /\ \E op \in WriteOps : Request(c, op)
  /\ LET w == Head(up[c])
     IN \E ok \in IF RejectsWrites THEN BOOLEAN ELSE {TRUE} :
          /\ server' = IF ok THEN [server EXCEPT ![w.post] = Apply(w.type, @)]
                             ELSE server
          /\ down' = [d \in Clients |-> down[d]
               \o (IF ok /\ listening[d]
                   THEN <<[type |-> "push", write |-> w]>> ELSE <<>>)
               \o (IF d = c THEN <<[type |-> "ack", write |-> w, ok |-> ok]>>
                            ELSE <<>>)]
  /\ up' = [up EXCEPT ![c] = Tail(@)]
  /\ UNCHANGED <<listening, connected, repoQ, sdkVars, mainQ, appVars,
                 historyVars, envVars>>

Serve(c) == ServeListen(c) \/ ServeUnlisten(c) \/ ServeWrite(c)

-----------------------------------------------------------------------------
(* Connections and crashes *)

Disconnect(c) ==
  /\ connected[c] /\ drops < MaxDrops
  /\ connected' = [connected EXCEPT ![c] = FALSE]
  /\ listening' = [listening EXCEPT ![c] = FALSE]
  /\ up' = [up EXCEPT ![c] = <<>>] /\ down' = [down EXCEPT ![c] = <<>>]
  /\ TuneOut(c)
  /\ drops' = drops + 1
  /\ UNCHANGED <<server, repoQ, sdkVars, mainQ, appVars, posted, asked, crashes>>

(* What a reconnection sends, and its unchanged rest. *)
Reconnected(c, messages) ==
  /\ ~connected[c]
  /\ connected' = [connected EXCEPT ![c] = TRUE]
  /\ up' = [up EXCEPT ![c] = messages]
  /\ UNCHANGED <<server, listening, down, repoQ, sdkVars, mainQ, appVars,
                 historyVars, envVars>>

Relisten(c) == IF regs[c] # {} THEN <<[type |-> "listen"]>> ELSE <<>>

(* Wrong: the listen is not restored; writes already answered are sent     *)
(* too; writes are lost with the connection.                               *)
ReconnectDeaf(c) == Reconnected(c, Unanswered(c))
ReconnectResendingAll(c) == Reconnected(c, Relisten(c) \o writes[c])
ReconnectForgetting(c) == Reconnected(c, Relisten(c))

(* Listens are restored first, then every write without a response is sent *)
(* (again), in order.                                                      *)
Reconnect(c) == Reconnected(c, Relisten(c) \o Unanswered(c))

(* The process dies: nothing of the SDK or the app is on disk.  What the   *)
(* socket had not delivered is lost; a new launch connects anew.           *)
Crash(c) ==
  /\ session[c] > 0 /\ crashes < MaxCrashes
  /\ crashes' = crashes + 1
  /\ listening' = [listening EXCEPT ![c] = FALSE]
  /\ connected' = [connected EXCEPT ![c] = TRUE]
  /\ up' = [up EXCEPT ![c] = <<>>] /\ down' = [down EXCEPT ![c] = <<>>]
  /\ repoQ' = [repoQ EXCEPT ![c] = <<>>] /\ mainQ' = [mainQ EXCEPT ![c] = <<>>]
  /\ regs' = [regs EXCEPT ![c] = {}]
  /\ complete' = [complete EXCEPT ![c] = FALSE]
  /\ cache' = [cache EXCEPT ![c] = Nothing]
  /\ writes' = [writes EXCEPT ![c] = <<>>] /\ held' = [held EXCEPT ![c] = <<>>]
  /\ phase' = [phase EXCEPT ![c] = "closed"]
  /\ rows' = [rows EXCEPT ![c] = NoRows]
  /\ TuneOut(c)
  /\ UNCHANGED <<server, session, posted, asked, drops>>

-----------------------------------------------------------------------------
User(c) ==
  \/ OpenTimeline(c) \/ Logout(c)
  \/ \E p \in Posts : CreatePost(c, p) \/ RemovePost(c, p)

Next == \E c \in Clients :
  \/ User(c) \/ MainThread(c) \/ RepoBlock(c) \/ Receive(c) \/ Serve(c)
  \/ RevokeListen(c) \/ Disconnect(c) \/ Reconnect(c) \/ Crash(c)

Spec == Init /\ [][Next]_vars

(* Dispatch queues run their blocks, the socket delivers and the server    *)
(* answers, and the SDK's retry timer reconnects.  Users need do nothing.  *)
Fairness == \A c \in Clients :
  /\ WF_vars(MainThread(c)) /\ WF_vars(RepoBlock(c))
  /\ WF_vars(Receive(c)) /\ WF_vars(Serve(c)) /\ WF_vars(Reconnect(c))

FairSpec == Spec /\ Fairness
-----------------------------------------------------------------------------
(* Properties *)

Sessions == UNION {0 .. MaxSessions[c] : c \in Clients}
PostCounts == [Posts -> Nat]
LocalWrites == [type : WriteOps, post : Posts]
Boards == [Posts -> Records]
Acks == [type : {"ack"}, write : LocalWrites, ok : BOOLEAN]
Regs == {"value", "changed", "removed"} \X Sessions
Requests == [type : {"listen", "unlisten"}] \cup LocalWrites
Responses ==
  [type : {"push"}, write : LocalWrites] \cup [type : {"snapshot"}, board : Boards]
  \cup Acks \cup [type : {"refusal", "revocation"}]
Blocks == LocalWrites \cup [type : {"observe", "stop"}, reg : Regs]
Callbacks ==
  [type : {"value"}, session : Sessions, posts : SUBSET Posts]
  \cup [type : {"changed", "removed"}, session : Sessions, post : Posts]
  \cup [type : {"cancelled"}, session : Sessions]
  \cup [type : {"written"}, post : Posts]

(* Every queue holds messages of the kinds its reader knows               *)
(* (FPersistentConnection.m:336-362, FirebaseTimelineService.swift:18-119). *)
TypeOK ==
  /\ server \in Boards
  /\ listening \in [Clients -> BOOLEAN] /\ connected \in [Clients -> BOOLEAN]
  /\ up \in [Clients -> Seq(Requests)] /\ down \in [Clients -> Seq(Responses)]
  /\ repoQ \in [Clients -> Seq(Blocks)] /\ mainQ \in [Clients -> Seq(Callbacks)]
  /\ regs \in [Clients -> SUBSET Regs]
  /\ complete \in [Clients -> BOOLEAN] /\ cache \in [Clients -> Boards]
  /\ writes \in [Clients -> Seq(LocalWrites)] /\ held \in [Clients -> Seq(Acks)]
  /\ phase \in [Clients -> {"closed", "loading", "live", "failed"}]
  /\ session \in [Clients -> Sessions]
  /\ rows \in [Clients -> PostCounts] /\ asked \in [Clients -> PostCounts]
  /\ posted \subseteq Posts /\ tuned \in [Posts -> SUBSET Clients]
  /\ drops \in 0 .. MaxDrops /\ crashes \in 0 .. MaxCrashes

Quiescent == \A c \in Clients :
  /\ connected[c]
  /\ up[c] = <<>> /\ down[c] = <<>> /\ repoQ[c] = <<>> /\ mainQ[c] = <<>>

(* Nobody but the device that made p, with all its writes in one queue, was *)
(* asked to remove it.                                                     *)
RemovedByCreator(p) == \A c \in Clients : asked[c][p] > 0 => c = Creator[p]

(* What message m makes of a record r of p, and the board as a cache will  *)
(* have it once all of q has come down.                                    *)
Brought(m, p, r) ==
  IF m.type = "snapshot" THEN m.board[p]
  ELSE IF m.type = "push" /\ m.write.post = p THEN Apply(m.write.type, r)
  ELSE r

Delivered(q, ca) ==
  [p \in Posts |->
     LET record[n \in 0 .. Len(q)] ==
           IF n = 0 THEN ca[p] ELSE Brought(q[n], p, record[n - 1])
     IN  record[Len(q)]]

(* The writes the responses in q answer, and the requests to write in q. *)
Answered(q) ==
  LET found[n \in 0 .. Len(q)] ==
        IF n = 0 THEN <<>>
        ELSE IF q[n].type = "ack" THEN Append(found[n - 1], q[n].write)
        ELSE found[n - 1]
  IN  found[Len(q)]

Requested(q) ==
  LET found[n \in 0 .. Len(q)] ==
        IF n = 0 THEN <<>>
        ELSE IF q[n].type \in WriteOps THEN Append(found[n - 1], q[n])
        ELSE found[n - 1]
  IN  found[Len(q)]

(* The server's pushes carry the cache to the server's board: once the     *)
(* listen is answered, the cache and the pushes on their way are never     *)
(* behind or ahead of it, across gaps, relistens and reconnections         *)
(* (FSyncTree.m:509-692, FViewProcessor.m:377-452).                        *)
CacheFollowsServer ==
  \A c \in Clients :
    Following(c) => complete[c] /\ server = Delivered(down[c], cache[c])

(* No local write is lost or sent twice on one connection: the write tree  *)
(* is exactly the responses held back, then the responses on their way     *)
(* down, then the requests on their way up, in that order; what has no     *)
(* response yet is sent again after a reconnection                         *)
(* (FPersistentConnection.m:364-396, 666-707, 988-1018).                   *)
EveryWriteTracked ==
  \A c \in Clients :
    IF connected[c]
    THEN writes[c] = Answered(held[c]) \o Answered(down[c]) \o Requested(up[c])
    ELSE IsPrefix(Answered(held[c]), writes[c])

(* A write is never uncovered over a cache that has not been filled:       *)
(* otherwise its post would vanish until the snapshot came                 *)
(* (FPersistentConnection.m:689-698).                                      *)
AckMeetsWholeView ==
  [][\A c \in Clients :
       Len(writes'[c]) < Len(writes[c]) /\ regs'[c] # {} => complete'[c]]_vars

(* A live screen is told that a post is gone only if somebody tapped       *)
(* Delete on it, whatever the order of responses, pushes and snapshots,    *)
(* when the server refuses nothing (FirebaseTimelineService.swift:107-118). *)
NoPhantomRemoval ==
  ~RejectsWrites =>
    \A c \in Clients : \A i \in DOMAIN mainQ[c] :
      mainQ[c][i].type = "removed" =>
        \E d \in Clients : asked[d][mainQ[c][i].post] > 0

(* When all queues are empty every view shows the board as it is on the    *)
(* server, and no post is left unannounced by a client that did not crash, *)
(* unless setValue's answer is held back for a listen that was given up    *)
(* (FirebaseTimelineService.swift:25-36).                                  *)
SettledBoard ==
  Quiescent =>
    /\ \A c \in Clients : regs[c] # {} => Picture(c) = server
    /\ ~RejectsWrites /\ crashes = 0 /\ (\A c \in Clients : held[c] = <<>>)
       => \A p \in Posts : server[p] # "created"

(* The live feed's promise: a client that had its live updates running     *)
(* since before a post was made, and never lost the connection, ends with  *)
(* exactly one row for it, or none if the post was removed                 *)
(* (FirebaseTimelineService.swift:67-118, TimelineViewModel.swift:78-97).  *)
(* A post is excepted if its creator crashed in the middle of createPost   *)
(* or if another device of the user removed it, as it may do there.        *)
LiveRowsExact ==
  Quiescent /\ ~RejectsWrites =>
    \A p \in Posts : \A c \in tuned[p] :
      /\ server[p] = "stamped" => rows[c][p] = 1
      /\ server[p] = "none" /\ RemovedByCreator(p) => rows[c][p] = 0

(* A removed post does not come back: once all is quiet it is off the      *)
(* board, although a reconnection sends its creation again.  A removal by  *)
(* another device of the user can be overtaken by such a second sending,   *)
(* and a crash may lose the removal itself                                 *)
(* (FirebaseTimelineService.swift:71-86, FPersistentConnection.m:1000-1009). *)
RemovedStaysRemoved ==
  Quiescent /\ ~RejectsWrites /\ crashes = 0 =>
    \A p \in Posts :
      /\ \E c \in Clients : asked[c][p] > 0
      /\ drops = 0 \/ RemovedByCreator(p)
      => ~IsPost(server[p])

(* FIRDatabaseReference.h:100: a write's block is called "after the write  *)
(* has been committed to the Firebase Database servers": every local write *)
(* is settled in the end, its answer not held back for good                *)
(* (FPersistentConnection.m:689-697, 810-815).                             *)
EveryWriteSettles == \A c \in Clients : []<>(writes[c] = <<>>)

(* A write's answer is held back for a listen only as long as that        *)
(* listen's answer is awaited, whether it brings the board, a refusal, or  *)
(* comes after the listen was given up; a lost connection takes the answer *)
(* along, and then it is the listen restored that is awaited, if any is;   *)
(* a listen taken back takes the registrations along                       *)
(* (FPersistentConnection.m:689-697, 810-815, 1074-1080).                  *)
HeldForAListen ==
  \A c \in Clients :
    held[c] # <<>> /\ connected[c] /\ (drops > 0 => regs[c] # {}) =>
      ListenPending(up[c], down[c])

(* No screen loads forever: every load ends with the posts or with an      *)
(* error, whether its listen is answered, refused, taken back or shared    *)
(* with an earlier screen, and across a lost connection                    *)
(* (TimelineViewController.swift:75-85, FIRDatabaseQuery.m:656-665).       *)
EveryLoadEnds == \A c \in Clients : []<>(phase[c] # "loading")

(* Across lost connections every write is answered by the server in the    *)
(* end, if need be after it was sent again, and the answer is passed on    *)
(* unless the client follows nothing any more: what is held back for a     *)
(* listen is released by a listen's answer only                            *)
(* (FPersistentConnection.m:364-374, 810-815, 988-1009).                   *)
EveryWriteAnswered ==
  \A c \in Clients :
    []<>(Unanswered(c) = <<>> /\ (held[c] # <<>> => regs[c] = {}))

(* A client with live updates running shows a new post in the end, unless  *)
(* it is removed or the client stops following (README.md:4).              *)
NewPostAppears ==
  \A p \in Posts, c \in Clients :
    []<>(c \in tuned[p] => rows[c][p] > 0 \/ \E d \in Clients : asked[d][p] > 0)

(* The abstract screens: nothing is shown that was not posted, nothing     *)
(* twice but a post loaded between its creation and its announcement, and  *)
(* no row goes without a Delete tap on its post, when the server refuses   *)
(* nothing (FirebaseTimelineService.swift:18-119).                         *)
Lists == INSTANCE LiveList
  WITH removed <- {p \in Posts : \E c \in Clients : asked[c][p] > 0}
ImplementsLiveList == Lists!Spec

(* README.md:4: the timeline updates by itself when posts are added or     *)
(* removed, so there is no need to refresh: a live screen that has heard   *)
(* everything shows the posts of the board and no others.                  *)
TimelineUpToDate ==
  Quiescent => \A c \in Clients, p \in Posts :
    phase[c] = "live" => (rows[c][p] > 0 <=> IsPost(server[p]))

(* FirebaseTimelineService.swift:97: the live updates bring the posts      *)
(* "that were added after the observer was created", and not again the     *)
(* ones the load already brought: no row is added for a listed post.       *)
AnnouncesOnlyNewPosts ==
  [][\A c \in Clients, p \in Posts :
       rows[c][p] > 0 => rows'[c][p] <= rows[c][p]]_vars
=============================================================================
