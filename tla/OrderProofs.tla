---------------------------- MODULE OrderProofs -----------------------------
(***************************************************************************)
(* Of the board of posts (PostsSync), what comes in which order down to a  *)
(* client, when the server refuses no write: no creation comes after an    *)
(* announcement (Aged), the creator hears of its creation before the       *)
(* answer to it (Tailed), a write's answer comes after the write's effect  *)
(* (Backed), of a record without its text nothing becomes a post again     *)
(* (Course), and a post its creator knows to be gone does not come back    *)
(* to it (Settling).  ListProofs builds on it.                             *)
(***************************************************************************)
EXTENDS RowsProofs

-----------------------------------------------------------------------------
(* What a post has behind it.  None of these is ever lost again. *)

(* its announcement can no longer be overtaken by its creation, *)
Past(p) == Spent(p) /\ server[p] # "created"
(* it is announced and gone, *)
Dead(p) == Spent(p) /\ ~IsPost(server[p])
(* the server has answered its creation. *)
Got(p) == p \in posted /\ ~Has(Unacked(Creator[p]), Write("set", p))

(* A creation served is its creator's, who has no answer to it yet. *)
LEMMA SetUnanswered ==
  ASSUME PostInv, NEW d \in Clients, NEW p \in Posts, ServeWrite(d),
         Head(up[d]) = Write("set", p)
  PROVE  d = Creator[p] /\ ~Spent(p) /\ ~Got(p)
<1>1. /\ Unserved(d) \in Seq(LocalWrites) /\ Unserved(d) # <<>>
      /\ Head(up[d]) = Head(Unserved(d))
  BY ServedOldest DEF PostInv
<1>2. Has(Unserved(d), Write("set", p)) BY <1>1, HasInHead
<1>3. Has(Unacked(d), Write("set", p)) BY <1>2, UnservedUnacked DEF PostInv
<1> QED BY <1>3, SetIsCreators DEF Got

(* A write served, when the server refuses none. *)
Performs(d, w) ==
  /\ ServeWrite(d) /\ w = Head(up[d]) /\ Has(Unacked(d), w) /\ connected[d]
  /\ server' = [server EXCEPT ![w.post] = Apply(w.type, server[w.post])]

(* The server's answer to a write it performed. *)
Answer(w) == [type |-> "ack", write |-> w, ok |-> TRUE]

(* What the server adds to q, on its way to c, when it performs d's        *)
(* write w.                                                                *)
ToldTo(c, d, w, q) ==
  LET pushed == IF listening[c] THEN Append(q, Push(w)) ELSE q
  IN  IF c = d THEN Append(pushed, Answer(w)) ELSE pushed

(* It makes responses of responses. *)
LEMMA ToldToType ==
  ASSUME NEW w \in LocalWrites, NEW q \in Seq(Responses), NEW c, NEW d
  PROVE  /\ Push(w) \in Responses /\ Answer(w) \in Responses
         /\ Append(q, Push(w)) \in Seq(Responses) /\ ToldTo(c, d, w, q) \in Seq(Responses)
<1>1. Push(w) \in Responses BY PushesAndAcks
<1>2. Answer(w) \in Acks BY DEF Acks, Answer
<1>3. Answer(w) \in Responses BY <1>2, AcksAreResponses
<1>4. \A r \in Seq(Responses), m \in Responses : Append(r, m) \in Seq(Responses)
  BY AppendProperties
<1> QED BY <1>1, <1>3, <1>4 DEF ToldTo

(* So is every write served. *)
LEMMA Performed ==
  ASSUME PostInv, ~RejectsWrites, NEW d \in Clients, ServeWrite(d)
  PROVE  \E w \in LocalWrites :
           /\ Performs(d, w)
           /\ \A c \in Clients : down'[c] = ToldTo(c, d, w, down[c])
<1>1. TypeOK /\ SyncInv /\ \A c \in Clients : Sound(c)
  BY DEF PostInv, SyncInv, TypeInv
<1>2. PICK w \in LocalWrites, ok \in BOOLEAN :
        /\ w = Head(up[d]) /\ up[d] # <<>> /\ ok
        /\ server' = [server EXCEPT ![w.post] = Apply(w.type, server[w.post])]
        /\ \A c \in Clients : down'[c] = down[c] \o Pushed(c, w, ok) \o AckedTo(c, d, w, ok)
  BY <1>1, ServeWriteDef
<1>3. Has(Unacked(d), w)
  <2>1. /\ Unserved(d) \in Seq(LocalWrites) /\ Unserved(d) # <<>>
        /\ w = Head(Unserved(d))
    BY <1>1, <1>2, ServedOldest
  <2>2. Has(Unserved(d), w) BY <2>1, HasInHead
  <2> QED BY <1>1, <2>2, UnservedUnacked
<1>4. connected[d] BY <1>1, <1>2 DEF Sound, Wire, TypeOK
<1>5. ASSUME NEW c \in Clients PROVE down'[c] = ToldTo(c, d, w, down[c])
  <2>1. PICK q \in Seq(Responses) : q = down[c] BY <1>1 DEF TypeOK
  <2>2. Push(w) \in Responses /\ Answer(w) \in Responses BY ToldToType
  <2>3. PICK t \in Seq(Responses) : t = IF listening[c] THEN Append(q, Push(w)) ELSE q
    BY ToldToType
  <2>4. q \o Pushed(c, w, ok) = t
    <3>1. q \o <<Push(w)>> = Append(q, Push(w)) BY <2>2, AppendIsConcat
    <3>2. q \o <<>> = q BY ConcatEmptySeq
    <3> QED BY <1>2, <2>3, <3>1, <3>2 DEF Pushed, Push
  <2>5. t \o AckedTo(c, d, w, ok) = IF c = d THEN Append(t, Answer(w)) ELSE t
    <3>1. t \o <<Answer(w)>> = Append(t, Answer(w)) BY <2>2, AppendIsConcat
    <3>2. t \o <<>> = t BY ConcatEmptySeq
    <3>3. ok = TRUE BY <1>2
    <3> QED BY <3>1, <3>2, <3>3 DEF AckedTo, Answer
  <2> QED BY <1>2, <2>1, <2>3, <2>4, <2>5 DEF ToldTo
<1> QED BY <1>2, <1>3, <1>4, <1>5 DEF Performs

(* They last. *)
LEMMA PastStays ==
  ASSUME PostInv, [Next]_vars, ~RejectsWrites, NEW p \in Posts
  PROVE  /\ Past(p) => Past(p)'
         /\ Dead(p) => Dead(p)'
         /\ Got(p) => Got(p)'
         /\ Got(p) /\ ~IsPost(server[p]) => ~IsPost(server'[p])
<1>1. TypeOK /\ SyncInv /\ server \in Boards
  BY DEF PostInv, SyncInv, TypeInv, TypeOK
<1>2. Spent(p) => Spent(p)' BY <1>1, SpentStays
<1>3. ASSUME Got(p) PROVE Got(p)'
  <2> DEFINE k == Creator[p]
             s == Write("set", p)
  <2>1. p \in posted /\ p \in posted' /\ k \in Clients
    BY <1>1, <1>3, HistoryGrows, CreatorAssumption DEF Got
  <2>2. ~Has(Unacked(k), s) BY <1>3 DEF Got
  <2> HIDE DEF k
  <2>3. ~Has(Unacked(k)', s)
    <3> SUFFICES ASSUME Has(Unacked(k)', s) PROVE FALSE OBVIOUS
    <3>1. PICK q \in Posts :
             \/ CreatePost(k, q) /\ s = Write("set", q)
             \/ Has(mainQ[k], Reported(q)) /\ s = Write("update", q)
             \/ RemovePost(k, q) /\ s = Removal(q)
      BY <1>1, <2>1, <2>2, UnackedNew
    <3>2. CreatePost(k, q) /\ q = p BY <3>1 DEF Write, Removal
    <3> QED BY <2>1, <3>2 DEF CreatePost
  <2> QED BY <2>1, <2>3 DEF Got, k
<1>4. ASSUME server'[p] # server[p]
      PROVE  \/ server'[p] = "created" /\ ~Spent(p) /\ ~Got(p)
             \/ server'[p] # "created" /\ (IsPost(server'[p]) => IsPost(server[p]))
  <2>1. PICK d \in Clients : ServeWrite(d) BY <1>4, ServerChanges
  <2>2. PICK w \in LocalWrites : Performs(d, w) BY <2>1, Performed
  <2>3. w.post = p /\ server'[p] = Apply(w.type, server[p])
    BY <1>1, <1>4, <2>2 DEF Performs, Boards
  <2>4. w = Write(w.type, p) /\ w.type \in WriteOps BY <2>3 DEF LocalWrites, Write
  <2>5. CASE w.type = "set"
    <3>1. Head(up[d]) = Write("set", p) BY <2>2, <2>4, <2>5 DEF Performs
    <3> QED BY <2>1, <2>3, <2>5, <3>1, SetUnanswered DEF Apply
  <2>6. CASE w.type # "set"
    <3>1. server[p] \in Records BY <1>1 DEF Boards
    <3> QED BY <2>3, <2>4, <2>6, <3>1 DEF Apply, WriteOps, IsPost, Records
  <2> QED BY <2>5, <2>6
<1>5. Past(p) => Past(p)' BY <1>2, <1>4 DEF Past
<1>6. Dead(p) => (~IsPost(server[p]))' BY <1>4 DEF Dead, IsPost
<1>7. Got(p) /\ ~IsPost(server[p]) => ~IsPost(server'[p]) BY <1>4 DEF IsPost
<1> QED BY <1>2, <1>3, <1>5, <1>6, <1>7 DEF Dead

(* Only the announcement of a post stamps its record. *)
Dated(p) == server[p] \in {"stamped", "stub"} => Spent(p)

(* It stays so. *)
LEMMA DatedStays ==
  ASSUME PostInv, [Next]_vars, ~RejectsWrites, NEW p \in Posts, Dated(p),
         \A d \in Clients : PostPhase(d, p)
  PROVE  Dated(p)'
<1>1. TypeOK /\ SyncInv /\ server \in Boards
  BY DEF PostInv, SyncInv, TypeInv, TypeOK
<1>2. Spent(p) => Spent(p)' BY <1>1, SpentStays
<1>3. ASSUME server'[p] # server[p], server'[p] \in {"stamped", "stub"} PROVE Spent(p)
  <2>1. PICK d \in Clients : ServeWrite(d) BY <1>3, ServerChanges
  <2>2. PICK w \in LocalWrites : Performs(d, w) BY <2>1, Performed
  <2>3. w.post = p /\ server'[p] = Apply(w.type, server[p])
    BY <1>1, <1>3, <2>2 DEF Performs, Boards
  <2>4. w = Write(w.type, p) /\ w.type \in WriteOps BY <2>3 DEF LocalWrites, Write
  <2>5. w.type = "update" BY <1>3, <2>3, <2>4 DEF Apply, WriteOps
  <2>6. Has(Unacked(d), Write("update", p)) BY <2>2, <2>4, <2>5 DEF Performs
  <2> QED BY <2>6 DEF PostPhase
<1> QED BY <1>2, <1>3 DEF Dated

-----------------------------------------------------------------------------
(* What a step does to a client's view *)

(* Without registrations there is no view; a record the cache has not been *)
(* told of is not updated.                                                 *)
Blank(c) ==
  /\ regs[c] = {} => ~complete[c] /\ cache[c] = Nothing
  /\ \A p \in Posts : cache[c][p] = "stub" => complete[c]

(* The view is as it was; or there is none any more, and answers held      *)
(* back go.                                                                *)
SameView(c) ==
  /\ cache'[c] = cache[c] /\ complete'[c] = complete[c] /\ held'[c] = held[c]

(* The view is gone; answers held back are let go or kept. *)
NoView(c) ==
  cache'[c] = Nothing /\ ~complete'[c] /\ held'[c] \in {held[c], <<>>}

(* What message m makes of the record of p in c's cache. *)
Heeds(c, p, m) ==
  \/ /\ complete'[c] /\ (complete[c] \/ m.type = "snapshot")
     /\ cache'[c][p] = Brought(m, p, cache[c][p])
  \/ /\ ~complete'[c] /\ ~complete[c] /\ cache'[c][p] # "stub"
     /\ \/ cache'[c][p] = cache[c][p]
        \/ m.type = "push" /\ cache'[c][p] = Brought(m, p, cache[c][p])
  \/ ~complete'[c] /\ cache'[c][p] = "none"

(* What it makes of the answers held back. *)
Holds(c, m) ==
  held'[c] \in {held[c], <<>>} \/ (m.type = "ack" /\ held'[c] = Append(held[c], m))

(* What a step of anybody is to client c's view and to what is on its      *)
(* way down to it: nothing, or less of it,                                 *)
Waits(c) ==
  /\ server' = server /\ down'[c] = down[c] /\ listening'[c] \in {listening[c], FALSE}
  /\ SameView(c) \/ NoView(c)

(* a message heard, *)
Hears(c, m, q) ==
  /\ Receive(c) /\ Heard(c, m, q) /\ m \in Responses /\ q \in Seq(Responses)
  /\ Holds(c, m) /\ \A p \in Posts : Heeds(c, p, m)

(* a listen's answer, or its end, *)
Gets(c, m) ==
  /\ server' = server /\ down'[c] = Append(down[c], m) /\ SameView(c)
  /\ \/ m = [type |-> "snapshot", board |-> server] /\ listening'[c]
     \/ m.type \in {"refusal", "revocation"} /\ ~listening'[c]

(* a write performed, maybe told to c, *)
Learns(c, d, w) ==
  /\ Performs(d, w) /\ down'[c] = ToldTo(c, d, w, down[c])
  /\ SameView(c) /\ listening'[c] = listening[c]

(* or the connection lost. *)
Loses(c) ==
  /\ server' = server /\ down'[c] = <<>> /\ ~listening'[c]
  /\ SameView(c) \/ NoView(c)

(* A push is heeded, from the view's first answer on, *)
LEMMA PushHeeded ==
  ASSUME TypeInv, NEW c \in Clients, Blank(c), ReceivePush(c)
  PROVE  LET m == Head(down[c]) IN Holds(c, m) /\ \A p \in Posts : Heeds(c, p, m)
<1> DEFINE m == Head(down[c])
<1>1. TypeOK /\ cache[c] \in [Posts -> Records] /\ complete[c] \in BOOLEAN
  BY DEF TypeInv, TypeOK, Boards
<1>2. down[c] # <<>> /\ m.type = "push" BY DEF ReceivePush, Message
<1>3. m \in Responses BY <1>1, <1>2, HeadsOfQueues
<1>4. PICK w \in LocalWrites : w = m.write BY <1>2, <1>3 DEF Responses, Acks
<1>5. /\ complete'[c] = complete[c] /\ held'[c] = held[c]
      /\ cache'[c] = Patch(c, w)
  BY <1>1, <1>4 DEF ReceivePush, TypeOK
<1> HIDE DEF m
<1>6. ASSUME NEW p \in Posts PROVE Heeds(c, p, m)
  <2>1. Brought(m, p, cache[c][p]) = Laid(w, p, cache[c][p])
    BY <1>2, <1>4 DEF Brought, Laid
  <2>2. CASE complete[c]
    <3>1. regs[c] # {} BY <2>2 DEF Blank
    <3>2. cache'[c] = [cache[c] EXCEPT ![w.post] = Apply(w.type, cache[c][w.post])]
      BY <1>5, <2>2, <3>1 DEF Patch
    <3>3. cache'[c][p] = Laid(w, p, cache[c][p]) BY <1>1, <3>2 DEF Laid
    <3> QED BY <1>5, <2>1, <2>2, <3>3 DEF Heeds
  <2>3. CASE ~complete[c]
    <3>1. cache[c][p] # "stub" BY <2>3 DEF Blank
    <3>2. CASE cache'[c] = cache[c] BY <1>5, <2>3, <3>1, <3>2 DEF Heeds
    <3>3. CASE cache'[c] # cache[c]
      <4>1. /\ cache'[c] = [cache[c] EXCEPT ![w.post] = Apply(w.type, cache[c][w.post])]
            /\ cache[c][w.post] # "none" \/ w.type # "update"
        BY <1>5, <2>3, <3>3 DEF Patch
      <4>2. cache'[c][p] = Laid(w, p, cache[c][p]) BY <1>1, <4>1 DEF Laid
      <4>3. Laid(w, p, cache[c][p]) # "stub"
        <5>1. w.type \in WriteOps BY DEF LocalWrites
        <5>2. CASE w.post = p
          <6>1. cache[c][p] # "none" \/ w.type # "update" BY <4>1, <5>2
          <6> QED BY <3>1, <5>1, <5>2, <6>1 DEF Laid, Apply, WriteOps
        <5>3. CASE w.post # p BY <3>1, <5>3 DEF Laid
        <5> QED BY <5>2, <5>3
      <4> QED BY <1>2, <1>5, <2>1, <2>3, <4>2, <4>3 DEF Heeds
    <3> QED BY <3>2, <3>3
  <2> QED BY <2>2, <2>3
<1> QED BY <1>5, <1>6 DEF Holds, m

(* so is a listen's answer, *)
LEMMA SnapshotHeeded ==
  ASSUME TypeInv, NEW c \in Clients, Blank(c), ReceiveSnapshot(c)
  PROVE  LET m == Head(down[c]) IN Holds(c, m) /\ \A p \in Posts : Heeds(c, p, m)
<1> DEFINE m == Head(down[c])
<1>1. TypeOK /\ cache[c] \in [Posts -> Records] /\ complete[c] \in BOOLEAN
  BY DEF TypeInv, TypeOK, Boards
<1>2. m.type = "snapshot" BY DEF ReceiveSnapshot, Message
<1>3. /\ cache'[c] = IF regs[c] # {} THEN m.board ELSE cache[c]
      /\ complete'[c] = (regs[c] # {} \/ complete[c])
      /\ held'[c] \in {held[c], <<>>}
  BY <1>1 DEF ReceiveSnapshot, TypeOK
<1> HIDE DEF m
<1>4. ASSUME NEW p \in Posts PROVE Heeds(c, p, m)
  <2>1. CASE regs[c] # {} BY <1>2, <1>3, <2>1 DEF Heeds, Brought
  <2>2. CASE regs[c] = {}
    <3>1. ~complete[c] /\ cache[c][p] # "stub" BY <2>2 DEF Blank, Nothing
    <3> QED BY <1>3, <2>2, <3>1 DEF Heeds
  <2> QED BY <2>1, <2>2
<1> QED BY <1>3, <1>4 DEF Holds, m

(* and of answers to writes and of refusals nothing is seen in the         *)
(* cache.                                                                  *)
LEMMA OthersHeeded ==
  ASSUME TypeInv, NEW c \in Clients, Blank(c),
         ReceiveAck(c) \/ ReceiveRefusal(c) \/ ReceiveRevocation(c)
  PROVE  LET m == Head(down[c]) IN Holds(c, m) /\ \A p \in Posts : Heeds(c, p, m)
<1> DEFINE m == Head(down[c])
<1>1. TypeOK /\ cache[c] \in [Posts -> Records] /\ complete[c] \in BOOLEAN
  BY DEF TypeInv, TypeOK, Boards
<1>2. m.type \in {"ack", "refusal", "revocation"}
  BY DEF ReceiveAck, ReceiveRefusal, ReceiveRevocation, Message
<1>3. /\ Holds(c, m)
      /\ SameView(c) \/ NoView(c) \/ (cache'[c] = cache[c] /\ complete'[c] = complete[c])
  <2>1. CASE ReceiveAck(c)
    <3>1. m.type = "ack" BY <2>1 DEF ReceiveAck, Message
    <3> QED BY <1>1, <2>1, <3>1 DEF ReceiveAck, Holds, TypeOK
  <2>2. CASE ReceiveRefusal(c)
    <3>1. CASE ListenPending(up[c], Tail(down[c]))
      <4>1. UNCHANGED sdkVars BY <2>2, <3>1 DEF ReceiveRefusal
      <4> QED BY <4>1 DEF Holds, SameView, sdkVars
    <3>2. CASE ~ListenPending(up[c], Tail(down[c]))
      <4>1. CancelView(c) /\ held' = [held EXCEPT ![c] = <<>>]
        BY <2>2, <3>2 DEF ReceiveRefusal
      <4>2. /\ cache'[c] = Nothing /\ ~complete'[c] /\ held'[c] = <<>>
        BY <1>1, <4>1 DEF CancelView, TypeOK
      <4> QED BY <4>2 DEF Holds, NoView
    <3> QED BY <3>1, <3>2
  <2>3. CASE ReceiveRevocation(c)
    BY <1>1, <2>3 DEF ReceiveRevocation, CancelView, Holds, SameView, NoView, TypeOK
  <2> QED BY <2>1, <2>2, <2>3
<1> HIDE DEF m
<1>4. ASSUME NEW p \in Posts PROVE Heeds(c, p, m)
  <2>1. Brought(m, p, cache[c][p]) = cache[c][p] BY <1>2 DEF Brought
  <2>2. CASE NoView(c)
    <3>1. Nothing[p] = "none" BY DEF Nothing
    <3> QED BY <2>2, <3>1 DEF NoView, Heeds
  <2>3. CASE cache'[c] = cache[c] /\ complete'[c] = complete[c]
    <3>1. cache[c][p] = "stub" => complete[c] BY DEF Blank
    <3> QED BY <1>1, <2>1, <2>3, <3>1 DEF Heeds
  <2> QED BY <1>3, <2>2, <2>3 DEF SameView
<1> QED BY <1>3, <1>4 DEF m

(* A message is taken off the socket, and its kind says what is done. *)
LEMMA Received ==
  ASSUME TypeOK, NEW c \in Clients, Receive(c)
  PROVE  /\ down[c] # <<>> /\ down'[c] = Tail(down[c])
         /\ server' = server /\ drops' = drops /\ listening'[c] = listening[c]
         /\ connected'[c] = connected[c] /\ up'[c] = up[c]
         /\ Head(down[c]).type = "push" => ReceivePush(c)
         /\ Head(down[c]).type \in {"refusal", "revocation"} =>
              ReceiveRefusal(c) \/ ReceiveRevocation(c)
<1>1. CASE ReceivePush(c) BY <1>1 DEF ReceivePush, Message, TypeOK, envVars
<1>2. CASE ReceiveSnapshot(c) BY <1>2 DEF ReceiveSnapshot, Message, TypeOK, envVars
<1>3. CASE ReceiveAck(c) BY <1>3 DEF ReceiveAck, Message, TypeOK, envVars
<1>4. CASE ReceiveRefusal(c) BY <1>4 DEF ReceiveRefusal, Message, TypeOK, envVars
<1>5. CASE ReceiveRevocation(c) BY <1>5 DEF ReceiveRevocation, Message, TypeOK, envVars
<1> QED BY <1>1, <1>2, <1>3, <1>4, <1>5 DEF Receive

(* A message heard is heeded. *)
LEMMA Hearings ==
  ASSUME TypeInv, NEW c \in Clients, Blank(c), Receive(c)
  PROVE  Hears(c, Head(down[c]), Tail(down[c]))
<1>1. TypeOK BY DEF TypeInv
<1>2. /\ down[c] # <<>> /\ down'[c] = Tail(down[c]) /\ server' = server /\ drops' = drops
      /\ listening'[c] = listening[c] /\ connected'[c] = connected[c] /\ up'[c] = up[c]
  BY <1>1, Received
<1>4. Heard(c, Head(down[c]), Tail(down[c])) BY <1>2 DEF Heard
<1>5. Head(down[c]) \in Responses /\ Tail(down[c]) \in Seq(Responses)
  BY <1>1, <1>2, HeadsOfQueues
<1>6. LET m == Head(down[c]) IN Holds(c, m) /\ \A p \in Posts : Heeds(c, p, m)
  BY PushHeeded, SnapshotHeeded, OthersHeeded DEF Receive
<1> QED BY <1>4, <1>5, <1>6 DEF Hears

(* What a step of c is to its own view, except a write served, *)
LEMMA OwnMoves ==
  ASSUME TypeInv, NEW c \in Clients, Blank(c), ActionOf(c), ~ServeWrite(c)
  PROVE  \/ Waits(c) \/ Loses(c)
         \/ \E m \in Responses : Gets(c, m)
         \/ \E m, q : Hears(c, m, q)
<1>1. TypeOK BY DEF TypeInv
<1>2. CASE User(c) \/ MainThread(c)
  <2>1. Calm(c) BY <1>1, <1>2, ScreensAreCalm
  <2> QED BY <2>1 DEF Calm, Waits, SameView
<1>3. CASE RepoBlock(c)
  BY <1>1, <1>3 DEF RepoBlock, AddObserver, RemoveObserver, LocalWrite, Waits, SameView,
                    NoView, TypeOK
<1>4. CASE Receive(c) BY <1>4, Hearings
<1>5. CASE ServeListen(c)
  <2>1. PICK ok \in BOOLEAN :
          /\ listening' = [listening EXCEPT ![c] = ok]
          /\ down' = [down EXCEPT ![c] =
                     Append(@, IF ok THEN [type |-> "snapshot", board |-> server]
                                     ELSE [type |-> "refusal"])]
          /\ UNCHANGED <<server, sdkVars>>
    BY <1>5 DEF ServeListen
  <2>2. PICK m \in Responses :
          m = IF ok THEN [type |-> "snapshot", board |-> server] ELSE [type |-> "refusal"]
    BY <1>1 DEF Responses, TypeOK
  <2>3. /\ down'[c] = Append(down[c], m) /\ listening'[c] = ok
        /\ SameView(c) /\ server' = server
    BY <1>1, <2>1, <2>2 DEF TypeOK, sdkVars, SameView
  <2> QED BY <2>2, <2>3 DEF Gets
<1>6. CASE ServeUnlisten(c)
  BY <1>1, <1>6 DEF ServeUnlisten, Waits, SameView, sdkVars, TypeOK
<1>7. CASE RevokeListen(c)
  <2>1. PICK m \in Responses : m = [type |-> "revocation"] BY DEF Responses
  <2>2. /\ down'[c] = Append(down[c], m) /\ listening'[c] = FALSE
        /\ SameView(c) /\ server' = server
    BY <1>1, <1>7, <2>1 DEF RevokeListen, TypeOK, sdkVars, SameView
  <2> QED BY <2>1, <2>2 DEF Gets
<1>8. CASE Disconnect(c) \/ Crash(c)
  BY <1>1, <1>8 DEF Disconnect, Crash, Loses, SameView, NoView, TypeOK, sdkVars
<1>9. CASE Reconnect(c)
  BY <1>1, <1>9 DEF Reconnect, Reconnected, Waits, SameView, sdkVars
<1> QED BY <1>2, <1>3, <1>4, <1>5, <1>6, <1>7, <1>8, <1>9 DEF ActionOf, Serve

(* and what any step is. *)
LEMMA ViewMoves ==
  ASSUME PostInv, [Next]_vars, ~RejectsWrites, NEW c \in Clients, Blank(c)
  PROVE  \/ Waits(c) \/ Loses(c)
         \/ \E m \in Responses : Gets(c, m)
         \/ \E m, q : Hears(c, m, q)
         \/ \E d \in Clients, w \in LocalWrites : Learns(c, d, w)
<1>1. TypeInv /\ TypeOK BY DEF PostInv, SyncInv, TypeInv
<1>2. CASE UNCHANGED vars
  BY <1>2 DEF vars, sdkVars, Waits, SameView
<1>3. ASSUME NEW d \in Clients, ActionOf(d), ~ServeWrite(d), d # c PROVE Waits(c)
  <2>1. Idle(c) BY <1>1, <1>3, OthersIdle
  <2>2. server' = server /\ listening'[c] = listening[c]
    <3>1. Calm(c)
      <4>1. CASE User(d) \/ MainThread(d) BY <1>1, <4>1, ScreensAreCalm
      <4>2. CASE ~(User(d) \/ MainThread(d))
        BY <1>1, <1>3, <4>2, OthersAreCalm DEF ActionOf, Serve
      <4> QED BY <4>1, <4>2
    <3> QED BY <3>1 DEF Calm
  <2> QED BY <2>1, <2>2 DEF Idle, Waits, SameView
<1>4. ASSUME NEW d \in Clients, ServeWrite(d)
      PROVE  \E w \in LocalWrites : Learns(c, d, w)
  <2>1. PICK w \in LocalWrites : Performs(d, w) /\ down'[c] = ToldTo(c, d, w, down[c])
    BY <1>4, Performed
  <2>2. SameView(c) /\ listening'[c] = listening[c]
    BY <1>4 DEF ServeWrite, sdkVars, SameView
  <2> QED BY <2>1, <2>2 DEF Learns
<1>5. ASSUME NEW d \in Clients, ActionOf(d)
      PROVE  \/ Waits(c) \/ Loses(c)
             \/ \E m \in Responses : Gets(c, m)
             \/ \E m, q : Hears(c, m, q)
             \/ \E e \in Clients, w \in LocalWrites : Learns(c, e, w)
  <2>1. CASE ServeWrite(d) BY <1>4, <2>1
  <2>2. CASE ~ServeWrite(d) /\ d # c BY <1>3, <1>5, <2>2
  <2>3. CASE ~ServeWrite(d) /\ d = c BY <1>1, <1>5, <2>3, OwnMoves
  <2> QED BY <2>1, <2>2, <2>3
<1> QED BY <1>2, <1>5, SomebodyActs

-----------------------------------------------------------------------------
(* Creations do not come after announcements *)

(* Messages that bring the creation of p, *)
Making(p) ==
  {m \in Responses : \/ m.type = "push" /\ m.write = Write("set", p)
                     \/ m.type = "snapshot" /\ m.board[p] = "created"}

(* and those that come of its announcement. *)
Stamping(p) ==
  {m \in Responses : \/ m.type \in {"push", "ack"} /\ m.write = Write("update", p)
                     \/ m.type = "snapshot" /\ m.board[p] \in {"stamped", "stub"}}

(* Client c has heard of p's announcement. *)
Announced(c, p) ==
  cache[c][p] \in {"stamped", "stub"} \/ In(held[c], AcksTo(Write("update", p)))

(* No creation comes after an announcement, which is the creator's. *)
Aged(c, p) ==
  /\ Announced(c, p) \/ In(down[c], Stamping(p)) => Past(p)
  /\ Announced(c, p) => ~In(down[c], Making(p))
  /\ NeverAfter(down[c], Stamping(p), Making(p))
  /\ In(held[c], AcksTo(Write("update", p))) => c = Creator[p]

(* The creator hears of the creation before it gets the answer to it. *)
Tailed(c, p) ==
  c = Creator[p] =>
    Met(down[c], Pushes(Write("set", p)), {}, {}, AcksTo(Write("set", p)))

(* What is said of one write on its way down. *)
LEMMA WriteTold ==
  ASSUME NEW w \in LocalWrites, NEW p \in Posts
  PROVE  /\ Push(w) \in Responses /\ Answer(w) \in Responses
         /\ Push(w) \in Making(p) <=> w = Write("set", p)
         /\ Answer(w) \notin Making(p)
         /\ Push(w) \in Stamping(p) <=> w = Write("update", p)
         /\ Answer(w) \in Stamping(p) <=> w = Write("update", p)
         /\ Push(w) \in Pushes(Write("set", p)) <=> w = Write("set", p)
         /\ \A v : Push(w) \notin AcksTo(v)
         /\ \A v : Answer(w) \notin Pushes(v)
         /\ \A v : Answer(w) \in AcksTo(v) <=> w = v
<1>1. /\ Push(w) \in Responses /\ Answer(w) \in Responses
  <2>1. <<>> \in Seq(Responses) BY EmptySeq
  <2> QED BY <2>1, ToldToType
<1>2. Push(w).type = "push" /\ Push(w).write = w BY DEF Push
<1>3. Answer(w).type = "ack" /\ Answer(w).write = w BY DEF Answer
<1>4. \A v : Answer(w) # Push(v) BY <1>3 DEF Push
<1> QED BY <1>1, <1>2, <1>3, <1>4 DEF Making, Stamping, Pushes, AcksTo, Push, Write

(* A queue of responses with one more write told. *)
LEMMA ToldPlaces ==
  ASSUME NEW w \in LocalWrites, NEW q \in Seq(Responses), NEW c, NEW d,
         NEW A, NEW B, NeverAfter(q, A, B), In(q, A) => Push(w) \notin B /\ Answer(w) \notin B,
         Push(w) \in A => Answer(w) \notin B
  PROVE  NeverAfter(ToldTo(c, d, w, q), A, B)
<1>1. Push(w) \in Responses /\ Answer(w) \in Responses /\ Append(q, Push(w)) \in Seq(Responses)
  BY ToldToType
<1>2. NeverAfter(Append(q, Push(w)), A, B) BY <1>1, NeverAfterAppend
<1>3. In(Append(q, Push(w)), A) => In(q, A) \/ Push(w) \in A BY <1>1, InAppend
<1>4. /\ NeverAfter(Append(q, Answer(w)), A, B)
  BY <1>1, NeverAfterAppend
<1>5. NeverAfter(Append(Append(q, Push(w)), Answer(w)), A, B)
  BY <1>1, <1>2, <1>3, NeverAfterAppend
<1> QED BY <1>2, <1>4, <1>5 DEF ToldTo

(* What a write told adds to a queue. *)
LEMMA InTold ==
  ASSUME NEW w \in LocalWrites, NEW q \in Seq(Responses), NEW c, NEW d
  PROVE  \A S : /\ In(ToldTo(c, d, w, q), S) => In(q, S) \/ Push(w) \in S \/ Answer(w) \in S
                /\ In(q, S) => In(ToldTo(c, d, w, q), S)
<1>1. Push(w) \in Responses /\ Answer(w) \in Responses /\ Append(q, Push(w)) \in Seq(Responses)
  BY ToldToType
<1>2. \A S : In(Append(q, Push(w)), S) <=> In(q, S) \/ Push(w) \in S BY <1>1, InAppend
<1>3. \A S : In(Append(q, Answer(w)), S) <=> In(q, S) \/ Answer(w) \in S BY <1>1, InAppend
<1>4. \A S : In(Append(Append(q, Push(w)), Answer(w)), S)
               <=> In(Append(q, Push(w)), S) \/ Answer(w) \in S BY <1>1, InAppend
<1> QED BY <1>2, <1>3, <1>4 DEF ToldTo

(* Creations never come after announcements. *)
LEMMA AgedStays ==
  ASSUME PostInv, [Next]_vars, ~RejectsWrites, NEW c \in Clients, NEW p \in Posts,
         Aged(c, p), Blank(c), Dated(p), \A d \in Clients : PostPhase(d, p)
  PROVE  Aged(c, p)'
<1> DEFINE u == Write("update", p)
           A == Stamping(p)
           B == Making(p)
<1>1. TypeOK /\ SyncInv /\ server \in Boards /\ held[c] \in Seq(Acks)
  BY DEF PostInv, SyncInv, TypeInv, TypeOK
<1>2. PICK q \in Seq(Responses) : q = down[c] BY <1>1 DEF TypeOK
<1>3. Past(p) => Past(p)' BY PastStays
<1>4. server[p] \in Records /\ cache[c][p] \in Records BY <1>1 DEF TypeOK, Boards
<1>5. Nothing[p] = "none" /\ ~In(<<>>, AcksTo(u)) BY InNone DEF Nothing
<1>6. ASSUME SameView(c) \/ NoView(c)
      PROVE  /\ Announced(c, p)' => Announced(c, p)
             /\ In(held'[c], AcksTo(u)) => In(held[c], AcksTo(u))
  BY <1>5, <1>6 DEF SameView, NoView, Announced
<1>7. CASE Waits(c)
  BY <1>3, <1>6, <1>7 DEF Waits, Aged
<1>8. CASE Loses(c)
  <2>1. ~In(<<>>, A) /\ ~In(<<>>, B) /\ NeverAfter(<<>>, A, B) BY InNone
  <2> QED BY <1>3, <1>6, <1>8, <2>1 DEF Loses, Aged
<1>9. ASSUME NEW m \in Responses, Gets(c, m) PROVE Aged(c, p)'
  <2>1. /\ server' = server /\ down'[c] = Append(q, m) /\ SameView(c)
    BY <1>2, <1>9 DEF Gets
  <2>2. m \in B => server[p] = "created" BY <1>9 DEF Gets, Making
  <2>3. m \in A => Past(p) BY <1>9 DEF Gets, Stamping, Past, Dated
  <2>4. Past(p) => server[p] # "created" BY DEF Past
  <2>5. /\ In(down'[c], A) => In(q, A) \/ m \in A
        /\ In(down'[c], B) => In(q, B) \/ m \in B
    BY <2>1, InAppend
  <2>6. NeverAfter(down'[c], A, B)
    BY <1>2, <2>1, <2>2, <2>4, NeverAfterAppend DEF Aged
  <2> HIDE DEF A, B
  <2> QED BY <1>2, <1>3, <1>6, <2>1, <2>2, <2>3, <2>4, <2>5, <2>6 DEF Aged, A, B
<1>10. ASSUME NEW m, NEW t, Hears(c, m, t) PROVE Aged(c, p)'
  <2>1. /\ Heard(c, m, t) /\ Heeds(c, p, m) /\ Holds(c, m) /\ m \in Responses
        /\ t \in Seq(Responses) /\ down'[c] = t /\ q # <<>> /\ m = Head(q) /\ t = Tail(q)
    BY <1>2, <1>10 DEF Hears, Heard
  <2>2. /\ In(q, A) <=> m \in A \/ In(t, A)
        /\ In(q, B) <=> m \in B \/ In(t, B)
    BY <2>1, InHead
  <2>3. NeverAfter(t, A, B) /\ (m \in A => ~In(t, B))
    BY <1>2, <2>1, NeverAfterHead DEF Aged
  <2>4. cache'[c][p] \in {"stamped", "stub"} => cache[c][p] \in {"stamped", "stub"} \/ m \in A
    <3>1. cache'[c][p] \in {cache[c][p], Brought(m, p, cache[c][p]), "none"}
      BY <2>1 DEF Heeds
    <3>2. ASSUME Brought(m, p, cache[c][p]) \in {"stamped", "stub"},
                 cache[c][p] \notin {"stamped", "stub"}
          PROVE  m \in A
      <4>1. CASE m.type = "snapshot" BY <2>1, <3>2, <4>1 DEF Brought, Stamping
      <4>2. CASE m.type # "snapshot"
        <5>1. m.type = "push" /\ m.write.post = p /\ Apply(m.write.type, cache[c][p]) \in {"stamped", "stub"}
          BY <3>2, <4>2 DEF Brought
        <5>2. m.write \in LocalWrites BY <2>1, <5>1 DEF Responses, Acks
        <5>3. m.write.type \in WriteOps /\ m.write = Write(m.write.type, p)
          BY <5>1, <5>2 DEF LocalWrites, Write
        <5>4. m.write.type = "update" BY <5>1, <5>3 DEF Apply, WriteOps
        <5> QED BY <2>1, <5>1, <5>3, <5>4 DEF Stamping
      <4> QED BY <4>1, <4>2
    <3> QED BY <3>1, <3>2
  <2>5. In(held'[c], AcksTo(u)) => In(held[c], AcksTo(u)) \/ m \in AcksTo(u)
    <3>1. CASE held'[c] \in {held[c], <<>>} BY <1>5, <3>1
    <3>2. CASE m.type = "ack" /\ held'[c] = Append(held[c], m)
      <4>1. m \in Acks BY <2>1, <3>2 DEF Responses
      <4> QED BY <1>1, <3>2, <4>1, InAppend
    <3> QED BY <2>1, <3>1, <3>2 DEF Holds
  <2>6. m \in AcksTo(u) => m \in A /\ c = Creator[p]
    <3> SUFFICES ASSUME m \in AcksTo(u) PROVE m \in A /\ c = Creator[p] OBVIOUS
    <3>1. m.type = "ack" /\ m.write = u /\ m \in Responses BY DEF AcksTo
    <3>2. Len(q) \in Nat /\ Len(q) >= 1 /\ q[1] = m
      <4>1. Len(Tail(q)) \in Nat /\ Len(q) = Len(Tail(q)) + 1 /\ q[1] = Head(q) /\ Len(q) \in Nat
        BY <2>1, TailPlaces
      <4> QED BY <2>1, <4>1
    <3>3. Has(Unacked(c), u) BY <1>1, <1>2, <3>1, <3>2, UnansweredUnacked
    <3> QED BY <3>1, <3>3 DEF PostPhase, Stamping
  <2> HIDE DEF A, B
  <2>7. Announced(c, p)' => Announced(c, p) \/ m \in A BY <2>4, <2>5, <2>6 DEF Announced
  <2> QED BY <1>2, <1>3, <2>1, <2>2, <2>3, <2>5, <2>6, <2>7 DEF Aged, A, B
<1>11. ASSUME NEW d \in Clients, NEW w \in LocalWrites, Learns(c, d, w) PROVE Aged(c, p)'
  <2>1. /\ Performs(d, w) /\ down'[c] = ToldTo(c, d, w, q) /\ SameView(c)
    BY <1>2, <1>11 DEF Learns
  <2>2. Push(w) \in B \/ Answer(w) \in B => ~Past(p)
    <3> SUFFICES ASSUME w = Write("set", p) PROVE ~Past(p) BY WriteTold
    <3>1. ServeWrite(d) /\ Head(up[d]) = Write("set", p) BY <2>1 DEF Performs
    <3> QED BY <3>1, SetUnanswered DEF Past
  <2>3. Push(w) \in A \/ Answer(w) \in A =>
          Past(p)' /\ Push(w) \notin B /\ Answer(w) \notin B
    <3> SUFFICES ASSUME w = Write("update", p) 
                 PROVE Past(p)' /\ Push(w) \notin B /\ Answer(w) \notin B
      BY WriteTold
    <3>1. Has(Unacked(d), w) /\ server'[p] = Apply("update", server[p])
      BY <1>1, <2>1 DEF Performs, Boards, Write
    <3>2. Spent(p) BY <3>1 DEF PostPhase
    <3>3. Spent(p)' BY <1>1, <3>2, SpentStays
    <3>4. server'[p] # "created" BY <1>4, <3>1 DEF Apply, Records
    <3>5. w # Write("set", p) BY DEF Write
    <3>6. Push(w) \notin B /\ Answer(w) \notin B BY <3>5, WriteTold
    <3> QED BY <3>3, <3>4, <3>6 DEF Past
  <2> HIDE DEF A, B
  <2>4. NeverAfter(down'[c], A, B)
    <3>1. NeverAfter(q, A, B) /\ (In(q, A) => Past(p)) BY <1>2 DEF Aged, A, B
    <3> QED BY <2>1, <2>2, <2>3, <3>1, ToldPlaces
  <2>5. /\ In(down'[c], A) => In(q, A) \/ Push(w) \in A \/ Answer(w) \in A
        /\ In(down'[c], B) => In(q, B) \/ Push(w) \in B \/ Answer(w) \in B
    BY <2>1, InTold
  <2> QED BY <1>2, <1>3, <1>6, <2>1, <2>2, <2>3, <2>4, <2>5 DEF Aged, A, B
<1> QED BY <1>7, <1>8, <1>9, <1>10, <1>11, ViewMoves

(* The creator's answer never comes before its creation. *)
LEMMA TailedStays ==
  ASSUME PostInv, [Next]_vars, ~RejectsWrites, NEW c \in Clients, NEW p \in Posts,
         Tailed(c, p), Blank(c)
  PROVE  Tailed(c, p)'
<1> DEFINE s == Write("set", p)
           A == Pushes(s)
           C == AcksTo(s)
<1>0. SUFFICES ASSUME c = Creator[p] PROVE Met(down'[c], A, {}, {}, C) BY DEF Tailed
<1>1. TypeOK /\ SyncInv BY DEF PostInv, SyncInv, TypeInv
<1>2. PICK q \in Seq(Responses) : q = down[c] BY <1>1 DEF TypeOK
<1>3. Met(q, A, {}, {}, C) BY <1>0, <1>2 DEF Tailed
<1>4. CASE Waits(c) BY <1>2, <1>3, <1>4 DEF Waits
<1>5. CASE Loses(c) BY <1>5, InNone DEF Loses
<1>6. ASSUME NEW m \in Responses, Gets(c, m) PROVE Met(down'[c], A, {}, {}, C)
  <2>1. down'[c] = Append(q, m) /\ m.type \notin {"push", "ack"} BY <1>2, <1>6 DEF Gets
  <2>2. m \notin A /\ m \notin C BY <2>1 DEF Pushes, Push, AcksTo
  <2> QED BY <1>3, <2>1, <2>2, MetAppend
<1>7. ASSUME NEW m, NEW t, Hears(c, m, t) PROVE Met(down'[c], A, {}, {}, C)
  <2>1. down'[c] = Tail(q) /\ q # <<>> BY <1>2, <1>7 DEF Hears, Heard
  <2> HIDE DEF A, C
  <2> QED BY <1>3, <2>1, MetHead
<1>8. ASSUME NEW d \in Clients, NEW w \in LocalWrites, Learns(c, d, w)
      PROVE  Met(down'[c], A, {}, {}, C)
  <2>1. Performs(d, w) /\ down'[c] = ToldTo(c, d, w, q) BY <1>2, <1>8 DEF Learns
  <2>2. /\ Push(w) \in Responses /\ Answer(w) \in Responses
        /\ Append(q, Push(w)) \in Seq(Responses)
    BY ToldToType
  <2>3. /\ Push(w) \in A <=> w = s
        /\ Push(w) \notin C /\ Answer(w) \notin A /\ (Answer(w) \in C <=> w = s)
    BY WriteTold
  <2>4. CASE w = s
    <3>1. ServeWrite(d) /\ Head(up[d]) = Write("set", p) BY <2>1, <2>4 DEF Performs
    <3>2. c = d BY <1>0, <3>1, SetUnanswered
    <3> HIDE DEF A, C
    <3>3. /\ Met(Append(q, Answer(w)), A, {}, {}, C)
          /\ Met(Append(Append(q, Push(w)), Answer(w)), A, {}, {}, C)
      BY <2>2, <2>3, <2>4, MetAppend
    <3> QED BY <2>1, <3>2, <3>3 DEF ToldTo
  <2>5. CASE w # s
    <3> HIDE DEF A, C
    <3>1. Met(Append(q, Push(w)), A, {}, {}, C) BY <1>3, <2>2, <2>3, <2>5, MetAppend
    <3>2. Met(Append(q, Answer(w)), A, {}, {}, C) BY <1>3, <2>2, <2>3, <2>5, MetAppend
    <3>3. Met(Append(Append(q, Push(w)), Answer(w)), A, {}, {}, C)
      BY <3>1, <2>2, <2>3, <2>5, MetAppend
    <3> QED BY <1>3, <2>1, <3>1, <3>2, <3>3 DEF ToldTo
  <2> QED BY <2>4, <2>5
<1> QED BY <1>4, <1>5, <1>6, <1>7, <1>8, ViewMoves

-----------------------------------------------------------------------------
(* The course of a post's record in a view *)

(* What the responses on their way down make of a view's record.  Of one   *)
(* without its text nothing becomes a post again.                          *)
CourseOf(f, q, p, dead) ==
  /\ f \in [0 .. Len(q) -> Records]
  /\ \A i \in 1 .. Len(q) : f[i] = Brought(q[i], p, f[i - 1])
  /\ \A i \in 0 .. Len(q) :
       f[i] = "stub" => dead /\ \A j \in i .. Len(q) : ~IsPost(f[j])

(* Such a course there is for every view, from the cache to the board. *)
Course(c, p) ==
  \E f \in [0 .. Len(down[c]) -> Records] :
    /\ CourseOf(f, down[c], p, Dead(p))
    /\ complete[c] => f[0] = cache[c][p]
    /\ listening[c] => f[Len(down[c])] = server[p]

(* A course goes on with one more message, *)
LEMMA CourseAppend ==
  ASSUME NEW q \in Seq(Responses), NEW m \in Responses, NEW p \in Posts, NEW dead,
         NEW f, CourseOf(f, q, p, dead),
         Brought(m, p, f[Len(q)]) = "stub" => dead,
         IsPost(Brought(m, p, f[Len(q)])) => \A i \in 0 .. Len(q) : f[i] # "stub"
  PROVE  \E g \in [0 .. Len(Append(q, m)) -> Records] :
           /\ CourseOf(g, Append(q, m), p, dead)
           /\ g[0] = f[0] /\ g[Len(Append(q, m))] = Brought(m, p, f[Len(q)])
<1> DEFINE s == Append(q, m)
           r == Brought(m, p, f[Len(q)])
           g == [i \in 0 .. Len(s) |-> IF i <= Len(q) THEN f[i] ELSE r]
<1>1. /\ s \in Seq(Responses) /\ Len(q) \in Nat /\ Len(s) = Len(q) + 1
      /\ \A i \in 1 .. Len(q) : s[i] = q[i]
      /\ s[Len(q) + 1] = m
  BY AppendPlaces
<1>2. f \in [0 .. Len(q) -> Records] BY DEF CourseOf
<1>3. f[Len(q)] \in Records BY <1>1, <1>2
<1>4. r \in Records BY <1>3, BroughtType
<1> HIDE DEF r, s
<1>5. g \in [0 .. Len(s) -> Records] BY <1>1, <1>2, <1>4
<1>6. (\A i \in 0 .. Len(q) : g[i] = f[i]) /\ g[Len(q) + 1] = r BY <1>1
<1> HIDE DEF g
<1>7. ASSUME NEW i \in 1 .. Len(s) PROVE g[i] = Brought(s[i], p, g[i - 1])
  <2>1. CASE i <= Len(q)
    <3>1. i \in 1 .. Len(q) /\ i \in 0 .. Len(q) /\ i - 1 \in 0 .. Len(q) BY <1>1, <2>1
    <3> QED BY <1>1, <1>6, <3>1 DEF CourseOf
  <2>2. CASE i > Len(q)
    <3>1. i = Len(q) + 1 /\ i - 1 = Len(q) /\ Len(q) \in 0 .. Len(q) BY <1>1, <2>2
    <3> QED BY <1>1, <1>6, <3>1 DEF r
  <2> QED BY <1>1, <2>1, <2>2
<1>8. ASSUME NEW i \in 0 .. Len(s), g[i] = "stub"
      PROVE  dead /\ \A j \in i .. Len(s) : ~IsPost(g[j])
  <2>1. CASE i <= Len(q)
    <3>1. i \in 0 .. Len(q) /\ f[i] = "stub" BY <1>1, <1>6, <1>8, <2>1
    <3>2. dead /\ \A j \in i .. Len(q) : ~IsPost(f[j]) BY <3>1 DEF CourseOf
    <3>3. ~IsPost(r) BY <3>1 DEF r
    <3>4. \A j \in i .. Len(s) : j \in i .. Len(q) \/ j = Len(q) + 1 BY <1>1
    <3>5. \A j \in i .. Len(q) : j \in 0 .. Len(q) BY <1>1, <3>1
    <3> QED BY <1>6, <3>2, <3>3, <3>4, <3>5
  <2>2. CASE i > Len(q)
    <3>1. i = Len(q) + 1 /\ \A j \in i .. Len(s) : j = i BY <1>1, <2>2
    <3>2. r = "stub" /\ g[i] = "stub" BY <1>6, <1>8, <3>1
    <3>3. dead BY <3>2 DEF r
    <3>4. ~IsPost("stub") BY DEF IsPost
    <3> QED BY <3>1, <3>2, <3>3, <3>4
  <2> QED BY <1>1, <2>1, <2>2
<1>9. CourseOf(g, s, p, dead) BY <1>5, <1>7, <1>8 DEF CourseOf
<1>10. g[0] = f[0] /\ g[Len(s)] = r
  <2>1. 0 \in 0 .. Len(q) BY <1>1
  <2> QED BY <1>1, <1>6, <2>1
<1> QED BY <1>5, <1>9, <1>10 DEF s, r

(* and without the message heard. *)
LEMMA CourseTail ==
  ASSUME NEW q \in Seq(Responses), q # <<>>, NEW p \in Posts, NEW dead,
         NEW f, CourseOf(f, q, p, dead)
  PROVE  \E g \in [0 .. Len(Tail(q)) -> Records] :
           /\ CourseOf(g, Tail(q), p, dead)
           /\ g[0] = Brought(Head(q), p, f[0]) /\ g[Len(Tail(q))] = f[Len(q)]
<1> DEFINE s == Tail(q)
           g == [i \in 0 .. Len(s) |-> f[i + 1]]
<1>1. /\ Len(q) \in Nat /\ Len(s) \in Nat /\ Len(q) = Len(s) + 1
      /\ \A i \in 1 .. Len(s) : s[i] = q[i + 1]
      /\ q[1] = Head(q)
  BY TailPlaces
<1>2. f \in [0 .. Len(q) -> Records] BY DEF CourseOf
<1> HIDE DEF s
<1>3. \A i \in 0 .. Len(s) : i + 1 \in 0 .. Len(q) /\ i + 1 \in 1 .. Len(q) BY <1>1
<1>4. g \in [0 .. Len(s) -> Records] BY <1>2, <1>3
<1>5. \A i \in 0 .. Len(s) : g[i] = f[i + 1] OBVIOUS
<1> HIDE DEF g
<1>6. ASSUME NEW i \in 1 .. Len(s) PROVE g[i] = Brought(s[i], p, g[i - 1])
  <2>1. i \in 0 .. Len(s) /\ i - 1 \in 0 .. Len(s) /\ (i + 1) - 1 = i /\ (i - 1) + 1 = i
    BY <1>1
  <2>2. f[i + 1] = Brought(q[i + 1], p, f[(i + 1) - 1]) BY <1>3, <2>1 DEF CourseOf
  <2> QED BY <1>1, <1>5, <2>1, <2>2
<1>7. ASSUME NEW i \in 0 .. Len(s), g[i] = "stub"
      PROVE  dead /\ \A j \in i .. Len(s) : ~IsPost(g[j])
  <2>1. i + 1 \in 0 .. Len(q) /\ f[i + 1] = "stub" BY <1>3, <1>5, <1>7
  <2>2. dead /\ \A j \in i + 1 .. Len(q) : ~IsPost(f[j]) BY <2>1 DEF CourseOf
  <2>3. \A j \in i .. Len(s) : j \in 0 .. Len(s) /\ j + 1 \in i + 1 .. Len(q) BY <1>1
  <2> QED BY <1>5, <2>2, <2>3
<1>8. CourseOf(g, s, p, dead) BY <1>4, <1>6, <1>7 DEF CourseOf
<1>9. g[0] = Brought(Head(q), p, f[0])
  <2>1. 0 \in 0 .. Len(s) /\ 1 \in 1 .. Len(q) BY <1>1
  <2>2. f[1] = Brought(q[1], p, f[1 - 1]) BY <2>1 DEF CourseOf
  <2> QED BY <1>1, <1>5, <2>1, <2>2
<1>10. g[Len(s)] = f[Len(q)]
  <2>1. Len(s) \in 0 .. Len(s) BY <1>1
  <2> QED BY <1>1, <1>5, <2>1
<1> QED BY <1>4, <1>8, <1>9, <1>10 DEF s

(* There is such a course after every step. *)
LEMMA CourseStays ==
  ASSUME PostInv, [Next]_vars, ~RejectsWrites, NEW c \in Clients, NEW p \in Posts,
         Course(c, p), Blank(c), Dated(p), Dated(p)', Dead(p) => Dead(p)'
  PROVE  Course(c, p)'
<1>1. TypeOK /\ SyncInv /\ server \in Boards
  BY DEF PostInv, SyncInv, TypeInv, TypeOK
<1>2. PICK q \in Seq(Responses) : q = down[c] BY <1>1 DEF TypeOK
<1>3. server[p] \in Records /\ cache[c][p] \in Records BY <1>1 DEF TypeOK, Boards
<1>4. PICK f \in [0 .. Len(q) -> Records] :
        /\ CourseOf(f, q, p, Dead(p))
        /\ complete[c] => f[0] = cache[c][p]
        /\ listening[c] => f[Len(q)] = server[p]
  BY <1>2 DEF Course
<1>5. PICK dead \in BOOLEAN : dead = Dead(p)' BY DEF Dead
<1>6. CourseOf(f, q, p, dead) BY <1>4, <1>5 DEF CourseOf
<1>7. Len(q) \in Nat /\ Len(q) \in 0 .. Len(q) /\ 0 \in 0 .. Len(q) /\ f[Len(q)] \in Records
  BY LenProperties
<1>8. ASSUME NEW r \in Seq(Responses), r = down'[c], NEW g \in [0 .. Len(r) -> Records],
             CourseOf(g, r, p, dead),
             complete'[c] => g[0] = cache'[c][p], listening'[c] => g[Len(r)] = server'[p]
      PROVE  Course(c, p)'
  BY <1>5, <1>8 DEF Course
<1>9. CASE Waits(c)
  <2>1. q = down'[c] /\ (listening'[c] => listening[c]) /\ server' = server
    BY <1>2, <1>9 DEF Waits
  <2>2. complete'[c] => complete[c] /\ cache'[c] = cache[c]
    BY <1>9 DEF Waits, SameView, NoView
  <2> QED BY <1>4, <1>6, <1>8, <2>1, <2>2
<1>10. CASE Loses(c)
  <2>1. PICK r \in Seq(Responses) : r = <<>> BY EmptySeq
  <2>2. Len(r) = 0 BY <2>1
  <2>3. PICK v \in Records : v = IF complete'[c] THEN cache[c][p] ELSE "none"
    BY <1>3 DEF Records
  <2>4. complete'[c] => complete[c] /\ cache'[c] = cache[c]
    BY <1>10 DEF Loses, SameView, NoView
  <2>5. v = "stub" => dead
    <3>1. v = "stub" => f[0] = "stub" BY <1>4, <2>3, <2>4
    <3> QED BY <1>6, <1>7, <3>1 DEF CourseOf
  <2> DEFINE g == [i \in 0 .. Len(r) |-> v]
  <2>6. g \in [0 .. Len(r) -> Records] /\ g[0] = v /\ \A i \in 0 .. Len(r) : g[i] = v
    BY <2>2
  <2> HIDE DEF g
  <2>7. ~IsPost("stub") BY DEF IsPost
  <2>8. \A i \in 0 .. Len(r) : \A j \in i .. Len(r) : j \in 0 .. Len(r) BY <2>2
  <2>9. \A i \in 1 .. Len(r) : FALSE BY <2>2
  <2>10. CourseOf(g, r, p, dead) BY <2>5, <2>6, <2>7, <2>8, <2>9 DEF CourseOf
  <2> QED BY <1>8, <1>10, <2>1, <2>3, <2>4, <2>6, <2>10 DEF Loses
<1>11. ASSUME NEW m \in Responses, Gets(c, m) PROVE Course(c, p)'
  <2>1. server' = server /\ down'[c] = Append(q, m) /\ SameView(c)
    BY <1>2, <1>11 DEF Gets
  <2>2. PICK r \in Seq(Responses) : r = Append(q, m) BY AppendProperties
  <2>3. \/ Brought(m, p, f[Len(q)]) = server[p]
        \/ Brought(m, p, f[Len(q)]) = f[Len(q)] /\ ~listening'[c]
    BY <1>11 DEF Gets, Brought
  <2>4. server[p] = "stub" => Dead(p) BY DEF Dated, Dead, IsPost
  <2>5. ASSUME NEW i \in 0 .. Len(q), f[i] = "stub"
        PROVE  ~IsPost(f[Len(q)]) /\ ~IsPost(server[p])
    <3>1. Len(q) \in i .. Len(q) BY <1>7
    <3> QED BY <1>4, <2>5, <3>1 DEF CourseOf, Dead
  <2>6. f[Len(q)] = "stub" => dead BY <1>6, <1>7 DEF CourseOf
  <2>7. PICK g \in [0 .. Len(r) -> Records] :
          /\ CourseOf(g, r, p, dead)
          /\ g[0] = f[0] /\ g[Len(r)] = Brought(m, p, f[Len(q)])
    BY <1>5, <1>6, <2>2, <2>3, <2>4, <2>5, <2>6, CourseAppend
  <2> QED BY <1>4, <1>8, <2>1, <2>2, <2>3, <2>7 DEF SameView
<1>12. ASSUME NEW m, NEW t, Hears(c, m, t) PROVE Course(c, p)'
  <2>1. /\ Heard(c, m, t) /\ Heeds(c, p, m) /\ m \in Responses
        /\ t \in Seq(Responses) /\ down'[c] = t /\ q # <<>> /\ m = Head(q) /\ t = Tail(q)
        /\ server' = server /\ listening'[c] = listening[c]
    BY <1>2, <1>12 DEF Hears, Heard
  <2>2. PICK g \in [0 .. Len(t) -> Records] :
          /\ CourseOf(g, t, p, dead)
          /\ g[0] = Brought(m, p, f[0]) /\ g[Len(t)] = f[Len(q)]
    BY <1>6, <2>1, CourseTail
  <2>3. complete'[c] => g[0] = cache'[c][p]
    <3> SUFFICES ASSUME complete'[c] PROVE g[0] = cache'[c][p] OBVIOUS
    <3>1. (complete[c] \/ m.type = "snapshot") /\ cache'[c][p] = Brought(m, p, cache[c][p])
      BY <2>1 DEF Heeds
    <3>2. CASE complete[c] BY <1>4, <2>2, <3>1, <3>2
    <3>3. CASE m.type = "snapshot" BY <2>2, <3>1, <3>3 DEF Brought
    <3> QED BY <3>1, <3>2, <3>3
  <2> QED BY <1>4, <1>8, <2>1, <2>2, <2>3
<1>13. ASSUME NEW d \in Clients, NEW w \in LocalWrites, Learns(c, d, w) PROVE Course(c, p)'
  <2>1. /\ Performs(d, w) /\ down'[c] = ToldTo(c, d, w, q) /\ SameView(c)
        /\ listening'[c] = listening[c]
    BY <1>2, <1>13 DEF Learns
  <2>2. server'[p] = Laid(w, p, server[p])
    BY <1>1, <2>1 DEF Performs, Boards, Laid
  <2>3. /\ Push(w) \in Responses /\ Answer(w) \in Responses
        /\ Append(q, Push(w)) \in Seq(Responses)
    BY ToldToType
  <2>4. server'[p] = "stub" => dead BY <1>5 DEF Dated, Dead, IsPost
  <2>5. dead => ~IsPost(server'[p]) BY <1>5 DEF Dead
  <2>6. \E b \in Seq(Responses) : \E h \in [0 .. Len(b) -> Records] :
          /\ b = IF listening[c] THEN Append(q, Push(w)) ELSE q
          /\ CourseOf(h, b, p, dead)
          /\ h[0] = f[0] /\ (listening[c] => h[Len(b)] = server'[p])
    <3>1. CASE ~listening[c] BY <1>4, <1>6, <3>1
    <3>2. CASE listening[c]
      <4>1. Brought(Push(w), p, f[Len(q)]) = server'[p]
        BY <1>4, <2>2, <3>2 DEF Brought, Push, Laid
      <4>2. ASSUME NEW i \in 0 .. Len(q), f[i] = "stub" PROVE ~IsPost(server'[p])
        BY <1>6, <2>5, <4>2 DEF CourseOf
      <4>3. \E h \in [0 .. Len(Append(q, Push(w))) -> Records] :
              /\ CourseOf(h, Append(q, Push(w)), p, dead)
              /\ h[0] = f[0]
              /\ h[Len(Append(q, Push(w)))] = Brought(Push(w), p, f[Len(q)])
        BY <1>6, <2>3, <2>4, <4>1, <4>2, CourseAppend
      <4> QED BY <2>3, <3>2, <4>1, <4>3
    <3> QED BY <3>1, <3>2
  <2>11. PICK b \in Seq(Responses) : \E h \in [0 .. Len(b) -> Records] :
          /\ b = IF listening[c] THEN Append(q, Push(w)) ELSE q
          /\ CourseOf(h, b, p, dead)
          /\ h[0] = f[0] /\ (listening[c] => h[Len(b)] = server'[p])
    BY <2>6
  <2>7. PICK h \in [0 .. Len(b) -> Records] :
          /\ b = IF listening[c] THEN Append(q, Push(w)) ELSE q
          /\ CourseOf(h, b, p, dead)
          /\ h[0] = f[0] /\ (listening[c] => h[Len(b)] = server'[p])
    BY <2>11
  <2>8. complete'[c] => h[0] = cache'[c][p] BY <1>4, <2>1, <2>7 DEF SameView
  <2>9. CASE c # d
    <3>1. down'[c] = b BY <2>1, <2>7, <2>9 DEF ToldTo
    <3> QED BY <1>8, <2>1, <2>7, <2>8, <3>1
  <2>10. CASE c = d
    <3>1. down'[c] = Append(b, Answer(w)) BY <2>1, <2>7, <2>10 DEF ToldTo
    <3>2. PICK r \in Seq(Responses) : r = Append(b, Answer(w)) BY <2>3, AppendProperties
    <3>3. Brought(Answer(w), p, h[Len(b)]) = h[Len(b)] BY DEF Brought, Answer
    <3>4. /\ Len(b) \in Nat /\ Len(b) \in 0 .. Len(b)
          /\ \A i \in 0 .. Len(b) : Len(b) \in i .. Len(b)
      BY LenProperties
    <3>5. h[Len(b)] = "stub" => dead BY <2>7, <3>4 DEF CourseOf
    <3>6. IsPost(h[Len(b)]) => \A i \in 0 .. Len(b) : h[i] # "stub"
      BY <2>7, <3>4 DEF CourseOf
    <3>7. PICK g \in [0 .. Len(r) -> Records] :
            /\ CourseOf(g, r, p, dead) /\ g[0] = h[0] /\ g[Len(r)] = h[Len(b)]
      <4>1. CourseOf(h, b, p, dead) BY <2>7
      <4>2. \E g \in [0 .. Len(Append(b, Answer(w))) -> Records] :
              /\ CourseOf(g, Append(b, Answer(w)), p, dead)
              /\ g[0] = h[0]
              /\ g[Len(Append(b, Answer(w)))] = Brought(Answer(w), p, h[Len(b)])
        <5>1. Brought(Answer(w), p, h[Len(b)]) = "stub" => dead BY <3>3, <3>5
        <5>2. IsPost(Brought(Answer(w), p, h[Len(b)])) => \A i \in 0 .. Len(b) : h[i] # "stub"
          BY <3>3, <3>6
        <5>3. Answer(w) \in Responses BY <2>3
        <5> QED BY <4>1, <5>1, <5>2, <5>3, CourseAppend
      <4> QED BY <3>2, <3>3, <4>2
    <3> QED BY <1>8, <2>1, <2>7, <2>8, <3>1, <3>2, <3>7
  <2> QED BY <2>9, <2>10
<1> QED BY <1>9, <1>10, <1>11, <1>12, <1>13, ViewMoves

(* A record without its text never becomes a post in a view. *)
LEMMA StubHeard ==
  ASSUME TypeOK, NEW c \in Clients, NEW p \in Posts, Course(c, p), Blank(c),
         cache[c][p] = "stub", down[c] # <<>>
  PROVE  ~IsPost(Brought(Head(down[c]), p, "stub"))
<1>1. PICK q \in Seq(Responses) : q = down[c] BY DEF TypeOK
<1>2. complete[c] BY DEF Blank
<1>3. PICK f \in [0 .. Len(q) -> Records] : CourseOf(f, q, p, Dead(p)) /\ f[0] = "stub"
  BY <1>1, <1>2 DEF Course
<1>4. Len(q) \in Nat /\ Len(q) >= 1 /\ q[1] = Head(q)
  <2>1. Len(Tail(q)) \in Nat /\ Len(q) = Len(Tail(q)) + 1 /\ q[1] = Head(q) /\ Len(q) \in Nat
    BY <1>1, TailPlaces
  <2> QED BY <2>1
<1>5. 0 \in 0 .. Len(q) /\ 1 \in 1 .. Len(q) /\ 1 \in 0 .. Len(q) /\ 1 - 1 = 0 BY <1>4
<1>6. ~IsPost(f[1]) BY <1>3, <1>5 DEF CourseOf
<1>7. f[1] = Brought(q[1], p, f[0])
  <2>1. f[1] = Brought(q[1], p, f[1 - 1]) BY <1>3, <1>5 DEF CourseOf
  <2> QED BY <1>5, <2>1
<1> QED BY <1>1, <1>3, <1>4, <1>6, <1>7

-----------------------------------------------------------------------------
(* Views without registrations *)

(* Without registrations there is never a view. *)
LEMMA BlankStays ==
  ASSUME SyncInv, [Next]_vars, NEW c \in Clients, Blank(c)
  PROVE  Blank(c)'
<1>1. TypeInv /\ TypeOK /\ complete[c] \in BOOLEAN BY DEF SyncInv, TypeInv, TypeOK
<1>2. ASSUME cache'[c] = cache[c], complete'[c] = complete[c],
             regs'[c] = {} => regs[c] = {}
      PROVE  Blank(c)'
  BY <1>2 DEF Blank
<1>3. ASSUME regs'[c] = {} => regs[c] = {}, cache'[c] = Nothing, ~complete'[c]
      PROVE  Blank(c)'
  BY <1>3 DEF Blank, Nothing
<1>4. CASE UNCHANGED vars BY <1>2, <1>4 DEF vars, sdkVars
<1>5. ASSUME NEW d \in Clients, ActionOf(d), d # c PROVE Blank(c)'
  <2>1. CASE ServeWrite(d) BY <1>2, <2>1 DEF ServeWrite, sdkVars
  <2>2. CASE ~ServeWrite(d)
    <3>1. Idle(c) BY <1>1, <1>5, <2>2, OthersIdle
    <3> QED BY <1>2, <3>1 DEF Idle
  <2> QED BY <2>1, <2>2
<1>6. CASE User(c) \/ MainThread(c)
  <2>1. Calm(c) BY <1>1, <1>6, ScreensAreCalm
  <2> QED BY <1>2, <2>1 DEF Calm
<1>7. CASE AddObserver(c)
  <2>1. regs'[c] # {} /\ cache'[c] = cache[c] /\ complete'[c] = complete[c]
    BY <1>1, <1>7 DEF AddObserver, TypeOK
  <2> QED BY <1>2, <2>1
<1>8. CASE RemoveObserver(c)
  <2>1. \/ cache'[c] = Nothing /\ ~complete'[c] /\ regs'[c] = {} /\ regs[c] # {}
        \/ /\ cache'[c] = cache[c] /\ complete'[c] = complete[c]
           /\ regs'[c] = {} => regs[c] = {}
    BY <1>1, <1>8 DEF RemoveObserver, TypeOK
  <2> QED BY <1>2, <2>1 DEF Blank, Nothing
<1>9. CASE LocalWrite(c) BY <1>2, <1>9 DEF LocalWrite
<1>10. CASE Receive(c)
  <2>1. Hears(c, Head(down[c]), Tail(down[c])) BY <1>1, <1>10, Hearings
  <2>2. \A p \in Posts : Heeds(c, p, Head(down[c])) BY <2>1 DEF Hears
  <2>3. \A p \in Posts : cache'[c][p] = "stub" => complete'[c] BY <2>2 DEF Heeds
  <2>4. regs'[c] = {} => ~complete'[c] /\ cache'[c] = Nothing
    <3>1. CASE ReceivePush(c)
      <4>1. /\ regs' = regs /\ complete' = complete
            /\ cache'[c] = Patch(c, Head(down[c]).write)
        BY <1>1, <3>1 DEF ReceivePush, TypeOK
      <4>2. regs[c] = {} => cache'[c] = cache[c] BY <4>1 DEF Patch
      <4> QED BY <4>1, <4>2 DEF Blank
    <3>2. CASE ReceiveSnapshot(c)
      <4>1. /\ regs' = regs
            /\ cache'[c] = IF regs[c] # {} THEN Head(down[c]).board ELSE cache[c]
            /\ complete'[c] = (regs[c] # {} \/ complete[c])
        BY <1>1, <3>2 DEF ReceiveSnapshot, TypeOK
      <4> QED BY <4>1 DEF Blank
    <3>3. CASE ReceiveAck(c) BY <3>3 DEF ReceiveAck, Blank
    <3>4. CASE ReceiveRefusal(c)
      <4>1. CASE ListenPending(up[c], Tail(down[c]))
        BY <3>4, <4>1 DEF ReceiveRefusal, sdkVars, Blank
      <4>2. CASE ~ListenPending(up[c], Tail(down[c]))
        <5>1. CancelView(c) BY <3>4, <4>2 DEF ReceiveRefusal
        <5> QED BY <1>1, <5>1 DEF CancelView, TypeOK
      <4> QED BY <4>1, <4>2
    <3>5. CASE ReceiveRevocation(c)
      BY <1>1, <3>5 DEF ReceiveRevocation, CancelView, TypeOK
    <3> QED BY <1>10, <3>1, <3>2, <3>3, <3>4, <3>5 DEF Receive
  <2> QED BY <2>3, <2>4 DEF Blank
<1>11. CASE Serve(c)
  BY <1>2, <1>11 DEF Serve, ServeListen, ServeUnlisten, ServeWrite, sdkVars
<1>12. CASE RevokeListen(c) \/ Disconnect(c) \/ Reconnect(c)
  BY <1>2, <1>12 DEF RevokeListen, Disconnect, Reconnect, Reconnected, sdkVars
<1>13. CASE Crash(c)
  <2>1. cache'[c] = Nothing /\ ~complete'[c] BY <1>1, <1>13 DEF Crash, TypeOK
  <2> QED BY <2>1 DEF Blank, Nothing
<1>14. ASSUME ActionOf(c) PROVE Blank(c)'
  BY <1>6, <1>7, <1>8, <1>9, <1>10, <1>11, <1>12, <1>13, <1>14 DEF ActionOf, RepoBlock
<1> QED BY <1>4, <1>5, <1>14, SomebodyActs

-----------------------------------------------------------------------------
(* Answers to writes come after their effect *)

(* The cache has already what write w makes of its post. *)
Reflects(ca, w) == Apply(w.type, ca[w.post]) = ca[w.post]

(* For each answer in q the cache reflects the write, when the answer is   *)
(* next; or the write's push comes just before the answer, or a listen's   *)
(* answer comes after it, or the view ends before it.                      *)
Vouched(q, whole, ca) ==
  \A i \in 1 .. Len(q) : q[i].type = "ack" =>
    \/ i = 1 /\ (whole => Reflects(ca, q[i].write))
    \/ i > 1 /\ q[i - 1] = Push(q[i].write)
    \/ \E j \in 1 .. Len(q) : j > i /\ q[j] \in Answers
    \/ \E j \in 1 .. Len(q) : /\ j < i /\ q[j] \in Ends
                              /\ \A k \in 1 .. Len(q) : k > j => q[k] \notin Answers

(* So it is for a client that has a listen served. *)
Backed(c) ==
  regs[c] # {} /\ ~HasType(up[c], "listen") =>
    Vouched(down[c], complete[c], cache[c])

(* This holds of no messages, *)
LEMMA VouchedNone ==
  ASSUME NEW whole, NEW ca
  PROVE  Vouched(<<>>, whole, ca)
<1>1. Len(<<>>) = 0 BY EmptySeq
<1> QED BY <1>1 DEF Vouched

(* once a listen's answer comes last, *)
LEMMA VouchedAnswered ==
  ASSUME NEW q \in Seq(Responses), NEW m \in Answers, NEW whole, NEW ca
  PROVE  Vouched(Append(q, m), whole, ca)
<1> DEFINE s == Append(q, m)
<1>1. m \in Responses /\ m.type # "ack" BY DEF Answers
<1>2. /\ Len(q) \in Nat /\ Len(s) = Len(q) + 1
      /\ \A i \in 1 .. Len(q) : s[i] = q[i]
      /\ s[Len(q) + 1] = m
  BY <1>1, AppendPlaces
<1> HIDE DEF s
<1>3. ASSUME NEW i \in 1 .. Len(s), s[i].type = "ack"
      PROVE  \E j \in 1 .. Len(s) : j > i /\ s[j] \in Answers
  <2>1. i # Len(q) + 1 BY <1>1, <1>2, <1>3
  <2>2. Len(s) \in 1 .. Len(s) /\ Len(s) > i /\ s[Len(s)] = m BY <1>2, <2>1
  <2> QED BY <2>2
<1>4. Vouched(s, whole, ca) BY <1>3 DEF Vouched
<1> QED BY <1>4 DEF s

(* with one more message, *)
LEMMA VouchedAppend ==
  ASSUME NEW q \in Seq(Responses), NEW m \in Responses, m \notin Answers,
         NEW whole, NEW ca, Vouched(q, whole, ca),
         m.type = "ack" =>
           \/ q # <<>> /\ q[Len(q)] = Push(m.write)
           \/ LastIs(q, Ends, Answers)
  PROVE  Vouched(Append(q, m), whole, ca)
<1> DEFINE s == Append(q, m)
<1>1. /\ Len(q) \in Nat /\ Len(s) = Len(q) + 1
      /\ \A i \in 1 .. Len(q) : s[i] = q[i]
      /\ s[Len(q) + 1] = m
  BY AppendPlaces
<1>2. q # <<>> => Len(q) >= 1 BY <1>1, EmptySeq
<1> HIDE DEF s
<1>3. ASSUME NEW j \in 1 .. Len(q), \A k \in 1 .. Len(q) : k > j => q[k] \notin Answers
      PROVE  \A k \in 1 .. Len(s) : k > j => s[k] \notin Answers
  <2> SUFFICES ASSUME NEW k \in 1 .. Len(s), k > j PROVE s[k] \notin Answers OBVIOUS
  <2>1. k \in 1 .. Len(q) \/ k = Len(q) + 1 BY <1>1
  <2> QED BY <1>1, <1>3, <2>1
<1>4. \A i \in 1 .. Len(q) : i \in 1 .. Len(s) BY <1>1
<1>5. ASSUME NEW i \in 1 .. Len(s), s[i].type = "ack"
      PROVE  \/ i = 1 /\ (whole => Reflects(ca, s[i].write))
             \/ i > 1 /\ s[i - 1] = Push(s[i].write)
             \/ \E j \in 1 .. Len(s) : j > i /\ s[j] \in Answers
             \/ \E j \in 1 .. Len(s) : /\ j < i /\ s[j] \in Ends
                                       /\ \A k \in 1 .. Len(s) : k > j => s[k] \notin Answers
  <2>1. CASE i \in 1 .. Len(q)
    <3>1. q[i].type = "ack" /\ s[i] = q[i] BY <1>1, <1>5, <2>1
    <3>2. i > 1 => i - 1 \in 1 .. Len(q) BY <1>1, <2>1
    <3>3. CASE \E j \in 1 .. Len(q) : j > i /\ q[j] \in Answers
      BY <1>1, <1>4, <3>3
    <3>4. CASE \E j \in 1 .. Len(q) : /\ j < i /\ q[j] \in Ends
                                      /\ \A k \in 1 .. Len(q) : k > j => q[k] \notin Answers
      <4>1. PICK j \in 1 .. Len(q) : /\ j < i /\ q[j] \in Ends
                                     /\ \A k \in 1 .. Len(q) : k > j => q[k] \notin Answers
        BY <3>4
      <4>2. \A k \in 1 .. Len(s) : k > j => s[k] \notin Answers BY <1>3, <4>1
      <4>3. s[j] \in Ends /\ j \in 1 .. Len(s) BY <1>1, <1>4, <4>1
      <4> QED BY <4>1, <4>2, <4>3
    <3>5. CASE i = 1 /\ (whole => Reflects(ca, q[i].write)) BY <3>1, <3>5
    <3>6. CASE i > 1 /\ q[i - 1] = Push(q[i].write) BY <1>1, <3>1, <3>2, <3>6
    <3> QED BY <2>1, <3>1, <3>3, <3>4, <3>5, <3>6 DEF Vouched
  <2>2. CASE i = Len(q) + 1
    <3>1. s[i] = m /\ m.type = "ack" BY <1>1, <1>5, <2>2
    <3>2. CASE q # <<>> /\ q[Len(q)] = Push(m.write)
      <4>1. i - 1 = Len(q) /\ Len(q) \in 1 .. Len(q) /\ i > 1 BY <1>1, <1>2, <2>2, <3>2
      <4> QED BY <1>1, <3>1, <3>2, <4>1
    <3>3. CASE LastIs(q, Ends, Answers)
      <4>1. PICK j \in 1 .. Len(q) : /\ q[j] \in Ends
                                     /\ \A k \in 1 .. Len(q) : k > j => q[k] \notin Answers
        BY <3>3 DEF LastIs
      <4>2. \A k \in 1 .. Len(s) : k > j => s[k] \notin Answers BY <1>3, <4>1
      <4>3. s[j] \in Ends /\ j \in 1 .. Len(s) /\ j < i BY <1>1, <1>4, <2>2, <4>1
      <4> QED BY <4>2, <4>3
    <3> QED BY <3>1, <3>2, <3>3
  <2> QED BY <1>1, <2>1, <2>2
<1>6. Vouched(s, whole, ca) BY <1>5 DEF Vouched
<1> QED BY <1>6 DEF s

(* and without the message heard. *)
LEMMA VouchedTail ==
  ASSUME NEW q \in Seq(Responses), q # <<>>, NEW whole, NEW ca, Vouched(q, whole, ca),
         Head(q) \in Ends => In(Tail(q), Answers),
         NEW filled, NEW board,
         \A w \in LocalWrites : Head(q) = Push(w) /\ filled => Reflects(board, w)
  PROVE  Vouched(Tail(q), filled, board)
<1> DEFINE s == Tail(q)
<1>1. /\ Len(q) \in Nat /\ Len(s) \in Nat /\ Len(q) = Len(s) + 1
      /\ \A i \in 1 .. Len(s) : s[i] = q[i + 1]
      /\ q[1] = Head(q) /\ s \in Seq(Responses)
  BY TailPlaces
<1>2. Head(q) \in Ends => In(s, Answers) OBVIOUS
<1> HIDE DEF s
<1>3. \A i \in 1 .. Len(s) : i + 1 \in 1 .. Len(q) /\ i + 1 > 1 /\ (i + 1) - 1 = i BY <1>1
<1>4. \A j \in 1 .. Len(q) : j > 1 => j - 1 \in 1 .. Len(s) /\ q[j] = s[j - 1]
  <2> SUFFICES ASSUME NEW j \in 1 .. Len(q), j > 1
               PROVE  j - 1 \in 1 .. Len(s) /\ q[j] = s[j - 1] OBVIOUS
  <2>1. j - 1 \in 1 .. Len(s) /\ (j - 1) + 1 = j BY <1>1
  <2> QED BY <1>1, <2>1
<1>5. ASSUME NEW i \in 1 .. Len(s), s[i].type = "ack"
      PROVE  \/ i = 1 /\ (filled => Reflects(board, s[i].write))
             \/ i > 1 /\ s[i - 1] = Push(s[i].write)
             \/ \E j \in 1 .. Len(s) : j > i /\ s[j] \in Answers
             \/ \E j \in 1 .. Len(s) : /\ j < i /\ s[j] \in Ends
                                       /\ \A k \in 1 .. Len(s) : k > j => s[k] \notin Answers
  <2>1. s[i] = q[i + 1] /\ i + 1 \in 1 .. Len(q) /\ i + 1 # 1 /\ q[(i + 1) - 1] = q[i]
    BY <1>1, <1>3
  <2>2. \/ q[i] = Push(s[i].write)
        \/ \E j \in 1 .. Len(q) : j > i + 1 /\ q[j] \in Answers
        \/ \E j \in 1 .. Len(q) : /\ j < i + 1 /\ q[j] \in Ends
                                  /\ \A k \in 1 .. Len(q) : k > j => q[k] \notin Answers
    BY <1>5, <2>1 DEF Vouched
  <2>3. CASE q[i] = Push(s[i].write)
    <3>1. CASE i = 1
      <4>1. s[i] \in Responses BY <1>1
      <4>2. s[i].write \in LocalWrites BY <1>5, <4>1 DEF Responses, Acks
      <4>3. Head(q) = Push(s[i].write) BY <1>1, <2>3, <3>1
      <4> QED BY <3>1, <4>2, <4>3
    <3>2. CASE i # 1
      <4>1. i > 1 /\ i \in 1 .. Len(q) BY <1>1, <3>2
      <4> QED BY <1>4, <2>3, <4>1
    <3> QED BY <3>1, <3>2
  <2>4. CASE \E j \in 1 .. Len(q) : j > i + 1 /\ q[j] \in Answers
    <3>1. PICK j \in 1 .. Len(q) : j > i + 1 /\ q[j] \in Answers BY <2>4
    <3>2. j - 1 \in 1 .. Len(s) /\ s[j - 1] \in Answers /\ j - 1 > i BY <1>4, <3>1
    <3> QED BY <3>2
  <2>5. CASE \E j \in 1 .. Len(q) : /\ j < i + 1 /\ q[j] \in Ends
                                    /\ \A k \in 1 .. Len(q) : k > j => q[k] \notin Answers
    <3>1. PICK j \in 1 .. Len(q) : /\ j < i + 1 /\ q[j] \in Ends
                                   /\ \A k \in 1 .. Len(q) : k > j => q[k] \notin Answers
      BY <2>5
    <3>2. j # 1
      <4> SUFFICES ASSUME j = 1 PROVE FALSE OBVIOUS
      <4>1. In(s, Answers) BY <1>1, <1>2, <3>1
      <4>2. PICK k \in 1 .. Len(s) : s[k] \in Answers BY <4>1 DEF In
      <4>3. k + 1 \in 1 .. Len(q) /\ q[k + 1] = s[k] /\ k + 1 > 1 BY <1>1, <1>3
      <4> QED BY <3>1, <4>2, <4>3
    <3>3. j > 1 /\ j - 1 \in 1 .. Len(s) /\ s[j - 1] \in Ends /\ j - 1 < i
      BY <1>4, <3>1, <3>2
    <3>4. \A k \in 1 .. Len(s) : k > j - 1 => s[k] \notin Answers
      <4> SUFFICES ASSUME NEW k \in 1 .. Len(s), k > j - 1 PROVE s[k] \notin Answers OBVIOUS
      <4>1. k + 1 \in 1 .. Len(q) /\ k + 1 > j BY <1>3
      <4> QED BY <1>1, <3>1, <4>1
    <3> QED BY <3>3, <3>4
  <2> QED BY <2>2, <2>3, <2>4, <2>5
<1>6. Vouched(s, filled, board) BY <1>5 DEF Vouched
<1> QED BY <1>6 DEF s

(* A write done twice is as good as done once. *)
LEMMA ApplyTwice ==
  ASSUME NEW op \in WriteOps, NEW r \in Records
  PROVE  Apply(op, Apply(op, r)) = Apply(op, r)
BY DEF WriteOps, Records, Apply

(* Answers are vouched for when a message is heard, *)
LEMMA BackedHearing ==
  ASSUME SyncInv, NEW c \in Clients, Receive(c), Backed(c)
  PROVE  Backed(c)'
<1> DEFINE m == Head(down[c])
           t == Tail(down[c])
<1>1. TypeInv /\ TypeOK BY DEF SyncInv, TypeInv
<1>2. PICK q \in Seq(Responses) : q = down[c] BY <1>1 DEF TypeOK
<1>3. q # <<>> BY <1>1, <1>2, Received
<1>4. /\ down'[c] = t /\ up'[c] = up[c] /\ server' = server /\ drops' = drops
      /\ listening'[c] = listening[c] /\ connected'[c] = connected[c]
  BY <1>1, Received
<1>5. Heard(c, m, t) BY <1>2, <1>3, <1>4 DEF Heard
<1>6. m \in Responses /\ t \in Seq(Responses) BY <1>1, <1>2, <1>3, HeadsOfQueues
<1>7. ASSUME CancelView(c) PROVE regs'[c] = {} BY <1>1, <1>7 DEF CancelView, TypeOK
<1>8. regs'[c] # {} => regs[c] # {}
  <2>1. CASE ReceivePush(c) \/ ReceiveSnapshot(c) \/ ReceiveAck(c)
    BY <2>1, Zenon DEF ReceivePush, ReceiveSnapshot, ReceiveAck
  <2>2. CASE ReceiveRefusal(c)
    <3>1. CASE ListenPending(up[c], Tail(down[c]))
      BY <2>2, <3>1 DEF ReceiveRefusal, sdkVars
    <3>2. CASE ~ListenPending(up[c], Tail(down[c]))
      BY <1>7, <2>2, <3>2 DEF ReceiveRefusal
    <3> QED BY <3>1, <3>2
  <2>3. CASE ReceiveRevocation(c) BY <1>7, <2>3 DEF ReceiveRevocation
  <2> QED BY <2>1, <2>2, <2>3 DEF Receive
<1> SUFFICES ASSUME regs'[c] # {}, ~HasType(up'[c], "listen")
             PROVE  Vouched(t, complete'[c], cache'[c])
  BY <1>4 DEF Backed
<1>9. Vouched(q, complete[c], cache[c]) BY <1>2, <1>4, <1>8 DEF Backed
<1>10. m \in Ends => In(t, Answers)
  <2> SUFFICES ASSUME m \in Ends PROVE In(t, Answers) OBVIOUS
  <2>1. m.type \in {"refusal", "revocation"} BY DEF Ends
  <2>2. ~ReceiveRevocation(c) BY <1>7 DEF ReceiveRevocation
  <2>3. ReceiveRefusal(c) BY <1>1, <2>1, <2>2, Received
  <2>4. ListenPending(up[c], t) BY <1>7, <2>3 DEF ReceiveRefusal
  <2>5. HasType(t, "snapshot") \/ HasType(t, "refusal")
    BY <1>1, <1>4, <1>5, <2>4, HeardPending
  <2> QED BY <1>6, <2>5, InAnswers
<1>11. ASSUME NEW w \in LocalWrites, m = Push(w), complete'[c]
       PROVE  Reflects(cache'[c], w)
  <2>1. m.type = "push" /\ m.write = w BY <1>11 DEF Push
  <2>2. ReceivePush(c) BY <1>1, <2>1, Received
  <2>3. complete'[c] = complete[c] /\ cache'[c] = Patch(c, w)
    BY <1>1, <2>1, <2>2 DEF ReceivePush, TypeOK
  <2>4. cache'[c] = [cache[c] EXCEPT ![w.post] = Apply(w.type, cache[c][w.post])]
    BY <1>8, <1>11, <2>3 DEF Patch
  <2>5. /\ w.post \in Posts /\ w.type \in WriteOps
        /\ cache[c] \in [Posts -> Records]
    BY <1>1 DEF LocalWrites, TypeOK, Boards
  <2>6. cache'[c][w.post] = Apply(w.type, cache[c][w.post]) /\ cache[c][w.post] \in Records
    BY <2>4, <2>5
  <2> QED BY <2>5, <2>6, ApplyTwice DEF Reflects
<1> HIDE DEF m, t
<1>12. Vouched(Tail(q), complete'[c], cache'[c])
  <2>1. Head(q) \in Ends => In(Tail(q), Answers) BY <1>2, <1>10 DEF m, t
  <2>2. \A w \in LocalWrites : Head(q) = Push(w) /\ complete'[c] => Reflects(cache'[c], w)
    BY <1>2, <1>11 DEF m
  <2> QED BY <1>3, <1>9, <2>1, <2>2, VouchedTail
<1> QED BY <1>2, <1>12 DEF t

(* when a write is performed, *)
LEMMA BackedTold ==
  ASSUME PostInv, ~RejectsWrites, NEW c \in Clients, NEW d \in Clients, ServeWrite(d),
         Deaf(c), Backed(c)
  PROVE  Backed(c)'
<1>1. TypeInv /\ TypeOK BY DEF PostInv, SyncInv, TypeInv
<1>2. PICK q \in Seq(Responses) : q = down[c] BY <1>1 DEF TypeOK
<1>3. PICK w \in LocalWrites : Performs(d, w) /\ down'[c] = ToldTo(c, d, w, q)
  BY <1>2, Performed
<1>4. regs' = regs /\ complete' = complete /\ cache' = cache
  BY DEF ServeWrite, sdkVars
<1>5. HasType(up[c], "listen") => HasType(up'[c], "listen")
  <2>1. CASE c # d BY <1>1, <2>1 DEF ServeWrite, TypeOK
  <2>2. CASE c = d
    <3>1. /\ up[c] \in Seq(Requests) /\ up[c] # <<>> /\ up'[c] = Tail(up[c])
          /\ Head(up[c]).type # "listen"
      BY <1>1, <2>2 DEF ServeWrite, Request, WriteOps, TypeOK
    <3>2. HasType(up[c], "listen") <=> Head(up[c]).type = "listen" \/ HasType(Tail(up[c]), "listen")
      BY <3>1, HasInHead
    <3> QED BY <3>1, <3>2
  <2> QED BY <2>1, <2>2
<1> SUFFICES ASSUME regs[c] # {}, ~HasType(up[c], "listen")
             PROVE  Vouched(down'[c], complete[c], cache[c])
  BY <1>4, <1>5 DEF Backed
<1>6. Vouched(q, complete[c], cache[c]) BY <1>2 DEF Backed
<1>7. /\ Push(w) \in Responses /\ Answer(w) \in Responses
      /\ Append(q, Push(w)) \in Seq(Responses)
  BY ToldToType
<1>8. /\ Push(w) \notin Answers /\ Push(w).type # "ack"
      /\ Answer(w) \notin Answers /\ Answer(w).write = w
  BY DEF Push, Answer, Answers
<1>9. CASE listening[c]
  <2> DEFINE s == Append(q, Push(w))
  <2>1. Vouched(s, complete[c], cache[c]) BY <1>6, <1>7, <1>8, VouchedAppend
  <2>2. s # <<>> /\ s[Len(s)] = Push(w) /\ s \in Seq(Responses)
    <3>1. /\ Len(q) \in Nat /\ Len(s) = Len(q) + 1 /\ s[Len(q) + 1] = Push(w)
      BY <1>7, AppendPlaces
    <3>2. Len(s) # 0 BY <3>1
    <3> QED BY <1>7, <3>1, <3>2, EmptySeq
  <2> HIDE DEF s
  <2>3. Vouched(Append(s, Answer(w)), complete[c], cache[c])
    BY <1>7, <1>8, <2>1, <2>2, VouchedAppend
  <2> QED BY <1>3, <1>9, <2>1, <2>3 DEF ToldTo, s
<1>10. CASE ~listening[c] /\ c = d
  <2>1. connected[c] BY <1>3, <1>10 DEF Performs
  <2>2. LastIs(q, Ends, Answers) BY <1>2, <1>10, <2>1 DEF Deaf
  <2>3. Vouched(Append(q, Answer(w)), complete[c], cache[c])
    BY <1>6, <1>7, <1>8, <2>2, VouchedAppend
  <2> QED BY <1>3, <1>10, <2>3 DEF ToldTo
<1>11. CASE ~listening[c] /\ c # d BY <1>3, <1>6, <1>11 DEF ToldTo
<1> QED BY <1>9, <1>10, <1>11

(* and after every other step. *)
LEMMA BackedStays ==
  ASSUME PostInv, [Next]_vars, ~RejectsWrites, NEW c \in Clients, Deaf(c), Backed(c)
  PROVE  Backed(c)'
<1>1. TypeInv /\ TypeOK /\ SyncInv /\ Sound(c) BY DEF PostInv, SyncInv, TypeInv
<1>2. PICK q \in Seq(Responses) : q = down[c] BY <1>1 DEF TypeOK
<1>3. ASSUME down'[c] = down[c], cache'[c] = cache[c], complete'[c] = complete[c],
             regs'[c] # {} => regs[c] # {},
             HasType(up[c], "listen") => HasType(up'[c], "listen")
      PROVE  Backed(c)'
  BY <1>3 DEF Backed
<1>4. ASSUME down'[c] = <<>> PROVE Backed(c)'
  BY <1>4, VouchedNone DEF Backed
<1>5. CASE UNCHANGED vars BY <1>3, <1>5 DEF vars, sdkVars
<1>6. ASSUME NEW d \in Clients, ActionOf(d), ~ServeWrite(d), d # c PROVE Backed(c)'
  <2>1. Idle(c) BY <1>1, <1>6, OthersIdle
  <2> QED BY <1>3, <2>1 DEF Idle
<1>7. CASE User(c) \/ MainThread(c)
  <2>1. Calm(c) BY <1>1, <1>7, ScreensAreCalm
  <2> QED BY <1>3, <2>1 DEF Calm
<1>8. CASE AddObserver(c)
  <2>1. /\ down'[c] = down[c] /\ cache'[c] = cache[c] /\ complete'[c] = complete[c]
    BY <1>8 DEF AddObserver
  <2>2. \/ regs[c] # {} /\ up'[c] = up[c]
        \/ ~connected[c] /\ up'[c] = up[c] /\ down[c] = <<>>
        \/ HasType(up'[c], "listen")
    BY <1>1, <1>8, ObserverSends
  <2>3. HasType(up'[c], "listen") => Backed(c)' BY DEF Backed
  <2> QED BY <1>3, <1>4, <2>1, <2>2, <2>3
<1>9. CASE RemoveObserver(c)
  <2>1. \/ regs'[c] = {}
        \/ /\ regs[c] # {} /\ cache'[c] = cache[c] /\ complete'[c] = complete[c]
           /\ up'[c] = up[c]
    <3>1. PICK left :
            LET isLast == left = {} /\ regs[c] # {}
            IN  /\ left \subseteq regs[c] /\ regs'[c] = left
                /\ complete'[c] = (complete[c] /\ ~isLast)
                /\ cache'[c] = IF isLast THEN Nothing ELSE cache[c]
      BY <1>1, <1>9 DEF RemoveObserver, TypeOK
    <3>2. regs'[c] = {} \/ (regs[c] # {} /\ up'[c] = up[c])
      BY <1>1, <1>9, <3>1, RemoverSends
    <3> QED BY <1>1, <3>1, <3>2 DEF TypeOK
  <2>2. down'[c] = down[c] BY <1>9 DEF RemoveObserver
  <2>3. regs'[c] = {} => Backed(c)' BY DEF Backed
  <2> QED BY <1>3, <2>1, <2>2, <2>3
<1>10. CASE LocalWrite(c)
  <2>1. PICK w \in Requests : Send(c, <<w>>)
    <3>1. repoQ[c] # <<>> /\ Head(repoQ[c]).type \in WriteOps /\ Send(c, <<Head(repoQ[c])>>)
      BY <1>10 DEF LocalWrite, Block
    <3>2. Head(repoQ[c]) \in Blocks BY <1>1, <3>1, HeadsOfQueues
    <3>3. Head(repoQ[c]) \in Requests BY <3>1, <3>2 DEF Blocks, Requests, WriteOps
    <3> QED BY <3>1, <3>3
  <2>2. up'[c] = IF connected[c] THEN Append(up[c], w) ELSE up[c] BY <1>1, <2>1, SendOne
  <2>3. up[c] \in Seq(Requests) BY <1>1 DEF TypeOK
  <2>4. HasType(up[c], "listen") => HasType(up'[c], "listen") BY <2>2, <2>3, HasTypeAppend
  <2> QED BY <1>3, <1>10, <2>4 DEF LocalWrite
<1>11. CASE Receive(c) BY <1>1, <1>11, BackedHearing
<1>12. CASE ServeListen(c)
  <2>1. PICK m \in Answers : down'[c] = Append(q, m)
    <3>1. PICK ok \in BOOLEAN :
          down' = [down EXCEPT ![c] =
                     Append(@, IF ok THEN [type |-> "snapshot", board |-> server]
                                     ELSE [type |-> "refusal"])]
      BY <1>12 DEF ServeListen
    <3>2. PICK m \in Answers :
            m = IF ok THEN [type |-> "snapshot", board |-> server] ELSE [type |-> "refusal"]
      BY <1>1 DEF Answers, Responses, TypeOK
    <3> QED BY <1>1, <1>2, <3>1, <3>2 DEF TypeOK
  <2>2. \A whole, ca : Vouched(down'[c], whole, ca) BY <2>1, VouchedAnswered
  <2> QED BY <2>2 DEF Backed
<1>13. CASE ServeUnlisten(c)
  <2>1. /\ up[c] \in Seq(Requests) /\ up[c] # <<>> /\ up'[c] = Tail(up[c])
        /\ Head(up[c]).type # "listen"
    BY <1>1, <1>13 DEF ServeUnlisten, Request, TypeOK
  <2>2. HasType(up[c], "listen") <=> Head(up[c]).type = "listen" \/ HasType(Tail(up[c]), "listen")
    BY <2>1, HasInHead
  <2> QED BY <1>3, <1>13, <2>1, <2>2 DEF ServeUnlisten, sdkVars
<1>14. ASSUME NEW d \in Clients, ServeWrite(d) PROVE Backed(c)' BY <1>14, BackedTold
<1>15. CASE RevokeListen(c)
  <2>1. PICK m \in Responses : m = [type |-> "revocation"] BY DEF Responses
  <2>2. down'[c] = Append(q, m) /\ m \notin Answers /\ m.type # "ack"
    BY <1>1, <1>2, <1>15, <2>1 DEF RevokeListen, TypeOK, Answers
  <2>3. \A whole, ca : Vouched(q, whole, ca) => Vouched(down'[c], whole, ca)
    BY <2>2, VouchedAppend
  <2>4. UNCHANGED <<up, regs, complete, cache>> BY <1>15 DEF RevokeListen, sdkVars
  <2> QED BY <1>2, <2>3, <2>4 DEF Backed
<1>16. CASE Disconnect(c) \/ Crash(c)
  BY <1>1, <1>4, <1>16 DEF Disconnect, Crash, TypeOK
<1>17. CASE Reconnect(c)
  <2>1. down'[c] = <<>> BY <1>1, <1>17 DEF Reconnect, Reconnected, Sound, Wire
  <2> QED BY <1>4, <2>1
<1>18. ASSUME ActionOf(c) PROVE Backed(c)'
  BY <1>7, <1>8, <1>9, <1>10, <1>11, <1>12, <1>13, <1>14, <1>15, <1>16, <1>17, <1>18
     DEF ActionOf, RepoBlock, Serve
<1> QED BY <1>5, <1>6, <1>14, <1>18, SomebodyActs

-----------------------------------------------------------------------------
(* Removals behind answered creations *)

(* What never comes after A is not in a queue behind one with A. *)
LEMMA NeverAfterConcat ==
  ASSUME NEW T, NEW q \in Seq(T), NEW r \in Seq(T), NEW A, NEW B,
         NeverAfter(q \o r, A, B), In(q, A)
  PROVE  ~In(r, B)
<1> DEFINE s == q \o r
<1>1. /\ Len(q) \in Nat /\ Len(r) \in Nat /\ Len(s) = Len(q) + Len(r)
      /\ \A i \in 1 .. Len(q) : s[i] = q[i]
      /\ \A i \in 1 .. Len(r) : s[Len(q) + i] = r[i]
  <2>1. /\ Len(s) = Len(q) + Len(r)
        /\ \A i \in 1 .. Len(q) + Len(r) : s[i] = IF i <= Len(q) THEN q[i] ELSE r[i - Len(q)]
    BY ConcatProperties
  <2>2. Len(q) \in Nat /\ Len(r) \in Nat BY LenProperties
  <2>3. \A i \in 1 .. Len(r) : (Len(q) + i) - Len(q) = i /\ Len(q) + i \in 1 .. Len(q) + Len(r)
                               /\ ~(Len(q) + i <= Len(q))
    BY <2>2
  <2> HIDE DEF s
  <2> QED BY <2>1, <2>2, <2>3
<1>2. PICK i \in 1 .. Len(q) : q[i] \in A BY DEF In
<1> HIDE DEF s
<1>3. ASSUME NEW j \in 1 .. Len(r) PROVE r[j] \notin B
  <2>1. i \in 1 .. Len(s) /\ Len(q) + j \in 1 .. Len(s) /\ i < Len(q) + j BY <1>1
  <2>2. s[i] \in A BY <1>1, <1>2
  <2>3. s[Len(q) + j] \notin B BY <2>1, <2>2 DEF NeverAfter, s
  <2> QED BY <1>1, <2>3
<1> QED BY <1>3 DEF In

(* A creation is not served while its answer is on its way. *)
LEMMA SetServedOnce ==
  ASSUME PostInv, NEW c \in Clients, NEW p \in Posts, ServeWrite(c),
         Head(up[c]) = Write("set", p)
  PROVE  ~In(down[c], Created(p))
<1> SUFFICES ASSUME In(down[c], Created(p)) PROVE FALSE OBVIOUS
<1> DEFINE s == Write("set", p)
<1>1. TypeOK /\ SyncInv /\ EveryWriteTracked /\ Sound(c) /\ s \in LocalWrites
  BY SoundTracked, WriteTypes DEF PostInv, SyncInv, TypeInv
<1>2. up[c] \in Seq(Requests) /\ up[c] # <<>> /\ down[c] \in Seq(Responses)
  BY <1>1 DEF ServeWrite, Request, TypeOK
<1>3. connected[c] BY <1>1, <1>2 DEF Sound, Wire
<1>4. PICK D \in Seq(LocalWrites) : D = Answered(down[c]) BY <1>1, QueueTypes
<1>5. PICK U \in Seq(LocalWrites) : U = Requested(up[c]) BY <1>1, QueueTypes
<1>6. PICK R \in Seq(LocalWrites) : R = Requested(repoQ[c]) BY <1>1, WriteQueues
<1>7. PICK UR \in Seq(LocalWrites) : UR = U \o R BY ConcatProperties, ZenonT(60)
<1>8. Unacked(c) = D \o UR
  <2>1. Unanswered(c) = D \o U BY <1>1, <1>3, <1>4, <1>5, HeldAreOldest
  <2>2. Associates(D, U, R) BY ConcatAssociates
  <2> QED BY <1>6, <1>7, <2>1, <2>2 DEF Associates, Unacked
<1>9. In(D, On(p))
  <2>1. PICK i \in 1 .. Len(down[c]) : down[c][i] \in Created(p) BY DEF In
  <2>2. Has(D, s) BY <1>2, <1>4, <2>1, AnsweredHasAll DEF Created
  <2>3. s \in On(p) BY <1>1, WriteTypes DEF On
  <2> QED BY <2>2, <2>3 DEF Has, In
<1>10. In(UR, Sets(p))
  <2>1. Head(up[c]) = s /\ s.type \in WriteOps BY WriteTypes DEF WriteOps
  <2>2. Has(up[c], s) BY <1>2, <2>1, HasInHead
  <2>3. Has(U, s) BY <1>1, <1>2, <1>5, <2>2, RequestedHas
  <2>4. Has(UR, s) BY <1>7, <2>3, HasInConcat
  <2> QED BY <2>4 DEF Has, In, Sets
<1>11. NeverAfter(D \o UR, On(p), Sets(p)) BY <1>8 DEF PostInv, Orderly
<1> QED BY <1>9, <1>10, <1>11, NeverAfterConcat

(* How a creation comes to be answered. *)
LEMMA GotArises ==
  ASSUME PostInv, [Next]_vars, NEW p \in Posts, Got(p)', ~Got(p)
  PROVE  LET c == Creator[p] IN
         Crash(c) \/ (ReceiveAck(c) /\ Head(down[c]) \in Created(p))
<1> DEFINE s == Write("set", p)
<1>1. PICK c \in Clients : c = Creator[p] BY CreatorAssumption
<1>2. TypeOK /\ TypeInv /\ SyncInv /\ EveryWriteTracked /\ Sound(c)
  BY SoundTracked DEF PostInv, SyncInv, TypeInv
<1>3. PICK q \in Seq(LocalWrites) : q = Unacked(c) BY <1>2, WriteQueues
<1>4. ~Has(Unacked(c)', s) /\ p \in posted' BY <1>1 DEF Got
<1>5. ASSUME NEW x, Unacked(c)' = Append(q, x) PROVE Has(q, s) => Has(Unacked(c)', s)
  <2>1. Unacked(c)' \in Seq(LocalWrites) \/ TRUE OBVIOUS
  <2>2. \A i \in 1 .. Len(q) : i \in 1 .. Len(Append(q, x)) /\ Append(q, x)[i] = q[i]
    OBVIOUS
  <2> QED BY <1>5, <2>2 DEF Has
<1>6. p \in posted
  <2> SUFFICES ASSUME p \notin posted PROVE FALSE OBVIOUS
  <2>1. CreatePost(c, p) BY <1>1, <1>2, <1>4, HistoryGrows
  <2>2. User(c) BY <2>1 DEF User
  <2>3. Issued(c, s) BY <1>2, <2>1, <2>2, UserWrites
  <2>4. Unacked(c)' = Append(q, s) /\ s \in LocalWrites BY <1>3, <2>3, WriteTypes DEF Issued
  <2>5. Has(Unacked(c)', s) BY <2>4, HasInAppend
  <2> QED BY <1>4, <2>5
<1>7. Has(q, s) BY <1>1, <1>3, <1>6 DEF Got
<1>8. Unacked(c)' # q /\ (\A x : Unacked(c)' # Append(q, x)) BY <1>4, <1>5, <1>7
<1>9. ~Still(c) /\ (\A x : ~Issued(c, x)) /\ ~Resent(c) /\ ~Served(c)
  BY <1>3, <1>8 DEF Still, Issued, Resent, Served
<1>10. ASSUME writes'[c] = writes[c], held'[c] = held[c], repoQ'[c] = repoQ[c] PROVE FALSE
  BY <1>3, <1>8, <1>10 DEF Unacked, Unanswered
<1>11. ~UNCHANGED vars BY <1>10 DEF vars, sdkVars
<1>12. PICK d \in Clients : ActionOf(d) BY <1>11, SomebodyActs
<1>13. d = c
  <2> SUFFICES ASSUME d # c PROVE FALSE OBVIOUS
  <2>1. CASE ServeWrite(d) BY <1>10, <2>1 DEF ServeWrite, sdkVars
  <2>2. CASE ~ServeWrite(d)
    <3>1. Idle(c) BY <1>2, <1>12, <2>2, OthersIdle
    <3>2. repoQ'[c] = repoQ[c] BY <1>2, <1>12, OthersKeep DEF ActionOf
    <3> QED BY <1>10, <3>1, <3>2 DEF Idle
  <2> QED BY <2>1, <2>2
<1>14. ~User(c)
  <2> SUFFICES ASSUME User(c) PROVE FALSE OBVIOUS
  <2>1. Still(c) \/ \E x : Issued(c, x) BY <1>2, UserWrites DEF User
  <2> QED BY <1>9, <2>1
<1>15. ~MainThread(c) BY <1>2, <1>9, MainThreadWrites
<1>16. ~RepoBlock(c) BY <1>2, <1>9, RepoBlockWrites
<1>17. connected[c] \/ (~Receive(c) /\ ~Serve(c))
  <2>1. ~connected[c] => up[c] = <<>> /\ down[c] = <<>> BY <1>2 DEF Sound, Wire
  <2>2. Receive(c) => down[c] # <<>> BY <1>2, Received
  <2>3. Serve(c) => up[c] # <<>>
    BY DEF Serve, ServeListen, ServeUnlisten, ServeWrite, Request
  <2> QED BY <2>1, <2>2, <2>3
<1>18. ~Serve(c) BY <1>2, <1>9, <1>17, ServeWrites
<1>19. ~(RevokeListen(c) \/ Disconnect(c) \/ Reconnect(c))
  BY <1>2, <1>9, ConnectionWrites
<1>20. CASE Receive(c)
  <2>1. ReceiveAck(c) BY <1>2, <1>9, <1>17, <1>20, ReceiveWrites
  <2>2. Acked(c) /\ Head(q) = Head(down[c]).write BY <1>2, <1>3, <2>1, AckTakesOldest
  <2>3. q # <<>> /\ Unacked(c)' = Tail(q) BY <1>3, <2>2 DEF Acked
  <2>4. Head(q) = s BY <1>4, <1>7, <2>3, HasInHead
  <2>5. down[c] # <<>> /\ Head(down[c]).type = "ack" BY <2>1 DEF ReceiveAck, Message
  <2>6. Head(down[c]) \in Responses BY <1>2, <2>5, HeadsOfQueues
  <2> QED BY <1>1, <2>1, <2>2, <2>4, <2>5, <2>6 DEF Created
<1> QED BY <1>1, <1>12, <1>13, <1>14, <1>15, <1>16, <1>18, <1>19, <1>20 DEF ActionOf

(* The creator's removal is answered after its creation. *)
LEMMA RemovalAnswered ==
  ASSUME PostInv, NEW p \in Posts, NEW c \in Clients, c = Creator[p], ReceiveAck(c),
         Head(down[c]).write = Removal(p)
  PROVE  Got(p)
<1> DEFINE s == Write("set", p)
           r == Removal(p)
<1>1. TypeOK /\ SyncInv /\ EveryWriteTracked
  BY SoundTracked DEF PostInv, SyncInv, TypeInv
<1>2. PICK q \in Seq(LocalWrites) : q = Unacked(c) BY <1>1, WriteQueues
<1>3. q # <<>> /\ Head(q) = r BY <1>1, <1>2, AckTakesOldest DEF Acked
<1>4. r \in LocalWrites /\ r \in On(p) /\ r # s
  BY DEF LocalWrites, On, Removal, Write, WriteOps
<1>5. ~In(Tail(q), Sets(p)) BY <1>2, <1>3, <1>4, NeverAfterHead DEF PostInv, Orderly
<1>6. ~Has(Tail(q), s) BY <1>5 DEF In, Has, Sets
<1>7. ~Has(q, s) BY <1>3, <1>4, <1>6, HasInHead
<1>8. p \in posted
  <2> SUFFICES ASSUME p \notin posted PROVE FALSE OBVIOUS
  <2>1. Unheard(c, p) BY DEF Hidden, PostInv
  <2>2. ~In(q, On(p)) BY <1>1, <1>2, <2>1, UnheardWrites
  <2>3. In(q, On(p)) BY <1>3, <1>4, InHead
  <2> QED BY <2>2, <2>3
<1> QED BY <1>2, <1>7, <1>8 DEF Got

(* An answer that is not held back finds its write in the cache. *)
LEMMA AckReflects ==
  ASSUME SyncInv, NEW c \in Clients, ReceiveAck(c), Backed(c), Blank(c), complete[c],
         ~ListenPending(up[c], down[c])
  PROVE  Reflects(cache[c], Head(down[c]).write)
<1>1. TypeOK BY DEF SyncInv, TypeInv
<1>2. PICK q \in Seq(Responses) : q = down[c] BY <1>1 DEF TypeOK
<1>3. regs[c] # {} BY DEF Blank
<1>4. up[c] \in Seq(Requests) BY <1>1 DEF TypeOK
<1>5. ~HasType(up[c], "listen") /\ ~HasType(q, "snapshot") /\ ~HasType(q, "refusal")
  BY <1>2, <1>4, PendingDef
<1>6. Vouched(q, complete[c], cache[c]) BY <1>2, <1>3, <1>5 DEF Backed
<1>7. q # <<>> /\ Head(q).type = "ack" BY <1>2 DEF ReceiveAck, Message
<1>8. Len(q) \in Nat /\ Len(q) >= 1 /\ q[1] = Head(q)
  <2>1. Len(Tail(q)) \in Nat /\ Len(q) = Len(Tail(q)) + 1 /\ q[1] = Head(q) /\ Len(q) \in Nat
    BY <1>7, TailPlaces
  <2> QED BY <2>1
<1>9. 1 \in 1 .. Len(q) /\ q[1].type = "ack" BY <1>7, <1>8
<1>10. \A j \in 1 .. Len(q) : q[j] \notin Answers BY <1>5 DEF HasType, Answers
<1>11. \A j \in 1 .. Len(q) : ~(j < 1) BY <1>8
<1>12. Reflects(cache[c], q[1].write) BY <1>6, <1>9, <1>10, <1>11 DEF Vouched
<1> QED BY <1>2, <1>8, <1>12

-----------------------------------------------------------------------------
(* A post that is gone does not come back *)

(* Messages that say that p is gone. *)
Missing(p) == Lacking(p) \cup Pushes(Removal(p)) \cup AcksTo(Removal(p))

(* Behind an answered creation, p gone is gone for good: nothing brings    *)
(* it.                                                                     *)
Missed(q, p, got, gone) ==
  \A i \in 1 .. Len(q) :
    q[i] \in Missing(p) /\ (got \/ \E a \in 1 .. Len(q) : a < i /\ q[a] \in Created(p)) =>
      gone /\ \A j \in 1 .. Len(q) : j > i => q[j] \notin Bringing(p)

(* For the creator of a post a creation that is answered is the last       *)
(* one.                                                                    *)
Settling(p) ==
  LET c == Creator[p] IN
  /\ In(held[c], AcksTo(Removal(p))) =>
       Got(p) /\ ~IsPost(server[p]) /\ ~In(down[c], Bringing(p))
  /\ Missed(down[c], p, Got(p), ~IsPost(server[p]))
  /\ Spent(p) /\ complete[c] /\ ~IsPost(cache[c][p]) =>
       ~IsPost(server[p]) /\ ~In(down[c], Bringing(p))

(* This holds of no messages, *)
LEMMA MissedNone ==
  ASSUME NEW p, NEW got, NEW gone
  PROVE  Missed(<<>>, p, got, gone)
<1>1. Len(<<>>) = 0 /\ 1 .. 0 = {} BY EmptySeq
<1> QED BY <1>1 DEF Missed

(* for less reason to be gone, *)
LEMMA MissedStays ==
  ASSUME NEW q, NEW p, NEW got \in BOOLEAN, NEW gone \in BOOLEAN, NEW g \in BOOLEAN,
         NEW h \in BOOLEAN, Missed(q, p, got, gone), g => got,
         (got \/ In(q, Created(p))) /\ gone => h
  PROVE  Missed(q, p, g, h)
<1> SUFFICES ASSUME NEW i \in 1 .. Len(q), q[i] \in Missing(p),
                    g \/ \E a \in 1 .. Len(q) : a < i /\ q[a] \in Created(p)
             PROVE  h /\ \A j \in 1 .. Len(q) : j > i => q[j] \notin Bringing(p)
  BY DEF Missed
<1>1. got \/ \E a \in 1 .. Len(q) : a < i /\ q[a] \in Created(p) OBVIOUS
<1>2. gone /\ \A j \in 1 .. Len(q) : j > i => q[j] \notin Bringing(p) BY <1>1 DEF Missed
<1>3. got \/ In(q, Created(p)) BY <1>1 DEF In
<1> QED BY <1>2, <1>3

(* with one more message, *)
LEMMA MissedAppend ==
  ASSUME NEW q \in Seq(Responses), NEW m \in Responses, NEW p, NEW got \in BOOLEAN,
         NEW gone \in BOOLEAN, Missed(q, p, got, gone),
         m \in Bringing(p) => ~gone \/ (~got /\ ~In(q, Created(p))),
         m \in Missing(p) /\ (got \/ In(q, Created(p))) => gone
  PROVE  Missed(Append(q, m), p, got, gone)
<1> DEFINE r == Append(q, m)
<1>1. /\ Len(q) \in Nat /\ Len(r) = Len(q) + 1
      /\ \A i \in 1 .. Len(q) : r[i] = q[i]
      /\ r[Len(q) + 1] = m
  BY AppendPlaces
<1> HIDE DEF r
<1> SUFFICES ASSUME NEW i \in 1 .. Len(r), r[i] \in Missing(p),
                    got \/ \E a \in 1 .. Len(r) : a < i /\ r[a] \in Created(p)
             PROVE  gone /\ \A j \in 1 .. Len(r) : j > i => r[j] \notin Bringing(p)
  BY DEF Missed, r
<1>2. got \/ \E a \in 1 .. Len(q) : a < i /\ q[a] \in Created(p)
  <2> SUFFICES ASSUME NEW a \in 1 .. Len(r), a < i, r[a] \in Created(p)
               PROVE  a \in 1 .. Len(q) /\ q[a] \in Created(p)
    OBVIOUS
  <2> QED BY <1>1
<1>3. got \/ In(q, Created(p)) BY <1>2 DEF In
<1>4. CASE i = Len(q) + 1
  <2>1. \A j \in 1 .. Len(r) : ~(j > i) BY <1>1, <1>4
  <2> QED BY <1>1, <1>3, <1>4, <2>1
<1>5. CASE i # Len(q) + 1
  <2>1. i \in 1 .. Len(q) /\ q[i] \in Missing(p) BY <1>1, <1>5
  <2>2. gone /\ \A j \in 1 .. Len(q) : j > i => q[j] \notin Bringing(p)
    BY <1>2, <2>1 DEF Missed
  <2>3. m \notin Bringing(p) BY <1>3, <2>2
  <2>4. ASSUME NEW j \in 1 .. Len(r), j > i PROVE r[j] \notin Bringing(p)
    <3>1. j = Len(q) + 1 \/ j \in 1 .. Len(q) BY <1>1
    <3> QED BY <1>1, <2>2, <2>3, <2>4, <3>1
  <2> QED BY <2>2, <2>4
<1> QED BY <1>4, <1>5

(* and without the message heard. *)
LEMMA MissedTail ==
  ASSUME NEW q \in Seq(Responses), q # <<>>, NEW p, NEW got \in BOOLEAN,
         NEW gone \in BOOLEAN, Missed(q, p, got, gone), NEW g \in BOOLEAN,
         g => got \/ Head(q) \in Created(p)
  PROVE  /\ Missed(Tail(q), p, g, gone)
         /\ Head(q) \in Missing(p) /\ got => gone /\ ~In(Tail(q), Bringing(p))
<1> DEFINE r == Tail(q)
<1>1. /\ Len(q) \in Nat /\ Len(r) \in Nat /\ Len(q) = Len(r) + 1
      /\ \A i \in 1 .. Len(r) : r[i] = q[i + 1]
      /\ q[1] = Head(q)
  BY TailPlaces
<1>2. 1 \in 1 .. Len(q) /\ \A i \in 1 .. Len(r) : i + 1 \in 1 .. Len(q) /\ i + 1 > 1
  BY <1>1
<1> HIDE DEF r
<1>3. ASSUME NEW i \in 1 .. Len(r), r[i] \in Missing(p),
             g \/ \E a \in 1 .. Len(r) : a < i /\ r[a] \in Created(p)
      PROVE  gone /\ \A j \in 1 .. Len(r) : j > i => r[j] \notin Bringing(p)
  <2>1. got \/ \E a \in 1 .. Len(q) : a < i + 1 /\ q[a] \in Created(p)
    <3>1. CASE g
      <4>1. 1 < i + 1 BY <1>1
      <4> QED BY <1>1, <1>2, <3>1, <4>1
    <3>2. ASSUME NEW a \in 1 .. Len(r), a < i, r[a] \in Created(p)
          PROVE  \E b \in 1 .. Len(q) : b < i + 1 /\ q[b] \in Created(p)
      <4>1. a + 1 \in 1 .. Len(q) /\ a + 1 < i + 1 /\ q[a + 1] \in Created(p)
        BY <1>1, <3>2
      <4> QED BY <4>1
    <3> QED BY <1>3, <3>1, <3>2
  <2>2. i + 1 \in 1 .. Len(q) /\ q[i + 1] \in Missing(p) BY <1>1, <1>2, <1>3
  <2>3. gone /\ \A j \in 1 .. Len(q) : j > i + 1 => q[j] \notin Bringing(p)
    BY <2>1, <2>2 DEF Missed
  <2>4. ASSUME NEW j \in 1 .. Len(r), j > i PROVE r[j] \notin Bringing(p)
    <3>1. j + 1 \in 1 .. Len(q) /\ j + 1 > i + 1 /\ r[j] = q[j + 1] BY <1>1, <1>2, <2>4
    <3> QED BY <2>3, <3>1
  <2> QED BY <2>3, <2>4
<1>4. ASSUME Head(q) \in Missing(p), got PROVE gone /\ ~In(r, Bringing(p))
  <2>1. gone /\ \A j \in 1 .. Len(q) : j > 1 => q[j] \notin Bringing(p)
    BY <1>1, <1>2, <1>4 DEF Missed
  <2>2. \A i \in 1 .. Len(r) : r[i] \notin Bringing(p) BY <1>1, <1>2, <2>1
  <2> QED BY <2>1, <2>2 DEF In
<1>5. Missed(r, p, g, gone) BY <1>3 DEF Missed
<1> QED BY <1>4, <1>5 DEF r

(* Answers held back are let go by the answer to a listen only. *)
LEMMA HeldBack ==
  ASSUME TypeOK, NEW c \in Clients, Receive(c)
  PROVE  /\ Head(down[c]).type = "push" => ReceivePush(c) /\ held'[c] = held[c]
         /\ Head(down[c]).type = "ack" =>
              /\ ReceiveAck(c) /\ cache'[c] = cache[c] /\ complete'[c] = complete[c]
              /\ IF ListenPending(up[c], down[c])
                 THEN held'[c] = Append(held[c], Head(down[c]))
                 ELSE held'[c] = held[c]
         /\ Head(down[c]).type = "refusal" =>
              ReceiveRefusal(c) /\ (complete'[c] => held'[c] = held[c])
         /\ Head(down[c]).type = "revocation" => ReceiveRevocation(c) /\ held'[c] = held[c]
         /\ Head(down[c]).type = "snapshot" => ReceiveSnapshot(c)
<1>1. CASE ReceivePush(c) BY <1>1 DEF ReceivePush, Message
<1>2. CASE ReceiveSnapshot(c) BY <1>2 DEF ReceiveSnapshot, Message
<1>3. CASE ReceiveAck(c)
  <2>1. Head(down[c]).type = "ack" BY <1>3 DEF ReceiveAck, Message
  <2>2. CASE ListenPending(up[c], down[c])
    BY <1>3, <2>1, <2>2 DEF ReceiveAck, TypeOK
  <2>3. CASE ~ListenPending(up[c], down[c])
    BY <1>3, <2>1, <2>3 DEF ReceiveAck, TypeOK
  <2> QED BY <1>3, <2>1, <2>2, <2>3
<1>4. CASE ReceiveRefusal(c)
  <2>1. Head(down[c]).type = "refusal" BY <1>4 DEF ReceiveRefusal, Message
  <2>2. CASE ListenPending(up[c], Tail(down[c]))
    BY <1>4, <2>1, <2>2 DEF ReceiveRefusal, sdkVars
  <2>3. CASE ~ListenPending(up[c], Tail(down[c]))
    <3>1. CancelView(c) BY <1>4, <2>3 DEF ReceiveRefusal
    <3>2. ~complete'[c] BY <3>1 DEF CancelView, TypeOK
    <3> QED BY <1>4, <2>1, <3>2
  <2> QED BY <2>2, <2>3
<1>5. CASE ReceiveRevocation(c) BY <1>5 DEF ReceiveRevocation, Message
<1> QED BY <1>1, <1>2, <1>3, <1>4, <1>5 DEF Receive

-----------------------------------------------------------------------------
(* Settling, step by step *)

(* What is said of one write on its way down. *)
LEMMA WriteMissed ==
  ASSUME NEW w \in LocalWrites, NEW p \in Posts
  PROVE  /\ Push(w) \in Bringing(p) <=> w = Write("set", p)
         /\ Answer(w) \notin Bringing(p)
         /\ Push(w) \in Missing(p) <=> w = Removal(p)
         /\ Answer(w) \in Missing(p) <=> w = Removal(p)
         /\ Push(w) \notin Created(p)
<1>1. Push(w) \in Responses /\ Answer(w) \in Responses BY WriteTold
<1>2. Push(w).type = "push" /\ Push(w).write = w BY DEF Push
<1>3. Answer(w).type = "ack" /\ Answer(w).write = w BY DEF Answer
<1>4. \A v : (Push(w) = Push(v) <=> w = v) /\ Answer(w) # Push(v)
  BY <1>2, <1>3 DEF Push
<1> QED BY <1>1, <1>2, <1>3, <1>4
        DEF Bringing, Missing, Lacking, Pushes, AcksTo, Created

(* A write told keeps it. *)
LEMMA MissedTold ==
  ASSUME NEW w \in LocalWrites, NEW q \in Seq(Responses), NEW c, NEW d, NEW p \in Posts,
         NEW got \in BOOLEAN, NEW gone \in BOOLEAN, Missed(q, p, got, gone),
         w = Write("set", p) => ~got /\ ~In(q, Created(p)),
         w = Removal(p) => gone
  PROVE  Missed(ToldTo(c, d, w, q), p, got, gone)
<1>1. /\ Push(w) \in Responses /\ Answer(w) \in Responses
      /\ Append(q, Push(w)) \in Seq(Responses)
  BY ToldToType
<1>2. Missed(Append(q, Push(w)), p, got, gone) BY <1>1, WriteMissed, MissedAppend
<1>3. Missed(Append(q, Answer(w)), p, got, gone) BY <1>1, WriteMissed, MissedAppend
<1>4. Missed(Append(Append(q, Push(w)), Answer(w)), p, got, gone)
  <2>1. PICK r \in Seq(Responses) : r = Append(q, Push(w)) BY <1>1
  <2>2. Missed(r, p, got, gone) BY <1>2, <2>1
  <2>3. Answer(w) \notin Bringing(p) /\ (Answer(w) \in Missing(p) => gone)
    BY WriteMissed
  <2>4. Missed(Append(r, Answer(w)), p, got, gone) BY <1>1, <2>2, <2>3, MissedAppend
  <2> QED BY <2>1, <2>4
<1> QED BY <1>2, <1>3, <1>4 DEF ToldTo

(* The creation is answered. *)
LEMMA SettlingAnswered ==
  ASSUME PostInv, [Next]_vars, ~RejectsWrites, NEW p \in Posts, NEW c \in Clients,
         c = Creator[p], Settling(p), Blank(c), Backed(c),
         ReceiveAck(c), Head(down[c]) \in Created(p)
  PROVE  Settling(p)'
<1> DEFINE m == Head(down[c])
           R == AcksTo(Removal(p))
<1>1. TypeOK /\ TypeInv /\ SyncInv /\ held[c] \in Seq(Acks)
  BY DEF PostInv, SyncInv, TypeInv, TypeOK
<1>2. PICK q \in Seq(Responses) : q = down[c] BY <1>1 DEF TypeOK
<1>3. Receive(c) BY DEF Receive
<1>4. Hears(c, m, Tail(down[c])) BY <1>1, <1>3, Hearings
<1>5. /\ q # <<>> /\ down'[c] = Tail(q) /\ server' = server /\ m = Head(q) /\ m \in Responses
      /\ Tail(q) \in Seq(Responses)
  BY <1>2, <1>4 DEF Hears, Heard
<1>6. m.type = "ack" /\ m.write = Write("set", p) /\ m \in Acks
  BY <1>5 DEF Created, Responses
<1>7. /\ cache'[c] = cache[c] /\ complete'[c] = complete[c]
      /\ IF ListenPending(up[c], down[c]) THEN held'[c] = Append(held[c], m)
         ELSE held'[c] = held[c]
  BY <1>1, <1>3, <1>6, HeldBack
<1>8. m \notin R BY <1>6 DEF AcksTo, Removal, Write
<1>15. \A S : In(Append(held[c], m), S) <=> In(held[c], S) \/ m \in S
  BY <1>1, <1>6, InAppend
<1>9. In(held'[c], R) => In(held[c], R)
  BY <1>7, <1>8, <1>15
<1>10. In(Tail(q), Bringing(p)) => In(q, Bringing(p)) BY <1>5, InHead
<1>11. Got(p) => Got(p)' BY PastStays
<1>12. Got(p) \in BOOLEAN /\ Got(p)' \in BOOLEAN BY DEF Got
<1>13. Missed(down'[c], p, Got(p)', ~IsPost(server'[p]))
  <2>1. Missed(q, p, Got(p), ~IsPost(server[p])) BY <1>2 DEF Settling
  <2> QED BY <1>5, <1>12, <2>1, MissedTail
<1>14. ASSUME Spent(p)', complete'[c], ~IsPost(cache'[c][p]) PROVE FALSE
  <2>1. ~ListenPending(up[c], down[c])
    <3> SUFFICES ASSUME ListenPending(up[c], down[c]) PROVE FALSE OBVIOUS
    <3>1. In(held'[c], Created(p)) BY <1>7, <1>15
    <3> QED BY <1>14, <3>1 DEF Spent
  <2>2. Reflects(cache[c], m.write) BY <1>1, <1>7, <1>14, <2>1, AckReflects
  <2>3. cache[c][p] = "created" BY <1>6, <2>2 DEF Reflects, Apply, Write
  <2> QED BY <1>7, <1>14, <2>3 DEF IsPost
<1> HIDE DEF R
<1> QED BY <1>2, <1>5, <1>9, <1>10, <1>11, <1>13, <1>14 DEF Settling, R

(* A post that its creator knows to be gone does not come back to it. *)
LEMMA SettlingStays ==
  ASSUME PostInv, [Next]_vars, ~RejectsWrites, NEW p \in Posts, NEW c \in Clients,
         c = Creator[p], Settling(p), Blank(c), Backed(c)
  PROVE  Settling(p)'
<1> DEFINE R == AcksTo(Removal(p))
           B == Bringing(p)
<1>1. TypeOK /\ TypeInv /\ SyncInv /\ server \in Boards /\ held[c] \in Seq(Acks)
  BY DEF PostInv, SyncInv, TypeInv, TypeOK
<1>2. PICK q \in Seq(Responses) : q = down[c] BY <1>1 DEF TypeOK
<1>3. /\ Got(p) => Got(p)'
      /\ Got(p) /\ ~IsPost(server[p]) => ~IsPost(server'[p])
  BY PastStays
<1>4. Got(p) \in BOOLEAN /\ Got(p)' \in BOOLEAN BY DEF Got
<1>5. ~In(<<>>, R) /\ ~In(<<>>, B) BY InNone
<1>6. /\ In(held[c], R) => Got(p) /\ ~IsPost(server[p]) /\ ~In(q, B)
      /\ Missed(q, p, Got(p), ~IsPost(server[p]))
      /\ Spent(p) /\ complete[c] /\ ~IsPost(cache[c][p]) => ~IsPost(server[p]) /\ ~In(q, B)
  BY <1>2 DEF Settling
<1>7. CASE Crash(c)
  <2>1. held'[c] = <<>> /\ down'[c] = <<>> /\ ~complete'[c] BY <1>1, <1>7 DEF Crash, TypeOK
  <2>2. Missed(<<>>, p, Got(p)', ~IsPost(server'[p])) BY MissedNone
  <2> QED BY <1>5, <2>1, <2>2 DEF Settling
<1>8. CASE ReceiveAck(c) /\ Head(down[c]) \in Created(p)
  BY <1>8, SettlingAnswered
<1>9. CASE ~Crash(c) /\ ~(ReceiveAck(c) /\ Head(down[c]) \in Created(p))
  <2>1. Got(p)' => Got(p) BY <1>9, GotArises
  <2>2. ASSUME held'[c] = held[c] PROVE Spent(p)' => Spent(p)
    <3>1. Spent(p) <=> Got(p) /\ ~In(held[c], Created(p)) BY DEF Spent, Got
    <3>2. Spent(p)' <=> Got(p)' /\ ~In(held'[c], Created(p)) BY DEF Spent, Got
    <3> QED BY <2>1, <2>2, <3>1, <3>2
  <2>3. Spent(p) => Got(p) BY DEF Spent, Got
  <2>4. CASE Waits(c)
    <3>1. server' = server /\ down'[c] = q /\ (SameView(c) \/ NoView(c))
      BY <1>2, <2>4 DEF Waits
    <3>2. Missed(q, p, Got(p)', ~IsPost(server[p])) BY <1>4, <1>6, <2>1,
      MissedStays DEF IsPost
    <3>3. CASE SameView(c)
      <4>1. held'[c] = held[c] /\ cache'[c] = cache[c] /\ complete'[c] = complete[c]
        BY <3>3 DEF SameView
      <4> HIDE DEF R, B
      <4> QED BY <1>3, <1>6, <2>2, <3>1, <3>2, <4>1 DEF Settling, R, B
    <3>4. CASE NoView(c)
      <4>1. (held'[c] = held[c] \/ held'[c] = <<>>) /\ ~complete'[c] BY <3>4 DEF NoView
      <4> HIDE DEF R, B
      <4> QED BY <1>3, <1>5, <1>6, <3>1, <3>2, <4>1 DEF Settling, R, B
    <3> QED BY <3>1, <3>3, <3>4
  <2>5. CASE Loses(c)
    <3>1. server' = server /\ down'[c] = <<>> /\ (SameView(c) \/ NoView(c))
      BY <2>5 DEF Loses
    <3>2. Missed(<<>>, p, Got(p)', ~IsPost(server'[p])) BY MissedNone
    <3>3. CASE SameView(c)
      <4>1. held'[c] = held[c] /\ cache'[c] = cache[c] /\ complete'[c] = complete[c]
        BY <3>3 DEF SameView
      <4> HIDE DEF R, B
      <4> QED BY <1>3, <1>5, <1>6, <2>2, <3>1, <3>2, <4>1 DEF Settling, R, B
    <3>4. CASE NoView(c)
      <4>1. (held'[c] = held[c] \/ held'[c] = <<>>) /\ ~complete'[c] BY <3>4 DEF NoView
      <4> HIDE DEF R, B
      <4> QED BY <1>3, <1>5, <1>6, <3>1, <3>2, <4>1 DEF Settling, R, B
    <3> QED BY <3>1, <3>3, <3>4
  <2>6. ASSUME NEW m \in Responses, Gets(c, m) PROVE Settling(p)'
    <3>1. server' = server /\ down'[c] = Append(q, m) /\ SameView(c)
      BY <1>2, <2>6 DEF Gets
    <3>2. m \in B => IsPost(server[p]) BY <2>6 DEF Gets, Bringing
    <3>3. m \in Missing(p) => ~IsPost(server[p])
      BY <2>6 DEF Gets, Missing, Lacking, Pushes, Push, AcksTo
    <3>4. Missed(Append(q, m), p, Got(p), ~IsPost(server[p]))
      BY <1>4, <1>6, <3>2, <3>3, MissedAppend DEF IsPost
    <3>5. Append(q, m) \in Seq(Responses) BY AppendPlaces
    <3>6. Missed(Append(q, m), p, Got(p)', ~IsPost(server'[p]))
      BY <1>4, <2>1, <3>1, <3>4, MissedStays DEF IsPost
    <3>7. In(Append(q, m), B) <=> In(q, B) \/ m \in B BY InAppend
    <3>8. held'[c] = held[c] /\ cache'[c] = cache[c] /\ complete'[c] = complete[c]
      BY <3>1 DEF SameView
    <3> HIDE DEF R, B
    <3> QED BY <1>3, <1>6, <2>2, <3>1, <3>2, <3>6, <3>7, <3>8 DEF Settling, R, B
  <2>7. ASSUME NEW m, NEW t, Hears(c, m, t) PROVE Settling(p)'
    <3>1. /\ Receive(c) /\ Heard(c, m, t) /\ Heeds(c, p, m) /\ Holds(c, m) /\ m \in Responses
          /\ t \in Seq(Responses) /\ down'[c] = t /\ q # <<>> /\ m = Head(q) /\ t = Tail(q)
          /\ server' = server
      BY <1>2, <2>7 DEF Hears, Heard
    <3>2. In(t, B) => In(q, B) BY <3>1, InHead
    <3>3. /\ Missed(t, p, Got(p)', ~IsPost(server[p]))
          /\ m \in Missing(p) /\ Got(p) => ~IsPost(server[p]) /\ ~In(t, B)
      BY <1>4, <1>6, <2>1, <3>1, MissedTail DEF IsPost
    <3>4. In(held'[c], R) => Got(p) /\ ~IsPost(server[p]) /\ ~In(t, B)
      <4>1. CASE held'[c] \in {held[c], <<>>} BY <1>5, <1>6, <3>2, <4>1
      <4>2. CASE m.type = "ack" /\ held'[c] = Append(held[c], m)
        <5>1. m \in Acks BY <3>1, <4>2 DEF Responses
        <5>2. In(held'[c], R) <=> In(held[c], R) \/ m \in R BY <1>1, <4>2, <5>1, InAppend
        <5>3. ASSUME m \in R PROVE Got(p) /\ m \in Missing(p)
          <6>1. m.write = Removal(p) BY <5>3 DEF AcksTo
          <6>2. ReceiveAck(c) BY <1>1, <1>2, <3>1, <4>2, HeldBack
          <6> QED BY <1>2, <3>1, <5>3, <6>1, <6>2, RemovalAnswered DEF Missing
        <5> QED BY <1>6, <3>2, <3>3, <5>2, <5>3
      <4> QED BY <3>1, <4>1, <4>2 DEF Holds
    <3>5. ASSUME Spent(p)', complete'[c], ~IsPost(cache'[c][p])
          PROVE  ~IsPost(server[p]) /\ ~In(t, B)
      <4>1. /\ complete[c] \/ m.type = "snapshot"
            /\ cache'[c][p] = Brought(m, p, cache[c][p])
        BY <3>1, <3>5 DEF Heeds
      <4>2. Got(p) BY <2>1, <3>5 DEF Spent, Got
      <4>3. CASE m.type = "snapshot"
        <5>1. ~IsPost(m.board[p]) BY <3>5, <4>1, <4>3 DEF Brought
        <5>2. m \in Missing(p) BY <3>1, <4>3, <5>1 DEF Missing, Lacking
        <5> QED BY <3>3, <4>2, <5>2
      <4>4. CASE m.type # "snapshot"
        <5>1. complete[c] BY <4>1, <4>4
        <5>2. Spent(p)
          <6>1. m.type \in {"push", "ack", "refusal", "revocation"}
            BY <3>1, <4>4 DEF Responses, Acks
          <6>2. held'[c] = held[c] \/ (m.type = "ack" /\ held'[c] = Append(held[c], m))
            BY <1>1, <1>2, <3>1, <3>5, <6>1, HeldBack
          <6>3. CASE held'[c] = held[c] BY <2>2, <3>5, <6>3
          <6>4. CASE m.type = "ack" /\ held'[c] = Append(held[c], m)
            <7>1. m \in Acks BY <3>1, <6>4 DEF Responses
            <7>2. In(held[c], Created(p)) => In(held'[c], Created(p))
              BY <1>1, <6>4, <7>1, InAppend
            <7>3. Spent(p)' => ~In(held'[c], Created(p)) BY DEF Spent
            <7> QED BY <3>5, <4>2, <7>2, <7>3 DEF Spent, Got
          <6> QED BY <6>2, <6>3, <6>4
        <5>3. CASE m.type = "push" /\ m.write.post = p
          <6>1. m.write \in LocalWrites BY <3>1, <5>3 DEF Responses, Acks
          <6>2. m.write.type \in WriteOps /\ m.write = Write(m.write.type, p)
            BY <5>3, <6>1 DEF LocalWrites, Write
          <6>3. ~IsPost(Apply(m.write.type, cache[c][p]))
            BY <3>5, <4>1, <5>3 DEF Brought
          <6>4. m.write.type # "set" BY <6>3 DEF Apply, IsPost
          <6>5. CASE m.write.type = "remove"
            <7>1. m = Push(Removal(p))
              <8>1. m \in [type : {"push"}, write : LocalWrites]
                BY <3>1, <5>3 DEF Responses, Acks
              <8> QED BY <8>1, <6>2, <6>5 DEF Push, Removal
            <7>2. m \in Missing(p) BY <7>1 DEF Missing, Pushes
            <7> QED BY <3>3, <4>2, <7>2
          <6>6. CASE m.write.type = "update"
            <7>1. ~IsPost(cache[c][p])
              BY <6>3, <6>6 DEF Apply, IsPost
            <7> QED BY <1>6, <3>2, <5>1, <5>2, <7>1
          <6> QED BY <6>2, <6>4, <6>5, <6>6 DEF WriteOps
        <5>4. CASE ~(m.type = "push" /\ m.write.post = p)
          <6>1. ~IsPost(cache[c][p]) BY <3>5, <4>1, <4>4, <5>4 DEF Brought
          <6> QED BY <1>6, <3>2, <5>1, <5>2, <6>1
        <5> QED BY <5>3, <5>4
      <4> QED BY <4>3, <4>4
    <3> HIDE DEF R, B
    <3> QED BY <1>3, <3>1, <3>3, <3>4, <3>5 DEF Settling, R, B
  <2>8. ASSUME NEW d \in Clients, NEW w \in LocalWrites, Learns(c, d, w) PROVE Settling(p)'
    <3>1. Performs(d, w) /\ down'[c] = ToldTo(c, d, w, q) /\ SameView(c)
      BY <1>2, <2>8 DEF Learns
    <3>2. w = Write("set", p) => ~Got(p) /\ ~In(q, Created(p))
      <4> SUFFICES ASSUME w = Write("set", p) PROVE ~Got(p) /\ ~In(q, Created(p)) OBVIOUS
      <4>1. ServeWrite(d) /\ Head(up[d]) = Write("set", p) BY <3>1 DEF Performs
      <4>2. d = c /\ ~Got(p) BY <4>1, SetUnanswered
      <4> QED BY <1>2, <4>1, <4>2, SetServedOnce
    <3>3. server'[p] = IF w.post = p THEN Apply(w.type, server[p]) ELSE server[p]
      BY <1>1, <3>1 DEF Performs, Boards
    <3>4. w = Removal(p) => ~IsPost(server'[p])
      BY <3>3 DEF Removal, Write, Apply, IsPost
    <3>5. (Got(p) \/ In(q, Created(p))) /\ ~IsPost(server[p]) => ~IsPost(server'[p])
      <4>1. CASE w.post # p BY <3>3, <4>1
      <4>2. CASE w.post = p
        <5>1. w = Write(w.type, p) /\ w.type \in WriteOps BY <4>2 DEF LocalWrites, Write
        <5>2. CASE w.type = "set" BY <3>2, <5>1, <5>2
        <5>3. CASE w.type = "remove" BY <3>3, <4>2, <5>3 DEF Apply, IsPost
        <5>4. CASE w.type = "update"
          <6>1. server'[p] = Apply("update", server[p]) BY <3>3, <4>2, <5>4
          <6>2. server[p] \in Records BY <1>1 DEF Boards
          <6> QED BY <6>1, <6>2 DEF Apply, IsPost, Records
        <5> QED BY <5>1, <5>2, <5>3, <5>4 DEF WriteOps
      <4> QED BY <4>1, <4>2
    <3>6. Missed(q, p, Got(p)', ~IsPost(server'[p]))
      BY <1>4, <1>6, <2>1, <3>5, MissedStays DEF IsPost
    <3>7. Missed(down'[c], p, Got(p)', ~IsPost(server'[p]))
      BY <1>4, <2>1, <3>1, <3>2, <3>4, <3>6, MissedTold DEF IsPost
    <3>8. In(down'[c], B) => In(q, B) \/ w = Write("set", p)
      BY <3>1, InTold, WriteMissed
    <3>9. held'[c] = held[c] /\ cache'[c] = cache[c] /\ complete'[c] = complete[c]
      BY <3>1 DEF SameView
    <3> HIDE DEF R, B
    <3> QED BY <1>3, <1>6, <2>2, <2>3, <3>2, <3>7, <3>8, <3>9 DEF Settling, R, B
  <2> QED BY <2>4, <2>5, <2>6, <2>7, <2>8, ViewMoves
<1> QED BY <1>7, <1>8, <1>9
=============================================================================
