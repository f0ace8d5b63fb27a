----------------------------- MODULE PostProofs ------------------------------
(***************************************************************************)
(* Of the board of posts (PostsSync), what a live screen is told and what  *)
(* becomes of a post.  While the server refuses no write and nobody has    *)
(* tapped Delete on a post, no screen is told that the post is gone        *)
(* (FeedInv).  Nobody hears of a post before it is made, and once it was   *)
(* asked to be removed it does not come back, although a reconnection      *)
(* sends its creation again (PostInv).                                     *)
(***************************************************************************)
EXTENDS PostsSyncProofs

-----------------------------------------------------------------------------
(* What is known of post p *)

(* Nobody has tapped Delete on a row of p. *)
Unasked(p) == \A d \in Clients : asked[d][p] = 0

(* Writes, requests, blocks and messages that do not remove p, and         *)
(* callbacks that do not tell that p is gone.                              *)
Removal(p) == Write("remove", p)
KeptWrites(p) == LocalWrites \ {Removal(p)}
KeptRequests(p) == Requests \ {Removal(p)}
KeptBlocks(p) == Blocks \ {Removal(p)}
KeptResponses(p) ==
  {m \in Responses : m.type \in {"push", "ack"} => m.write # Removal(p)}
KeptCallbacks(p) == {m \in Callbacks : m.type = "removed" => m.post # p}

(* The server's answers to listens; and messages after which a view gets   *)
(* no pushes, until it gets a snapshot.                                    *)
Answers == {m \in Responses : m.type \in {"snapshot", "refusal"}}
Ends == {m \in Responses : m.type \in {"refusal", "revocation"}}

(* Responses to the creation of p, messages that bring p to a cache, all   *)
(* that tell of p, and snapshots without it.                               *)
Created(p) == {m \in Responses : m.type = "ack" /\ m.write = Write("set", p)}
Bringing(p) ==
  {m \in Responses : \/ m.type = "push" /\ m.write = Write("set", p)
                     \/ m.type = "snapshot" /\ IsPost(m.board[p])}
Telling(p) == Created(p) \cup Bringing(p)
Lacking(p) == {m \in Responses : m.type = "snapshot" /\ ~IsPost(m.board[p])}

(* Client c has heard that p was created. *)
Known(c, p) == IsPost(cache[c][p]) \/ In(held[c], Created(p))

(* Nothing of client c removes p. *)
Kept(c, p) ==
  /\ writes[c] \in Seq(KeptWrites(p)) /\ up[c] \in Seq(KeptRequests(p))
  /\ repoQ[c] \in Seq(KeptBlocks(p)) /\ down[c] \in Seq(KeptResponses(p))
  /\ mainQ[c] \in Seq(KeptCallbacks(p))

(* The server has each post a client knows or will hear of, *)
Ahead(c, p) == Known(c, p) \/ In(down[c], Telling(p)) => IsPost(server[p])

(* no snapshot on its way lacks such a post, *)
Lasting(c, p) ==
  /\ Known(c, p) => ~In(down[c], Lacking(p))
  /\ NeverAfter(down[c], Telling(p), Lacking(p))

(* and the response to a creation comes down after the post itself, unless *)
(* another answer to a listen is to come, or the view to go.               *)
Shown(c, p) ==
  regs[c] # {} /\ ~HasType(up[c], "listen") /\ ~IsPost(cache[c][p]) =>
    Met(down[c], Created(p), Bringing(p), Ends, Answers)

Feed(c, p) == Kept(c, p) /\ Ahead(c, p) /\ Lasting(c, p) /\ Shown(c, p)

(* A view that the server does not push to is about to learn of it. *)
Deaf(c) ==
  regs[c] # {} /\ connected[c] /\ ~HasType(up[c], "listen") /\ ~listening[c] =>
    LastIs(down[c], Ends, Answers)

FeedInv ==
  /\ SyncInv
  /\ \A c \in Clients : Deaf(c)
  /\ ~RejectsWrites =>
       \A p \in Posts : Unasked(p) => \A c \in Clients : Feed(c, p)

-----------------------------------------------------------------------------
(* Events: what keeps a post tells of no removal *)

(* Which of the writes keep p. *)
LEMMA KeptTypes ==
  ASSUME NEW p \in Posts
  PROVE  /\ KeptWrites(p) \subseteq LocalWrites /\ KeptRequests(p) \subseteq Requests
         /\ KeptBlocks(p) \subseteq Blocks /\ KeptResponses(p) \subseteq Responses
         /\ KeptCallbacks(p) \subseteq Callbacks
         /\ \A w \in KeptWrites(p) : w.post = p =>
              w = Write("set", p) \/ w.type = "update"
         /\ \A w \in LocalWrites : w # Removal(p) => w \in KeptWrites(p)
BY DEF KeptWrites, KeptRequests, KeptBlocks, KeptResponses, KeptCallbacks, Removal,
       LocalWrites, Write, WriteOps

(* A sequence of some kind is one of any wider kind. *)
LEMMA SeqWider ==
  ASSUME NEW S, NEW T, S \subseteq T, NEW q \in Seq(S)
  PROVE  q \in Seq(T)
<1>1. \A i \in 1 .. Len(q) : q[i] \in T OBVIOUS
<1>2. q = [i \in 1 .. Len(q) |-> q[i]] /\ Len(q) \in Nat OBVIOUS
<1> QED BY <1>1, <1>2

(* Under writes that keep p, p is in the picture exactly if one of them    *)
(* creates it or the cache has it.                                         *)
LEMMA KeptPicture ==
  ASSUME NEW p \in Posts, NEW ws \in Seq(KeptWrites(p)), NEW ca \in Boards,
         NEW whole
  PROVE  IsPost(Overlay(ca, whole, ws)[p]) <=>
           Has(ws, Write("set", p)) \/ IsPost(ca[p])
<1> DEFINE base == IF ca[p] = "none" /\ ~whole THEN "unknown" ELSE ca[p]
           R == Records \cup {"unknown"}
           seen == Written(ws, p, base)
<1>1. ca[p] \in Records BY DEF Boards
<1>2. base \in R /\ (IsPost(base) <=> IsPost(ca[p])) BY <1>1 DEF IsPost
<1>3. ws \in Seq(LocalWrites) BY SeqWider, KeptTypes
<1>4. KeptIn(R, ws, p)
  <2>1. \A i \in 1 .. Len(ws) : ws[i].type \in WriteOps
    <3>1. \A i \in 1 .. Len(ws) : ws[i] \in LocalWrites BY <1>3
    <3> QED BY <3>1 DEF LocalWrites
  <2>2. \A op \in WriteOps, r \in R : Apply(op, r) \in R
    BY DEF Apply, WriteOps, Records
  <2> HIDE DEF R
  <2> QED BY <2>1, <2>2 DEF KeptIn
<1> HIDE DEF base, R
<1>5. PICK f \in [0 .. Len(ws) -> R] : IsWriting(f, ws, p, base) /\ seen = f[Len(ws)]
  BY <1>2, <1>3, <1>4, WrittenDef
<1> HIDE DEF seen
<1> DEFINE S == {n \in 0 .. Len(ws) :
                   IsPost(f[n]) <=> IsPost(base) \/ \E i \in 1 .. n : ws[i] = Write("set", p)}
<1>6. 0 \in S
  <2>1. f[0] = base BY <1>5 DEF IsWriting
  <2>2. 0 \in 0 .. Len(ws) /\ 1 .. 0 = {} OBVIOUS
  <2> QED BY <2>1, <2>2
<1>7. ASSUME NEW n \in 1 .. Len(ws), n - 1 \in S PROVE n \in S
  <2>1. f[n] = IF ws[n].post = p THEN Apply(ws[n].type, f[n - 1]) ELSE f[n - 1]
    BY <1>5 DEF IsWriting
  <2>2. ws[n] \in KeptWrites(p) /\ n \in Nat /\ Len(ws) \in Nat OBVIOUS
  <2>3. (\E i \in 1 .. n : ws[i] = Write("set", p)) <=>
          (\E i \in 1 .. n - 1 : ws[i] = Write("set", p)) \/ ws[n] = Write("set", p)
    <3>1. 1 .. n = (1 .. n - 1) \cup {n} BY <2>2
    <3> QED BY <3>1
  <2>4. IsPost(f[n]) <=> IsPost(f[n - 1]) \/ ws[n] = Write("set", p)
    <3>1. CASE ws[n].post # p
      <4>1. ws[n] # Write("set", p) BY <3>1 DEF Write
      <4> QED BY <2>1, <3>1, <4>1
    <3>2. CASE ws[n] = Write("set", p)
      BY <2>1, <3>2 DEF Write, Apply, IsPost
    <3>3. CASE ws[n].post = p /\ ws[n] # Write("set", p)
      <4>1. ws[n].type = "update" BY <2>2, <3>3, KeptTypes
      <4>2. f[n] = Apply("update", f[n - 1]) BY <2>1, <3>3, <4>1
      <4>3. f[n - 1] \in R BY <2>2
      <4> QED BY <3>3, <4>2, <4>3 DEF Apply, IsPost, R, Records
    <3> QED BY <3>1, <3>2, <3>3
  <2> QED BY <1>7, <2>3, <2>4
<1>8. 0 .. Len(ws) \subseteq S
  <2> HIDE DEF S
  <2> QED BY <1>6, <1>7, InductionUpTo, Len(ws) \in Nat
<1>9. IsPost(seen) <=> IsPost(base) \/ Has(ws, Write("set", p))
  <2>1. Len(ws) \in S BY <1>8, Len(ws) \in Nat
  <2> QED BY <1>5, <2>1 DEF Has
<1>10. Overlay(ca, whole, ws)[p] = IF seen = "unknown" THEN "none" ELSE seen
  BY DEF Overlay, seen, base
<1> QED BY <1>2, <1>9, <1>10 DEF IsPost

(* A change that leaves p in the picture, or that nobody is registered     *)
(* for, tells of no removal of p;                                          *)
LEMMA KeptChildEvents ==
  ASSUME NEW c \in Clients, session[c] \in Sessions, NEW p \in Posts,
         NEW rs, NEW before, NEW after,
         rs = {} \/ (IsPost(before[p]) => IsPost(after[p]))
  PROVE  ChildEvents(c, rs, before, after) \in Seq(KeptCallbacks(p))
<1> DEFINE removed == {q \in Posts : IsPost(before[q]) /\ after[q] = "none"}
           changed == {q \in Posts : /\ before[q] # "none" /\ before[q] # after[q]
                                     /\ IsPost(after[q])}
           Tell(kind, S) == IF <<kind, session[c]>> \in rs
                            THEN [i \in 1 .. Cardinality(S) |->
                                    Event(kind, c, SetToSeq(S)[i])]
                            ELSE <<>>
<1>1. ASSUME NEW kind \in {"changed", "removed"}, NEW S \in SUBSET Posts,
             kind = "removed" => rs = {} \/ p \notin S
      PROVE  Tell(kind, S) \in Seq(KeptCallbacks(p))
  <2>1. CASE <<kind, session[c]>> \notin rs BY <2>1
  <2>2. CASE <<kind, session[c]>> \in rs
    <3>1. kind = "removed" => p \notin S BY <1>1, <2>2
    <3>2. IsFiniteSet(S) BY PostsAssumption, FS_Subset
    <3>3. /\ Cardinality(S) \in Nat
          /\ SetToSeq(S) \in [1 .. Cardinality(S) -> S]
      BY <3>2, SetToSeqType
    <3>4. \A q \in S : Event(kind, c, q) \in KeptCallbacks(p)
      BY <3>1 DEF Event, Callbacks, KeptCallbacks
    <3>5. \A i \in 1 .. Cardinality(S) :
            Event(kind, c, SetToSeq(S)[i]) \in KeptCallbacks(p)
      BY <3>3, <3>4
    <3>6. Tell(kind, S) =
            [i \in 1 .. Cardinality(S) |-> Event(kind, c, SetToSeq(S)[i])]
      BY <2>2
    <3> HIDE DEF Tell
    <3> QED BY <3>3, <3>5, <3>6
  <2> QED BY <2>1, <2>2
<1>2. removed \in SUBSET Posts /\ changed \in SUBSET Posts OBVIOUS
<1>3. rs = {} \/ p \notin removed BY DEF IsPost
<1>4. ChildEvents(c, rs, before, after) = Tell("removed", removed) \o Tell("changed", changed)
  BY DEF ChildEvents
<1> HIDE DEF Tell, removed, changed
<1>5. Tell("removed", removed) \in Seq(KeptCallbacks(p)) BY <1>1, <1>2, <1>3
<1>6. Tell("changed", changed) \in Seq(KeptCallbacks(p)) BY <1>1, <1>2
<1> QED BY <1>4, <1>5, <1>6, ConcatProperties

(* the same of a write settled, *)
LEMMA KeptSettleEvents ==
  ASSUME NEW c \in Clients, session[c] \in Sessions, NEW p \in Posts,
         NEW rs, NEW ca, NEW whole, NEW ws, NEW left, NEW ack \in Acks,
         rs = {} \/ (IsPost(Overlay(ca, whole, ws)[p]) => IsPost(Overlay(ca, whole, left)[p]))
  PROVE  SettleEvents(c, rs, ca, whole, ws, left, ack) \in Seq(KeptCallbacks(p))
<1> DEFINE told == ChildEvents(c, rs, Overlay(ca, whole, ws), Overlay(ca, whole, left))
           written == IF ack.ok /\ ack.write.type = "set"
                      THEN <<[type |-> "written", post |-> ack.write.post]>>
                      ELSE <<>>
<1>1. told \in Seq(KeptCallbacks(p)) BY KeptChildEvents
<1>2. [type |-> "written", post |-> ack.write.post] \in KeptCallbacks(p)
  BY DEF Acks, LocalWrites, Callbacks, KeptCallbacks
<1>3. written \in Seq(KeptCallbacks(p)) BY <1>2
<1>4. SettleEvents(c, rs, ca, whole, ws, left, ack) = told \o written
  BY DEF SettleEvents
<1> HIDE DEF told, written
<1> QED BY <1>1, <1>3, <1>4, ConcatProperties

(* of the first values, and of the cancellations, *)
LEMMA KeptValueEvents ==
  ASSUME NEW c \in Clients, NEW p \in Posts
  PROVE  /\ \A which \in SUBSET Regs : IsFiniteSet(which) =>
              \A picture : ValueEvents(c, which, picture) \in Seq(KeptCallbacks(p))
         /\ regs[c] \in SUBSET Regs /\ IsFiniteSet(regs[c]) =>
              Cancelled(c) \in Seq(KeptCallbacks(p))
<1>1. ASSUME NEW which \in SUBSET Regs, NEW picture, IsFiniteSet(which)
      PROVE  ValueEvents(c, which, picture) \in Seq(KeptCallbacks(p))
  <2>1. ValueEvents(c, which, picture) \in Seq(Callbacks) BY <1>1, ValueEventsType
  <2> DEFINE q == ValueEvents(c, which, picture)
  <2>2. Cardinality(which) \in Nat BY <1>1, SetToSeqType
  <2>3. \A i \in 1 .. Len(q) : q[i].type = "value" BY <2>2 DEF ValueEvents
  <2> HIDE DEF q
  <2>4. \A i \in 1 .. Len(q) : q[i] \in KeptCallbacks(p)
    BY <2>1, <2>3 DEF KeptCallbacks, q
  <2>5. q = [i \in 1 .. Len(q) |-> q[i]] /\ Len(q) \in Nat BY <2>1 DEF q
  <2>6. q \in Seq(KeptCallbacks(p)) BY <2>4, <2>5
  <2> QED BY <2>6 DEF q
<1>2. ASSUME regs[c] \in SUBSET Regs, IsFiniteSet(regs[c])
      PROVE  Cancelled(c) \in Seq(KeptCallbacks(p))
  <2>1. Cancelled(c) \in Seq(Callbacks) BY <1>2, CancelledType
  <2> DEFINE q == Cancelled(c)
  <2>2. Cardinality(ValueRegs(c)) \in Nat
    BY <1>2, FS_Subset, FS_CardinalityType, ValueRegs(c) \subseteq regs[c] DEF ValueRegs
  <2>3. \A i \in 1 .. Len(q) : q[i].type = "cancelled" BY <2>2 DEF Cancelled
  <2> HIDE DEF q
  <2>4. \A i \in 1 .. Len(q) : q[i] \in KeptCallbacks(p)
    BY <2>1, <2>3 DEF KeptCallbacks, q
  <2>5. q = [i \in 1 .. Len(q) |-> q[i]] /\ Len(q) \in Nat BY <2>1 DEF q
  <2>6. q \in Seq(KeptCallbacks(p)) BY <2>4, <2>5
  <2> QED BY <2>6 DEF q
<1> QED BY <1>1, <1>2

(* of what each response held back uncovers. *)
LEMMA KeptAckPutsEvents ==
  ASSUME NEW c \in Clients, session[c] \in Sessions, held[c] \in Seq(Acks),
         NEW p \in Posts, NEW rs, NEW ca, NEW whole,
         rs = {} \/ \A n \in 1 .. Len(held[c]) :
                      IsPost(Overlay(ca, whole, AckPuts(c, n - 1))[p]) =>
                        IsPost(Overlay(ca, whole, AckPuts(c, n))[p])
  PROVE  AckPutsEvents(c, rs, ca, whole) \in Seq(KeptCallbacks(p))
<1> DEFINE N == Len(held[c])
           told(n) == SettleEvents(c, rs, ca, whole, AckPuts(c, n - 1),
                                   AckPuts(c, n), held[c][n])
<1>1. PICK f \in [0 .. N -> Seq(Callbacks)] :
        /\ IsTelling(f, c, rs, ca, whole)
        /\ AckPutsEvents(c, rs, ca, whole) = f[N]
  BY AckPutsEventsDef
<1>2. N \in Nat /\ \A n \in 1 .. N : held[c][n] \in Acks OBVIOUS
<1>3. f[0] = <<>> /\ \A n \in 1 .. N : f[n] = f[n - 1] \o told(n) BY <1>1 DEF IsTelling
<1>4. \A n \in 1 .. N : told(n) \in Seq(KeptCallbacks(p)) BY <1>2, KeptSettleEvents
<1> HIDE DEF told, N
<1> DEFINE S == {n \in 0 .. N : f[n] \in Seq(KeptCallbacks(p))}
<1>5. 0 \in S BY <1>2, <1>3
<1>6. ASSUME NEW n \in 1 .. N, n - 1 \in S PROVE n \in S
  <2>1. PICK q \in Seq(KeptCallbacks(p)) : q = f[n - 1] BY <1>6
  <2>2. PICK r \in Seq(KeptCallbacks(p)) : r = told(n) BY <1>4
  <2>3. q \o r \in Seq(KeptCallbacks(p)) BY ConcatProperties
  <2>4. f[n] = q \o r BY <1>3, <2>1, <2>2
  <2>5. f[n] \in Seq(KeptCallbacks(p)) BY <2>3, <2>4
  <2>6. n \in 0 .. N BY <1>2
  <2> QED BY <2>5, <2>6
<1>7. 0 .. N \subseteq S
  <2> HIDE DEF S
  <2> QED BY <1>2, <1>5, <1>6, InductionUpTo
<1> QED BY <1>1, <1>2, <1>7

(* The release of all responses held back, over a cache with each post     *)
(* that one of them creates, tells of no removal.                          *)
LEMMA KeptRelease ==
  ASSUME TypeOK, EveryWriteTracked, NEW c \in Clients, NEW p \in Posts, Kept(c, p),
         NEW ca \in Boards, NEW rs, NEW whole,
         rs = {} \/ (In(held[c], Created(p)) => IsPost(ca[p]))
  PROVE  /\ AckPuts(c, Len(held[c])) \in Seq(KeptWrites(p))
         /\ AckPutsEvents(c, rs, ca, whole) \in Seq(KeptCallbacks(p))
<1> DEFINE ws == writes[c]
           N == Len(held[c])
           L(n) == SubSeq(ws, n + 1, Len(ws))
           e == Write("set", p)
<1>1. /\ ws \in Seq(KeptWrites(p)) /\ held[c] \in Seq(Acks) /\ session[c] \in Sessions
  BY DEF Kept, TypeOK
<1>2. /\ N <= Len(ws) /\ N \in Nat /\ Len(ws) \in Nat
      /\ \A i \in 1 .. N : ws[i] = held[c][i].write
  BY <1>1, HeldAreOldest
<1>3. \A n \in 0 .. N : AckPuts(c, n) = L(n) BY AckPutsAll
<1> HIDE DEF ws, e
<1>4. ASSUME NEW n \in 0 .. N
      PROVE  /\ L(n) \in Seq(KeptWrites(p))
             /\ Has(L(n), e) <=> \E i \in n + 1 .. Len(ws) : ws[i] = e
  <2>1. n + 1 \in 1 .. Len(ws) + 1 /\ n \in 0 .. Len(ws) BY <1>2
  <2>2. \A i \in n + 1 .. Len(ws) : ws[i] \in KeptWrites(p)
    <3>1. \A i \in n + 1 .. Len(ws) : i \in 1 .. Len(ws) BY <2>1
    <3> QED BY <1>1, <3>1
  <2>3. L(n) \in Seq(KeptWrites(p)) BY <1>1, <1>2, <2>1, <2>2, SubSeqProperties
  <2> QED BY <1>1, <2>1, <2>3, HasInRest
<1> HIDE DEF L
<1>5. \A n \in 0 .. N : IsPost(Overlay(ca, whole, L(n))[p]) <=> Has(L(n), e) \/ IsPost(ca[p])
  BY <1>4, KeptPicture DEF e
<1>6. rs = {} \/ \A n \in 1 .. N :
                   IsPost(Overlay(ca, whole, AckPuts(c, n - 1))[p]) =>
                     IsPost(Overlay(ca, whole, AckPuts(c, n))[p])
  <2> SUFFICES ASSUME In(held[c], Created(p)) => IsPost(ca[p]), ~IsPost(ca[p]),
                      NEW n \in 1 .. N, Has(L(n - 1), e)
               PROVE  Has(L(n), e)
    <3>1. \A n \in 1 .. N : n \in 0 .. N /\ n - 1 \in 0 .. N BY <1>2
    <3> QED BY <1>3, <1>5, <3>1
  <2>1. PICK i \in n .. Len(ws) : ws[i] = e
    <3>1. n - 1 \in 0 .. N /\ n - 1 + 1 = n BY <1>2
    <3> QED BY <1>4, <3>1
  <2>2. i # n
    <3> SUFFICES ASSUME i = n PROVE In(held[c], Created(p)) OBVIOUS
    <3>1. held[c][n].write = e BY <1>2, <2>1
    <3>2. held[c][n] \in Acks BY <1>1
    <3>3. held[c][n] \in Created(p) BY <3>1, <3>2 DEF Created, Responses, Acks, e
    <3> QED BY <3>3 DEF In
  <2>3. i \in n + 1 .. Len(ws) BY <1>2, <2>2
  <2> QED BY <1>2, <1>4, <2>1, <2>3
<1>7. AckPutsEvents(c, rs, ca, whole) \in Seq(KeptCallbacks(p))
  BY <1>1, <1>6, KeptAckPutsEvents
<1>8. N \in 0 .. N BY <1>2
<1> QED BY <1>3, <1>4, <1>7, <1>8

-----------------------------------------------------------------------------
(* The screens, and who else changes nothing *)

(* A client of which nothing has changed but its screen stays as it is, if *)
(* its queues keep p; *)
LEMMA FeedIfCalm ==
  ASSUME NEW d \in Clients, NEW p \in Posts, Feed(d, p), Calm(d), Kept(d, p)'
  PROVE  Feed(d, p)'
<1>1. Known(d, p)' <=> Known(d, p) BY DEF Calm, Known
<1>2. Ahead(d, p)' BY <1>1 DEF Feed, Ahead, Calm
<1>3. Lasting(d, p)' BY <1>1 DEF Feed, Lasting, Calm
<1>4. Shown(d, p)' BY DEF Feed, Shown, Calm
<1> QED BY <1>2, <1>3, <1>4 DEF Feed

(* it learns no less than before; *)
LEMMA DeafIfCalm ==
  ASSUME NEW d \in Clients, Deaf(d), Calm(d)
  PROVE  Deaf(d)'
BY DEF Deaf, Calm

(* and its queues keep p, if they have not changed. *)
LEMMA KeptIfSame ==
  ASSUME NEW d \in Clients, NEW p \in Posts, Kept(d, p),
         writes'[d] = writes[d], up'[d] = up[d], down'[d] = down[d],
         repoQ'[d] = repoQ[d], mainQ'[d] = mainQ[d]
  PROVE  Kept(d, p)'
BY DEF Kept

(* Only a client's own threads work on its dispatch queues. *)
LEMMA OthersKeep ==
  ASSUME TypeOK, NEW c \in Clients, NEW d \in Clients \ {c},
         \/ User(c) \/ MainThread(c) \/ RepoBlock(c) \/ Receive(c) \/ Serve(c)
         \/ RevokeListen(c) \/ Disconnect(c) \/ Reconnect(c) \/ Crash(c)
  PROVE  repoQ'[d] = repoQ[d] /\ mainQ'[d] = mainQ[d]
<1>1. CASE User(c)
  BY <1>1 DEF User, OpenTimeline, Logout, CreatePost, RemovePost, TypeOK
<1>2. CASE MainThread(c)
  BY <1>2 DEF MainThread, PostsRetrieved, RetrievalFailed, PostAdded, PostRemoved,
              FeedEvent, PostWritten, TypeOK
<1>3. CASE RepoBlock(c)
  BY <1>3 DEF RepoBlock, AddObserver, RemoveObserver, LocalWrite, TypeOK
<1>4. CASE Receive(c)
  <2>1. CASE ReceivePush(c) BY <2>1 DEF ReceivePush, TypeOK
  <2>2. CASE ReceiveSnapshot(c) BY <2>2 DEF ReceiveSnapshot, TypeOK
  <2>3. CASE ReceiveAck(c) BY <2>3 DEF ReceiveAck, TypeOK
  <2>4. CASE ReceiveRefusal(c) BY <2>4 DEF ReceiveRefusal, TypeOK
  <2>5. CASE ReceiveRevocation(c) BY <2>5 DEF ReceiveRevocation, TypeOK
  <2> QED BY <1>4, <2>1, <2>2, <2>3, <2>4, <2>5 DEF Receive
<1>5. CASE Serve(c)
  BY <1>5 DEF Serve, ServeListen, ServeUnlisten, ServeWrite
<1>6. CASE RevokeListen(c) \/ Disconnect(c) \/ Reconnect(c) \/ Crash(c)
  BY <1>6 DEF RevokeListen, Disconnect, Reconnect, Reconnected, Crash, TypeOK
<1> QED BY <1>1, <1>2, <1>3, <1>4, <1>5, <1>6

(* The user asks for no removal of p, unless p is asked to be removed; *)
LEMMA UserKeeps ==
  ASSUME TypeInv, NEW c \in Clients, NEW p \in Posts, Kept(c, p), User(c), Unasked(p)'
  PROVE  Kept(c, p)'
<1>0. TypeOK BY DEF TypeInv
<1>1. /\ up'[c] = up[c] /\ down'[c] = down[c] /\ writes'[c] = writes[c]
      /\ mainQ'[c] = mainQ[c]
  BY DEF User, OpenTimeline, Logout, CreatePost, RemovePost, sdkVars
<1>2. \/ repoQ'[c] = repoQ[c]
      \/ \E b \in KeptBlocks(p) : repoQ'[c] = Append(repoQ[c], b)
  <2>1. CASE OpenTimeline(c)
    <3> DEFINE b == [type |-> "observe", reg |-> <<"value", session'[c]>>]
    <3>1. <<"value", session'[c]>> \in Regs
      <4>1. session'[c] \in Sessions BY <2>1, UserTypes DEF TypeInv, TypeOK
      <4> QED BY <4>1 DEF Regs
    <3>2. b \in Blocks BY <3>1 DEF Blocks
    <3>3. b.type # Removal(p).type BY DEF Removal, Write
    <3>4. b \in KeptBlocks(p) BY <3>2, <3>3 DEF KeptBlocks
    <3>5. repoQ'[c] = Append(repoQ[c], b) BY <1>0, <2>1 DEF OpenTimeline, TypeOK
    <3> QED BY <3>4, <3>5
  <2>2. CASE Logout(c) BY <2>2 DEF Logout
  <2>3. ASSUME NEW q \in Posts, CreatePost(c, q)
        PROVE  \E b \in KeptBlocks(p) : repoQ'[c] = Append(repoQ[c], b)
    <3>1. Write("set", q) \in Blocks BY WriteTypes DEF Blocks
    <3>2. Write("set", q).type # Removal(p).type BY DEF Write, Removal
    <3>3. Write("set", q) \in KeptBlocks(p) BY <3>1, <3>2 DEF KeptBlocks
    <3> QED BY <1>0, <2>3, <3>3 DEF CreatePost, TypeOK
  <2>4. ASSUME NEW q \in Posts, RemovePost(c, q)
        PROVE  \E b \in KeptBlocks(p) : repoQ'[c] = Append(repoQ[c], b)
    <3>1. asked' = [asked EXCEPT ![c][q] = @ + 1] /\ asked[c] \in [Posts -> Nat]
      BY <1>0, <2>4 DEF RemovePost, TypeOK, PostCounts
    <3>2. asked'[c][q] > 0 BY <1>0, <3>1 DEF TypeOK
    <3>3. q # p BY <3>2 DEF Unasked
    <3>4. Write("remove", q) \in Blocks BY DEF Write, Blocks, LocalWrites, WriteOps
    <3>5. Write("remove", q).post # Removal(p).post BY <3>3 DEF Write, Removal
    <3>6. Write("remove", q) \in KeptBlocks(p) BY <3>4, <3>5 DEF KeptBlocks
    <3> QED BY <1>0, <2>4, <3>6 DEF RemovePost, TypeOK
  <2> QED BY <2>1, <2>2, <2>3, <2>4 DEF User
<1>3. repoQ[c] \in Seq(KeptBlocks(p)) BY DEF Kept
<1>4. \A b \in KeptBlocks(p) : Append(repoQ[c], b) \in Seq(KeptBlocks(p))
  BY <1>3, AppendProperties
<1>5. repoQ'[c] \in Seq(KeptBlocks(p)) BY <1>2, <1>3, <1>4
<1> QED BY <1>1, <1>5 DEF Kept

(* the app's callbacks ask for none at all. *)
LEMMA MainThreadKeeps ==
  ASSUME TypeInv, NEW c \in Clients, NEW p \in Posts, Kept(c, p), MainThread(c)
  PROVE  Kept(c, p)'
<1> DEFINE m == Head(mainQ[c])
<1>0. TypeOK BY DEF TypeInv
<1>1. /\ up'[c] = up[c] /\ down'[c] = down[c] /\ writes'[c] = writes[c]
      /\ mainQ[c] # <<>> /\ mainQ'[c] = Tail(mainQ[c])
  BY <1>0 DEF MainThread, PostsRetrieved, RetrievalFailed, PostAdded, PostRemoved,
         FeedEvent, PostWritten, Callback, TypeOK, sdkVars
<1>2. mainQ[c] \in Seq(KeptCallbacks(p)) /\ repoQ[c] \in Seq(KeptBlocks(p)) BY DEF Kept
<1>3. m \in Callbacks BY <1>0, <1>1, HeadsOfQueues
<1>4. mainQ'[c] \in Seq(KeptCallbacks(p)) BY <1>1, <1>2, HeadTailProperties
<1> HIDE DEF m
<1>5. \A b \in Blocks : b.type # "remove" => b \in KeptBlocks(p)
  BY DEF KeptBlocks, Removal, Write
<1>6. repoQ'[c] \in Seq(KeptBlocks(p))
  <2>1. CASE PostsRetrieved(c)
    <3> DEFINE off == [type |-> "stop", reg |-> <<"value", m.session>>]
               on(kind) == [type |-> "observe", reg |-> <<kind, m.session>>]
    <3>1. \/ repoQ'[c] = repoQ[c] \o <<off>>
          \/ repoQ'[c] = repoQ[c] \o <<off, on("changed"), on("removed")>>
      BY <1>0, <2>1 DEF PostsRetrieved, TypeOK, m
    <3>2. m.type = "value" BY <2>1 DEF PostsRetrieved, Callback, m
    <3>3. m.session \in Sessions BY <1>3, <3>2 DEF Callbacks
    <3>4. off \in Blocks /\ on("changed") \in Blocks /\ on("removed") \in Blocks
      BY <3>3 DEF Blocks, Regs
    <3>5. off.type # "remove" /\ on("changed").type # "remove" /\ on("removed").type # "remove"
      OBVIOUS
    <3> HIDE DEF off, on
    <3>6. /\ off \in KeptBlocks(p) /\ on("changed") \in KeptBlocks(p)
          /\ on("removed") \in KeptBlocks(p)
      BY <1>5, <3>4, <3>5
    <3>7. PICK v \in Seq(KeptBlocks(p)) : repoQ'[c] = repoQ[c] \o v
      <4>1. /\ <<off>> \in Seq(KeptBlocks(p))
            /\ <<off, on("changed"), on("removed")>> \in Seq(KeptBlocks(p))
        BY <3>6
      <4> QED BY <3>1, <4>1
    <3> QED BY <1>2, <3>7, ConcatProperties
  <2>2. CASE RetrievalFailed(c)
    <3> DEFINE b == [type |-> "stop", reg |-> <<"value", m.session>>]
    <3>1. repoQ'[c] = Append(repoQ[c], b) BY <1>0, <2>2 DEF RetrievalFailed, TypeOK, m
    <3>2. m.type = "cancelled" BY <2>2 DEF RetrievalFailed, Callback, m
    <3>3. m.session \in Sessions BY <1>3, <3>2 DEF Callbacks
    <3>4. b \in Blocks /\ b.type # "remove" BY <3>3 DEF Blocks, Regs
    <3> HIDE DEF b
    <3> QED BY <1>2, <1>5, <3>1, <3>4, AppendProperties
  <2>3. CASE PostAdded(c) \/ PostRemoved(c)
    BY <1>2, <2>3 DEF PostAdded, PostRemoved, FeedEvent
  <2>4. CASE PostWritten(c)
    <3> DEFINE b == Write("update", m.post)
    <3>1. repoQ'[c] = Append(repoQ[c], b) BY <1>0, <2>4 DEF PostWritten, TypeOK, m
    <3>2. m.type = "written" BY <2>4 DEF PostWritten, Callback, m
    <3>3. b \in Blocks /\ b.type # "remove"
      BY <1>3, <3>2 DEF Callbacks, Write, Blocks, LocalWrites, WriteOps
    <3> HIDE DEF b
    <3> QED BY <1>2, <1>5, <3>1, <3>3, AppendProperties
  <2> QED BY <2>1, <2>2, <2>3, <2>4 DEF MainThread
<1> QED BY <1>1, <1>4, <1>6 DEF Kept

-----------------------------------------------------------------------------
(* Blocks of the SDK's queue *)

(* The types of messages in a queue with one more. *)
LEMMA HasTypeAppend ==
  ASSUME NEW T, NEW q \in Seq(T), NEW m \in T
  PROVE  \A t : HasType(Append(q, m), t) <=> HasType(q, t) \/ m.type = t
<1>1. PICK v \in Seq(T) : v = <<m>> BY <<m>> \in Seq(T)
<1>2. \A t : HasType(v, t) <=> m.type = t BY <1>1, HasInOne
<1>3. Append(q, m) = q \o v BY <1>1, AppendIsConcat
<1>4. \A t : HasType(q \o v, t) <=> HasType(q, t) \/ HasType(v, t) BY HasInConcat
<1> QED BY <1>2, <1>3, <1>4

(* What is sent is put at the end of the queue, if there is a connection. *)
LEMMA SendOne ==
  ASSUME TypeOK, NEW c \in Clients, NEW m \in Requests
  PROVE  /\ Send(c, <<m>>) =>
              up'[c] = IF connected[c] THEN Append(up[c], m) ELSE up[c]
         /\ Send(c, <<>>) => up'[c] = up[c]
<1>1. up[c] \in Seq(Requests) /\ c \in DOMAIN up BY DEF TypeOK
<1>2. up[c] \o <<m>> = Append(up[c], m) BY <1>1, AppendIsConcat
<1>3. up[c] \o <<>> = up[c] BY <1>1, ConcatEmptySeq
<1>4. ASSUME Send(c, <<m>>)
      PROVE  up'[c] = IF connected[c] THEN Append(up[c], m) ELSE up[c]
  <2>1. up'[c] = IF connected[c] THEN up[c] \o <<m>> ELSE up[c] BY <1>1, <1>4 DEF Send
  <2> QED BY <1>2, <2>1
<1>5. ASSUME Send(c, <<>>) PROVE up'[c] = up[c]
  <2>1. up'[c] = IF connected[c] THEN up[c] \o <<>> ELSE up[c] BY <1>1, <1>5 DEF Send
  <2> QED BY <1>3, <2>1
<1> QED BY <1>4, <1>5

(* A first registration is heard of by the server, or there is nothing on  *)
(* the way; *)
LEMMA ObserverSends ==
  ASSUME TypeOK, NEW c \in Clients, Sound(c), AddObserver(c)
  PROVE  \/ regs[c] # {} /\ up'[c] = up[c]
         \/ ~connected[c] /\ up'[c] = up[c] /\ down[c] = <<>>
         \/ /\ HasType(up'[c], "listen")
            /\ up'[c] = Append(up[c], [type |-> "listen"])
<1> DEFINE l == [type |-> "listen"]
<1>1. Send(c, IF regs[c] = {} THEN <<l>> ELSE <<>>) BY DEF AddObserver
<1>2. l \in Requests /\ l.type = "listen" BY DEF Requests
<1>3. up[c] \in Seq(Requests) BY QueueTypes
<1> HIDE DEF l
<1>4. CASE regs[c] # {} BY <1>1, <1>2, <1>4, SendOne
<1>5. CASE regs[c] = {} /\ ~connected[c]
  <2>1. down[c] = <<>> BY <1>5 DEF Sound, Wire
  <2> QED BY <1>1, <1>2, <1>5, <2>1, SendOne
<1>6. CASE regs[c] = {} /\ connected[c]
  <2>1. up'[c] = Append(up[c], l) BY <1>1, <1>2, <1>6, SendOne
  <2>2. HasType(up'[c], "listen") BY <1>2, <1>3, <2>1, HasTypeAppend
  <2> QED BY <2>1, <2>2 DEF l
<1> QED BY <1>4, <1>5, <1>6, QueueTypes

(* a last one takes the view along. *)
LEMMA RemoverSends ==
  ASSUME TypeOK, NEW c \in Clients, RemoveObserver(c)
  PROVE  \/ /\ regs'[c] = {} /\ (cache'[c] = cache[c] \/ cache'[c] = Nothing)
            /\ up'[c] = up[c] \/ up'[c] = Append(up[c], [type |-> "unlisten"])
         \/ regs[c] # {} /\ cache'[c] = cache[c] /\ up'[c] = up[c]
<1> DEFINE left == regs[c] \ {Head(repoQ[c]).reg}
           isLast == left = {} /\ regs[c] # {}
           u == [type |-> "unlisten"]
<1>1. /\ regs'[c] = left
      /\ cache'[c] = (IF isLast THEN Nothing ELSE cache[c])
      /\ Send(c, IF isLast THEN <<u>> ELSE <<>>)
  BY DEF RemoveObserver, TypeOK
<1>2. u \in Requests BY DEF Requests
<1> HIDE DEF u
<1>3. CASE isLast
  <2>1. regs'[c] = {} /\ cache'[c] = Nothing /\ Send(c, <<u>>) BY <1>1, <1>3
  <2> QED BY <1>2, <2>1, SendOne DEF u
<1>4. CASE ~isLast
  <2>1. cache'[c] = cache[c] /\ Send(c, <<>>) BY <1>1, <1>4
  <2>2. regs'[c] = {} \/ regs[c] # {} BY <1>1
  <2> QED BY <1>2, <2>1, <2>2, SendOne
<1> QED BY <1>3, <1>4

(* A registration asks for no removal, and puts an answer on its way; *)
LEMMA AddObserverFeeds ==
  ASSUME TypeInv, NEW c \in Clients, Sound(c), AddObserver(c)
  PROVE  /\ Deaf(c) => Deaf(c)'
         /\ \A p \in Posts : Feed(c, p) => Feed(c, p)'
<1>0. TypeOK BY DEF TypeInv
<1> DEFINE reg == Head(repoQ[c]).reg
           l == [type |-> "listen"]
<1>1. /\ UNCHANGED <<server, listening, connected, down, cache, writes, held>>
      /\ repoQ[c] # <<>> /\ repoQ'[c] = Tail(repoQ[c])
      /\ \/ mainQ'[c] = mainQ[c]
         \/ mainQ'[c] = mainQ[c] \o ValueEvents(c, {reg}, Picture(c))
  BY <1>0 DEF AddObserver, Block, TypeOK
<1>2. reg \in Regs
  <2>1. Head(repoQ[c]) \in Blocks /\ Head(repoQ[c]).type = "observe"
    BY <1>0, <1>1, HeadsOfQueues DEF AddObserver, Block
  <2> QED BY <2>1 DEF Blocks, LocalWrites, WriteOps
<1>3. \/ regs[c] # {} /\ up'[c] = up[c]
      \/ ~connected[c] /\ up'[c] = up[c] /\ down[c] = <<>>
      \/ HasType(up'[c], "listen") /\ up'[c] = Append(up[c], l)
  BY <1>0, ObserverSends
<1> HIDE DEF reg
<1>4. Deaf(c) => Deaf(c)' BY <1>1, <1>3 DEF Deaf
<1>5. ASSUME NEW p \in Posts, Feed(c, p) PROVE Feed(c, p)'
  <2>1. Kept(c, p)'
    <3>1. up'[c] \in Seq(KeptRequests(p))
      <4>1. l \in KeptRequests(p)
        <5>1. l \in Requests /\ l.type # Removal(p).type
          BY DEF Requests, Removal, Write
        <5> QED BY <5>1 DEF KeptRequests
      <4>2. up[c] \in Seq(KeptRequests(p)) BY <1>5 DEF Feed, Kept
      <4> HIDE DEF l
      <4>3. Append(up[c], l) \in Seq(KeptRequests(p)) BY <4>1, <4>2, AppendProperties
      <4> QED BY <1>3, <4>2, <4>3
    <3>2. repoQ'[c] \in Seq(KeptBlocks(p))
      BY <1>1, <1>5, HeadTailProperties DEF Feed, Kept
    <3>3. mainQ'[c] \in Seq(KeptCallbacks(p))
      <4>1. ValueEvents(c, {reg}, Picture(c)) \in Seq(KeptCallbacks(p))
        BY <1>2, KeptValueEvents, FS_Singleton
      <4>2. mainQ[c] \in Seq(KeptCallbacks(p)) BY <1>5 DEF Feed, Kept
      <4> QED BY <1>1, <4>1, <4>2, ConcatProperties
    <3> QED BY <1>1, <1>5, <3>1, <3>2, <3>3 DEF Feed, Kept
  <2>2. Known(c, p)' <=> Known(c, p) BY <1>1 DEF Known
  <2>3. Ahead(c, p)' /\ Lasting(c, p)'
    BY <1>1, <1>5, <2>2 DEF Feed, Ahead, Lasting
  <2>4. Shown(c, p)' BY <1>1, <1>3, <1>5, InNone DEF Feed, Shown
  <2> QED BY <2>1, <2>3, <2>4 DEF Feed
<1> QED BY <1>4, <1>5

(* a registration taken back forgets only with the view; *)
LEMMA RemoveObserverFeeds ==
  ASSUME TypeInv, NEW c \in Clients, RemoveObserver(c)
  PROVE  /\ Deaf(c) => Deaf(c)'
         /\ \A p \in Posts : Feed(c, p) => Feed(c, p)'
<1>0. TypeOK BY DEF TypeInv
<1> DEFINE u == [type |-> "unlisten"]
<1>1. /\ UNCHANGED <<server, listening, connected, down, writes, held, mainQ>>
      /\ repoQ[c] # <<>> /\ repoQ'[c] = Tail(repoQ[c])
  BY <1>0 DEF RemoveObserver, Block, TypeOK
<1>2. \/ /\ regs'[c] = {} /\ (cache'[c] = cache[c] \/ cache'[c] = Nothing)
         /\ up'[c] = up[c] \/ up'[c] = Append(up[c], u)
      \/ regs[c] # {} /\ cache'[c] = cache[c] /\ up'[c] = up[c]
  BY <1>0, RemoverSends
<1>3. Deaf(c) => Deaf(c)' BY <1>1, <1>2 DEF Deaf
<1>4. ASSUME NEW p \in Posts, Feed(c, p) PROVE Feed(c, p)'
  <2>1. Kept(c, p)'
    <3>1. up'[c] \in Seq(KeptRequests(p))
      <4>1. u \in KeptRequests(p)
        <5>1. u \in Requests /\ u.type # Removal(p).type
          BY DEF Requests, Removal, Write
        <5> QED BY <5>1 DEF KeptRequests
      <4>2. up[c] \in Seq(KeptRequests(p)) BY <1>4 DEF Feed, Kept
      <4> HIDE DEF u
      <4>3. Append(up[c], u) \in Seq(KeptRequests(p)) BY <4>1, <4>2, AppendProperties
      <4> QED BY <1>2, <4>2, <4>3
    <3>2. repoQ'[c] \in Seq(KeptBlocks(p))
      BY <1>1, <1>4, HeadTailProperties DEF Feed, Kept
    <3> QED BY <1>1, <1>4, <3>1, <3>2 DEF Feed, Kept
  <2>2. Known(c, p)' => Known(c, p)
    <3>1. ~IsPost(Nothing[p]) BY DEF Nothing, IsPost
    <3> QED BY <1>1, <1>2, <3>1 DEF Known
  <2>3. Ahead(c, p)' /\ Lasting(c, p)'
    BY <1>1, <1>4, <2>2 DEF Feed, Ahead, Lasting
  <2>4. Shown(c, p)' BY <1>1, <1>2, <1>4 DEF Feed, Shown
  <2> QED BY <2>1, <2>3, <2>4 DEF Feed
<1> QED BY <1>3, <1>4

(* and a local write that keeps p tells of no removal of it. *)
LEMMA LocalWriteFeeds ==
  ASSUME TypeInv, NEW c \in Clients, LocalWrite(c)
  PROVE  /\ Deaf(c) => Deaf(c)'
         /\ \A p \in Posts : Feed(c, p) => Feed(c, p)'
<1>0. TypeOK BY DEF TypeInv
<1> DEFINE w == Head(repoQ[c])
           ws == Append(writes[c], w)
           told == ChildEvents(c, regs[c], Picture(c), Overlay(cache[c], complete[c], ws))
<1>1. /\ UNCHANGED <<server, listening, connected, down, regs, cache, held>>
      /\ writes'[c] = ws /\ mainQ'[c] = mainQ[c] \o told
      /\ repoQ[c] # <<>> /\ repoQ'[c] = Tail(repoQ[c]) /\ w.type \in WriteOps
      /\ Send(c, <<w>>)
  BY <1>0 DEF LocalWrite, Block, TypeOK
<1>2. w \in LocalWrites /\ w \in Requests
  <2>1. w \in Blocks BY <1>0, <1>1, HeadsOfQueues
  <2> QED BY <1>1, <2>1 DEF Blocks, WriteOps, Requests
<1>3. up[c] \in Seq(Requests) /\ session[c] \in Sessions /\ cache[c] \in Boards
  BY <1>0, QueueTypes DEF TypeOK
<1> HIDE DEF w, told
<1>4. up'[c] = IF connected[c] THEN Append(up[c], w) ELSE up[c]
  BY <1>0, <1>1, <1>2, SendOne
<1>5. HasType(up'[c], "listen") <=> HasType(up[c], "listen")
  <2>1. w.type # "listen" BY <1>1 DEF WriteOps
  <2> QED BY <1>2, <1>3, <1>4, <2>1, HasTypeAppend
<1>6. Deaf(c) => Deaf(c)' BY <1>1, <1>5 DEF Deaf
<1>7. ASSUME NEW p \in Posts, Feed(c, p) PROVE Feed(c, p)'
  <2>1. /\ writes[c] \in Seq(KeptWrites(p)) /\ up[c] \in Seq(KeptRequests(p))
        /\ repoQ[c] \in Seq(KeptBlocks(p)) /\ mainQ[c] \in Seq(KeptCallbacks(p))
    BY <1>7 DEF Feed, Kept
  <2>2. w \in KeptBlocks(p) /\ repoQ'[c] \in Seq(KeptBlocks(p))
    BY <1>1, <2>1, HeadTailProperties DEF w
  <2>3. w \in KeptWrites(p) /\ w \in KeptRequests(p)
    BY <1>2, <2>2 DEF KeptBlocks, KeptWrites, KeptRequests
  <2>4. ws \in Seq(KeptWrites(p)) /\ up'[c] \in Seq(KeptRequests(p))
    BY <1>4, <2>1, <2>3, AppendProperties
  <2>5. told \in Seq(KeptCallbacks(p))
    <3>1. Has(ws, Write("set", p)) <=> Has(writes[c], Write("set", p)) \/ w = Write("set", p)
      BY <2>1, <2>3, HasInAppend
    <3>2. /\ IsPost(Picture(c)[p]) <=> Has(writes[c], Write("set", p)) \/ IsPost(cache[c][p])
          /\ IsPost(Overlay(cache[c], complete[c], ws)[p]) <=>
               Has(ws, Write("set", p)) \/ IsPost(cache[c][p])
      BY <1>3, <2>1, <2>4, KeptPicture DEF Picture
    <3> HIDE DEF ws
    <3> QED BY <1>3, <3>1, <3>2, KeptChildEvents DEF told
  <2>6. mainQ'[c] \in Seq(KeptCallbacks(p)) BY <1>1, <2>1, <2>5, ConcatProperties
  <2>7. Kept(c, p)' BY <1>1, <1>7, <2>2, <2>4, <2>6 DEF Feed, Kept
  <2>8. Known(c, p)' <=> Known(c, p) BY <1>1 DEF Known
  <2>9. Ahead(c, p)' /\ Lasting(c, p)'
    BY <1>1, <1>7, <2>8 DEF Feed, Ahead, Lasting
  <2>10. Shown(c, p)' BY <1>1, <1>5, <1>7 DEF Feed, Shown
  <2> QED BY <2>7, <2>9, <2>10 DEF Feed
<1> QED BY <1>6, <1>7

-----------------------------------------------------------------------------
(* Messages from the socket *)

(* The message heard, and those behind it. *)
LEMMA Hearing ==
  ASSUME NEW c \in Clients, NEW T, down[c] \in Seq(T), NEW m, NEW d, Heard(c, m, d)
  PROVE  /\ m \in T /\ d \in Seq(T)
         /\ \A S : In(down[c], S) <=> m \in S \/ In(d, S)
         /\ \A A, B : NeverAfter(down[c], A, B) =>
              NeverAfter(d, A, B) /\ (m \in A => ~In(d, B))
<1>1. down[c] # <<>> /\ m = Head(down[c]) /\ d = Tail(down[c]) BY DEF Heard
<1>2. m \in T /\ d \in Seq(T) BY <1>1, HeadTailProperties
<1>3. \A S : In(down[c], S) <=> m \in S \/ In(d, S) BY <1>1, InHead
<1>4. \A A, B : NeverAfter(down[c], A, B) =>
        NeverAfter(d, A, B) /\ (m \in A => ~In(d, B))
  BY <1>1, NeverAfterHead
<1> QED BY <1>2, <1>3, <1>4

(* What is an answer to a listen. *)
LEMMA InAnswers ==
  ASSUME NEW d \in Seq(Responses)
  PROVE  In(d, Answers) <=> HasType(d, "snapshot") \/ HasType(d, "refusal")
<1>1. \A i \in 1 .. Len(d) : d[i] \in Responses OBVIOUS
<1> QED BY <1>1 DEF In, Answers, HasType

(* A view that stays was there before, and expects another answer after a  *)
(* message that ends the pushes.                                           *)
HeardOn(c, m, d) ==
  regs'[c] # {} =>
    /\ regs[c] # {}
    /\ m \in Ends => HasType(up[c], "listen") \/ In(d, Answers)

(* A client that has learnt of p only what the message tells stays behind  *)
(* the server and before any snapshot without p;                           *)
LEMMA HeardAhead ==
  ASSUME TypeOK, NEW c \in Clients, NEW p \in Posts, Feed(c, p),
         NEW m, NEW d, Heard(c, m, d),
         Known(c, p)' => Known(c, p) \/ m \in Telling(p)
  PROVE  Ahead(c, p)' /\ Lasting(c, p)'
<1>1. down[c] \in Seq(Responses) BY QueueTypes
<1>2. /\ \A S : In(down[c], S) <=> m \in S \/ In(d, S)
      /\ \A A, B : NeverAfter(down[c], A, B) =>
           NeverAfter(d, A, B) /\ (m \in A => ~In(d, B))
  BY <1>1, Hearing
<1>3. down'[c] = d /\ server' = server BY DEF Heard
<1>4. Ahead(c, p)' BY <1>2, <1>3 DEF Feed, Ahead
<1>5. Lasting(c, p)' BY <1>2, <1>3 DEF Feed, Lasting
<1> QED BY <1>4, <1>5

(* a view that stays keeps what the message brings, and goes or hears      *)
(* another answer after one that ends the pushes;                          *)
LEMMA HeardShown ==
  ASSUME TypeOK, NEW c \in Clients, NEW p \in Posts, Feed(c, p),
         NEW m, NEW d, Heard(c, m, d), HeardOn(c, m, d),
         regs'[c] # {} =>
           (IsPost(cache[c][p]) \/ m \in Bringing(p) => IsPost(cache'[c][p]))
  PROVE  Shown(c, p)'
<1>1. /\ down[c] # <<>> /\ m = Head(down[c]) /\ d = Tail(down[c])
      /\ down'[c] = d /\ up'[c] = up[c]
  BY DEF Heard
<1> SUFFICES ASSUME regs'[c] # {}, ~HasType(up[c], "listen"), ~IsPost(cache'[c][p])
             PROVE  Met(d, Created(p), Bringing(p), Ends, Answers)
  BY <1>1 DEF Shown
<1>2. Met(down[c], Created(p), Bringing(p), Ends, Answers)
  BY DEF Feed, Shown, HeardOn
<1>3. m \notin Bringing(p) /\ (m \in Ends => In(d, Answers)) BY DEF HeardOn
<1>4. down[c] \in Seq(Responses) BY QueueTypes
<1> QED BY <1>1, <1>2, <1>3, <1>4, MetHead

(* the same of a view that is about to learn that nothing is pushed to it. *)
LEMMA HeardDeaf ==
  ASSUME TypeOK, NEW c \in Clients, Deaf(c), NEW m, NEW d, Heard(c, m, d),
         HeardOn(c, m, d)
  PROVE  Deaf(c)'
<1>1. /\ down[c] # <<>> /\ m = Head(down[c]) /\ d = Tail(down[c])
      /\ down'[c] = d /\ up'[c] = up[c]
      /\ listening'[c] = listening[c] /\ connected'[c] = connected[c]
  BY DEF Heard
<1> SUFFICES ASSUME regs'[c] # {}, connected[c], ~HasType(up[c], "listen"), ~listening[c]
             PROVE  LastIs(d, Ends, Answers)
  BY <1>1 DEF Deaf
<1>2. LastIs(down[c], Ends, Answers) BY DEF Deaf, HeardOn
<1>3. m \in Ends => In(d, Answers) BY DEF HeardOn
<1>4. down[c] \in Seq(Responses) BY QueueTypes
<1> QED BY <1>1, <1>2, <1>3, <1>4, LastIsHead

(* A push brings what it tells of to a view, and uncovers nothing; *)
LEMMA ReceivePushFeeds ==
  ASSUME TypeInv, NEW c \in Clients, ReceivePush(c)
  PROVE  /\ Deaf(c) => Deaf(c)'
         /\ \A p \in Posts : Feed(c, p) => Feed(c, p)'
<1> DEFINE m == Head(down[c])
           d == Tail(down[c])
           w == m.write
           ca == Patch(c, w)
           told == ChildEvents(c, regs[c], Picture(c), Overlay(ca, complete[c], writes[c]))
<1>0. TypeOK BY DEF TypeInv
<1>1. Heard(c, m, d) /\ m.type = "push"
  BY <1>0 DEF Heard, ReceivePush, Message, TypeOK, envVars
<1>2. /\ UNCHANGED <<up, repoQ, regs, writes, held>>
      /\ cache'[c] = ca /\ mainQ'[c] = mainQ[c] \o told
  BY <1>0 DEF ReceivePush, TypeOK
<1>3. m \in Responses /\ w \in LocalWrites
  <2>1. m \in Responses BY <1>0, <1>1, HeadsOfQueues DEF Heard
  <2> QED BY <1>1, <2>1 DEF Responses, Acks
<1>4. cache[c] \in Boards /\ ca \in Boards /\ session[c] \in Sessions
  BY <1>0, <1>3, PatchType DEF TypeOK
<1>5. ca = IF regs[c] # {} /\ (complete[c] \/ cache[c][w.post] # "none" \/ w.type # "update")
           THEN [cache[c] EXCEPT ![w.post] = Apply(w.type, @)] ELSE cache[c]
  BY DEF Patch
<1> HIDE DEF m, d, w, ca, told
<1>6. m \notin Ends BY <1>1 DEF Ends
<1>7. HeardOn(c, m, d) BY <1>2, <1>6 DEF HeardOn
<1>8. Deaf(c) => Deaf(c)' BY <1>0, <1>1, <1>7, HeardDeaf
<1>9. ASSUME NEW p \in Posts, Feed(c, p) PROVE Feed(c, p)'
  <2>1. /\ writes[c] \in Seq(KeptWrites(p)) /\ down[c] \in Seq(KeptResponses(p))
        /\ mainQ[c] \in Seq(KeptCallbacks(p))
    BY <1>9 DEF Feed, Kept
  <2>2. m \in KeptResponses(p) /\ d \in Seq(KeptResponses(p)) BY <1>1, <2>1, Hearing
  <2>3. w # Removal(p) BY <1>1, <2>2 DEF KeptResponses, w
  <2>4. w.post = p => w = Write("set", p) \/ w.type = "update"
    BY <1>3, <2>3, KeptTypes
  <2>5. /\ IsPost(cache[c][p]) => IsPost(ca[p])
        /\ w = Write("set", p) /\ regs[c] # {} => IsPost(ca[p])
        /\ IsPost(ca[p]) => IsPost(cache[c][p]) \/ w = Write("set", p)
    <3>1. cache[c][p] \in Records BY <1>4 DEF Boards
    <3>2. CASE w.post # p
      <4>1. ca[p] = cache[c][p] BY <1>4, <1>5, <3>2 DEF Boards
      <4>2. w # Write("set", p) BY <3>2 DEF Write
      <4> QED BY <4>1, <4>2
    <3>3. CASE w = Write("set", p)
      <4>1. w.post = p /\ w.type = "set" BY <3>3 DEF Write
      <4>2. regs[c] # {} => ca[p] = "created" BY <1>4, <1>5, <4>1 DEF Boards, Apply
      <4>3. regs[c] = {} => ca[p] = cache[c][p] BY <1>5
      <4> QED BY <3>3, <4>2, <4>3 DEF IsPost
    <3>4. CASE w.post = p /\ w.type = "update" /\ w # Write("set", p)
      <4>1. ca[p] = cache[c][p] \/ ca[p] = Apply("update", cache[c][p])
        BY <1>4, <1>5, <3>4 DEF Boards
      <4> QED BY <3>1, <3>4, <4>1 DEF Apply, IsPost, Records
    <3> QED BY <2>4, <3>2, <3>3, <3>4
  <2>6. told \in Seq(KeptCallbacks(p))
    <3>1. /\ IsPost(Picture(c)[p]) <=> Has(writes[c], Write("set", p)) \/ IsPost(cache[c][p])
          /\ IsPost(Overlay(ca, complete[c], writes[c])[p]) <=>
               Has(writes[c], Write("set", p)) \/ IsPost(ca[p])
      BY <1>4, <2>1, KeptPicture DEF Picture
    <3> QED BY <1>4, <2>5, <3>1, KeptChildEvents DEF told
  <2>7. Kept(c, p)'
    <3>1. mainQ'[c] \in Seq(KeptCallbacks(p)) BY <1>2, <2>1, <2>6, ConcatProperties
    <3>2. down'[c] \in Seq(KeptResponses(p)) BY <1>1, <2>2 DEF Heard
    <3> QED BY <1>2, <1>9, <3>1, <3>2 DEF Feed, Kept
  <2>8. m \in Bringing(p) <=> w = Write("set", p) BY <1>1, <1>3 DEF Bringing, w
  <2>9. Known(c, p)' => Known(c, p) \/ m \in Telling(p)
    BY <1>2, <2>5, <2>8 DEF Known, Telling
  <2>10. Ahead(c, p)' /\ Lasting(c, p)' BY <1>0, <1>1, <1>9, <2>9, HeardAhead
  <2>11. Shown(c, p)'
    <3>1. regs'[c] # {} =>
            (IsPost(cache[c][p]) \/ m \in Bringing(p) => IsPost(cache'[c][p]))
      BY <1>2, <2>5, <2>8
    <3> QED BY <1>0, <1>1, <1>7, <1>9, <3>1, HeardShown
  <2> QED BY <2>7, <2>10, <2>11 DEF Feed
<1> QED BY <1>8, <1>9

(* a snapshot has each post the client knows of; *)
LEMMA ReceiveSnapshotFeeds ==
  ASSUME TypeInv, EveryWriteTracked, NEW c \in Clients, ReceiveSnapshot(c)
  PROVE  /\ Deaf(c) => Deaf(c)'
         /\ \A p \in Posts : Feed(c, p) => Feed(c, p)'
<1> DEFINE m == Head(down[c])
           d == Tail(down[c])
           viewed == regs[c] # {}
           ca == IF viewed THEN m.board ELSE cache[c]
           whole == viewed \/ complete[c]
           shown == Overlay(ca, whole, writes[c])
           told == ChildEvents(c, regs[c], Picture(c), shown)
           values == IF complete[c] THEN <<>> ELSE ValueEvents(c, ValueRegs(c), shown)
           wait == ListenPending(up[c], d)
           left == AckPuts(c, Len(held[c]))
           freed == AckPutsEvents(c, regs[c], ca, whole)
<1>0. TypeOK BY DEF TypeInv
<1>1. Heard(c, m, d) /\ m.type = "snapshot"
  BY <1>0 DEF Heard, ReceiveSnapshot, Message, TypeOK, envVars
<1>2. /\ UNCHANGED <<up, repoQ, regs>> /\ cache'[c] = ca
      /\ writes'[c] = IF wait THEN writes[c] ELSE left
      /\ held'[c] = IF wait THEN held[c] ELSE <<>>
      /\ mainQ'[c] = mainQ[c] \o told \o values \o (IF wait THEN <<>> ELSE freed)
  BY <1>0 DEF ReceiveSnapshot, TypeOK
<1>3. m \in Responses /\ m.board \in Boards
  <2>1. m \in Responses BY <1>0, <1>1, HeadsOfQueues DEF Heard
  <2> QED BY <1>1, <2>1 DEF Responses, Acks
<1>4. cache[c] \in Boards /\ ca \in Boards /\ session[c] \in Sessions
  BY <1>0, <1>3 DEF TypeOK
<1>5. ValueRegs(c) \in SUBSET Regs /\ IsFiniteSet(ValueRegs(c))
  <2>1. regs[c] \in SUBSET Regs /\ IsFiniteSet(regs[c]) BY <1>0 DEF TypeInv, TypeOK
  <2>2. ValueRegs(c) \subseteq regs[c] BY DEF ValueRegs
  <2> QED BY <2>1, <2>2, FS_Subset
<1>6. HeardOn(c, m, d) BY <1>1, <1>2 DEF HeardOn, Ends
<1> HIDE DEF m, d, told, freed, left, values, wait, whole
<1>7. Deaf(c) => Deaf(c)' BY <1>0, <1>1, <1>6, HeardDeaf
<1>8. ASSUME NEW p \in Posts, Feed(c, p) PROVE Feed(c, p)'
  <2>1. /\ writes[c] \in Seq(KeptWrites(p)) /\ down[c] \in Seq(KeptResponses(p))
        /\ mainQ[c] \in Seq(KeptCallbacks(p)) /\ Kept(c, p)
    BY <1>8 DEF Feed, Kept
  <2>2. d \in Seq(KeptResponses(p)) BY <1>1, <2>1, Hearing
  <2>3. regs[c] # {} /\ Known(c, p) => IsPost(ca[p])
    <3> HAVE regs[c] # {} /\ Known(c, p)
    <3>1. ~In(down[c], Lacking(p)) BY <1>8 DEF Feed, Lasting
    <3>2. m \notin Lacking(p)
      <4>1. down[c] \in Seq(Responses) BY <1>0, QueueTypes
      <4> QED BY <1>1, <3>1, <4>1, Hearing
    <3> QED BY <1>1, <1>3, <3>2 DEF Lacking
  <2>4. IsPost(ca[p]) => Known(c, p) \/ m \in Bringing(p)
    BY <1>1, <1>3 DEF Known, Bringing
  <2>5. regs[c] # {} /\ m \in Bringing(p) => IsPost(ca[p])
    BY <1>1 DEF Bringing
  <2> HIDE DEF ca
  <2>6. told \in Seq(KeptCallbacks(p))
    <3>1. /\ IsPost(Picture(c)[p]) <=> Has(writes[c], Write("set", p)) \/ IsPost(cache[c][p])
          /\ IsPost(shown[p]) <=> Has(writes[c], Write("set", p)) \/ IsPost(ca[p])
      BY <1>4, <2>1, KeptPicture DEF Picture
    <3>2. regs[c] = {} \/ (IsPost(Picture(c)[p]) => IsPost(shown[p]))
      BY <2>3, <3>1 DEF Known
    <3> HIDE DEF shown
    <3> QED BY <1>4, <3>2, KeptChildEvents DEF told
  <2>7. values \in Seq(KeptCallbacks(p)) BY <1>5, KeptValueEvents DEF values
  <2>8. left \in Seq(KeptWrites(p)) /\ freed \in Seq(KeptCallbacks(p))
    <3>1. regs[c] = {} \/ (In(held[c], Created(p)) => IsPost(ca[p]))
      BY <2>3 DEF Known
    <3> QED BY <1>0, <1>4, <2>1, <3>1, KeptRelease DEF left, freed
  <2>9. Kept(c, p)'
    <3>1. mainQ'[c] \in Seq(KeptCallbacks(p))
      <4>1. PICK q \in Seq(KeptCallbacks(p)) : q = IF wait THEN <<>> ELSE freed
        <5>1. <<>> \in Seq(KeptCallbacks(p)) OBVIOUS
        <5> QED BY <2>8, <5>1
      <4>2. mainQ'[c] = mainQ[c] \o told \o values \o q BY <1>2, <4>1
      <4>3. mainQ[c] \o told \in Seq(KeptCallbacks(p)) BY <2>1, <2>6, ConcatProperties
      <4>4. mainQ[c] \o told \o values \in Seq(KeptCallbacks(p))
        BY <2>7, <4>3, ConcatProperties
      <4> QED BY <4>1, <4>2, <4>4, ConcatProperties
    <3>2. down'[c] \in Seq(KeptResponses(p)) BY <1>1, <2>2 DEF Heard
    <3>3. writes'[c] \in Seq(KeptWrites(p)) BY <1>2, <2>1, <2>8
    <3> QED BY <1>2, <2>1, <3>1, <3>2, <3>3 DEF Kept
  <2>10. Known(c, p)' => Known(c, p) \/ m \in Telling(p)
    <3>1. In(held'[c], Created(p)) => In(held[c], Created(p)) BY <1>2, InNone
    <3> QED BY <1>2, <2>4, <3>1 DEF Known, Telling
  <2>11. Ahead(c, p)' /\ Lasting(c, p)' BY <1>0, <1>1, <1>8, <2>10, HeardAhead
  <2>12. Shown(c, p)'
    <3>1. regs'[c] # {} =>
            (IsPost(cache[c][p]) \/ m \in Bringing(p) => IsPost(cache'[c][p]))
      BY <1>2, <2>3, <2>5 DEF Known
    <3> QED BY <1>0, <1>1, <1>6, <1>8, <3>1, HeardShown
  <2> QED BY <2>9, <2>11, <2>12 DEF Feed
<1> QED BY <1>7, <1>8

(* an answer is held back, or uncovers no post that the view has not yet;  *)
LEMMA ReceiveAckFeeds ==
  ASSUME TypeInv, EveryWriteTracked, NEW c \in Clients, Sound(c), ReceiveAck(c)
  PROVE  /\ Deaf(c) => Deaf(c)'
         /\ \A p \in Posts : Feed(c, p) => Feed(c, p)'
<1> DEFINE m == Head(down[c])
           d == Tail(down[c])
           wait == ListenPending(up[c], down[c])
           left == Left(c, m)
           told == SettleEvents(c, regs[c], cache[c], complete[c], writes[c], left, m)
<1>0. TypeOK BY DEF TypeInv
<1>1. Heard(c, m, d) /\ m.type = "ack"
  BY <1>0 DEF Heard, ReceiveAck, Message, TypeOK, envVars
<1>2. /\ UNCHANGED <<up, repoQ, regs, cache>>
      /\ \/ /\ wait /\ held'[c] = Append(held[c], m)
            /\ UNCHANGED <<writes, mainQ>>
         \/ /\ ~wait /\ held'[c] = held[c]
            /\ writes'[c] = left /\ mainQ'[c] = mainQ[c] \o told
  BY <1>0 DEF ReceiveAck, TypeOK
<1>3. connected[c] /\ Message(c, "ack")
  BY <1>1, HeardConnected DEF ReceiveAck
<1>4. /\ m \in Acks /\ Answered(down[c]) = <<m.write>> \o Answered(d)
      /\ left \in Seq(LocalWrites)
      /\ left = Answered(held[c]) \o Answered(d) \o Requested(up[c])
  BY <1>0, <1>3, LeftRest
<1>5. m \in Responses /\ cache[c] \in Boards /\ session[c] \in Sessions
  BY <1>0, <1>4, AcksAreResponses DEF TypeOK
<1>6. HeardOn(c, m, d) BY <1>1, <1>2 DEF HeardOn, Ends
<1>7. Deaf(c) => Deaf(c)' BY <1>0, <1>1, <1>6, HeardDeaf
<1>8. wait <=> HasType(up[c], "listen") \/ In(d, Answers)
  <2>1. d \in Seq(Responses) BY <1>0, <1>1, HeadsOfQueues DEF Heard
  <2> HIDE DEF m, d
  <2> QED BY <1>0, <1>1, <2>1, HeardPending, InAnswers
<1>9. \A e : Has(writes[c], e) => Has(left, e) \/ e = m.write
  <2>1. /\ Answered(held[c]) \in Seq(LocalWrites) /\ Requested(up[c]) \in Seq(LocalWrites)
        /\ Answered(down[c]) \in Seq(LocalWrites) /\ d \in Seq(Responses)
    BY <1>0, <1>1, QueueTypes, HeadsOfQueues DEF Heard
  <2>2. Joins(writes[c], Answered(held[c]), Answered(down[c]), Requested(up[c]))
    BY <1>3 DEF Sound, Tracked
  <2>3. Answered(d) \in Seq(LocalWrites) BY <2>1, AnsweredType
  <2>4. Joins(left, Answered(held[c]), Answered(d), Requested(up[c])) BY <1>4 DEF Joins
  <2>5. m.write \in LocalWrites BY <1>4 DEF Acks
  <2> HIDE DEF left, m, d
  <2>6. \A e : Has(Answered(down[c]), e) <=> m.write = e \/ Has(Answered(d), e)
    <3>1. PICK v \in Seq(LocalWrites) : v = <<m.write>>
      <4>1. \A w \in LocalWrites : <<w>> \in Seq(LocalWrites) OBVIOUS
      <4> QED BY <2>5, <4>1
    <3>2. \A e : Has(v, e) <=> m.write = e BY <3>1, HasInOne
    <3>3. Answered(down[c]) = v \o Answered(d) BY <1>4, <3>1
    <3>4. \A e : Has(v \o Answered(d), e) <=> Has(v, e) \/ Has(Answered(d), e)
      BY <2>3, HasInConcat
    <3> QED BY <3>2, <3>3, <3>4
  <2> QED BY <2>1, <2>2, <2>3, <2>4, <2>6, JoinsHas
<1> HIDE DEF m, d, wait, told
<1>10. ASSUME NEW p \in Posts, Feed(c, p) PROVE Feed(c, p)'
  <2>1. /\ writes[c] \in Seq(KeptWrites(p)) /\ down[c] \in Seq(KeptResponses(p))
        /\ mainQ[c] \in Seq(KeptCallbacks(p)) /\ Kept(c, p)
    BY <1>10 DEF Feed, Kept
  <2>2. d \in Seq(KeptResponses(p)) BY <1>1, <2>1, Hearing
  <2>3. m \in Created(p) <=> m.write = Write("set", p) BY <1>1, <1>5 DEF Created
  <2>4. left \in Seq(KeptWrites(p))
    <3>1. Len(held[c]) <= Len(writes[c]) /\ held[c] \in Seq(Acks)
      BY <1>0, HeldAreOldest DEF TypeOK
    <3>2. Len(held[c]) \in Nat /\ Len(writes[c]) \in Nat BY <2>1, <3>1
    <3>3. /\ SubSeq(writes[c], 1, Len(held[c])) \in Seq(KeptWrites(p))
          /\ Unanswered(c) \in Seq(KeptWrites(p))
      <4>1. \A i \in 1 .. Len(writes[c]) : writes[c][i] \in KeptWrites(p) BY <2>1
      <4>2. \A i \in 1 .. Len(held[c]) : writes[c][i] \in KeptWrites(p)
        BY <3>1, <3>2, <4>1
      <4>3. \A i \in Len(held[c]) + 1 .. Len(writes[c]) : writes[c][i] \in KeptWrites(p)
        BY <3>2, <4>1
      <4>4. Len(held[c]) + 1 \in 1 .. Len(writes[c]) + 1 BY <3>1, <3>2
      <4>5. SubSeq(writes[c], 1, Len(held[c])) \in Seq(KeptWrites(p))
        BY <2>1, <3>1, <3>2, <4>2, SubSeqProperties
      <4>6. SubSeq(writes[c], Len(held[c]) + 1, Len(writes[c])) \in Seq(KeptWrites(p))
        BY <2>1, <3>2, <4>3, <4>4, SubSeqProperties
      <4> QED BY <4>5, <4>6 DEF Unanswered
    <3>4. Settle(Unanswered(c), m) \in Seq(KeptWrites(p))
      BY <3>3, RemoveFirstType DEF Settle
    <3> QED BY <3>3, <3>4, ConcatProperties DEF Left
  <2> HIDE DEF left
  <2>5. ~wait => told \in Seq(KeptCallbacks(p))
    <3> HAVE ~wait
    <3>1. /\ IsPost(Overlay(cache[c], complete[c], writes[c])[p]) <=>
               Has(writes[c], Write("set", p)) \/ IsPost(cache[c][p])
          /\ IsPost(Overlay(cache[c], complete[c], left)[p]) <=>
               Has(left, Write("set", p)) \/ IsPost(cache[c][p])
      BY <1>5, <2>1, <2>4, KeptPicture
    <3>2. regs[c] # {} /\ ~IsPost(cache[c][p]) => m.write # Write("set", p)
      <4> SUFFICES ASSUME regs[c] # {}, ~IsPost(cache[c][p]), m \in Created(p)
                   PROVE  In(d, Answers)
        BY <1>8, <2>3
      <4>1. Met(down[c], Created(p), Bringing(p), Ends, Answers)
        BY <1>8, <1>10 DEF Feed, Shown
      <4>2. down[c] # <<>> /\ m = Head(down[c]) /\ d = Tail(down[c]) BY <1>1 DEF Heard
      <4> QED BY <2>1, <4>1, <4>2, MetHead
    <3>3. regs[c] = {} \/ (IsPost(Overlay(cache[c], complete[c], writes[c])[p]) =>
                             IsPost(Overlay(cache[c], complete[c], left)[p]))
      BY <1>9, <3>1, <3>2
    <3> QED BY <1>4, <1>5, <3>3, KeptSettleEvents DEF told
  <2>6. Kept(c, p)'
    <3>1. mainQ'[c] \in Seq(KeptCallbacks(p))
      BY <1>2, <2>1, <2>5, ConcatProperties
    <3>2. down'[c] \in Seq(KeptResponses(p)) BY <1>1, <2>2 DEF Heard
    <3>3. writes'[c] \in Seq(KeptWrites(p)) BY <1>2, <2>1, <2>4
    <3> QED BY <1>2, <2>1, <3>1, <3>2, <3>3 DEF Kept
  <2>7. Known(c, p)' => Known(c, p) \/ m \in Telling(p)
    <3>1. In(held'[c], Created(p)) => In(held[c], Created(p)) \/ m \in Created(p)
      <4>1. held[c] \in Seq(Acks) /\ m \in Acks BY <1>0, <1>4 DEF TypeOK
      <4>2. In(Append(held[c], m), Created(p)) <=>
              In(held[c], Created(p)) \/ m \in Created(p)
        BY <4>1, InAppend
      <4>3. held'[c] = held[c] \/ held'[c] = Append(held[c], m) BY <1>2
      <4> QED BY <4>2, <4>3
    <3> QED BY <1>2, <3>1 DEF Known, Telling
  <2>8. Ahead(c, p)' /\ Lasting(c, p)' BY <1>0, <1>1, <1>10, <2>7, HeardAhead
  <2>9. Shown(c, p)'
    <3>1. m \notin Bringing(p) BY <1>1 DEF Bringing
    <3>2. IsPost(cache[c][p]) => IsPost(cache'[c][p]) BY <1>2
    <3> QED BY <1>0, <1>1, <1>6, <1>10, <3>1, <3>2, HeardShown
  <2> QED BY <2>6, <2>8, <2>9 DEF Feed
<1> QED BY <1>7, <1>10

(* a refusal is passed over for another answer to come, or takes all the   *)
(* registrations along;                                                    *)
LEMMA ReceiveRefusalFeeds ==
  ASSUME TypeInv, EveryWriteTracked, NEW c \in Clients, ReceiveRefusal(c)
  PROVE  /\ Deaf(c) => Deaf(c)'
         /\ \A p \in Posts : Feed(c, p) => Feed(c, p)'
<1> DEFINE m == Head(down[c])
           d == Tail(down[c])
           wait == ListenPending(up[c], d)
           left == AckPuts(c, Len(held[c]))
           lost == Cancelled(c)
           freed == AckPutsEvents(c, {}, Nothing, FALSE)
<1>0. TypeOK BY DEF TypeInv
<1>1. Heard(c, m, d) /\ m.type = "refusal"
  BY <1>0 DEF Heard, ReceiveRefusal, Message, TypeOK, envVars
<1>2. /\ UNCHANGED <<up, repoQ>>
      /\ \/ wait /\ UNCHANGED <<regs, cache, writes, held, mainQ>>
         \/ /\ regs'[c] = {} /\ cache'[c] = Nothing /\ held'[c] = <<>>
            /\ writes'[c] = left /\ mainQ'[c] = mainQ[c] \o lost \o freed
  <2>1. UNCHANGED <<up, repoQ>> BY DEF ReceiveRefusal
  <2>2. CASE wait BY <2>1, <2>2 DEF ReceiveRefusal, sdkVars
  <2>3. CASE ~wait
    <3>1. /\ regs' = [regs EXCEPT ![c] = {}] /\ cache' = [cache EXCEPT ![c] = Nothing]
          /\ writes' = [writes EXCEPT ![c] = left] /\ held' = [held EXCEPT ![c] = <<>>]
          /\ mainQ' = [mainQ EXCEPT ![c] = @ \o lost \o freed]
      BY <2>3 DEF ReceiveRefusal, CancelView
    <3> HIDE DEF left, lost, freed
    <3> QED BY <1>0, <2>1, <3>1 DEF TypeOK
  <2> QED BY <2>2, <2>3
<1>3. wait => HasType(up[c], "listen") \/ In(d, Answers)
  <2>1. d \in Seq(Responses) BY <1>0, <1>1, HeadsOfQueues DEF Heard
  <2> HIDE DEF m, d
  <2> QED BY <1>0, <1>1, <2>1, HeardPending, InAnswers
<1> HIDE DEF m, d, wait, left, lost, freed
<1>4. HeardOn(c, m, d) BY <1>2, <1>3 DEF HeardOn
<1>5. Deaf(c) => Deaf(c)' BY <1>0, <1>1, <1>4, HeardDeaf
<1>6. ASSUME NEW p \in Posts, Feed(c, p) PROVE Feed(c, p)'
  <2>1. /\ writes[c] \in Seq(KeptWrites(p)) /\ down[c] \in Seq(KeptResponses(p))
        /\ mainQ[c] \in Seq(KeptCallbacks(p)) /\ Kept(c, p)
    BY <1>6 DEF Feed, Kept
  <2>2. d \in Seq(KeptResponses(p)) BY <1>1, <2>1, Hearing
  <2>3. left \in Seq(KeptWrites(p)) /\ freed \in Seq(KeptCallbacks(p))
    BY <1>0, <2>1, KeptRelease, NothingIsABoard DEF left, freed
  <2>4. lost \in Seq(KeptCallbacks(p))
    <3>1. regs[c] \in SUBSET Regs /\ IsFiniteSet(regs[c]) BY <1>0 DEF TypeInv, TypeOK
    <3> QED BY <3>1, KeptValueEvents DEF lost
  <2>5. Kept(c, p)'
    <3>1. mainQ'[c] \in Seq(KeptCallbacks(p))
      <4>1. mainQ[c] \o lost \in Seq(KeptCallbacks(p)) BY <2>1, <2>4, ConcatProperties
      <4>2. mainQ[c] \o lost \o freed \in Seq(KeptCallbacks(p))
        BY <2>3, <4>1, ConcatProperties
      <4> QED BY <1>2, <2>1, <4>2
    <3>2. down'[c] \in Seq(KeptResponses(p)) BY <1>1, <2>2 DEF Heard
    <3>3. writes'[c] \in Seq(KeptWrites(p)) BY <1>2, <2>1, <2>3
    <3> QED BY <1>2, <2>1, <3>1, <3>2, <3>3 DEF Kept
  <2>6. Known(c, p)' => Known(c, p)
    <3>1. ~IsPost(Nothing[p]) BY DEF Nothing, IsPost
    <3> QED BY <1>2, <3>1, InNone DEF Known
  <2>7. Ahead(c, p)' /\ Lasting(c, p)' BY <1>0, <1>1, <1>6, <2>6, HeardAhead
  <2>8. Shown(c, p)'
    <3>1. m \notin Bringing(p) BY <1>1 DEF Bringing
    <3>2. regs'[c] # {} => (IsPost(cache[c][p]) => IsPost(cache'[c][p])) BY <1>2
    <3> QED BY <1>0, <1>1, <1>4, <1>6, <3>1, <3>2, HeardShown
  <2> QED BY <2>5, <2>7, <2>8 DEF Feed
<1> QED BY <1>5, <1>6

(* and so does a revocation. *)
LEMMA ReceiveRevocationFeeds ==
  ASSUME TypeInv, NEW c \in Clients, ReceiveRevocation(c)
  PROVE  /\ Deaf(c) => Deaf(c)'
         /\ \A p \in Posts : Feed(c, p) => Feed(c, p)'
<1> DEFINE m == Head(down[c])
           d == Tail(down[c])
           lost == Cancelled(c)
<1>0. TypeOK BY DEF TypeInv
<1>1. Heard(c, m, d)
  BY <1>0 DEF Heard, ReceiveRevocation, Message, TypeOK, envVars
<1>2. /\ UNCHANGED <<up, repoQ, writes, held>>
      /\ regs'[c] = {} /\ cache'[c] = Nothing /\ mainQ'[c] = mainQ[c] \o lost
  BY <1>0 DEF ReceiveRevocation, CancelView, TypeOK
<1> HIDE DEF m, d, lost
<1>3. HeardOn(c, m, d) BY <1>2 DEF HeardOn
<1>4. Deaf(c) => Deaf(c)' BY <1>0, <1>1, <1>3, HeardDeaf
<1>5. ASSUME NEW p \in Posts, Feed(c, p) PROVE Feed(c, p)'
  <2>1. /\ down[c] \in Seq(KeptResponses(p)) /\ mainQ[c] \in Seq(KeptCallbacks(p))
        /\ Kept(c, p)
    BY <1>5 DEF Feed, Kept
  <2>2. d \in Seq(KeptResponses(p)) BY <1>1, <2>1, Hearing
  <2>3. lost \in Seq(KeptCallbacks(p))
    <3>1. regs[c] \in SUBSET Regs /\ IsFiniteSet(regs[c]) BY <1>0 DEF TypeInv, TypeOK
    <3> QED BY <3>1, KeptValueEvents DEF lost
  <2>4. Kept(c, p)'
    <3>1. mainQ'[c] \in Seq(KeptCallbacks(p)) BY <1>2, <2>1, <2>3, ConcatProperties
    <3>2. down'[c] \in Seq(KeptResponses(p)) BY <1>1, <2>2 DEF Heard
    <3> QED BY <1>2, <2>1, <3>1, <3>2 DEF Kept
  <2>5. Known(c, p)' => Known(c, p)
    <3>1. ~IsPost(Nothing[p]) BY DEF Nothing, IsPost
    <3> QED BY <1>2, <3>1 DEF Known
  <2>6. Ahead(c, p)' /\ Lasting(c, p)' BY <1>0, <1>1, <1>5, <2>5, HeardAhead
  <2>7. Shown(c, p)' BY <1>2 DEF Shown
  <2> QED BY <2>4, <2>6, <2>7 DEF Feed
<1> QED BY <1>4, <1>5

(* So with each message. *)
LEMMA ReceiveFeeds ==
  ASSUME TypeInv, EveryWriteTracked, NEW c \in Clients, Sound(c), Receive(c)
  PROVE  /\ Deaf(c) => Deaf(c)'
         /\ \A p \in Posts : Feed(c, p) => Feed(c, p)'
BY ReceivePushFeeds, ReceiveSnapshotFeeds, ReceiveAckFeeds, ReceiveRefusalFeeds,
   ReceiveRevocationFeeds DEF Receive

-----------------------------------------------------------------------------
(* The server, and connections *)

(* The answer to a listen is the board, with each post a client knows of,  *)
(* or ends the pushes;                                                     *)
LEMMA ServeListenFeeds ==
  ASSUME TypeInv, NEW c \in Clients, ServeListen(c)
  PROVE  /\ Deaf(c) => Deaf(c)'
         /\ \A p \in Posts : Feed(c, p) => Feed(c, p)'
<1>0. TypeOK BY DEF TypeInv
<1>1. PICK ok \in BOOLEAN :
        /\ listening'[c] = ok
        /\ down'[c] = Append(down[c], IF ok THEN [type |-> "snapshot", board |-> server]
                                            ELSE [type |-> "refusal"])
  BY <1>0 DEF ServeListen, TypeOK
<1> DEFINE m == IF ok THEN [type |-> "snapshot", board |-> server] ELSE [type |-> "refusal"]
           q == down[c]
<1>2. /\ up[c] # <<>> /\ up'[c] = Tail(up[c]) /\ down'[c] = Append(q, m)
      /\ UNCHANGED <<server, connected, repoQ, regs, cache, writes, held, mainQ>>
  BY <1>0, <1>1 DEF ServeListen, Request, TypeOK, sdkVars
<1>3. /\ m \in Responses /\ m.type \in {"snapshot", "refusal"}
      /\ ~ok => m.type = "refusal"
      /\ m.type = "snapshot" => m.board = server
  BY <1>0 DEF Responses, TypeOK
<1>4. q \in Seq(Responses) BY <1>0, QueueTypes
<1> HIDE DEF m, q
<1>5. m \in Answers BY <1>3 DEF Answers
<1>6. Deaf(c) => Deaf(c)'
  <2>1. ~ok => LastIs(Append(q, m), Ends, Answers)
    BY <1>3, <1>4, LastIsAppend DEF Ends
  <2> QED BY <1>1, <1>2, <2>1 DEF Deaf
<1>7. ASSUME NEW p \in Posts, Feed(c, p) PROVE Feed(c, p)'
  <2>1. Kept(c, p) /\ up[c] \in Seq(KeptRequests(p)) /\ q \in Seq(KeptResponses(p))
    BY <1>7 DEF Feed, Kept, q
  <2>2. m \in KeptResponses(p) BY <1>3 DEF KeptResponses
  <2>3. up'[c] \in Seq(KeptRequests(p)) /\ down'[c] \in Seq(KeptResponses(p))
    BY <1>2, <2>1, <2>2, HeadTailProperties, AppendProperties
  <2>4. Kept(c, p)' BY <1>2, <2>1, <2>3 DEF Kept
  <2>5. Known(c, p)' <=> Known(c, p) BY <1>2 DEF Known
  <2>6. /\ m \in Telling(p) => IsPost(server[p])
        /\ m \in Lacking(p) => ~IsPost(server[p])
        /\ m \notin Created(p)
    BY <1>3 DEF Telling, Created, Bringing, Lacking
  <2>7. \A S : In(Append(q, m), S) <=> In(q, S) \/ m \in S BY <1>3, <1>4, InAppend
  <2>8. Ahead(c, p) /\ Lasting(c, p) BY <1>7 DEF Feed
  <2>9. Ahead(c, p)' BY <1>2, <2>5, <2>6, <2>7, <2>8 DEF Ahead, q
  <2>10. Lasting(c, p)'
    <3>1. Known(c, p)' => ~In(Append(q, m), Lacking(p))
      BY <2>5, <2>6, <2>7, <2>8 DEF Ahead, Lasting, q
    <3>2. NeverAfter(Append(q, m), Telling(p), Lacking(p))
      <4>1. NeverAfter(q, Telling(p), Lacking(p)) BY <2>8 DEF Lasting, q
      <4>2. In(q, Telling(p)) => m \notin Lacking(p) BY <2>6, <2>8 DEF Ahead, q
      <4> QED BY <1>3, <1>4, <4>1, <4>2, NeverAfterAppend
    <3> QED BY <1>2, <3>1, <3>2 DEF Lasting
  <2>11. Shown(c, p)'
    <3>1. Met(Append(q, m), Created(p), Bringing(p), Ends, Answers)
      BY <1>3, <1>4, <1>5, <2>6, MetAppend
    <3> QED BY <1>2, <3>1 DEF Shown
  <2> QED BY <2>4, <2>9, <2>10, <2>11 DEF Feed
<1> QED BY <1>6, <1>7

(* an unlisten is followed by a listen, if there is a view;                *)
LEMMA ServeUnlistenFeeds ==
  ASSUME TypeInv, NEW c \in Clients, Sound(c), ServeUnlisten(c)
  PROVE  /\ Deaf(c) => Deaf(c)'
         /\ \A p \in Posts : Feed(c, p) => Feed(c, p)'
<1> DEFINE u == Tail(up[c])
<1>0. TypeOK BY DEF TypeInv
<1>1. /\ up[c] # <<>> /\ Head(up[c]).type = "unlisten" /\ up'[c] = u
      /\ UNCHANGED <<server, connected, down, repoQ, regs, cache, writes, held, mainQ>>
  BY <1>0 DEF ServeUnlisten, Request, TypeOK, sdkVars
<1>2. /\ HasType(up[c], "listen") <=> HasType(u, "listen")
      /\ Followed(up[c], "unlisten", "listen") => HasType(u, "listen")
  BY <1>0, <1>1, Asked
<1>3. regs[c] # {} => HasType(u, "listen") BY <1>2 DEF Sound, Wire
<1> HIDE DEF u
<1>4. Deaf(c)' BY <1>1, <1>3 DEF Deaf
<1>5. ASSUME NEW p \in Posts, Feed(c, p) PROVE Feed(c, p)'
  <2>1. u \in Seq(KeptRequests(p)) BY <1>1, <1>5, HeadTailProperties DEF Feed, Kept, u
  <2>2. Kept(c, p)' BY <1>1, <1>5, <2>1 DEF Feed, Kept
  <2>3. Known(c, p)' <=> Known(c, p) BY <1>1 DEF Known
  <2>4. Ahead(c, p)' /\ Lasting(c, p)' BY <1>1, <1>5, <2>3 DEF Feed, Ahead, Lasting
  <2>5. Shown(c, p)' BY <1>1, <1>2, <1>5 DEF Feed, Shown
  <2> QED BY <2>2, <2>4, <2>5 DEF Feed
<1> QED BY <1>4, <1>5

(* a write that is performed is pushed, to the writer before its response, *)
(* and leaves each post that it does not remove.                           *)
LEMMA ServeWriteFeeds ==
  ASSUME TypeInv, NEW c \in Clients, \A d \in Clients : Sound(d) /\ Deaf(d),
         ServeWrite(c), NEW d \in Clients
  PROVE  /\ Deaf(d)'
         /\ \A p \in Posts : ~RejectsWrites /\ (\A e \in Clients : Feed(e, p)) => Feed(d, p)'
<1>0. TypeOK BY DEF TypeInv
<1>1. PICK w \in LocalWrites, ok \in BOOLEAN :
        /\ w = Head(up[c]) /\ up[c] # <<>> /\ (~RejectsWrites => ok)
        /\ server' = IF ok THEN [server EXCEPT ![w.post] = Apply(w.type, server[w.post])]
                     ELSE server
        /\ down'[d] = down[d] \o Pushed(d, w, ok) \o AckedTo(d, c, w, ok)
        /\ up' = [up EXCEPT ![c] = Tail(@)]
  BY <1>0, ServeWriteDef
<1>2. UNCHANGED <<listening, connected, repoQ, regs, cache, writes, held, mainQ>>
  BY DEF ServeWrite, sdkVars
<1> DEFINE pu == [type |-> "push", write |-> w]
           ac == [type |-> "ack", write |-> w, ok |-> ok]
           told == ok /\ listening[d]
           q == down[d]
           r == IF told THEN Append(q, pu) ELSE q
           s == IF d = c THEN Append(r, ac) ELSE r
<1>3. /\ pu \in Responses /\ pu.type = "push" /\ pu.write = w
      /\ ac \in Responses /\ ac.type = "ack" /\ ac.write = w
  BY DEF Responses, Acks
<1>4. q \in Seq(Responses) /\ up[c] \in Seq(Requests) /\ up[d] \in Seq(Requests)
  BY <1>0, QueueTypes
<1> HIDE DEF pu, ac, q
<1>5. r \in Seq(Responses) /\ Append(q, pu) \in Seq(Responses) BY <1>3, <1>4, AppendProperties
<1>6. down'[d] = s
  <2>1. q \o Pushed(d, w, ok) = r
    <3>1. Pushed(d, w, ok) = IF told THEN <<pu>> ELSE <<>> BY DEF Pushed, pu
    <3>2. q \o <<>> = q BY <1>4, ConcatEmptySeq
    <3>3. Append(q, pu) = q \o <<pu>> BY <1>3, <1>4, AppendIsConcat
    <3> QED BY <3>1, <3>2, <3>3
  <2>2. r \o AckedTo(d, c, w, ok) = s
    <3>1. AckedTo(d, c, w, ok) = IF d = c THEN <<ac>> ELSE <<>> BY DEF AckedTo, ac
    <3> HIDE DEF r
    <3>2. r \o <<>> = r BY <1>5, ConcatEmptySeq
    <3>3. Append(r, ac) = r \o <<ac>> BY <1>3, <1>5, AppendIsConcat
    <3> QED BY <3>1, <3>2, <3>3
  <2> QED BY <1>1, <2>1, <2>2 DEF q
<1>7. HasType(up'[d], "listen") <=> HasType(up[d], "listen")
  <2>1. CASE d = c
    <3>1. w.type # "listen" BY DEF LocalWrites, WriteOps
    <3>2. up'[c] = Tail(up[c]) BY <1>0, <1>1 DEF TypeOK
    <3> QED BY <1>0, <1>1, <2>1, <3>1, <3>2, Asked
  <2>2. CASE d # c
    <3>1. up'[d] = up[d] BY <1>0, <1>1, <2>2 DEF TypeOK
    <3> QED BY <3>1
  <2> QED BY <2>1, <2>2
<1>8. pu \notin Answers /\ ac \notin Answers BY <1>3 DEF Answers
<1> HIDE DEF told
<1>9. LastIs(q, Ends, Answers) => LastIs(r, Ends, Answers) /\ LastIs(s, Ends, Answers)
  <2> HAVE LastIs(q, Ends, Answers)
  <2>1. LastIs(r, Ends, Answers) BY <1>3, <1>4, <1>8, LastIsAppend
  <2> HIDE DEF r
  <2>2. LastIs(s, Ends, Answers) BY <1>3, <1>5, <1>8, <2>1, LastIsAppend
  <2> QED BY <2>1, <2>2
<1>10. Deaf(d)'
  <2>1. Deaf(d) OBVIOUS
  <2> HIDE DEF s
  <2> QED BY <1>2, <1>6, <1>7, <1>9, <2>1 DEF Deaf, q
<1>11. ASSUME NEW p \in Posts, ~RejectsWrites, \A e \in Clients : Feed(e, p)
       PROVE  Feed(d, p)'
  <2>1. ok BY <1>1, <1>11
  <2>2. Kept(c, p) /\ Kept(d, p) /\ Ahead(d, p) /\ Lasting(d, p) /\ Shown(d, p)
    BY <1>11 DEF Feed
  <2>3. w \in KeptRequests(p) BY <1>1, <2>2, HeadTailProperties DEF Kept
  <2>4. w # Removal(p) BY <2>3 DEF KeptRequests
  <2>5. /\ IsPost(server[p]) => IsPost(server'[p])
        /\ w = Write("set", p) => IsPost(server'[p])
    <3>1. server \in Boards /\ server[p] \in Records BY <1>0 DEF TypeOK, Boards
    <3>2. server' = [server EXCEPT ![w.post] = Apply(w.type, server[w.post])]
      BY <1>1, <2>1
    <3>3. CASE w.post # p
      <4>1. server'[p] = server[p] BY <3>1, <3>2, <3>3 DEF Boards
      <4>2. w # Write("set", p) BY <3>3 DEF Write
      <4> QED BY <4>1, <4>2
    <3>4. CASE w.post = p
      <4>1. server'[p] = Apply(w.type, server[p]) BY <3>1, <3>2, <3>4 DEF Boards
      <4>2. w.type = "set" \/ w.type = "update"
        <5>1. w = Write("set", p) \/ w.type = "update" BY <2>4, <3>4, KeptTypes
        <5> QED BY <5>1 DEF Write
      <4>3. w = Write("set", p) => w.type = "set" BY DEF Write
      <4>4. CASE w.type = "set" BY <4>1, <4>4 DEF Apply, IsPost
      <4>5. CASE w.type = "update"
        <5>1. server'[p] = Apply("update", server[p]) BY <4>1, <4>5
        <5> QED BY <3>1, <4>3, <4>5, <5>1 DEF Apply, IsPost, Records
      <4> QED BY <4>2, <4>4, <4>5
    <3> QED BY <3>3, <3>4
  <2>6. /\ pu \in KeptResponses(p) /\ ac \in KeptResponses(p)
        /\ pu \in Telling(p) => w = Write("set", p)
        /\ ac \in Telling(p) => w = Write("set", p)
        /\ pu \notin Lacking(p) /\ ac \notin Lacking(p) /\ pu \notin Created(p)
        /\ ac \in Created(p) => pu \in Bringing(p)
    BY <1>3, <2>4 DEF KeptResponses, Telling, Created, Bringing, Lacking
  <2>7. /\ q \in Seq(KeptResponses(p)) /\ up[c] \in Seq(KeptRequests(p))
        /\ up[d] \in Seq(KeptRequests(p))
    BY <2>2 DEF Kept, q
  <2>8. Kept(d, p)'
    <3>1. r \in Seq(KeptResponses(p)) BY <2>6, <2>7, AppendProperties
    <3>2. s \in Seq(KeptResponses(p))
      <4> HIDE DEF r
      <4> QED BY <2>6, <3>1, AppendProperties
    <3>3. up'[d] \in Seq(KeptRequests(p))
      <4>1. CASE d = c
        <5>1. up'[c] = Tail(up[c]) BY <1>0, <1>1 DEF TypeOK
        <5> QED BY <1>1, <2>7, <4>1, <5>1, HeadTailProperties
      <4>2. CASE d # c
        <5>1. up'[d] = up[d] BY <1>0, <1>1, <4>2 DEF TypeOK
        <5> QED BY <2>7, <5>1
      <4> QED BY <4>1, <4>2
    <3> HIDE DEF s
    <3> QED BY <1>2, <1>6, <2>2, <3>2, <3>3 DEF Kept
  <2>9. Known(d, p)' <=> Known(d, p) BY <1>2 DEF Known
  <2>10. \A S : In(s, S) => In(q, S) \/ pu \in S \/ ac \in S
    <3>1. \A S : In(r, S) => In(q, S) \/ pu \in S BY <1>3, <1>4, InAppend
    <3> HIDE DEF r
    <3> QED BY <1>3, <1>5, <3>1, InAppend
  <2>11. Ahead(d, p)'
    <3>1. In(s, Telling(p)) => In(q, Telling(p)) \/ w = Write("set", p)
      BY <2>6, <2>10
    <3> HIDE DEF s
    <3> QED BY <1>6, <2>2, <2>5, <2>9, <3>1 DEF Ahead, q
  <2>12. Lasting(d, p)'
    <3>1. Known(d, p)' => ~In(s, Lacking(p))
      BY <2>2, <2>6, <2>9, <2>10 DEF Lasting, q
    <3>2. NeverAfter(q, Telling(p), Lacking(p)) BY <2>2 DEF Lasting, q
    <3>3. NeverAfter(r, Telling(p), Lacking(p))
      BY <1>3, <1>4, <2>6, <3>2, NeverAfterAppend
    <3>4. NeverAfter(s, Telling(p), Lacking(p))
      <4> HIDE DEF r
      <4> QED BY <1>3, <1>5, <2>6, <3>3, NeverAfterAppend
    <3> HIDE DEF s
    <3> QED BY <1>6, <3>1, <3>4 DEF Lasting
  <2>13. Shown(d, p)'
    <3> DEFINE B == Bringing(p)
               A == Created(p)
    <3> HIDE DEF s, r
    <3> SUFFICES ASSUME regs[d] # {}, ~HasType(up[d], "listen"), ~IsPost(cache[d][p])
                 PROVE  Met(s, A, B, Ends, Answers)
      BY <1>2, <1>6, <1>7 DEF Shown
    <3>1. Met(q, A, B, Ends, Answers) BY <2>2 DEF Shown, q
    <3> HIDE DEF A, B
    <3>2. Met(r, A, B, Ends, Answers)
      BY <1>3, <1>4, <1>8, <2>6, <3>1, MetAppend DEF r, A
    <3>3. d = c /\ ac \in A => In(r, B) \/ LastIs(r, Ends, Answers)
      <4> HAVE d = c /\ ac \in A
      <4>1. CASE told
        <5>1. pu \in B BY <2>6 DEF A, B
        <5> QED BY <1>3, <1>4, <4>1, <5>1, InAppend DEF r
      <4>2. CASE ~told
        <5>1. ~listening[d] BY <2>1, <4>2 DEF told
        <5>2. connected[d] BY <1>1 DEF Sound, Wire
        <5>3. LastIs(q, Ends, Answers) BY <5>1, <5>2 DEF Deaf, q
        <5> QED BY <1>9, <5>3
      <4> QED BY <4>1, <4>2
    <3> QED BY <1>3, <1>5, <1>8, <3>2, <3>3, MetAppend DEF s
  <2> QED BY <2>8, <2>11, <2>12, <2>13 DEF Feed
<1> QED BY <1>10, <1>11

(* A revocation ends the pushes; *)
LEMMA RevokeListenFeeds ==
  ASSUME TypeInv, NEW c \in Clients, RevokeListen(c)
  PROVE  /\ Deaf(c) => Deaf(c)'
         /\ \A p \in Posts : Feed(c, p) => Feed(c, p)'
<1> DEFINE m == [type |-> "revocation"]
           q == down[c]
<1>0. TypeOK BY DEF TypeInv
<1>1. /\ down'[c] = Append(q, m)
      /\ UNCHANGED <<server, connected, up, repoQ, regs, cache, writes, held, mainQ>>
  BY <1>0 DEF RevokeListen, TypeOK, sdkVars
<1>2. m \in Responses /\ m.type = "revocation" BY DEF Responses
<1>3. q \in Seq(Responses) BY <1>0, QueueTypes
<1> HIDE DEF m, q
<1>4. m \in Ends /\ m \notin Answers BY <1>2 DEF Ends, Answers
<1>5. Deaf(c)'
  <2>1. LastIs(Append(q, m), Ends, Answers) BY <1>2, <1>3, <1>4, LastIsAppend
  <2> QED BY <1>1, <2>1 DEF Deaf
<1>6. ASSUME NEW p \in Posts, Feed(c, p) PROVE Feed(c, p)'
  <2>1. Kept(c, p) /\ Ahead(c, p) /\ Lasting(c, p) /\ Shown(c, p) BY <1>6 DEF Feed
  <2>2. m \in KeptResponses(p) /\ q \in Seq(KeptResponses(p))
    BY <1>2, <2>1 DEF KeptResponses, Kept, q
  <2>3. down'[c] \in Seq(KeptResponses(p)) BY <1>1, <2>2, AppendProperties
  <2>4. Kept(c, p)' BY <1>1, <2>1, <2>3 DEF Kept
  <2>5. Known(c, p)' <=> Known(c, p) BY <1>1 DEF Known
  <2>6. m \notin Telling(p) /\ m \notin Lacking(p) /\ m \notin Created(p)
    BY <1>2 DEF Telling, Created, Bringing, Lacking
  <2>7. \A S : In(Append(q, m), S) <=> In(q, S) \/ m \in S BY <1>2, <1>3, InAppend
  <2>8. Ahead(c, p)' BY <1>1, <2>1, <2>5, <2>6, <2>7 DEF Ahead, q
  <2>9. Lasting(c, p)'
    <3>1. NeverAfter(q, Telling(p), Lacking(p)) BY <2>1 DEF Lasting, q
    <3>2. NeverAfter(Append(q, m), Telling(p), Lacking(p))
      BY <1>2, <1>3, <2>6, <3>1, NeverAfterAppend
    <3> QED BY <1>1, <2>1, <2>5, <2>6, <2>7, <3>2 DEF Lasting, q
  <2>10. Shown(c, p)'
    <3>1. Met(q, Created(p), Bringing(p), Ends, Answers) =>
            Met(Append(q, m), Created(p), Bringing(p), Ends, Answers)
      BY <1>2, <1>3, <1>4, <2>6, MetAppend
    <3> QED BY <1>1, <2>1, <3>1 DEF Shown, q
  <2> QED BY <2>4, <2>8, <2>9, <2>10 DEF Feed
<1> QED BY <1>5, <1>6

(* a lost connection leaves nothing to hear; *)
LEMMA DisconnectFeeds ==
  ASSUME TypeInv, NEW c \in Clients, Disconnect(c)
  PROVE  /\ Deaf(c) => Deaf(c)'
         /\ \A p \in Posts : Feed(c, p) => Feed(c, p)'
<1>0. TypeOK BY DEF TypeInv
<1>1. /\ ~connected'[c] /\ up'[c] = <<>> /\ down'[c] = <<>>
      /\ UNCHANGED <<server, repoQ, regs, cache, writes, held, mainQ>>
  BY <1>0 DEF Disconnect, TypeOK, sdkVars
<1>2. Deaf(c)' BY <1>1 DEF Deaf
<1>3. ASSUME NEW p \in Posts, Feed(c, p) PROVE Feed(c, p)'
  <2>1. Kept(c, p)' BY <1>1, <1>3 DEF Feed, Kept
  <2>2. Known(c, p)' <=> Known(c, p) BY <1>1 DEF Known
  <2>3. Ahead(c, p)' /\ Lasting(c, p)' BY <1>1, <1>3, <2>2, InNone DEF Feed, Ahead, Lasting
  <2>4. Shown(c, p)' BY <1>1, InNone DEF Shown
  <2> QED BY <2>1, <2>3, <2>4 DEF Feed
<1> QED BY <1>2, <1>3

(* a new one first sends the listen, if there is a view;                   *)
LEMMA ReconnectFeeds ==
  ASSUME TypeInv, EveryWriteTracked, NEW c \in Clients, Sound(c), Reconnect(c)
  PROVE  /\ Deaf(c) => Deaf(c)'
         /\ \A p \in Posts : Feed(c, p) => Feed(c, p)'
<1> DEFINE U == Unanswered(c)
           L == Relisten(c)
           l == [type |-> "listen"]
<1>0. TypeOK BY DEF TypeInv
<1>1. /\ ~connected[c] /\ up'[c] = L \o U
      /\ UNCHANGED <<server, listening, down, repoQ, regs, cache, writes, held, mainQ>>
  BY <1>0 DEF Reconnect, Reconnected, TypeOK, sdkVars
<1>2. down[c] = <<>> BY <1>1 DEF Sound, Wire
<1>3. regs[c] # {} => HasType(up'[c], "listen")
  <2> SUFFICES ASSUME regs[c] # {} PROVE HasType(L \o U, "listen") BY <1>1
  <2>1. U \in Seq(LocalWrites) BY <1>0, HeldAreOldest
  <2>2. U \in Seq(Requests) BY <2>1, RequestedWrites
  <2>3. L = <<l>> /\ l \in Requests /\ l.type = "listen" BY DEF Relisten, Requests
  <2> HIDE DEF U, L, l
  <2>4. L \in Seq(Requests) /\ HasType(L, "listen") BY <2>3, HasInOne
  <2> QED BY <2>2, <2>4, HasInConcat
<1> HIDE DEF U, L
<1>4. Deaf(c)' BY <1>1, <1>3 DEF Deaf
<1>5. ASSUME NEW p \in Posts, Feed(c, p) PROVE Feed(c, p)'
  <2>1. Kept(c, p) BY <1>5 DEF Feed
  <2>2. U \in Seq(KeptRequests(p))
    <3>1. /\ writes[c] \in Seq(KeptWrites(p)) /\ Len(held[c]) <= Len(writes[c])
          /\ held[c] \in Seq(Acks)
      BY <1>0, <2>1, HeldAreOldest DEF Kept, TypeOK
    <3>2. Len(held[c]) \in Nat /\ Len(writes[c]) \in Nat BY <3>1
    <3>3. \A i \in 1 .. Len(writes[c]) : writes[c][i] \in KeptWrites(p) BY <3>1
    <3>4. \A i \in Len(held[c]) + 1 .. Len(writes[c]) : writes[c][i] \in KeptWrites(p)
      BY <3>2, <3>3
    <3>5. Len(held[c]) + 1 \in 1 .. Len(writes[c]) + 1 BY <3>1, <3>2
    <3>6. U \in Seq(KeptWrites(p))
      BY <3>1, <3>2, <3>4, <3>5, SubSeqProperties DEF Unanswered, U
    <3>7. KeptWrites(p) \subseteq KeptRequests(p)
      BY DEF KeptWrites, KeptRequests, Requests
    <3> QED BY <3>6, <3>7, SeqWider
  <2>3. L \in Seq(KeptRequests(p))
    <3>1. l \in KeptRequests(p)
      <4>1. l \in Requests /\ l.type # Removal(p).type BY DEF Requests, Removal, Write
      <4> QED BY <4>1 DEF KeptRequests
    <3> HIDE DEF l
    <3>2. <<l>> \in Seq(KeptRequests(p)) /\ <<>> \in Seq(KeptRequests(p)) BY <3>1
    <3> QED BY <3>2 DEF L, Relisten, l
  <2>4. up'[c] \in Seq(KeptRequests(p)) BY <1>1, <2>2, <2>3, ConcatProperties
  <2>5. Kept(c, p)' BY <1>1, <2>1, <2>4 DEF Kept
  <2>6. Known(c, p)' <=> Known(c, p) BY <1>1 DEF Known
  <2>7. Ahead(c, p)' /\ Lasting(c, p)' BY <1>1, <1>5, <2>6 DEF Feed, Ahead, Lasting
  <2>8. Shown(c, p)' BY <1>1, <1>2, InNone DEF Shown
  <2> QED BY <2>5, <2>7, <2>8 DEF Feed
<1> QED BY <1>4, <1>5

(* and a crash leaves nothing at all. *)
LEMMA CrashFeeds ==
  ASSUME TypeInv, NEW c \in Clients, Crash(c)
  PROVE  Deaf(c)' /\ \A p \in Posts : Feed(c, p)'
<1>0. TypeOK BY DEF TypeInv
<1>1. /\ up'[c] = <<>> /\ down'[c] = <<>> /\ repoQ'[c] = <<>> /\ mainQ'[c] = <<>>
      /\ regs'[c] = {} /\ cache'[c] = Nothing /\ writes'[c] = <<>> /\ held'[c] = <<>>
  BY <1>0 DEF Crash, TypeOK
<1>2. Deaf(c)' BY <1>1 DEF Deaf
<1>3. ASSUME NEW p \in Posts PROVE Feed(c, p)'
  <2>1. Kept(c, p)' BY <1>1 DEF Kept
  <2>2. ~Known(c, p)'
    <3>1. ~IsPost(Nothing[p]) BY DEF Nothing, IsPost
    <3> QED BY <1>1, <3>1, InNone DEF Known
  <2>3. Ahead(c, p)' /\ Lasting(c, p)' BY <1>1, <2>2, InNone DEF Ahead, Lasting
  <2>4. Shown(c, p)' BY <1>1 DEF Shown
  <2> QED BY <2>1, <2>3, <2>4 DEF Feed
<1> QED BY <1>2, <1>3

-----------------------------------------------------------------------------
(* The invariant holds, and what follows from it *)

(* At first there is nothing to remove and nobody to hear of it. *)
LEMMA FeedInit == Init => FeedInv
<1> SUFFICES ASSUME Init PROVE FeedInv OBVIOUS
<1>1. SyncInv BY SyncInit
<1>2. ASSUME NEW c \in Clients PROVE Deaf(c) /\ \A p \in Posts : Feed(c, p)
  <2>1. /\ up[c] = <<>> /\ down[c] = <<>> /\ repoQ[c] = <<>> /\ mainQ[c] = <<>>
        /\ regs[c] = {} /\ cache[c] = Nothing /\ writes[c] = <<>> /\ held[c] = <<>>
    BY DEF Init
  <2>2. Deaf(c) BY <2>1 DEF Deaf
  <2>3. ASSUME NEW p \in Posts PROVE Feed(c, p)
    <3>1. Kept(c, p) BY <2>1 DEF Kept
    <3>2. ~Known(c, p)
      <4>1. ~IsPost(Nothing[p]) BY DEF Nothing, IsPost
      <4> QED BY <2>1, <4>1, InNone DEF Known
    <3>3. Ahead(c, p) /\ Lasting(c, p) BY <2>1, <3>2, InNone DEF Ahead, Lasting
    <3>4. Shown(c, p) BY <2>1 DEF Shown
    <3> QED BY <3>1, <3>3, <3>4 DEF Feed
  <2> QED BY <2>2, <2>3
<1> QED BY <1>1, <1>2 DEF FeedInv

(* Delete taps are never forgotten. *)
LEMMA AskedGrows ==
  ASSUME TypeOK, [Next]_vars, NEW p \in Posts, Unasked(p)'
  PROVE  Unasked(p)
<1>1. CASE asked' = asked BY <1>1 DEF Unasked
<1>2. ASSUME NEW c \in Clients, NEW q \in Posts, RemovePost(c, q) PROVE Unasked(p)
  <2>1. asked' = [asked EXCEPT ![c][q] = @ + 1] BY <1>2 DEF RemovePost
  <2>2. \A e \in Clients : asked[e] \in [Posts -> Nat] BY DEF TypeOK, PostCounts
  <2>3. ASSUME NEW e \in Clients PROVE asked[e][p] = 0
    <3>1. asked'[e][p] = IF e = c /\ p = q THEN asked[e][p] + 1 ELSE asked[e][p]
      BY <2>1, <2>2 DEF TypeOK
    <3>2. asked'[e][p] = 0 BY DEF Unasked
    <3> QED BY <2>2, <3>1, <3>2
  <2> QED BY <2>3 DEF Unasked
<1>3. CASE UNCHANGED vars BY <1>1, <1>3 DEF vars, historyVars
<1>4. ASSUME NEW c \in Clients,
             \/ User(c) \/ MainThread(c) \/ RepoBlock(c) \/ Receive(c) \/ Serve(c)
             \/ RevokeListen(c) \/ Disconnect(c) \/ Reconnect(c) \/ Crash(c)
      PROVE  asked' = asked \/ \E q \in Posts : RemovePost(c, q)
  <2>1. CASE User(c)
    BY <2>1 DEF User, OpenTimeline, Logout, CreatePost, historyVars
  <2>2. CASE MainThread(c)
    BY <2>2 DEF MainThread, PostsRetrieved, RetrievalFailed, PostAdded, PostRemoved,
                FeedEvent, PostWritten, historyVars
  <2>3. CASE RepoBlock(c)
    BY <2>3 DEF RepoBlock, AddObserver, RemoveObserver, LocalWrite, historyVars
  <2>4. CASE Receive(c)
    BY <2>4 DEF Receive, ReceivePush, ReceiveSnapshot, ReceiveAck, ReceiveRefusal,
                ReceiveRevocation, historyVars
  <2>5. CASE Serve(c)
    BY <2>5 DEF Serve, ServeListen, ServeUnlisten, ServeWrite, historyVars
  <2>6. CASE RevokeListen(c) \/ Disconnect(c) \/ Reconnect(c) \/ Crash(c)
    BY <2>6 DEF RevokeListen, Disconnect, Reconnect, Reconnected, Crash, historyVars
  <2> QED BY <1>4, <2>1, <2>2, <2>3, <2>4, <2>5, <2>6
<1> QED BY <1>1, <1>2, <1>3, <1>4 DEF Next

(* A step keeps what is said of each client; *)
LEMMA FeedsAll ==
  ASSUME FeedInv, [Next]_vars
  PROVE  /\ \A d \in Clients : Deaf(d)'
         /\ ~RejectsWrites => \A p \in Posts : Unasked(p)' => \A d \in Clients : Feed(d, p)'
<1>0. TypeInv /\ TypeOK /\ EveryWriteTracked /\ \A c \in Clients : Sound(c) /\ Deaf(c)
  BY SoundTracked DEF FeedInv, SyncInv, TypeInv
<1>1. ASSUME NEW p \in Posts, ~RejectsWrites, Unasked(p)'
      PROVE  \A d \in Clients : Feed(d, p) /\ Kept(d, p)
  BY <1>0, <1>1, AskedGrows DEF FeedInv, Feed
<1>2. CASE UNCHANGED vars
  <2>1. \A d \in Clients : Calm(d) BY <1>0, <1>2, ScreensAreCalm
  <2>2. \A d \in Clients : Deaf(d)' BY <1>0, <2>1, DeafIfCalm
  <2>3. ASSUME NEW p \in Posts, ~RejectsWrites, Unasked(p)', NEW d \in Clients
        PROVE  Feed(d, p)'
    <3>1. Feed(d, p) /\ Kept(d, p) BY <1>1, <2>3
    <3>2. Kept(d, p)' BY <1>2, <3>1 DEF Kept, vars, sdkVars
    <3> QED BY <2>1, <3>1, <3>2, FeedIfCalm
  <2> QED BY <2>2, <2>3
<1>3. ASSUME NEW c \in Clients, User(c) \/ MainThread(c)
      PROVE  /\ \A d \in Clients : Deaf(d)'
             /\ ~RejectsWrites => \A p \in Posts : Unasked(p)' => \A d \in Clients : Feed(d, p)'
  <2>1. \A d \in Clients : Calm(d) BY <1>0, <1>3, ScreensAreCalm
  <2>2. \A d \in Clients : Deaf(d)' BY <1>0, <2>1, DeafIfCalm
  <2>3. ASSUME NEW p \in Posts, ~RejectsWrites, Unasked(p)', NEW d \in Clients
        PROVE  Feed(d, p)'
    <3>1. Feed(d, p) /\ Kept(d, p) BY <1>1, <2>3
    <3>2. CASE d = c
      <4>1. Kept(c, p)' BY <1>0, <1>3, <2>3, <3>1, <3>2, UserKeeps, MainThreadKeeps
      <4> QED BY <2>1, <3>1, <3>2, <4>1, FeedIfCalm
    <3>3. CASE d # c
      <4>1. repoQ'[d] = repoQ[d] /\ mainQ'[d] = mainQ[d] BY <1>0, <1>3, <3>3, OthersKeep
      <4>2. Kept(d, p)' BY <2>1, <3>1, <4>1, KeptIfSame DEF Calm
      <4> QED BY <2>1, <3>1, <4>2, FeedIfCalm
    <3> QED BY <3>2, <3>3
  <2> QED BY <2>2, <2>3
<1>4. ASSUME NEW c \in Clients, ServeWrite(c)
      PROVE  /\ \A d \in Clients : Deaf(d)'
             /\ ~RejectsWrites => \A p \in Posts : Unasked(p)' => \A d \in Clients : Feed(d, p)'
  BY <1>0, <1>1, <1>4, ServeWriteFeeds
<1>5. ASSUME NEW c \in Clients,
             \/ RepoBlock(c) \/ Receive(c) \/ ServeListen(c) \/ ServeUnlisten(c)
             \/ RevokeListen(c) \/ Disconnect(c) \/ Reconnect(c) \/ Crash(c)
      PROVE  /\ \A d \in Clients : Deaf(d)'
             /\ ~RejectsWrites => \A p \in Posts : Unasked(p)' => \A d \in Clients : Feed(d, p)'
  <2>1. Deaf(c)' /\ \A p \in Posts : Feed(c, p) => Feed(c, p)'
    <3>1. CASE RepoBlock(c)
      BY <1>0, <3>1, AddObserverFeeds, RemoveObserverFeeds, LocalWriteFeeds DEF RepoBlock
    <3>2. CASE Receive(c) BY <1>0, <3>2, ReceiveFeeds
    <3>3. CASE ServeListen(c) \/ ServeUnlisten(c)
      BY <1>0, <3>3, ServeListenFeeds, ServeUnlistenFeeds
    <3>4. CASE RevokeListen(c) \/ Disconnect(c)
      BY <1>0, <3>4, RevokeListenFeeds, DisconnectFeeds
    <3>5. CASE Reconnect(c) \/ Crash(c)
      BY <1>0, <3>5, ReconnectFeeds, CrashFeeds
    <3> QED BY <1>5, <3>1, <3>2, <3>3, <3>4, <3>5
  <2>2. ASSUME NEW d \in Clients \ {c} PROVE Calm(d) /\ Deaf(d)'
    <3>1. Calm(d) BY <1>0, <1>5, OthersAreCalm
    <3> QED BY <1>0, <3>1, DeafIfCalm
  <2>3. ASSUME NEW p \in Posts, ~RejectsWrites, Unasked(p)', NEW d \in Clients
        PROVE  Feed(d, p)'
    <3>1. Feed(d, p) /\ Kept(d, p) BY <1>1, <2>3
    <3>2. CASE d = c BY <2>1, <3>1, <3>2
    <3>3. CASE d # c
      <4>1. repoQ'[d] = repoQ[d] /\ mainQ'[d] = mainQ[d]
        BY <1>0, <1>5, <3>3, OthersKeep DEF Serve
      <4>2. Calm(d) BY <2>2, <3>3
      <4>3. Kept(d, p)' BY <3>1, <4>1, <4>2, KeptIfSame DEF Calm
      <4> QED BY <3>1, <4>2, <4>3, FeedIfCalm
    <3> QED BY <3>2, <3>3
  <2> QED BY <2>1, <2>2, <2>3
<1> QED BY <1>2, <1>3, <1>4, <1>5 DEF Next, Serve

(* the invariant is inductive. *)
LEMMA FeedStep == FeedInv /\ [Next]_vars => FeedInv'
<1> SUFFICES ASSUME FeedInv, [Next]_vars PROVE FeedInv' OBVIOUS
<1>1. SyncInv' BY SyncStep DEF FeedInv
<1> QED BY <1>1, FeedsAll DEF FeedInv

(* A callback queue that keeps the posts nobody asked to remove tells of   *)
(* no removal of them.                                                     *)
LEMMA FeedTells == FeedInv => NoPhantomRemoval
<1> SUFFICES ASSUME FeedInv, ~RejectsWrites, NEW c \in Clients, NEW i \in DOMAIN mainQ[c],
                    mainQ[c][i].type = "removed",
                    \A d \in Clients : ~(asked[d][mainQ[c][i].post] > 0)
             PROVE  FALSE
  BY DEF NoPhantomRemoval
<1> DEFINE m == mainQ[c][i]
           p == m.post
<1>0. TypeOK BY DEF FeedInv, SyncInv, TypeInv
<1>1. m \in Callbacks /\ i \in 1 .. Len(mainQ[c])
  <2>1. mainQ[c] \in Seq(Callbacks) BY <1>0, QueueTypes
  <2> QED BY <2>1
<1>2. p \in Posts
  <2> HIDE DEF m
  <2> QED BY <1>1 DEF Callbacks, m
<1> HIDE DEF p
<1>3. Unasked(p)
  <2>1. \A d \in Clients : asked[d][p] \in Nat BY <1>0, <1>2 DEF TypeOK, PostCounts
  <2> QED BY <2>1 DEF Unasked, p
<1>4. mainQ[c] \in Seq(KeptCallbacks(p)) BY <1>2, <1>3 DEF FeedInv, Feed, Kept
<1>5. m \in KeptCallbacks(p) BY <1>1, <1>4
<1> QED BY <1>5 DEF KeptCallbacks, p

(* Each post a live screen is told to take off its list was asked to be    *)
(* removed by somebody, however responses, pushes, snapshots, relistens    *)
(* and reconnections interleave, when the server refuses no write          *)
(* (FirebaseTimelineService.swift:107-118, FSyncTree.m:509-692).           *)
THEOREM NoRemovalUnasked == Spec => []NoPhantomRemoval
<1>1. FeedInv /\ [Next]_vars => FeedInv' BY FeedStep
<1> QED BY FeedInit, <1>1, FeedTells, PTL DEF Spec

-----------------------------------------------------------------------------
(* The local writes of a client *)

(* Those without a response, on the server or nearer, and of these the     *)
(* ones the server has still to perform, in the order they were made.      *)
Unacked(c) == Unanswered(c) \o Requested(repoQ[c])
Unserved(c) == Requested(Outbox(c)) \o Requested(repoQ[c])

(* What a step may do to them: nothing, or *)
Still(c) == Unacked(c)' = Unacked(c) /\ Unserved(c)' = Unserved(c)

(* one more is made, *)
Issued(c, w) ==
  /\ Unacked(c)' = Append(Unacked(c), w)
  /\ Unserved(c)' = Append(Unserved(c), w)

(* the oldest one is answered, *)
Acked(c) ==
  /\ Unacked(c) # <<>> /\ Unacked(c)' = Tail(Unacked(c))
  /\ Unserved(c)' = Unserved(c)

(* the oldest one is performed (or refused), *)
Served(c) ==
  /\ Unserved(c) # <<>> /\ Unserved(c)' = Tail(Unserved(c))
  /\ Head(Unserved(c)) = Head(up[c])
  /\ Unacked(c)' = Unacked(c)

(* or all that have no response are to be sent again.                      *)
Resent(c) ==
  /\ Unacked(c)' = Unacked(c) /\ Unserved(c)' = Unacked(c)
  /\ \A e : Has(Unserved(c), e) => Has(Unacked(c), e)

(* Local writes in three queues. *)
LEMMA WritesAssociate ==
  \A q, r, t \in Seq(LocalWrites) : (q \o r) \o t = q \o (r \o t)
<1> TAKE q, r, t \in Seq(LocalWrites)
<1> QED BY ConcatThree

(* Blocks are orders. *)
LEMMA BlocksAreOrders ==
  /\ \A q \in Seq(Blocks) : q \in Seq(Orders) /\ Requested(q) \in Seq(LocalWrites)
  /\ Blocks \subseteq Orders
<1>1. Blocks \subseteq Orders BY DEF Orders
<1> QED BY <1>1, SeqWider, OrderedType

(* The pieces they are made of. *)
LEMMA WriteQueues ==
  ASSUME TypeOK, EveryWriteTracked, NEW c \in Clients
  PROVE  /\ Unanswered(c) \in Seq(LocalWrites) /\ Outbox(c) \in Seq(Requests)
         /\ Requested(Outbox(c)) \in Seq(LocalWrites)
         /\ Requested(repoQ[c]) \in Seq(LocalWrites)
         /\ Unacked(c) \in Seq(LocalWrites) /\ Unserved(c) \in Seq(LocalWrites)
<1>1. up[c] \in Seq(Requests) /\ repoQ[c] \in Seq(Blocks) BY QueueTypes
<1>2. PICK U \in Seq(LocalWrites) : U = Unanswered(c) BY HeldAreOldest
<1>3. U \in Seq(Requests) BY RequestedWrites
<1>4. Outbox(c) \in Seq(Requests) BY <1>1, <1>2, <1>3 DEF Outbox
<1>5. PICK O \in Seq(LocalWrites) : O = Requested(Outbox(c)) BY <1>4, RequestedType
<1>6. PICK R \in Seq(LocalWrites) : R = Requested(repoQ[c]) BY <1>1, BlocksAreOrders
<1>7. U \o R \in Seq(LocalWrites) /\ O \o R \in Seq(LocalWrites) BY ConcatProperties
<1> QED BY <1>2, <1>4, <1>5, <1>6, <1>7 DEF Unacked, Unserved

(* Nothing happens to them if the pieces stay. *)
LEMMA StillIfSame ==
  ASSUME NEW c \in Clients,
         Unanswered(c)' = Unanswered(c),
         Requested(Outbox(c))' = Requested(Outbox(c)),
         Requested(repoQ[c])' = Requested(repoQ[c])
  PROVE  Still(c)
BY DEF Still, Unacked, Unserved

(* A block dispatched is at the end, and a write only if it is one. *)
LEMMA Dispatched ==
  ASSUME TypeOK, EveryWriteTracked, NEW c \in Clients, NEW b \in Blocks,
         repoQ'[c] = Append(repoQ[c], b),
         Unanswered(c)' = Unanswered(c), Outbox(c)' = Outbox(c)
  PROVE  /\ b.type \notin WriteOps => Still(c)
         /\ b.type \in WriteOps => Issued(c, b)
<1>1. repoQ[c] \in Seq(Blocks) BY QueueTypes
<1>2. repoQ[c] \in Seq(Orders) /\ b \in Orders BY <1>1, BlocksAreOrders
<1>3. PICK R \in Seq(LocalWrites) : R = Requested(repoQ[c]) BY WriteQueues
<1>4. Requested(repoQ'[c]) = R \o RequestOf(b) BY <1>2, <1>3, OrderedAppend
<1>5. CASE b.type \notin WriteOps
  <2>1. RequestOf(b) = <<>> BY <1>5 DEF RequestOf
  <2>2. Requested(repoQ'[c]) = R BY <1>4, <2>1, ConcatEmptySeq
  <2> QED BY <1>3, <1>5, <2>2, StillIfSame
<1>6. CASE b.type \in WriteOps
  <2>1. RequestOf(b) = <<b>> BY <1>6 DEF RequestOf
  <2>2. b \in LocalWrites BY <1>6 DEF Blocks, WriteOps
  <2>3. Requested(repoQ'[c]) = R \o <<b>> BY <1>4, <2>1
  <2>4. ASSUME NEW U \in Seq(LocalWrites) PROVE U \o (R \o <<b>>) = Append(U \o R, b)
    <3>0. <<b>> \in Seq(LocalWrites) BY <2>2
    <3>1. PICK v \in Seq(LocalWrites) : v = <<b>> BY <3>0
    <3>2. U \o R \in Seq(LocalWrites) /\ U \o (R \o v) = (U \o R) \o v
      <4>1. Associates(U, R, v) BY ConcatAssociates
      <4>2. U \o R \in Seq(LocalWrites) BY ConcatProperties
      <4> QED BY <4>1, <4>2 DEF Associates
    <3>3. Append(U \o R, b) = (U \o R) \o <<b>> BY <2>2, <3>2, AppendIsConcat
    <3> QED BY <3>1, <3>2, <3>3
  <2>5. PICK U \in Seq(LocalWrites) : U = Unanswered(c) BY WriteQueues
  <2>6. PICK O \in Seq(LocalWrites) : O = Requested(Outbox(c)) BY WriteQueues
  <2>7. Unacked(c)' = Append(Unacked(c), b)
    BY <1>3, <2>3, <2>4, <2>5 DEF Unacked
  <2>8. Unserved(c)' = Append(Unserved(c), b)
    <3>1. Requested(Outbox(c))' = O BY <2>6
    <3> QED BY <1>3, <2>3, <2>4, <2>6, <3>1 DEF Unserved
  <2> QED BY <1>6, <2>7, <2>8 DEF Issued
<1> QED BY <1>5, <1>6

(* What the user does. *)
LEMMA UserWrites ==
  ASSUME TypeInv, EveryWriteTracked, NEW c \in Clients, User(c)
  PROVE  /\ OpenTimeline(c) \/ Logout(c) => Still(c)
         /\ \A p \in Posts : CreatePost(c, p) => Issued(c, Write("set", p))
         /\ \A p \in Posts : RemovePost(c, p) => Issued(c, Write("remove", p))
<1>0. TypeOK BY DEF TypeInv
<1>1. /\ up'[c] = up[c] /\ writes'[c] = writes[c] /\ held'[c] = held[c]
      /\ connected'[c] = connected[c]
  BY DEF User, OpenTimeline, Logout, CreatePost, RemovePost, sdkVars
<1>2. Unanswered(c)' = Unanswered(c) /\ Outbox(c)' = Outbox(c)
  BY <1>1 DEF Unanswered, Outbox
<1>3. ASSUME OpenTimeline(c) PROVE Still(c)
  <2> DEFINE b == [type |-> "observe", reg |-> <<"value", session'[c]>>]
  <2>1. <<"value", session'[c]>> \in Regs
    <3>1. session'[c] \in Sessions BY <1>3, UserTypes DEF TypeInv, TypeOK
    <3> QED BY <3>1 DEF Regs
  <2>2. b \in Blocks /\ b.type \notin WriteOps BY <2>1 DEF Blocks, WriteOps
  <2>3. repoQ'[c] = Append(repoQ[c], b) BY <1>0, <1>3 DEF OpenTimeline, TypeOK
  <2> HIDE DEF b
  <2> QED BY <1>0, <1>2, <2>2, <2>3, Dispatched
<1>4. ASSUME Logout(c) PROVE Still(c)
  <2>1. repoQ'[c] = repoQ[c] BY <1>4 DEF Logout
  <2> QED BY <1>2, <2>1, StillIfSame
<1>5. ASSUME NEW p \in Posts, CreatePost(c, p) PROVE Issued(c, Write("set", p))
  <2>1. Write("set", p) \in Blocks /\ Write("set", p).type \in WriteOps
    BY WriteTypes DEF Blocks, WriteOps
  <2>2. repoQ'[c] = Append(repoQ[c], Write("set", p))
    BY <1>0, <1>5 DEF CreatePost, TypeOK
  <2> QED BY <1>0, <1>2, <2>1, <2>2, Dispatched
<1>6. ASSUME NEW p \in Posts, RemovePost(c, p) PROVE Issued(c, Write("remove", p))
  <2>1. Write("remove", p) \in Blocks /\ Write("remove", p).type \in WriteOps
    BY DEF Write, Blocks, LocalWrites, WriteOps
  <2>2. repoQ'[c] = Append(repoQ[c], Write("remove", p))
    BY <1>0, <1>6 DEF RemovePost, TypeOK
  <2> QED BY <1>0, <1>2, <2>1, <2>2, Dispatched
<1> QED BY <1>3, <1>4, <1>5, <1>6

(* Three blocks that are no writes. *)
LEMMA NoneInThree ==
  ASSUME NEW i \in Orders, NEW j \in Orders, NEW k \in Orders,
         RequestOf(i) = <<>>, RequestOf(j) = <<>>, RequestOf(k) = <<>>
  PROVE  <<i, j, k>> \in Seq(Orders) /\ Requested(<<i, j, k>>) = <<>>
<1>1. <<i>> \in Seq(Orders) /\ Requested(<<i>>) = <<>> BY OrderedOne
<1>0. <<i, j>> \in Seq(Orders) OBVIOUS
<1>2. PICK v \in Seq(Orders) : v = <<i, j>> BY <1>0
<1>3. v = Append(<<i>>, j) BY <1>2, SMTT(30)
<1>4. Requested(v) = <<>> BY <1>1, <1>3, OrderedAppend, ConcatEmptySeq, SMTT(60)
<1>5. <<i, j, k>> = Append(v, k) BY <1>2, SMTT(30)
<1>6. Append(v, k) \in Seq(Orders) BY AppendProperties
<1>7. Requested(Append(v, k)) = Requested(v) \o RequestOf(k) BY OrderedAppend
<1>8. <<>> \o <<>> = <<>> BY ConcatEmptySeq
<1>9. Requested(Append(v, k)) = <<>> BY <1>4, <1>7, <1>8
<1> QED BY <1>5, <1>6, <1>9

(* What the app's callbacks do. *)
LEMMA MainThreadWrites ==
  ASSUME TypeInv, EveryWriteTracked, NEW c \in Clients, MainThread(c)
  PROVE  \/ Still(c)
         \/ \E p \in Posts : /\ Issued(c, Write("update", p))
                            /\ Has(mainQ[c], [type |-> "written", post |-> p])
<1> DEFINE m == Head(mainQ[c])
<1>0. TypeOK BY DEF TypeInv
<1>1. /\ up'[c] = up[c] /\ writes'[c] = writes[c] /\ held'[c] = held[c]
      /\ connected'[c] = connected[c] /\ mainQ[c] # <<>>
  BY DEF MainThread, PostsRetrieved, RetrievalFailed, PostAdded, PostRemoved,
         FeedEvent, PostWritten, Callback, sdkVars
<1>2. Unanswered(c)' = Unanswered(c) /\ Outbox(c)' = Outbox(c)
  BY <1>1 DEF Unanswered, Outbox
<1>3. m \in Callbacks BY <1>0, <1>1, HeadsOfQueues
<1> HIDE DEF m
<1>4. CASE PostsRetrieved(c)
  <2> DEFINE off == [type |-> "stop", reg |-> <<"value", m.session>>]
             on(kind) == [type |-> "observe", reg |-> <<kind, m.session>>]
  <2>1. \/ repoQ'[c] = repoQ[c] \o <<off>>
        \/ repoQ'[c] = repoQ[c] \o <<off, on("changed"), on("removed")>>
    BY <1>0, <1>4 DEF PostsRetrieved, TypeOK, m
  <2>2. m.type = "value" BY <1>4 DEF PostsRetrieved, Callback, m
  <2>3. m.session \in Sessions BY <1>3, <2>2 DEF Callbacks
  <2>4. /\ off \in Blocks /\ on("changed") \in Blocks /\ on("removed") \in Blocks
        /\ off.type \notin WriteOps /\ on("changed").type \notin WriteOps
        /\ on("removed").type \notin WriteOps
    BY <2>3 DEF Blocks, Regs, WriteOps
  <2> HIDE DEF off, on
  <2>5. /\ off \in Orders /\ on("changed") \in Orders /\ on("removed") \in Orders
        /\ RequestOf(off) = <<>> /\ RequestOf(on("changed")) = <<>>
        /\ RequestOf(on("removed")) = <<>>
    BY <2>4, BlocksAreOrders DEF RequestOf
  <2>6. PICK v \in Seq(Orders) : repoQ'[c] = repoQ[c] \o v /\ Requested(v) = <<>>
    <3>1. <<off>> \in Seq(Orders) /\ Requested(<<off>>) = <<>> BY <2>5, OrderedOne
    <3>2. /\ <<off, on("changed"), on("removed")>> \in Seq(Orders)
          /\ Requested(<<off, on("changed"), on("removed")>>) = <<>>
      BY <2>5, NoneInThree
    <3> QED BY <2>1, <3>1, <3>2
  <2>7. repoQ[c] \in Seq(Orders) BY <1>0, QueueTypes, BlocksAreOrders
  <2>8. PICK R \in Seq(LocalWrites) : R = Requested(repoQ[c]) BY <1>0, WriteQueues
  <2>9. Requested(repoQ'[c]) = R \o <<>> BY <2>6, <2>7, <2>8, OrderedConcat
  <2>10. Requested(repoQ'[c]) = R BY <2>9, ConcatEmptySeq
  <2> QED BY <1>2, <2>8, <2>10, StillIfSame
<1>5. CASE RetrievalFailed(c)
  <2> DEFINE b == [type |-> "stop", reg |-> <<"value", m.session>>]
  <2>1. repoQ'[c] = Append(repoQ[c], b) BY <1>0, <1>5 DEF RetrievalFailed, TypeOK, m
  <2>2. m.type = "cancelled" BY <1>5 DEF RetrievalFailed, Callback, m
  <2>3. m.session \in Sessions BY <1>3, <2>2 DEF Callbacks
  <2>4. b \in Blocks /\ b.type \notin WriteOps BY <2>3 DEF Blocks, Regs, WriteOps
  <2> HIDE DEF b
  <2> QED BY <1>0, <1>2, <2>1, <2>4, Dispatched
<1>6. CASE PostAdded(c) \/ PostRemoved(c)
  <2>1. repoQ'[c] = repoQ[c] BY <1>6 DEF PostAdded, PostRemoved, FeedEvent
  <2> QED BY <1>2, <2>1, StillIfSame
<1>7. CASE PostWritten(c)
  <2> DEFINE b == Write("update", m.post)
  <2>1. repoQ'[c] = Append(repoQ[c], b) BY <1>0, <1>7 DEF PostWritten, TypeOK, m
  <2>2. m.type = "written" BY <1>7 DEF PostWritten, Callback, m
  <2>3. m.post \in Posts BY <1>3, <2>2 DEF Callbacks
  <2>4. b \in Blocks /\ b.type \in WriteOps
    BY <2>3 DEF Write, Blocks, LocalWrites, WriteOps
  <2> HIDE DEF b
  <2>5. Issued(c, b) BY <1>0, <1>2, <2>1, <2>4, Dispatched
  <2>6. m = [type |-> "written", post |-> m.post] BY <1>3, <2>2 DEF Callbacks
  <2>7. Has(mainQ[c], m) BY <1>0, <1>1, HasInHead DEF TypeOK, m
  <2> QED BY <2>3, <2>5, <2>6, <2>7 DEF b
<1> QED BY <1>4, <1>5, <1>6, <1>7 DEF MainThread

(* What follows a prefix, of a longer sequence. *)
LEMMA RestOfConcat ==
  ASSUME NEW T, NEW q \in Seq(T), NEW v \in Seq(T), NEW n \in 0 .. Len(q)
  PROVE  SubSeq(q \o v, n + 1, Len(q \o v)) = SubSeq(q, n + 1, Len(q)) \o v
<1> DEFINE s == SubSeq(q, 1, n)
           r == SubSeq(q, n + 1, Len(q))
<1>1. Len(q) \in Nat /\ n \in Nat OBVIOUS
<1>2. s \in Seq(T) /\ Len(s) = n /\ \A i \in 1 .. n : s[i] = q[i]
  BY <1>1, SubSeqProperties, \A i \in 1 .. n : q[i] \in T
<1>3. SubSeq(q, 1, Len(s)) = s BY <1>2
<1>4. IsPrefix(s, q)
  <2>1. SubSeq(s, 1, Len(s)) = s BY <1>2, SubSeqFull
  <2> QED BY <1>1, <1>2, <1>3, <2>1 DEF IsPrefix
<1>5. r \in Seq(T) /\ q = s \o r BY <1>2, <1>4, PrefixAndRest
<1> HIDE DEF s, r
<1>6. r \o v \in Seq(T) /\ q \o v = s \o (r \o v) BY <1>2, <1>5, ConcatThree
<1>7. PICK w \in Seq(T) : w = r \o v BY <1>6
<1>8. SubSeq(s \o w, Len(s) + 1, Len(s \o w)) = w BY <1>2, ConcatParts
<1>9. SubSeq(q \o v, n + 1, Len(q \o v)) = w BY <1>2, <1>6, <1>7, <1>8
<1> QED BY <1>7, <1>9 DEF r

(* A write goes from the SDK's queue to the write tree and the socket, *)
LEMMA RepoBlockWrites ==
  ASSUME TypeInv, EveryWriteTracked, NEW c \in Clients, RepoBlock(c)
  PROVE  Still(c)
<1> DEFINE b == Head(repoQ[c])
<1>0. TypeOK BY DEF TypeInv
<1>1. /\ repoQ[c] # <<>> /\ repoQ'[c] = Tail(repoQ[c])
      /\ connected'[c] = connected[c] /\ held'[c] = held[c]
  BY <1>0 DEF RepoBlock, AddObserver, RemoveObserver, LocalWrite, Block, TypeOK
<1>2. /\ repoQ[c] \in Seq(Blocks) /\ writes[c] \in Seq(LocalWrites)
      /\ up[c] \in Seq(Requests) /\ b \in Blocks
  BY <1>0, <1>1, QueueTypes, HeadsOfQueues
<1>3. repoQ[c] \in Seq(Orders) /\ Tail(repoQ[c]) \in Seq(Orders)
  BY <1>1, <1>2, BlocksAreOrders, HeadTailProperties
<1>4. PICK R \in Seq(LocalWrites) : R = Requested(repoQ'[c])
  BY <1>1, <1>3, OrderedType
<1>5. Requested(repoQ[c]) = RequestOf(b) \o R BY <1>1, <1>3, <1>4, OrderedHead
<1> HIDE DEF b
<1>6. ASSUME NEW m \in Requests, Send(c, <<m>>), m.type \notin WriteOps,
             writes'[c] = writes[c]
      PROVE  /\ Requested(Outbox(c))' = Requested(Outbox(c))
             /\ Unanswered(c)' = Unanswered(c)
  <2>1. Unanswered(c)' = Unanswered(c) BY <1>1, <1>6 DEF Unanswered
  <2>2. CASE connected[c]
    <3>1. up'[c] = Append(up[c], m) BY <1>0, <1>6, <2>2, SendOne
    <3>2. PICK q \in Seq(LocalWrites) : q = Requested(up[c]) BY <1>2, RequestedType
    <3>3. Requested(Append(up[c], m)) = q \o RequestOf(m)
      BY <1>2, <3>2, RequestedAppend
    <3>4. RequestOf(m) = <<>> BY <1>6 DEF RequestOf
    <3>5. Requested(up'[c]) = q BY <3>1, <3>3, <3>4, ConcatEmptySeq
    <3>6. connected'[c] BY <1>1, <2>2
    <3>7. Outbox(c) = up[c] /\ Outbox(c)' = up'[c] BY <2>2, <3>6 DEF Outbox
    <3> QED BY <2>1, <3>2, <3>5, <3>7
  <2>3. CASE ~connected[c]
    <3>1. Outbox(c)' = Outbox(c) BY <1>1, <2>1, <2>3 DEF Outbox
    <3> QED BY <2>1, <3>1
  <2> QED BY <2>2, <2>3
<1>7. ASSUME Send(c, <<>>), writes'[c] = writes[c]
      PROVE  /\ Requested(Outbox(c))' = Requested(Outbox(c))
             /\ Unanswered(c)' = Unanswered(c)
  <2>0. [type |-> "listen"] \in Requests BY DEF Requests
  <2>1. up'[c] = up[c] BY <1>0, <1>7, <2>0, SendOne
  <2> QED BY <1>1, <1>7, <2>1 DEF Outbox, Unanswered
<1>8. CASE AddObserver(c) \/ RemoveObserver(c)
  <2>1. b.type \notin WriteOps /\ writes'[c] = writes[c]
    BY <1>0, <1>8 DEF AddObserver, RemoveObserver, Block, TypeOK, b, WriteOps
  <2>2. RequestOf(b) = <<>> BY <2>1 DEF RequestOf
  <2>3. Requested(repoQ[c]) = R BY <1>5, <2>2, ConcatEmptySeq
  <2>4. \/ Send(c, <<>>)
        \/ \E m \in Requests : Send(c, <<m>>) /\ m.type \notin WriteOps
    <3>1. /\ [type |-> "listen"] \in Requests /\ [type |-> "unlisten"] \in Requests
          /\ "listen" \notin WriteOps /\ "unlisten" \notin WriteOps
      BY DEF Requests, WriteOps
    <3>2. CASE AddObserver(c)
      <4>1. Send(c, <<>>) \/ Send(c, <<[type |-> "listen"]>>) BY <3>2 DEF AddObserver
      <4> QED BY <3>1, <4>1
    <3>3. CASE RemoveObserver(c)
      <4>1. Send(c, <<>>) \/ Send(c, <<[type |-> "unlisten"]>>)
        BY <3>3 DEF RemoveObserver
      <4> QED BY <3>1, <4>1
    <3> QED BY <1>8, <3>2, <3>3
  <2>5. /\ Requested(Outbox(c))' = Requested(Outbox(c))
        /\ Unanswered(c)' = Unanswered(c)
    BY <1>6, <1>7, <2>1, <2>4
  <2> QED BY <1>4, <2>3, <2>5, StillIfSame
<1>9. CASE LocalWrite(c)
  <2>1. /\ b.type \in WriteOps /\ writes'[c] = Append(writes[c], b)
        /\ Send(c, <<b>>)
    BY <1>0, <1>9 DEF LocalWrite, Block, TypeOK, b
  <2>2. b \in LocalWrites BY <1>2, <2>1 DEF Blocks, WriteOps
  <2>3. b \in Requests BY <2>2 DEF Requests
  <2>4. RequestOf(b) = <<b>> BY <2>1 DEF RequestOf
  <2>5. <<b>> \in Seq(LocalWrites) BY <2>2
  <2>6. PICK v \in Seq(LocalWrites) : v = <<b>> BY <2>5
  <2>7. Requested(repoQ[c]) = v \o R BY <1>5, <2>4, <2>6
  <2>8. PICK U \in Seq(LocalWrites) : U = Unanswered(c) BY <1>0, WriteQueues
  <2>9. Unanswered(c)' = U \o v
    <3>1. Len(held[c]) \in 0 .. Len(writes[c])
      BY <1>0, <1>2, HeldAreOldest DEF TypeOK
    <3>2. writes[c] \o <<b>> = Append(writes[c], b) BY <1>2, <2>2, AppendIsConcat
    <3>3. Unanswered(c)' = SubSeq(writes[c] \o v, Len(held[c]) + 1, Len(writes[c] \o v))
      BY <1>1, <2>1, <2>6, <3>2 DEF Unanswered
    <3> QED BY <1>2, <2>8, <3>1, <3>3, RestOfConcat DEF Unanswered
  <2>10. PICK O \in Seq(LocalWrites) : O = Requested(Outbox(c)) BY <1>0, WriteQueues
  <2>11. Requested(Outbox(c))' = O \o v
    <3>1. CASE connected[c]
      <4>1. up'[c] = Append(up[c], b) BY <1>0, <2>1, <2>3, <3>1, SendOne
      <4>2. Outbox(c) = up[c] /\ Outbox(c)' = up'[c] BY <1>1, <3>1 DEF Outbox
      <4>3. Requested(Append(up[c], b)) = Requested(up[c]) \o RequestOf(b)
        BY <1>2, <2>3, RequestedAppend
      <4> QED BY <2>4, <2>6, <2>10, <4>1, <4>2, <4>3
    <3>2. CASE ~connected[c]
      <4>1. Outbox(c) = U /\ Outbox(c)' = U \o v BY <1>1, <2>8, <2>9, <3>2 DEF Outbox
      <4>2. U \o v \in Seq(LocalWrites) BY ConcatProperties
      <4>3. O = U BY <2>10, <4>1, RequestedWrites
      <4>4. Requested(U \o v) = U \o v BY <4>2, RequestedWrites
      <4> QED BY <4>1, <4>3, <4>4, SMTT(30)
    <3> QED BY <3>1, <3>2
  <2>12. ASSUME NEW q \in Seq(LocalWrites) PROVE (q \o v) \o R = q \o (v \o R)
    BY ConcatThree, SMTT(60)
  <2>13. Unacked(c)' = Unacked(c)
    BY <1>4, <2>7, <2>8, <2>9, <2>12 DEF Unacked
  <2>14. Unserved(c)' = Unserved(c)
    BY <1>4, <2>7, <2>10, <2>11, <2>12 DEF Unserved
  <2> QED BY <2>13, <2>14 DEF Still
<1> QED BY <1>8, <1>9 DEF RepoBlock

(* Head and tail of a concatenation, *)
LEMMA TailOfConcat ==
  ASSUME NEW T, NEW q \in Seq(T), NEW r \in Seq(T), q # <<>>
  PROVE  /\ q \o r \in Seq(T) /\ q \o r # <<>>
         /\ Head(q \o r) = Head(q) /\ Tail(q \o r) = Tail(q) \o r
<1>1. PICK h \in T, t \in Seq(T) : h = Head(q) /\ t = Tail(q) /\ q = <<h>> \o t
  BY HeadThenTail
<1>2. PICK s \in Seq(T) : s = t \o r BY ConcatProperties
<1>3. q \o r = <<h>> \o s
  <2>1. <<h>> \in Seq(T) OBVIOUS
  <2>2. PICK v \in Seq(T) : v = <<h>> BY <2>1
  <2>3. Associates(v, t, r) BY ConcatAssociates
  <2> QED BY <1>1, <1>2, <2>2, <2>3 DEF Associates
<1>4. /\ <<h>> \o s \in Seq(T) /\ <<h>> \o s # <<>>
      /\ Head(<<h>> \o s) = h /\ Tail(<<h>> \o s) = s
  BY HeadOfConcat
<1> QED BY <1>1, <1>2, <1>3, <1>4

(* and of what follows a prefix. *)
LEMMA TailOfRest ==
  ASSUME NEW T, NEW q \in Seq(T), NEW n \in Nat, n < Len(q)
  PROVE  /\ SubSeq(q, n + 1, Len(q)) # <<>>
         /\ SubSeq(q, n + 2, Len(q)) = Tail(SubSeq(q, n + 1, Len(q)))
<1> DEFINE r == SubSeq(q, n + 1, Len(q))
<1>1. Len(q) \in Nat /\ n + 1 \in 1 .. Len(q) OBVIOUS
<1>2. r = <<q[n + 1]>> \o SubSeq(q, n + 2, Len(q))
  <2>1. (n + 1) + 1 = n + 2 OBVIOUS
  <2> QED BY <1>1, <2>1, SubSeqRecursiveFirst
<1>3. q[n + 1] \in T /\ SubSeq(q, n + 2, Len(q)) \in Seq(T)
  <2>1. \A i \in n + 2 .. Len(q) : q[i] \in T BY <1>1
  <2> QED BY <1>1, <2>1, SubSeqProperties
<1> HIDE DEF r
<1>4. r # <<>> /\ Tail(r) = SubSeq(q, n + 2, Len(q))
  <2>1. PICK e \in T, t \in Seq(T) : e = q[n + 1] /\ t = SubSeq(q, n + 2, Len(q))
    BY <1>3
  <2>2. r = <<e>> \o t BY <1>2, <2>1
  <2>3. <<e>> \o t # <<>> /\ Tail(<<e>> \o t) = t BY HeadOfConcat
  <2> QED BY <2>1, <2>2, <2>3
<1> QED BY <1>4 DEF r

(* A response ends the wait of the oldest write, when it comes or when it  *)
(* is held back.                                                           *)
LEMMA ReceiveWrites ==
  ASSUME TypeInv, EveryWriteTracked, NEW c \in Clients, connected[c], Receive(c)
  PROVE  /\ Still(c) \/ ReceiveAck(c)
         /\ ReceiveAck(c) => Acked(c) /\ Head(Unacked(c)) = Head(down[c]).write
<1>0. TypeOK BY DEF TypeInv
<1>1. /\ connected'[c] = connected[c] /\ up'[c] = up[c] /\ repoQ'[c] = repoQ[c]
  BY DEF Receive, ReceivePush, ReceiveSnapshot, ReceiveAck, ReceiveRefusal,
         ReceiveRevocation
<1>2. Outbox(c)' = Outbox(c) BY <1>1 DEF Outbox
<1>3. PICK U \in Seq(LocalWrites) : U = Unanswered(c) BY <1>0, WriteQueues
<1>4. ASSUME Unanswered(c)' = U PROVE Still(c)
  BY <1>1, <1>2, <1>3, <1>4, StillIfSame
<1>5. ASSUME writes'[c] = writes[c], held'[c] = held[c] PROVE Still(c)
  BY <1>3, <1>4, <1>5 DEF Unanswered
<1>6. ASSUME writes'[c] = AckPuts(c, Len(held[c])), held'[c] = <<>> PROVE Still(c)
  <2>1. writes'[c] = U BY <1>0, <1>3, <1>6, AckPutsRest
  <2>2. Unanswered(c)' = SubSeq(U, 0 + 1, Len(U)) BY <1>6, <2>1 DEF Unanswered
  <2>3. SubSeq(U, 0 + 1, Len(U)) = U BY SubSeqFull, 0 + 1 = 1
  <2> QED BY <1>4, <2>2, <2>3
<1>7. ASSUME ReceivePush(c) \/ ReceiveRevocation(c) PROVE Still(c)
  <2>1. writes'[c] = writes[c] /\ held'[c] = held[c]
    BY <1>7 DEF ReceivePush, ReceiveRevocation
  <2> QED BY <1>5, <2>1
<1>8. ASSUME ReceiveSnapshot(c) PROVE Still(c)
  <2> DEFINE wait == ListenPending(up[c], Tail(down[c]))
  <2>1. /\ writes'[c] = IF wait THEN writes[c] ELSE AckPuts(c, Len(held[c]))
        /\ held'[c] = IF wait THEN held[c] ELSE <<>>
    BY <1>0, <1>8 DEF ReceiveSnapshot, TypeOK
  <2> HIDE DEF wait
  <2> QED BY <1>5, <1>6, <2>1
<1>9. ASSUME ReceiveRefusal(c) PROVE Still(c)
  <2>1. CASE ListenPending(up[c], Tail(down[c]))
    <3>1. writes'[c] = writes[c] /\ held'[c] = held[c]
      BY <1>9, <2>1 DEF ReceiveRefusal, sdkVars
    <3> QED BY <1>5, <3>1
  <2>2. CASE ~ListenPending(up[c], Tail(down[c]))
    <3>1. writes'[c] = AckPuts(c, Len(held[c])) /\ held'[c] = <<>>
      BY <1>0, <1>9, <2>2 DEF ReceiveRefusal, TypeOK
    <3> QED BY <1>6, <3>1
  <2> QED BY <2>1, <2>2
<1>10. ASSUME ReceiveAck(c)
       PROVE  Acked(c) /\ Head(Unacked(c)) = Head(down[c]).write
  <2> DEFINE ack == Head(down[c])
             h == Len(held[c])
  <2>0. Message(c, "ack") BY <1>10 DEF ReceiveAck
  <2>1. PICK A \in Seq(LocalWrites) : A = Answered(held[c]) BY <1>0, HeldAreOldest
  <2>2. PICK D \in Seq(LocalWrites) : D = Answered(Tail(down[c]))
    <3>1. Tail(down[c]) \in Seq(Responses) BY <1>0, <2>0, HeadsOfQueues DEF Message
    <3> QED BY <3>1, AnsweredType
  <2>3. PICK Q \in Seq(LocalWrites) : Q = Requested(up[c]) BY <1>0, QueueTypes
  <2>4. /\ ack \in Acks /\ ack.write \in LocalWrites
        /\ Answered(down[c]) = <<ack.write>> \o D
        /\ Left(c, ack) = A \o D \o Q
    <3>1. ack \in Acks BY <1>0, <2>0, LeftRest
    <3>2. ack.write \in LocalWrites BY <3>1 DEF Acks
    <3> QED BY <1>0, <2>0, <2>1, <2>2, <2>3, <3>1, <3>2, LeftRest
  <2>5. PICK W \in Seq(LocalWrites) : W = D \o Q BY ConcatProperties, ZenonT(60)
  <2>6. U = <<ack.write>> \o W
    <3>1. <<ack.write>> \in Seq(LocalWrites) BY <2>4
    <3>2. PICK v \in Seq(LocalWrites) : v = <<ack.write>> BY <3>1
    <3>3. U = (v \o D) \o Q BY <1>0, <1>3, <2>3, <2>4, <3>2, HeldAreOldest
    <3>4. (v \o D) \o Q = v \o (D \o Q) BY WritesAssociate, ZenonT(60)
    <3> QED BY <2>5, <3>2, <3>3, <3>4
  <2>7. PICK e \in LocalWrites : e = ack.write BY <2>4
  <2>8. <<e>> \o W # <<>> /\ Head(<<e>> \o W) = e /\ Tail(<<e>> \o W) = W
    BY HeadOfConcat
  <2>9. U # <<>> /\ Head(U) = ack.write /\ Tail(U) = W BY <2>6, <2>7, <2>8
  <2>10. Unanswered(c)' = W
    <3>1. writes[c] \in Seq(LocalWrites) /\ h \in Nat /\ h <= Len(writes[c])
      BY <1>0, HeldAreOldest DEF TypeOK
    <3>2. CASE ListenPending(up[c], down[c])
      <4>1. held'[c] = Append(held[c], ack) /\ writes'[c] = writes[c]
        BY <1>0, <1>10, <3>2 DEF ReceiveAck, TypeOK
      <4>2. Len(held'[c]) = h + 1 BY <1>0, <2>4, <4>1 DEF TypeOK
      <4>3. Unanswered(c)' = SubSeq(writes[c], h + 2, Len(writes[c]))
        <5>1. (h + 1) + 1 = h + 2 BY <3>1
        <5> QED BY <4>1, <4>2, <5>1 DEF Unanswered
      <4>4. h < Len(writes[c])
        <5> SUFFICES ASSUME ~(h < Len(writes[c])) PROVE FALSE OBVIOUS
        <5>1. h = Len(writes[c]) BY <3>1
        <5>2. SubSeq(writes[c], h + 1, Len(writes[c])) = <<>>
          BY <3>1, <5>1, SubSeqEmpty
        <5> QED BY <1>3, <2>9, <5>2 DEF Unanswered
      <4>5. SubSeq(writes[c], h + 2, Len(writes[c]))
              = Tail(SubSeq(writes[c], h + 1, Len(writes[c])))
        BY <3>1, <4>4, TailOfRest
      <4> QED BY <1>3, <2>9, <4>3, <4>5 DEF Unanswered
    <3>3. CASE ~ListenPending(up[c], down[c])
      <4>1. held'[c] = held[c] /\ writes'[c] = Left(c, ack)
        BY <1>0, <1>10, <3>3 DEF ReceiveAck, TypeOK
      <4>2. A \o W = (A \o D) \o Q
        <5>1. Associates(A, D, Q) BY ConcatAssociates
        <5> QED BY <2>5, <5>1 DEF Associates
      <4>3. writes'[c] = A \o W BY <2>4, <4>1, <4>2
      <4>4. Len(A) = h BY <1>0, <2>1, AnsweredAcks DEF TypeOK
      <4>5. SubSeq(A \o W, Len(A) + 1, Len(A \o W)) = W BY ConcatParts
      <4> QED BY <4>1, <4>3, <4>4, <4>5 DEF Unanswered
    <3> QED BY <3>2, <3>3
  <2>11. PICK R \in Seq(LocalWrites) : R = Requested(repoQ[c]) BY <1>0, WriteQueues
  <2>12. U \o R # <<>> /\ Head(U \o R) = ack.write /\ Tail(U \o R) = W \o R
    BY <2>9, TailOfConcat, ZenonT(60)
  <2>13. Unacked(c) = U \o R /\ Unacked(c)' = W \o R
    BY <1>1, <1>3, <2>10, <2>11 DEF Unacked
  <2>14. Unserved(c)' = Unserved(c) BY <1>1, <1>2 DEF Unserved
  <2> QED BY <2>12, <2>13, <2>14 DEF Acked
<1> QED BY <1>7, <1>8, <1>9, <1>10 DEF Receive

(* The server performs the oldest write of a client, or none. *)
LEMMA ServeWrites ==
  ASSUME TypeInv, EveryWriteTracked, NEW c \in Clients, connected[c], Serve(c)
  PROVE  /\ ~ServeWrite(c) => Still(c)
         /\ ServeWrite(c) => Served(c)
<1>0. TypeOK BY DEF TypeInv
<1>1. /\ connected'[c] = connected[c] /\ writes'[c] = writes[c]
      /\ held'[c] = held[c] /\ repoQ'[c] = repoQ[c]
      /\ up[c] # <<>> /\ up'[c] = Tail(up[c])
  BY <1>0 DEF Serve, ServeListen, ServeUnlisten, ServeWrite, Request, TypeOK, sdkVars
<1>2. Unanswered(c)' = Unanswered(c) BY <1>1 DEF Unanswered
<1>3. Outbox(c) = up[c] /\ Outbox(c)' = Tail(up[c]) BY <1>1 DEF Outbox
<1>4. PICK Q \in Seq(LocalWrites) : Q = Requested(Tail(up[c])) BY <1>0, <1>1, Asked
<1>5. CASE ~ServeWrite(c)
  <2>1. Head(up[c]).type \notin WriteOps
    BY <1>5 DEF Serve, ServeListen, ServeUnlisten, Request, WriteOps
  <2>2. Requested(up[c]) = Q BY <1>0, <1>1, <1>4, <2>1, Asked
  <2> QED BY <1>1, <1>2, <1>3, <1>4, <1>5, <2>2, StillIfSame
<1>6. CASE ServeWrite(c)
  <2>1. PICK w \in LocalWrites : w = Head(up[c]) BY <1>0, <1>6, ServeWriteDef
  <2>2. w.type \in WriteOps BY DEF LocalWrites
  <2>3. RequestOf(w) = <<w>> BY <2>2 DEF RequestOf
  <2>4. Requested(up[c]) = <<w>> \o Q BY <1>0, <1>1, <1>4, <2>1, <2>3, Asked
  <2>5. PICK R \in Seq(LocalWrites) : R = Requested(repoQ[c]) BY <1>0, WriteQueues
  <2>6. PICK V \in Seq(LocalWrites) : V = <<w>> \o Q BY HeadOfConcat
  <2>7. V # <<>> /\ Head(V) = w /\ Tail(V) = Q BY <2>6, HeadOfConcat
  <2>8. V \o R # <<>> /\ Head(V \o R) = w /\ Tail(V \o R) = Q \o R
    BY <2>7, TailOfConcat
  <2>9. Unserved(c) = V \o R BY <1>3, <2>4, <2>5, <2>6 DEF Unserved
  <2>10. Unserved(c)' = Q \o R BY <1>1, <1>3, <1>4, <2>5 DEF Unserved
  <2>11. Unacked(c)' = Unacked(c) BY <1>1, <1>2 DEF Unacked
  <2> QED BY <1>6, <2>1, <2>8, <2>9, <2>10, <2>11 DEF Served
<1> QED BY <1>5, <1>6

(* With a lost connection everything without a response is to be sent      *)
(* again; a crash forgets it all.                                          *)
LEMMA ConnectionWrites ==
  ASSUME TypeInv, EveryWriteTracked, NEW c \in Clients
  PROVE  /\ RevokeListen(c) \/ Reconnect(c) => Still(c)
         /\ Disconnect(c) => Resent(c)
         /\ Crash(c) => Unacked(c)' = <<>> /\ Unserved(c)' = <<>>
<1>0. TypeOK BY DEF TypeInv
<1>1. PICK U \in Seq(LocalWrites) : U = Unanswered(c) BY <1>0, WriteQueues
<1>2. PICK R \in Seq(LocalWrites) : R = Requested(repoQ[c]) BY <1>0, WriteQueues
<1>3. Requested(U) = U BY RequestedWrites
<1>4. ASSUME RevokeListen(c) PROVE Still(c)
  <2>1. Unanswered(c)' = U /\ repoQ'[c] = repoQ[c] /\ Outbox(c)' = Outbox(c)
    BY <1>1, <1>4 DEF RevokeListen, Unanswered, Outbox, sdkVars
  <2> QED BY <1>1, <2>1, StillIfSame
<1>5. ASSUME Reconnect(c) PROVE Still(c)
  <2>1. /\ Unanswered(c)' = U /\ repoQ'[c] = repoQ[c]
        /\ ~connected[c] /\ connected'[c] /\ up'[c] = Relisten(c) \o U
    BY <1>0, <1>1, <1>5 DEF Reconnect, Reconnected, Unanswered, TypeOK, sdkVars
  <2>2. Relisten(c) \in Seq(Requests) /\ Requested(Relisten(c)) = <<>>
    <3>1. [type |-> "listen"] \in Requests BY DEF Requests
    <3>2. RequestOf([type |-> "listen"]) = <<>> BY DEF RequestOf, WriteOps
    <3>3. <<[type |-> "listen"]>> \in Seq(Requests) /\ <<>> \in Seq(Requests) BY <3>1
    <3> QED BY <3>1, <3>2, <3>3, RequestedOne, RequestedEmpty DEF Relisten
  <2>3. PICK L \in Seq(Requests) : L = Relisten(c) BY <2>2
  <2>4. PICK V \in Seq(Requests) : V = U BY RequestedWrites
  <2>5. Requested(L \o V) = Requested(L) \o Requested(V) BY RequestedConcat
  <2>6. Requested(up'[c]) = U
    <3>1. Requested(up'[c]) = <<>> \o U BY <1>3, <2>1, <2>2, <2>3, <2>4, <2>5
    <3> QED BY <3>1, ConcatEmptySeq
  <2>7. Outbox(c) = U /\ Outbox(c)' = up'[c] BY <1>1, <2>1 DEF Outbox
  <2> QED BY <1>1, <1>3, <2>1, <2>6, <2>7, StillIfSame
<1>6. ASSUME Disconnect(c) PROVE Resent(c)
  <2>1. /\ Unanswered(c)' = U /\ repoQ'[c] = repoQ[c]
        /\ connected[c] /\ ~connected'[c]
    BY <1>0, <1>1, <1>6 DEF Disconnect, Unanswered, TypeOK, sdkVars
  <2>2. PICK Q \in Seq(LocalWrites) : Q = Requested(up[c]) BY <1>0, QueueTypes
  <2>3. PICK D \in Seq(LocalWrites) : D = Answered(down[c]) BY <1>0, QueueTypes
  <2>4. U = D \o Q BY <1>0, <1>1, <2>1, <2>2, <2>3, HeldAreOldest
  <2>5. Unacked(c) = U \o R BY <1>1, <1>2 DEF Unacked
  <2>6. Unserved(c) = Q \o R BY <1>2, <2>1, <2>2 DEF Unserved, Outbox
  <2>7. Unacked(c)' = U \o R BY <1>2, <2>1 DEF Unacked
  <2>8. Unserved(c)' = U \o R
    <3>1. Outbox(c)' = U BY <2>1 DEF Outbox
    <3> QED BY <1>2, <1>3, <2>1, <3>1 DEF Unserved
  <2>9. \A e : Has(Q \o R, e) => Has(U \o R, e)
    <3>1. \A e : Has(Q \o R, e) <=> Has(Q, e) \/ Has(R, e) BY HasInConcat
    <3>2. \A e : Has(U \o R, e) <=> Has(U, e) \/ Has(R, e) BY HasInConcat
    <3>3. \A e : Has(D \o Q, e) <=> Has(D, e) \/ Has(Q, e) BY HasInConcat
    <3> QED BY <2>4, <3>1, <3>2, <3>3
  <2> QED BY <2>5, <2>6, <2>7, <2>8, <2>9 DEF Resent
<1>7. ASSUME Crash(c) PROVE Unacked(c)' = <<>> /\ Unserved(c)' = <<>>
  <2>1. /\ writes'[c] = <<>> /\ held'[c] = <<>> /\ up'[c] = <<>> /\ repoQ'[c] = <<>>
        /\ connected'[c]
    BY <1>0, <1>7 DEF Crash, TypeOK
  <2>2. Unanswered(c)' = <<>>
    <3>1. SubSeq(<<>>, 1, 0) = <<>> BY SubSeqEmpty
    <3>2. Len(<<>>) = 0 /\ 0 + 1 = 1 OBVIOUS
    <3> QED BY <2>1, <3>1, <3>2 DEF Unanswered
  <2>3. Outbox(c)' = <<>> BY <2>1 DEF Outbox
  <2>4. <<>> \o <<>> = <<>> BY ConcatEmptySeq, <<>> \in Seq(LocalWrites)
  <2>5. Requested(repoQ[c])' = <<>> /\ Requested(Outbox(c))' = <<>>
    BY <2>1, <2>3, RequestedEmpty
  <2> QED BY <2>2, <2>4, <2>5 DEF Unacked, Unserved
<1> QED BY <1>4, <1>5, <1>6, <1>7

-----------------------------------------------------------------------------
(* Every step *)

(* A step that client c, its connection or its server takes. *)
ActionOf(c) ==
  \/ User(c) \/ MainThread(c) \/ RepoBlock(c) \/ Receive(c) \/ Serve(c)
  \/ RevokeListen(c) \/ Disconnect(c) \/ Reconnect(c) \/ Crash(c)

(* What users ask for is never forgotten, and counted where they ask. *)
LEMMA HistoryGrows ==
  ASSUME TypeOK, [Next]_vars
  PROVE  /\ drops \in Nat /\ drops' \in Nat /\ drops <= drops'
         /\ crashes \in Nat /\ crashes' \in Nat /\ crashes <= crashes'
         /\ posted \subseteq posted'
         /\ \A c \in Clients, p \in Posts :
              /\ asked[c][p] \in Nat /\ asked'[c][p] \in Nat /\ asked[c][p] <= asked'[c][p]
              /\ asked'[c][p] # asked[c][p] => RemovePost(c, p)
         /\ \A p \in Posts : p \in posted' \ posted => CreatePost(Creator[p], p)
<1>0. /\ drops \in Nat /\ crashes \in Nat
      /\ \A c \in Clients : asked[c] \in [Posts -> Nat]
  BY BoundsAssumption DEF TypeOK, PostCounts
<1>1. CASE UNCHANGED <<posted, asked, drops, crashes>> BY <1>0, <1>1
<1>2. CASE UNCHANGED vars BY <1>1, <1>2 DEF vars, historyVars, envVars
<1>3. ASSUME NEW c \in Clients, User(c) PROVE UNCHANGED <<drops, crashes>>
  BY <1>3 DEF User, OpenTimeline, Logout, CreatePost, RemovePost, envVars
<1>4. ASSUME NEW c \in Clients, OpenTimeline(c) \/ Logout(c)
      PROVE  UNCHANGED <<posted, asked, drops, crashes>>
  BY <1>4 DEF OpenTimeline, Logout, historyVars, envVars
<1>5. ASSUME NEW c \in Clients, NEW q \in Posts, CreatePost(c, q)
      PROVE  /\ posted' = posted \cup {q} /\ asked' = asked /\ Creator[q] = c
             /\ UNCHANGED <<drops, crashes>>
  BY <1>5 DEF CreatePost, envVars
<1>6. ASSUME NEW c \in Clients, NEW q \in Posts, RemovePost(c, q)
      PROVE  /\ posted' = posted /\ UNCHANGED <<drops, crashes>>
             /\ asked' = [asked EXCEPT ![c][q] = @ + 1]
             /\ \A d \in Clients, p \in Posts :
                  asked'[d][p] = IF d = c /\ p = q THEN asked[d][p] + 1 ELSE asked[d][p]
  <2>1. /\ posted' = posted /\ UNCHANGED <<drops, crashes>>
        /\ asked' = [asked EXCEPT ![c][q] = @ + 1]
    BY <1>6 DEF RemovePost, envVars
  <2> QED BY <1>0, <2>1 DEF TypeOK
<1>7. ASSUME NEW c \in Clients,
             MainThread(c) \/ RepoBlock(c) \/ Receive(c) \/ Serve(c) \/ Reconnect(c)
      PROVE  UNCHANGED <<posted, asked, drops, crashes>>
  <2>1. CASE MainThread(c)
    BY <2>1 DEF MainThread, PostsRetrieved, RetrievalFailed, PostAdded, PostRemoved,
                FeedEvent, PostWritten, historyVars, envVars
  <2>2. CASE RepoBlock(c)
      BY <2>2 DEF RepoBlock, AddObserver, RemoveObserver, LocalWrite, historyVars, envVars
  <2>3. CASE Receive(c)
    BY <2>3 DEF Receive, ReceivePush, ReceiveSnapshot, ReceiveAck, ReceiveRefusal,
                ReceiveRevocation, historyVars, envVars
  <2>4. CASE Serve(c)
    BY <2>4 DEF Serve, ServeListen, ServeUnlisten, ServeWrite, historyVars, envVars
  <2>5. CASE Reconnect(c)
    BY <2>5 DEF Reconnect, Reconnected, historyVars, envVars
  <2> QED BY <1>7, <2>1, <2>2, <2>3, <2>4, <2>5
<1>8. ASSUME NEW c \in Clients, RevokeListen(c) \/ Disconnect(c) \/ Crash(c)
      PROVE  /\ UNCHANGED <<posted, asked>>
             /\ drops' \in {drops, drops + 1} /\ crashes' \in {crashes, crashes + 1}
  BY <1>8 DEF RevokeListen, Disconnect, Crash
<1>9. ASSUME UNCHANGED <<posted, asked>>,
             drops' \in {drops, drops + 1}, crashes' \in {crashes, crashes + 1}
      PROVE  /\ drops' \in Nat /\ drops <= drops' /\ crashes' \in Nat /\ crashes <= crashes'
             /\ posted \subseteq posted' /\ posted' \ posted = {}
             /\ \A c \in Clients, p \in Posts :
                  /\ asked'[c][p] \in Nat /\ asked[c][p] <= asked'[c][p]
                  /\ asked'[c][p] = asked[c][p]
  BY <1>0, <1>9
<1>10. ASSUME NEW c \in Clients, NEW q \in Posts, CreatePost(c, q) PROVE
         /\ posted \subseteq posted' /\ \A p \in Posts : p \in posted' \ posted => p = q
  BY <1>5, <1>10
<1>11. ASSUME NEW c \in Clients, NEW q \in Posts, RemovePost(c, q) PROVE
         \A d \in Clients, p \in Posts :
            /\ asked'[d][p] \in Nat /\ asked[d][p] <= asked'[d][p]
            /\ asked'[d][p] # asked[d][p] => d = c /\ p = q
  BY <1>0, <1>6, <1>11
<1>12. ASSUME NEW c \in Clients, User(c)
       PROVE  \/ UNCHANGED <<posted, asked, drops, crashes>>
              \/ \E q \in Posts : CreatePost(c, q) \/ RemovePost(c, q)
  BY <1>4, <1>12 DEF User
<1> QED
  <2>1. CASE UNCHANGED vars BY <1>2, <2>1
  <2>2. CASE \E c \in Clients : RevokeListen(c) \/ Disconnect(c) \/ Crash(c)
    BY <1>0, <1>8, <1>9, <2>2
  <2>3. CASE \E c \in Clients, q \in Posts : CreatePost(c, q)
    <3>1. PICK c \in Clients, q \in Posts : CreatePost(c, q) BY <2>3
    <3>2. /\ Creator[q] = c /\ asked' = asked /\ UNCHANGED <<drops, crashes>>
          /\ posted \subseteq posted' /\ \A p \in Posts : p \in posted' \ posted => p = q
      BY <1>5, <1>10, <3>1
    <3> QED BY <1>0, <3>1, <3>2
  <2>4. CASE \E c \in Clients, q \in Posts : RemovePost(c, q)
    <3>1. PICK c \in Clients, q \in Posts : RemovePost(c, q) BY <2>4
    <3>2. posted' = posted /\ UNCHANGED <<drops, crashes>> BY <1>6, <3>1
    <3>3. \A d \in Clients, p \in Posts :
            /\ asked'[d][p] \in Nat /\ asked[d][p] <= asked'[d][p]
            /\ asked'[d][p] # asked[d][p] => RemovePost(d, p)
      BY <1>11, <3>1
    <3> QED BY <1>0, <3>2, <3>3
  <2>5. CASE UNCHANGED <<posted, asked, drops, crashes>> BY <1>1, <2>5
  <2> QED BY <1>7, <1>12, <2>1, <2>2, <2>3, <2>4, <2>5 DEF Next

(* A step of client c, or of another one. *)
LEMMA SomebodyActs ==
  ASSUME [Next]_vars
  PROVE  UNCHANGED vars \/ \E c \in Clients : ActionOf(c)
BY DEF Next, ActionOf

(* What a step may do to the local writes of client d. *)
Moves(d) ==
  \/ Still(d) \/ Acked(d)
  \/ Served(d) /\ ServeWrite(d)
  \/ Resent(d) /\ drops' > 0
  \/ Unacked(d)' = <<>> /\ Unserved(d)' = <<>> /\ crashes' > 0
  \/ \E p \in Posts : CreatePost(d, p) /\ Issued(d, Write("set", p))
  \/ \E p \in Posts : /\ Issued(d, Write("update", p))
                      /\ Has(mainQ[d], [type |-> "written", post |-> p])
  \/ \E p \in Posts : RemovePost(d, p) /\ Issued(d, Write("remove", p))

(* It does one of these, *)
LEMMA WritesMove ==
  ASSUME SyncInv, [Next]_vars, NEW d \in Clients
  PROVE  Moves(d)
<1>0. TypeInv /\ TypeOK /\ EveryWriteTracked /\ \A c \in Clients : Sound(c)
  BY SoundTracked DEF SyncInv, TypeInv
<1>1. CASE UNCHANGED vars
  <2>1. Unanswered(d)' = Unanswered(d) /\ Outbox(d)' = Outbox(d) /\ repoQ'[d] = repoQ[d]
    BY <1>1 DEF vars, sdkVars, Unanswered, Outbox
  <2> QED BY <2>1, StillIfSame DEF Moves
<1>2. ASSUME ActionOf(d) PROVE Moves(d)
  <2>1. CASE User(d)
    <3>1. /\ OpenTimeline(d) \/ Logout(d) => Still(d)
          /\ \A p \in Posts : CreatePost(d, p) => Issued(d, Write("set", p))
          /\ \A p \in Posts : RemovePost(d, p) => Issued(d, Write("remove", p))
      BY <1>0, <2>1, UserWrites
    <3>2. \/ OpenTimeline(d) \/ Logout(d)
          \/ \E p \in Posts : CreatePost(d, p) \/ RemovePost(d, p)
      BY <2>1 DEF User
    <3>3. CASE OpenTimeline(d) \/ Logout(d) BY <3>1, <3>3 DEF Moves
    <3>4. ASSUME NEW p \in Posts, CreatePost(d, p) PROVE Moves(d)
      <4>1. Issued(d, Write("set", p)) BY <3>1, <3>4
      <4> QED BY <3>4, <4>1 DEF Moves
    <3>5. ASSUME NEW p \in Posts, RemovePost(d, p) PROVE Moves(d)
      <4>1. Issued(d, Write("remove", p)) BY <3>1, <3>5
      <4> QED BY <3>5, <4>1 DEF Moves
    <3> QED BY <3>2, <3>3, <3>4, <3>5
  <2>2. CASE MainThread(d) BY <1>0, <2>2, MainThreadWrites DEF Moves
  <2>3. CASE RepoBlock(d) BY <1>0, <2>3, RepoBlockWrites DEF Moves
  <2>4. CASE Receive(d)
    <3>1. down[d] # <<>>
      BY <2>4 DEF Receive, ReceivePush, ReceiveSnapshot, ReceiveAck, ReceiveRefusal,
                  ReceiveRevocation, Message
    <3>2. connected[d] BY <1>0, <3>1 DEF Sound, Wire, TypeOK
    <3> QED BY <1>0, <2>4, <3>2, ReceiveWrites DEF Moves
  <2>5. CASE Serve(d)
    <3>1. up[d] # <<>>
      BY <2>5 DEF Serve, ServeListen, ServeUnlisten, ServeWrite, Request
    <3>2. connected[d] BY <1>0, <3>1 DEF Sound, Wire, TypeOK
    <3> QED BY <1>0, <2>5, <3>2, ServeWrites DEF Moves
  <2>6. CASE RevokeListen(d) \/ Reconnect(d)
    BY <1>0, <2>6, ConnectionWrites DEF Moves
  <2>7. CASE Disconnect(d)
    <3>1. drops' > 0
      <4>1. drops \in Nat /\ drops' = drops + 1
        BY <1>0, <2>7, HistoryGrows DEF Disconnect
      <4> QED BY <4>1
    <3> QED BY <1>0, <2>7, <3>1, ConnectionWrites DEF Moves
  <2>8. CASE Crash(d)
    <3>1. crashes' > 0
      <4>1. crashes \in Nat /\ crashes' = crashes + 1
        BY <1>0, <2>8, HistoryGrows DEF Crash
      <4> QED BY <4>1
    <3> QED BY <1>0, <2>8, <3>1, ConnectionWrites DEF Moves
  <2> QED BY <1>2, <2>1, <2>2, <2>3, <2>4, <2>5, <2>6, <2>7, <2>8 DEF ActionOf
<1>3. ASSUME NEW c \in Clients, c # d, ActionOf(c) PROVE Moves(d)
  <2>1. repoQ'[d] = repoQ[d] BY <1>0, <1>3, OthersKeep DEF ActionOf
  <2>2. /\ connected'[d] = connected[d] /\ up'[d] = up[d] /\ writes'[d] = writes[d]
        /\ held'[d] = held[d]
    <3>1. CASE ServeWrite(c) BY <1>0, <1>3, <3>1 DEF ServeWrite, TypeOK, sdkVars
    <3>2. CASE ~ServeWrite(c)
      <4>1. Calm(d)
        BY <1>0, <1>3, <3>2, ScreensAreCalm, OthersAreCalm DEF ActionOf, Serve
      <4> QED BY <4>1 DEF Calm
    <3> QED BY <3>1, <3>2
  <2>3. Unanswered(d)' = Unanswered(d) /\ Outbox(d)' = Outbox(d)
    BY <2>2 DEF Unanswered, Outbox
  <2> QED BY <2>1, <2>3, StillIfSame DEF Moves
<1> QED BY <1>1, <1>2, <1>3, SomebodyActs

-----------------------------------------------------------------------------
(* What is known of a post *)

Sets(p) == {Write("set", p)}
Removals(p) == {Removal(p)}
On(p) == {w \in LocalWrites : w.post = p}

(* Writes, requests and blocks that are not of p, messages and callbacks   *)
(* that do not tell of it.                                                 *)
OtherWrites(p) == {w \in LocalWrites : w.post # p}
OtherRequests(p) == {m \in Requests : m.type \in WriteOps => m.post # p}
OtherBlocks(p) == {b \in Blocks : b.type \in WriteOps => b.post # p}
OtherResponses(p) ==
  {m \in Responses : /\ m.type \in {"push", "ack"} => m.write.post # p
                     /\ m.type = "snapshot" => m.board[p] = "none"}
OtherCallbacks(p) ==
  {m \in Callbacks :
     /\ m.type = "value" => p \notin m.posts
     /\ m.type \in {"changed", "removed", "written"} => m.post # p}

(* Client c has never heard of p. *)
Unheard(c, p) ==
  /\ writes[c] \in Seq(OtherWrites(p)) /\ up[c] \in Seq(OtherRequests(p))
  /\ repoQ[c] \in Seq(OtherBlocks(p)) /\ down[c] \in Seq(OtherResponses(p))
  /\ mainQ[c] \in Seq(OtherCallbacks(p))
  /\ cache[c][p] = "none" /\ rows[c][p] = 0 /\ asked[c][p] = 0

(* It cannot have: p is not made yet, or its creation has not reached the  *)
(* server on the creator's first connection.                               *)
Hidden(c, p) ==
  \/ p \notin posted
  \/ drops = 0 /\ c # Creator[p] /\ In(Unserved(Creator[p]), Sets(p))

(* In the local writes q of client c: only its creator sends p's creation, *)
(* before all that is about p; if c was asked to remove p, the removal     *)
(* comes after each creation.                                              *)
Orderly(c, q, p) ==
  /\ In(q, Sets(p)) => Creator[p] = c
  /\ NeverAfter(q, On(p), Sets(p))
  /\ asked[c][p] > 0 => Met(q, Sets(p), {}, {}, Removals(p))

(* A post on the board that was asked to be removed has a removal still to *)
(* be performed.                                                           *)
Removing(p) ==
  /\ IsPost(server[p])
  /\ \E c \in Clients : asked[c][p] > 0
  /\ drops = 0 \/ RemovedByCreator(p)
  => \E c \in Clients : In(Unserved(c), Removals(p))

PostInv ==
  /\ SyncInv
  /\ \A c \in Clients, p \in Posts :
       /\ Hidden(c, p) => server[p] = "none" /\ Unheard(c, p)
       /\ Orderly(c, Unacked(c), p) /\ Orderly(c, Unserved(c), p)
  /\ ~RejectsWrites /\ crashes = 0 => \A p \in Posts : Removing(p)

-----------------------------------------------------------------------------
(* The order of the local writes *)

(* It stays when the oldest write goes, or all, *)
LEMMA OrderlyTail ==
  ASSUME NEW q \in Seq(LocalWrites), NEW r, NEW c \in Clients, NEW p \in Posts,
         Orderly(c, q, p), asked'[c][p] = asked[c][p],
         r = q \/ (q # <<>> /\ r = Tail(q)) \/ r = <<>>
  PROVE  Orderly(c, r, p)'
<1>1. CASE r = q BY <1>1 DEF Orderly
<1>2. CASE q # <<>> /\ r = Tail(q)
  <2>1. In(r, Sets(p)) => Creator[p] = c BY <1>2, InHead DEF Orderly
  <2>2. NeverAfter(r, On(p), Sets(p)) BY <1>2, NeverAfterHead DEF Orderly
  <2>3. asked'[c][p] > 0 => Met(r, Sets(p), {}, {}, Removals(p))
    <3> HAVE asked'[c][p] > 0
    <3>1. Met(q, Sets(p), {}, {}, Removals(p)) BY DEF Orderly
    <3> QED BY <1>2, <3>1, MetHead
  <2> QED BY <2>1, <2>2, <2>3 DEF Orderly
<1>3. CASE r = <<>> BY <1>3, InNone DEF Orderly
<1> QED BY <1>1, <1>2, <1>3

(* and when a write is made: a creation before all else of its post.       *)
LEMMA OrderlyAppend ==
  ASSUME NEW q \in Seq(LocalWrites), NEW w \in LocalWrites,
         NEW c \in Clients, NEW p \in Posts, Orderly(c, q, p),
         w \in Sets(p) => Creator[p] = c /\ ~In(q, On(p)) /\ asked'[c][p] = 0,
         w \in Removals(p) \/ asked'[c][p] = asked[c][p]
  PROVE  Orderly(c, Append(q, w), p)'
<1> DEFINE r == Append(q, w)
<1>1. In(r, Sets(p)) => Creator[p] = c
  <2>1. In(r, Sets(p)) <=> In(q, Sets(p)) \/ w \in Sets(p) BY InAppend
  <2> QED BY <2>1 DEF Orderly
<1>2. NeverAfter(r, On(p), Sets(p)) BY NeverAfterAppend DEF Orderly
<1>3. asked'[c][p] > 0 => Met(r, Sets(p), {}, {}, Removals(p))
  <2> HAVE asked'[c][p] > 0
  <2>1. w \notin Sets(p) OBVIOUS
  <2>2. CASE w \in Removals(p) BY <2>1, <2>2, MetAppend
  <2>3. CASE w \notin Removals(p)
    <3>1. Met(q, Sets(p), {}, {}, Removals(p)) BY <2>3 DEF Orderly
    <3> QED BY <2>1, <2>3, <3>1, MetAppend
  <2> QED BY <2>2, <2>3
<1> HIDE DEF r
<1> QED BY <1>1, <1>2, <1>3 DEF Orderly, r

(* The writes that are requested in a queue without p. *)
LEMMA OthersRequested ==
  ASSUME NEW p \in Posts
  PROVE  \A q \in Seq(OtherRequests(p) \cup OtherBlocks(p)) :
           Requested(q) \in Seq(OtherWrites(p))
<1> DEFINE O == OtherRequests(p) \cup OtherBlocks(p)
           S == {q \in Seq(O) : Requested(q) \in Seq(OtherWrites(p))}
<1>0. O \subseteq Orders BY DEF OtherRequests, OtherBlocks, Orders
<1>1. <<>> \in S
  <2>1. <<>> \in Seq(OtherWrites(p)) /\ <<>> \in Seq(O) OBVIOUS
  <2> QED BY <2>1, RequestedEmpty
<1>2. ASSUME NEW q \in Seq(O), NEW m \in O, q \in S PROVE Append(q, m) \in S
  <2>1. q \in Seq(Orders) /\ m \in Orders BY <1>0, SeqWider
  <2>2. PICK a \in Seq(OtherWrites(p)) : a = Requested(q) BY <1>2
  <2>3. RequestOf(m) \in Seq(OtherWrites(p))
    <3>1. m.type \in WriteOps => m \in OtherWrites(p)
      BY DEF OtherRequests, OtherBlocks, OtherWrites, Requests, Blocks, WriteOps
    <3>2. \A w \in OtherWrites(p) : <<w>> \in Seq(OtherWrites(p)) OBVIOUS
    <3>3. <<>> \in Seq(OtherWrites(p)) OBVIOUS
    <3> QED BY <3>1, <3>2, <3>3 DEF RequestOf
  <2>4. PICK b \in Seq(OtherWrites(p)) : b = RequestOf(m) BY <2>3
  <2>5. Requested(Append(q, m)) = a \o b BY <2>1, <2>2, <2>4, OrderedAppend
  <2>6. a \o b \in Seq(OtherWrites(p)) BY ConcatProperties
  <2>7. Append(q, m) \in Seq(O) BY AppendProperties
  <2> HIDE DEF O
  <2> QED BY <2>5, <2>6, <2>7
<1> HIDE DEF S, O
<1>3. Seq(O) \subseteq S BY <1>1, <1>2, InductionOnSeq
<1> QED BY <1>3 DEF S, O

(* Of a tree without p, the writes without a response. *)
LEMMA OtherUnanswered ==
  ASSUME TypeOK, EveryWriteTracked, NEW c \in Clients, NEW p \in Posts,
         writes[c] \in Seq(OtherWrites(p))
  PROVE  Unanswered(c) \in Seq(OtherWrites(p))
<1>1. Len(held[c]) <= Len(writes[c]) /\ held[c] \in Seq(Acks)
  BY HeldAreOldest DEF TypeOK
<1>2. Len(held[c]) \in Nat /\ Len(writes[c]) \in Nat BY <1>1
<1>3. \A i \in Len(held[c]) + 1 .. Len(writes[c]) : writes[c][i] \in OtherWrites(p)
  BY <1>2
<1>4. Len(held[c]) + 1 \in 1 .. Len(writes[c]) + 1 BY <1>1, <1>2
<1>5. SubSeq(writes[c], Len(held[c]) + 1, Len(writes[c])) \in Seq(OtherWrites(p))
  BY <1>2, <1>3, <1>4, SubSeqProperties
<1> QED BY <1>5 DEF Unanswered

(* A client that never heard of p has no local write on it. *)
LEMMA UnheardWrites ==
  ASSUME TypeOK, EveryWriteTracked, NEW c \in Clients, NEW p \in Posts, Unheard(c, p)
  PROVE  /\ Unacked(c) \in Seq(OtherWrites(p)) /\ Unserved(c) \in Seq(OtherWrites(p))
         /\ ~In(Unacked(c), On(p)) /\ ~In(Unserved(c), On(p))
<1> DEFINE O == OtherRequests(p) \cup OtherBlocks(p)
           T == OtherWrites(p)
<1>1. /\ writes[c] \in Seq(T) /\ up[c] \in Seq(O) /\ repoQ[c] \in Seq(O)
  BY SeqWider DEF Unheard
<1>2. PICK U \in Seq(T) : U = Unanswered(c) BY <1>1, OtherUnanswered
<1>3. T \subseteq O BY DEF OtherWrites, OtherRequests, Requests
<1>4. Outbox(c) \in Seq(O)
  <2>1. U \in Seq(O) BY <1>3, SeqWider
  <2> QED BY <1>1, <1>2, <2>1 DEF Outbox
<1> HIDE DEF T
<1>5. PICK A \in Seq(T) : A = Requested(Outbox(c)) BY <1>4, OthersRequested DEF T
<1>6. PICK R \in Seq(T) : R = Requested(repoQ[c]) BY <1>1, OthersRequested DEF T
<1>7. U \o R \in Seq(T) /\ A \o R \in Seq(T) BY ConcatProperties
<1>8. Unacked(c) \in Seq(T) /\ Unserved(c) \in Seq(T)
  BY <1>2, <1>5, <1>6, <1>7 DEF Unacked, Unserved
<1>9. \A q \in Seq(T) : ~In(q, On(p))
  <2> SUFFICES ASSUME NEW q \in Seq(T), NEW i \in 1 .. Len(q) PROVE q[i] \notin On(p)
    BY DEF In
  <2>1. q[i] \in T OBVIOUS
  <2> QED BY <2>1 DEF T, OtherWrites, On
<1> QED BY <1>8, <1>9 DEF T

-----------------------------------------------------------------------------
(* Events: who knows nothing of a post is told nothing of it *)

(* It is not in the picture, *)
LEMMA OtherPicture ==
  ASSUME NEW p \in Posts, NEW ws \in Seq(OtherWrites(p)), NEW ca, ca[p] = "none",
         NEW whole
  PROVE  Overlay(ca, whole, ws)[p] = "none"
<1> DEFINE base == IF ca[p] = "none" /\ ~whole THEN "unknown" ELSE ca[p]
           S == {base}
<1>1. ws \in Seq(LocalWrites)
  <2>1. OtherWrites(p) \subseteq LocalWrites BY DEF OtherWrites
  <2> QED BY <2>1, SeqWider
<1>2. \A i \in 1 .. Len(ws) : ws[i].post # p
  <2>1. \A i \in 1 .. Len(ws) : ws[i] \in OtherWrites(p) OBVIOUS
  <2> QED BY <2>1 DEF OtherWrites
<1>3. base = "unknown" \/ base = "none" OBVIOUS
<1>4. Overlay(ca, whole, ws)[p] =
        IF Written(ws, p, base) = "unknown" THEN "none" ELSE Written(ws, p, base)
  BY DEF Overlay
<1> HIDE DEF base
<1>5. KeptIn(S, ws, p) BY <1>2 DEF KeptIn
<1>6. Written(ws, p, base) \in S BY <1>1, <1>5, WrittenStays
<1> QED BY <1>3, <1>4, <1>6

(* nor is it in what a change of the picture tells, *)
LEMMA OtherChildEvents ==
  ASSUME NEW c \in Clients, session[c] \in Sessions, NEW p \in Posts,
         NEW rs, NEW before, NEW after, before[p] = "none", after[p] = "none"
  PROVE  ChildEvents(c, rs, before, after) \in Seq(OtherCallbacks(p))
<1> DEFINE removed == {q \in Posts : IsPost(before[q]) /\ after[q] = "none"}
           changed == {q \in Posts : /\ before[q] # "none" /\ before[q] # after[q]
                                     /\ IsPost(after[q])}
           Tell(kind, S) == IF <<kind, session[c]>> \in rs
                            THEN [i \in 1 .. Cardinality(S) |->
                                    Event(kind, c, SetToSeq(S)[i])]
                            ELSE <<>>
<1>1. ASSUME NEW kind \in {"changed", "removed"}, NEW S \in SUBSET Posts, p \notin S
      PROVE  Tell(kind, S) \in Seq(OtherCallbacks(p))
  <2>1. CASE <<kind, session[c]>> \notin rs BY <2>1
  <2>2. CASE <<kind, session[c]>> \in rs
    <3>1. IsFiniteSet(S) BY PostsAssumption, FS_Subset
    <3>2. /\ Cardinality(S) \in Nat
          /\ SetToSeq(S) \in [1 .. Cardinality(S) -> S]
      BY <3>1, SetToSeqType
    <3>3. \A q \in S : Event(kind, c, q) \in OtherCallbacks(p)
      BY <1>1 DEF Event, Callbacks, OtherCallbacks
    <3>4. \A i \in 1 .. Cardinality(S) :
            Event(kind, c, SetToSeq(S)[i]) \in OtherCallbacks(p)
      BY <3>2, <3>3
    <3>5. Tell(kind, S) =
            [i \in 1 .. Cardinality(S) |-> Event(kind, c, SetToSeq(S)[i])]
      BY <2>2
    <3> HIDE DEF Tell
    <3> QED BY <3>2, <3>4, <3>5
  <2> QED BY <2>1, <2>2
<1>2. removed \in SUBSET Posts /\ changed \in SUBSET Posts OBVIOUS
<1>3. p \notin removed /\ p \notin changed BY DEF IsPost
<1>4. ChildEvents(c, rs, before, after) = Tell("removed", removed) \o Tell("changed", changed)
  BY DEF ChildEvents
<1> HIDE DEF Tell, removed, changed
<1>5. Tell("removed", removed) \in Seq(OtherCallbacks(p)) BY <1>1, <1>2, <1>3
<1>6. Tell("changed", changed) \in Seq(OtherCallbacks(p)) BY <1>1, <1>2, <1>3
<1> QED BY <1>4, <1>5, <1>6, ConcatProperties

(* a write settled, *)
LEMMA OtherSettleEvents ==
  ASSUME NEW c \in Clients, session[c] \in Sessions, NEW p \in Posts,
         NEW rs, NEW ca, ca[p] = "none", NEW whole,
         NEW ws \in Seq(OtherWrites(p)), NEW left \in Seq(OtherWrites(p)),
         NEW ack \in Acks, ack.write.post # p
  PROVE  SettleEvents(c, rs, ca, whole, ws, left, ack) \in Seq(OtherCallbacks(p))
<1> DEFINE told == ChildEvents(c, rs, Overlay(ca, whole, ws), Overlay(ca, whole, left))
           written == IF ack.ok /\ ack.write.type = "set"
                      THEN <<[type |-> "written", post |-> ack.write.post]>>
                      ELSE <<>>
<1>1. told \in Seq(OtherCallbacks(p)) BY OtherPicture, OtherChildEvents
<1>2. [type |-> "written", post |-> ack.write.post] \in OtherCallbacks(p)
  BY DEF Acks, LocalWrites, Callbacks, OtherCallbacks
<1>3. written \in Seq(OtherCallbacks(p)) BY <1>2
<1>4. SettleEvents(c, rs, ca, whole, ws, left, ack) = told \o written
  BY DEF SettleEvents
<1> HIDE DEF told, written
<1> QED BY <1>1, <1>3, <1>4, ConcatProperties

(* the first values, or a cancellation. *)
LEMMA OtherValueEvents ==
  ASSUME NEW c \in Clients, NEW p \in Posts
  PROVE  /\ \A which \in SUBSET Regs : IsFiniteSet(which) =>
              \A picture : picture[p] = "none" =>
                ValueEvents(c, which, picture) \in Seq(OtherCallbacks(p))
         /\ regs[c] \in SUBSET Regs /\ IsFiniteSet(regs[c]) =>
              Cancelled(c) \in Seq(OtherCallbacks(p))
<1>1. ASSUME NEW which \in SUBSET Regs, NEW picture, IsFiniteSet(which),
             picture[p] = "none"
      PROVE  ValueEvents(c, which, picture) \in Seq(OtherCallbacks(p))
  <2>1. ValueEvents(c, which, picture) \in Seq(Callbacks) BY <1>1, ValueEventsType
  <2> DEFINE q == ValueEvents(c, which, picture)
  <2>2. Cardinality(which) \in Nat BY <1>1, SetToSeqType
  <2>3. \A i \in 1 .. Len(q) :
          q[i].type = "value" /\ q[i].posts = {r \in Posts : IsPost(picture[r])}
    BY <2>2 DEF ValueEvents
  <2> HIDE DEF q
  <2>4. p \notin {r \in Posts : IsPost(picture[r])} BY <1>1 DEF IsPost
  <2>5. \A i \in 1 .. Len(q) : q[i] \in OtherCallbacks(p)
    <3>1. \A i \in 1 .. Len(q) : q[i] \in Callbacks BY <2>1 DEF q
    <3> QED BY <2>3, <2>4, <3>1 DEF OtherCallbacks
  <2>6. q = [i \in 1 .. Len(q) |-> q[i]] /\ Len(q) \in Nat BY <2>1 DEF q
  <2>7. q \in Seq(OtherCallbacks(p)) BY <2>5, <2>6
  <2> QED BY <2>7 DEF q
<1>2. ASSUME regs[c] \in SUBSET Regs, IsFiniteSet(regs[c])
      PROVE  Cancelled(c) \in Seq(OtherCallbacks(p))
  <2>1. Cancelled(c) \in Seq(Callbacks) BY <1>2, CancelledType
  <2> DEFINE q == Cancelled(c)
  <2>2. Cardinality(ValueRegs(c)) \in Nat
    BY <1>2, FS_Subset, FS_CardinalityType, ValueRegs(c) \subseteq regs[c] DEF ValueRegs
  <2>3. \A i \in 1 .. Len(q) : q[i].type = "cancelled" BY <2>2 DEF Cancelled
  <2> HIDE DEF q
  <2>4. \A i \in 1 .. Len(q) : q[i] \in OtherCallbacks(p)
    BY <2>1, <2>3 DEF OtherCallbacks, q
  <2>5. q = [i \in 1 .. Len(q) |-> q[i]] /\ Len(q) \in Nat BY <2>1 DEF q
  <2>6. q \in Seq(OtherCallbacks(p)) BY <2>4, <2>5
  <2> QED BY <2>6 DEF q
<1> QED BY <1>1, <1>2

(* The same of all responses held back, when they are acted on. *)
LEMMA OtherRelease ==
  ASSUME TypeOK, EveryWriteTracked, NEW c \in Clients, NEW p \in Posts,
         writes[c] \in Seq(OtherWrites(p)), NEW rs, NEW ca, ca[p] = "none", NEW whole
  PROVE  /\ AckPuts(c, Len(held[c])) \in Seq(OtherWrites(p))
         /\ AckPutsEvents(c, rs, ca, whole) \in Seq(OtherCallbacks(p))
<1> DEFINE ws == writes[c]
           N == Len(held[c])
           L(n) == SubSeq(ws, n + 1, Len(ws))
           told(n) == SettleEvents(c, rs, ca, whole, AckPuts(c, n - 1),
                                   AckPuts(c, n), held[c][n])
<1>1. ws \in Seq(OtherWrites(p)) /\ held[c] \in Seq(Acks) /\ session[c] \in Sessions
  BY DEF TypeOK
<1>2. /\ N <= Len(ws) /\ N \in Nat /\ Len(ws) \in Nat
      /\ \A i \in 1 .. N : ws[i] = held[c][i].write
  BY <1>1, HeldAreOldest
<1>3. \A n \in 0 .. N : AckPuts(c, n) = L(n) BY AckPutsAll
<1>4. PICK f \in [0 .. N -> Seq(Callbacks)] :
        /\ IsTelling(f, c, rs, ca, whole)
        /\ AckPutsEvents(c, rs, ca, whole) = f[N]
  BY <1>1, AckPutsEventsDef
<1>5. f[0] = <<>> /\ \A n \in 1 .. N : f[n] = f[n - 1] \o told(n)
  BY <1>4 DEF IsTelling
<1> HIDE DEF ws, N
<1>6. ASSUME NEW n \in 0 .. N PROVE AckPuts(c, n) \in Seq(OtherWrites(p))
  <2>1. n + 1 \in 1 .. Len(ws) + 1 BY <1>2
  <2>2. \A i \in n + 1 .. Len(ws) : ws[i] \in OtherWrites(p)
    <3>1. \A i \in n + 1 .. Len(ws) : i \in 1 .. Len(ws) BY <2>1
    <3> QED BY <1>1, <3>1
  <2>3. L(n) \in Seq(OtherWrites(p)) BY <1>1, <1>2, <2>1, <2>2, SubSeqProperties
  <2> QED BY <1>3, <2>3
<1> HIDE DEF L
<1>7. ASSUME NEW n \in 1 .. N PROVE told(n) \in Seq(OtherCallbacks(p))
  <2>1. n \in 0 .. N /\ n - 1 \in 0 .. N /\ n \in 1 .. Len(ws) BY <1>2
  <2>2. held[c][n] \in Acks BY <1>1 DEF N
  <2>3. held[c][n].write.post # p
    <3>1. ws[n] \in OtherWrites(p) BY <1>1, <2>1
    <3> QED BY <1>2, <3>1 DEF OtherWrites
  <2>4. PICK a \in Seq(OtherWrites(p)) : a = AckPuts(c, n - 1) BY <1>6, <2>1
  <2>5. PICK b \in Seq(OtherWrites(p)) : b = AckPuts(c, n) BY <1>6, <2>1
  <2>6. SettleEvents(c, rs, ca, whole, a, b, held[c][n]) \in Seq(OtherCallbacks(p))
    BY <1>1, <2>2, <2>3, OtherSettleEvents
  <2> QED BY <2>4, <2>5, <2>6
<1> HIDE DEF told
<1> DEFINE S == {n \in 0 .. N : f[n] \in Seq(OtherCallbacks(p))}
<1>8. 0 \in S BY <1>2, <1>5
<1>9. ASSUME NEW n \in 1 .. N, n - 1 \in S PROVE n \in S
  <2>1. PICK q \in Seq(OtherCallbacks(p)) : q = f[n - 1] BY <1>9
  <2>2. PICK r \in Seq(OtherCallbacks(p)) : r = told(n) BY <1>7
  <2>3. q \o r \in Seq(OtherCallbacks(p)) BY ConcatProperties
  <2>4. f[n] = q \o r BY <1>5, <2>1, <2>2
  <2>5. f[n] \in Seq(OtherCallbacks(p)) BY <2>3, <2>4
  <2>6. n \in 0 .. N BY <1>2
  <2> QED BY <2>5, <2>6
<1>10. 0 .. N \subseteq S
  <2> HIDE DEF S
  <2> QED BY <1>2, <1>8, <1>9, InductionUpTo
<1>11. AckPutsEvents(c, rs, ca, whole) \in Seq(OtherCallbacks(p))
  BY <1>2, <1>4, <1>10
<1>12. N \in 0 .. N BY <1>2
<1> QED BY <1>6, <1>11, <1>12 DEF N

-----------------------------------------------------------------------------
(* A client that has never heard of a post: its screen, *)

(* The pieces of such a client, as they are needed. *)
LEMMA OtherTypes ==
  ASSUME NEW p \in Posts
  PROVE  /\ OtherWrites(p) \subseteq LocalWrites /\ OtherRequests(p) \subseteq Requests
         /\ OtherBlocks(p) \subseteq Blocks /\ OtherResponses(p) \subseteq Responses
         /\ OtherCallbacks(p) \subseteq Callbacks
         /\ \A b \in Blocks : b.type \notin WriteOps => b \in OtherBlocks(p)
         /\ \A m \in Requests : m.type \notin WriteOps => m \in OtherRequests(p)
         /\ \A q \in Posts \ {p}, op \in WriteOps :
              Write(op, q) \in OtherWrites(p) /\ Write(op, q) \in OtherBlocks(p)
BY DEF OtherWrites, OtherRequests, OtherBlocks, OtherResponses, OtherCallbacks,
       Write, LocalWrites, Blocks

(* The user deletes no post that has no row, and a creation is not asked   *)
(* for twice;                                                              *)
LEMMA UserUnheard ==
  ASSUME TypeInv, NEW c \in Clients, NEW p \in Posts, Unheard(c, p), User(c),
         ~CreatePost(c, p)
  PROVE  Unheard(c, p)'
<1>0. TypeOK BY DEF TypeInv
<1>1. /\ up'[c] = up[c] /\ down'[c] = down[c] /\ writes'[c] = writes[c]
      /\ mainQ'[c] = mainQ[c] /\ cache'[c] = cache[c]
  BY DEF User, OpenTimeline, Logout, CreatePost, RemovePost, sdkVars
<1>2. rows[c][p] = 0 /\ asked[c][p] = 0 /\ repoQ[c] \in Seq(OtherBlocks(p))
  BY DEF Unheard
<1>3. \A b \in OtherBlocks(p) : Append(repoQ[c], b) \in Seq(OtherBlocks(p))
  BY <1>2, AppendProperties
<1>4. CASE OpenTimeline(c)
  <2> DEFINE b == [type |-> "observe", reg |-> <<"value", session'[c]>>]
  <2>1. <<"value", session'[c]>> \in Regs
    <3>1. session'[c] \in Sessions BY <1>4, UserTypes DEF TypeInv, TypeOK
    <3> QED BY <3>1 DEF Regs
  <2>2. b \in Blocks /\ b.type \notin WriteOps BY <2>1 DEF Blocks, WriteOps
  <2>3. repoQ'[c] = Append(repoQ[c], b) /\ rows'[c] = NoRows /\ asked' = asked
    BY <1>0, <1>4 DEF OpenTimeline, TypeOK, historyVars
  <2> HIDE DEF b
  <2>4. repoQ'[c] \in Seq(OtherBlocks(p)) BY <1>3, <2>2, <2>3, OtherTypes
  <2>5. rows'[c][p] = 0 BY <2>3 DEF NoRows
  <2> QED BY <1>1, <1>2, <2>3, <2>4, <2>5 DEF Unheard
<1>5. CASE Logout(c)
  <2>1. repoQ'[c] = repoQ[c] /\ rows'[c] = NoRows /\ asked' = asked
    BY <1>0, <1>5 DEF Logout, TypeOK
  <2>2. rows'[c][p] = 0 BY <2>1 DEF NoRows
  <2> QED BY <1>1, <1>2, <2>1, <2>2 DEF Unheard
<1>6. ASSUME NEW q \in Posts, CreatePost(c, q) PROVE Unheard(c, p)'
  <2>1. q # p BY <1>6
  <2>2. Write("set", q) \in OtherBlocks(p) BY <2>1, OtherTypes DEF WriteOps
  <2>3. repoQ'[c] = Append(repoQ[c], Write("set", q)) /\ rows' = rows /\ asked' = asked
    BY <1>0, <1>6 DEF CreatePost, TypeOK, appVars
  <2> QED BY <1>1, <1>2, <1>3, <2>2, <2>3 DEF Unheard
<1>7. ASSUME NEW q \in Posts, RemovePost(c, q) PROVE Unheard(c, p)'
  <2>1. q # p BY <1>2, <1>7 DEF RemovePost
  <2>2. Write("remove", q) \in OtherBlocks(p) BY <2>1, OtherTypes DEF WriteOps
  <2>3. repoQ'[c] = Append(repoQ[c], Write("remove", q)) /\ rows' = rows
    BY <1>0, <1>7 DEF RemovePost, TypeOK, appVars
  <2>4. asked'[c][p] = asked[c][p]
    BY <1>0, <1>7, <2>1 DEF RemovePost, TypeOK, PostCounts
  <2> QED BY <1>1, <1>2, <1>3, <2>2, <2>3, <2>4 DEF Unheard
<1> QED BY <1>4, <1>5, <1>6, <1>7 DEF User

(* no callback is about the post. *)
LEMMA MainThreadUnheard ==
  ASSUME TypeInv, NEW c \in Clients, NEW p \in Posts, Unheard(c, p), MainThread(c)
  PROVE  Unheard(c, p)'
<1> DEFINE m == Head(mainQ[c])
<1>0. TypeOK BY DEF TypeInv
<1>1. /\ up'[c] = up[c] /\ down'[c] = down[c] /\ writes'[c] = writes[c]
      /\ cache'[c] = cache[c] /\ asked' = asked
      /\ mainQ[c] # <<>> /\ mainQ'[c] = Tail(mainQ[c])
  BY <1>0 DEF MainThread, PostsRetrieved, RetrievalFailed, PostAdded, PostRemoved,
         FeedEvent, PostWritten, Callback, TypeOK, sdkVars, historyVars
<1>2. /\ mainQ[c] \in Seq(OtherCallbacks(p)) /\ repoQ[c] \in Seq(OtherBlocks(p))
      /\ rows[c][p] = 0
  BY DEF Unheard
<1>3. m \in OtherCallbacks(p) /\ mainQ'[c] \in Seq(OtherCallbacks(p))
  BY <1>1, <1>2, HeadTailProperties
<1>4. m \in Callbacks BY <1>3, OtherTypes
<1> HIDE DEF m
<1>5. \A b \in OtherBlocks(p) : Append(repoQ[c], b) \in Seq(OtherBlocks(p))
  BY <1>2, AppendProperties
<1>6. repoQ'[c] \in Seq(OtherBlocks(p)) /\ rows'[c][p] = 0
  <2>1. CASE PostsRetrieved(c)
    <3> DEFINE off == [type |-> "stop", reg |-> <<"value", m.session>>]
               on(kind) == [type |-> "observe", reg |-> <<kind, m.session>>]
    <3>1. \/ repoQ'[c] = repoQ[c] \o <<off>>
          \/ repoQ'[c] = repoQ[c] \o <<off, on("changed"), on("removed")>>
      BY <1>0, <2>1 DEF PostsRetrieved, TypeOK, m
    <3>2. m.type = "value" BY <2>1 DEF PostsRetrieved, Callback, m
    <3>3. m.session \in Sessions /\ p \notin m.posts
      BY <1>3, <1>4, <3>2 DEF Callbacks, OtherCallbacks
    <3>4. off \in Blocks /\ on("changed") \in Blocks /\ on("removed") \in Blocks
      BY <3>3 DEF Blocks, Regs
    <3>5. /\ off.type \notin WriteOps /\ on("changed").type \notin WriteOps
          /\ on("removed").type \notin WriteOps
      BY DEF WriteOps
    <3> HIDE DEF off, on
    <3>6. /\ off \in OtherBlocks(p) /\ on("changed") \in OtherBlocks(p)
          /\ on("removed") \in OtherBlocks(p)
      BY <3>4, <3>5, OtherTypes
    <3>7. PICK v \in Seq(OtherBlocks(p)) : repoQ'[c] = repoQ[c] \o v
      <4>1. /\ <<off>> \in Seq(OtherBlocks(p))
            /\ <<off, on("changed"), on("removed")>> \in Seq(OtherBlocks(p))
        BY <3>6
      <4> QED BY <3>1, <4>1
    <3>8. rows'[c] = OneRowEach(m.posts) \/ rows'[c] = rows[c]
      BY <1>0, <2>1 DEF PostsRetrieved, TypeOK, m
    <3>9. OneRowEach(m.posts)[p] = 0 BY <3>3 DEF OneRowEach
    <3> QED BY <1>2, <3>7, <3>8, <3>9, ConcatProperties
  <2>2. CASE RetrievalFailed(c)
    <3> DEFINE b == [type |-> "stop", reg |-> <<"value", m.session>>]
    <3>1. repoQ'[c] = Append(repoQ[c], b) /\ rows' = rows
      BY <1>0, <2>2 DEF RetrievalFailed, TypeOK, m
    <3>2. m.type = "cancelled" BY <2>2 DEF RetrievalFailed, Callback, m
    <3>3. m.session \in Sessions BY <1>4, <3>2 DEF Callbacks
    <3>4. b \in Blocks /\ b.type \notin WriteOps BY <3>3 DEF Blocks, Regs, WriteOps
    <3> HIDE DEF b
    <3> QED BY <1>2, <1>5, <3>1, <3>4, OtherTypes
  <2>3. CASE PostAdded(c) \/ PostRemoved(c)
    <3>1. repoQ'[c] = repoQ[c] /\ m.type \in {"changed", "removed"}
      BY <2>3 DEF PostAdded, PostRemoved, FeedEvent, Callback, m
    <3>2. m.post # p BY <1>3, <3>1 DEF OtherCallbacks
    <3>3. rows' = rows \/ \E n : rows' = [rows EXCEPT ![c][m.post] = n]
      BY <2>3 DEF PostAdded, PostRemoved, FeedEvent, m
    <3>4. rows'[c][p] = rows[c][p] BY <1>0, <3>2, <3>3 DEF TypeOK, PostCounts
    <3> QED BY <1>2, <3>1, <3>4
  <2>4. CASE PostWritten(c)
    <3> DEFINE b == Write("update", m.post)
    <3>1. repoQ'[c] = Append(repoQ[c], b) /\ rows' = rows
      BY <1>0, <2>4 DEF PostWritten, TypeOK, m, appVars
    <3>2. m.type = "written" BY <2>4 DEF PostWritten, Callback, m
    <3>3. m.post \in Posts \ {p} BY <1>3, <1>4, <3>2 DEF Callbacks, OtherCallbacks
    <3>4. b \in OtherBlocks(p) BY <3>3, OtherTypes DEF WriteOps
    <3> HIDE DEF b
    <3> QED BY <1>2, <1>5, <3>1, <3>4
  <2> QED BY <2>1, <2>2, <2>3, <2>4 DEF MainThread
<1>7. asked[c][p] = 0 /\ cache[c][p] = "none" BY DEF Unheard
<1> QED BY <1>1, <1>3, <1>6, <1>7 DEF Unheard

(* the SDK's queue, *)
LEMMA RepoBlockUnheard ==
  ASSUME TypeInv, NEW c \in Clients, NEW p \in Posts, Unheard(c, p), RepoBlock(c)
  PROVE  Unheard(c, p)'
<1> DEFINE b == Head(repoQ[c])
<1>0. TypeOK BY DEF TypeInv
<1>1. /\ repoQ[c] # <<>> /\ repoQ'[c] = Tail(repoQ[c])
      /\ down'[c] = down[c] /\ rows' = rows /\ asked' = asked
  BY <1>0 DEF RepoBlock, AddObserver, RemoveObserver, LocalWrite, Block, TypeOK,
              appVars, historyVars
<1>2. /\ mainQ[c] \in Seq(OtherCallbacks(p)) /\ repoQ[c] \in Seq(OtherBlocks(p))
      /\ writes[c] \in Seq(OtherWrites(p)) /\ up[c] \in Seq(OtherRequests(p))
      /\ cache[c][p] = "none" /\ cache[c] \in Boards /\ session[c] \in Sessions
  BY <1>0 DEF Unheard, TypeOK
<1>3. b \in OtherBlocks(p) /\ repoQ'[c] \in Seq(OtherBlocks(p))
  BY <1>1, <1>2, HeadTailProperties
<1>4. b \in Blocks BY <1>3, OtherTypes
<1>5. Picture(c)[p] = "none" BY <1>2, OtherPicture DEF Picture
<1> HIDE DEF b
<1>6. \A m \in OtherRequests(p) : Append(up[c], m) \in Seq(OtherRequests(p))
  BY <1>2, AppendProperties
<1>7. CASE AddObserver(c)
  <2> DEFINE reg == b.reg
  <2>1. /\ writes'[c] = writes[c] /\ cache'[c] = cache[c]
        /\ \/ mainQ'[c] = mainQ[c]
           \/ mainQ'[c] = mainQ[c] \o ValueEvents(c, {reg}, Picture(c))
        /\ Send(c, <<>>) \/ Send(c, <<[type |-> "listen"]>>)
    BY <1>0, <1>7 DEF AddObserver, TypeOK, b
  <2>2. reg \in Regs
    <3>1. b.type = "observe" BY <1>7 DEF AddObserver, Block, b
    <3> QED BY <1>4, <3>1 DEF Blocks, LocalWrites, WriteOps
  <2> HIDE DEF reg
  <2>3. ValueEvents(c, {reg}, Picture(c)) \in Seq(OtherCallbacks(p))
    BY <1>5, <2>2, OtherValueEvents, FS_Singleton
  <2>4. mainQ'[c] \in Seq(OtherCallbacks(p)) BY <1>2, <2>1, <2>3, ConcatProperties
  <2>5. up'[c] \in Seq(OtherRequests(p))
    <3>1. [type |-> "listen"] \in Requests BY DEF Requests
    <3>2. [type |-> "listen"] \in OtherRequests(p)
      BY <3>1 DEF OtherRequests, WriteOps
    <3>3. up'[c] = up[c] \/ up'[c] = Append(up[c], [type |-> "listen"])
      BY <1>0, <2>1, <3>1, SendOne
    <3> QED BY <1>2, <1>6, <3>2, <3>3
  <2> QED BY <1>1, <1>3, <2>1, <2>4, <2>5 DEF Unheard
<1>8. CASE RemoveObserver(c)
  <2>1. writes'[c] = writes[c] /\ mainQ'[c] = mainQ[c]
    BY <1>0, <1>8 DEF RemoveObserver, TypeOK
  <2>2. /\ cache'[c] = cache[c] \/ cache'[c] = Nothing
        /\ up'[c] = up[c] \/ up'[c] = Append(up[c], [type |-> "unlisten"])
    BY <1>0, <1>8, RemoverSends
  <2>3. up'[c] \in Seq(OtherRequests(p))
    <3>1. [type |-> "unlisten"] \in OtherRequests(p)
      BY DEF OtherRequests, Requests, WriteOps
    <3> QED BY <1>2, <1>6, <2>2, <3>1
  <2>4. cache'[c][p] = "none" BY <1>2, <2>2 DEF Nothing
  <2> QED BY <1>1, <1>3, <2>1, <2>3, <2>4 DEF Unheard
<1>9. CASE LocalWrite(c)
  <2> DEFINE ws == Append(writes[c], b)
             told == ChildEvents(c, regs[c], Picture(c), Overlay(cache[c], complete[c], ws))
  <2>1. /\ writes'[c] = ws /\ mainQ'[c] = mainQ[c] \o told /\ cache' = cache
        /\ b.type \in WriteOps /\ Send(c, <<b>>)
    BY <1>0, <1>9 DEF LocalWrite, Block, TypeOK, b
  <2>2. b \in OtherWrites(p) /\ b \in OtherRequests(p) /\ b \in Requests

      BY <1>3, <1>4, <2>1 DEF OtherBlocks, OtherWrites, OtherRequests, Blocks, Requests, WriteOps
  <2>3. ws \in Seq(OtherWrites(p)) BY <1>2, <2>2, AppendProperties
  <2>4. Overlay(cache[c], complete[c], ws)[p] = "none" BY <1>2, <2>3, OtherPicture
  <2>5. told \in Seq(OtherCallbacks(p)) BY <1>2, <1>5, <2>4, OtherChildEvents
  <2> HIDE DEF ws, told
  <2>6. mainQ'[c] \in Seq(OtherCallbacks(p)) BY <1>2, <2>1, <2>5, ConcatProperties
  <2>7. up'[c] = up[c] \/ up'[c] = Append(up[c], b) BY <1>0, <2>1, <2>2, SendOne
  <2>8. up'[c] \in Seq(OtherRequests(p)) BY <1>2, <1>6, <2>2, <2>7
  <2> QED BY <1>1, <1>3, <2>1, <2>3, <2>6, <2>8 DEF Unheard
<1> QED BY <1>7, <1>8, <1>9 DEF RepoBlock

-----------------------------------------------------------------------------
(* and what it hears. *)

(* A message that comes, and those behind it, if they do not tell of p. *)
LEMMA HearingOthers ==
  ASSUME NEW c \in Clients, NEW p \in Posts, Unheard(c, p), NEW m, NEW d, Heard(c, m, d)
  PROVE  /\ m \in OtherResponses(p) /\ m \in Responses /\ down'[c] \in Seq(OtherResponses(p))
         /\ up'[c] \in Seq(OtherRequests(p))
<1>1. down[c] \in Seq(OtherResponses(p)) /\ up[c] \in Seq(OtherRequests(p))
  BY DEF Unheard
<1>2. m \in OtherResponses(p) /\ d \in Seq(OtherResponses(p)) BY <1>1, Hearing
<1> QED BY <1>1, <1>2, OtherTypes DEF Heard

LEMMA ReceivePushUnheard ==
  ASSUME TypeInv, NEW c \in Clients, NEW p \in Posts, Unheard(c, p), ReceivePush(c)
  PROVE  Unheard(c, p)'
<1> DEFINE m == Head(down[c])
           d == Tail(down[c])
           w == m.write
           ca == Patch(c, w)
           told == ChildEvents(c, regs[c], Picture(c), Overlay(ca, complete[c], writes[c]))
<1>0. TypeOK BY DEF TypeInv
<1>1. Heard(c, m, d) /\ m.type = "push"
  BY <1>0 DEF Heard, ReceivePush, Message, TypeOK, envVars
<1>2. /\ UNCHANGED <<repoQ, writes, rows, asked>>
      /\ cache'[c] = ca /\ mainQ'[c] = mainQ[c] \o told
  BY <1>0 DEF ReceivePush, TypeOK, appVars, historyVars
<1>3. ca = IF regs[c] # {} /\ (complete[c] \/ cache[c][w.post] # "none" \/ w.type # "update")
           THEN [cache[c] EXCEPT ![w.post] = Apply(w.type, @)] ELSE cache[c]
  BY DEF Patch
<1> HIDE DEF m, d, w, ca, told
<1>4. /\ m \in OtherResponses(p) /\ down'[c] \in Seq(OtherResponses(p))
      /\ up'[c] \in Seq(OtherRequests(p))
  BY <1>1, HearingOthers
<1>5. w.post # p BY <1>1, <1>4 DEF OtherResponses, w
<1>6. /\ writes[c] \in Seq(OtherWrites(p)) /\ mainQ[c] \in Seq(OtherCallbacks(p))
      /\ cache[c][p] = "none" /\ cache[c] \in Boards /\ session[c] \in Sessions
  BY <1>0 DEF Unheard, TypeOK
<1>7. ca[p] = "none" BY <1>3, <1>5, <1>6 DEF Boards
<1>8. told \in Seq(OtherCallbacks(p))
  <2>1. Picture(c)[p] = "none" /\ Overlay(ca, complete[c], writes[c])[p] = "none"
    BY <1>6, <1>7, OtherPicture DEF Picture
  <2> QED BY <1>6, <2>1, OtherChildEvents DEF told
<1>9. mainQ'[c] \in Seq(OtherCallbacks(p)) BY <1>2, <1>6, <1>8, ConcatProperties
<1> QED BY <1>2, <1>4, <1>7, <1>9 DEF Unheard

LEMMA ReceiveSnapshotUnheard ==
  ASSUME TypeInv, EveryWriteTracked, NEW c \in Clients, NEW p \in Posts, Unheard(c, p),
         ReceiveSnapshot(c)
  PROVE  Unheard(c, p)'
<1> DEFINE m == Head(down[c])
           d == Tail(down[c])
           viewed == regs[c] # {}
           ca == IF viewed THEN m.board ELSE cache[c]
           whole == viewed \/ complete[c]
           shown == Overlay(ca, whole, writes[c])
           told == ChildEvents(c, regs[c], Picture(c), shown)
           values == IF complete[c] THEN <<>> ELSE ValueEvents(c, ValueRegs(c), shown)
           wait == ListenPending(up[c], d)
           left == AckPuts(c, Len(held[c]))
           freed == AckPutsEvents(c, regs[c], ca, whole)
<1>0. TypeOK BY DEF TypeInv
<1>1. Heard(c, m, d) /\ m.type = "snapshot"
  BY <1>0 DEF Heard, ReceiveSnapshot, Message, TypeOK, envVars
<1>2. /\ UNCHANGED <<repoQ, rows, asked>> /\ cache'[c] = ca
      /\ writes'[c] = IF wait THEN writes[c] ELSE left
      /\ mainQ'[c] = mainQ[c] \o told \o values \o (IF wait THEN <<>> ELSE freed)
  BY <1>0 DEF ReceiveSnapshot, TypeOK, appVars, historyVars
<1>3. ValueRegs(c) \in SUBSET Regs /\ IsFiniteSet(ValueRegs(c))
  <2>1. regs[c] \in SUBSET Regs /\ IsFiniteSet(regs[c]) BY <1>0 DEF TypeInv, TypeOK
  <2>2. ValueRegs(c) \subseteq regs[c] BY DEF ValueRegs
  <2> QED BY <2>1, <2>2, FS_Subset
<1> HIDE DEF m, d, told, freed, left, values, wait, whole
<1>4. /\ m \in OtherResponses(p) /\ down'[c] \in Seq(OtherResponses(p))
      /\ up'[c] \in Seq(OtherRequests(p))
  BY <1>1, HearingOthers
<1>5. /\ writes[c] \in Seq(OtherWrites(p)) /\ mainQ[c] \in Seq(OtherCallbacks(p))
      /\ cache[c][p] = "none" /\ session[c] \in Sessions
  BY <1>0 DEF Unheard, TypeOK
<1>6. ca[p] = "none" BY <1>1, <1>4, <1>5 DEF OtherResponses
<1> HIDE DEF ca
<1>7. Picture(c)[p] = "none" /\ shown[p] = "none"
  BY <1>5, <1>6, OtherPicture DEF Picture
<1> HIDE DEF shown
<1>8. told \in Seq(OtherCallbacks(p)) BY <1>5, <1>7, OtherChildEvents DEF told
<1>9. values \in Seq(OtherCallbacks(p)) BY <1>3, <1>7, OtherValueEvents DEF values
<1>10. left \in Seq(OtherWrites(p)) /\ freed \in Seq(OtherCallbacks(p))
  BY <1>0, <1>5, <1>6, OtherRelease DEF left, freed
<1>11. mainQ'[c] \in Seq(OtherCallbacks(p))
  <2>1. PICK q \in Seq(OtherCallbacks(p)) : q = IF wait THEN <<>> ELSE freed
    <3>1. <<>> \in Seq(OtherCallbacks(p)) OBVIOUS
    <3> QED BY <1>10, <3>1
  <2>2. mainQ'[c] = mainQ[c] \o told \o values \o q BY <1>2, <2>1
  <2>3. mainQ[c] \o told \in Seq(OtherCallbacks(p)) BY <1>5, <1>8, ConcatProperties
  <2>4. mainQ[c] \o told \o values \in Seq(OtherCallbacks(p))
    BY <1>9, <2>3, ConcatProperties
  <2> QED BY <2>1, <2>2, <2>4, ConcatProperties
<1>12. writes'[c] \in Seq(OtherWrites(p)) BY <1>2, <1>5, <1>10
<1> QED BY <1>2, <1>4, <1>6, <1>11, <1>12 DEF Unheard

LEMMA ReceiveAckUnheard ==
  ASSUME TypeInv, EveryWriteTracked, NEW c \in Clients, connected[c], NEW p \in Posts,
         Unheard(c, p), ReceiveAck(c)
  PROVE  Unheard(c, p)'
<1> DEFINE m == Head(down[c])
           d == Tail(down[c])
           left == Left(c, m)
           told == SettleEvents(c, regs[c], cache[c], complete[c], writes[c], left, m)
<1>0. TypeOK BY DEF TypeInv
<1>1. Heard(c, m, d) /\ m.type = "ack"
  BY <1>0 DEF Heard, ReceiveAck, Message, TypeOK, envVars
<1>2. /\ UNCHANGED <<repoQ, cache, rows, asked>>
      /\ \/ UNCHANGED <<writes, mainQ>>
         \/ writes'[c] = left /\ mainQ'[c] = mainQ[c] \o told
  BY <1>0 DEF ReceiveAck, TypeOK, appVars, historyVars
<1>3. Message(c, "ack") BY DEF ReceiveAck
<1>4. m \in Acks /\ left = Answered(held[c]) \o Answered(d) \o Requested(up[c])
  BY <1>0, <1>3, LeftRest
<1>5. /\ writes[c] \in Seq(OtherWrites(p)) /\ mainQ[c] \in Seq(OtherCallbacks(p))
      /\ cache[c][p] = "none" /\ session[c] \in Sessions
  BY <1>0 DEF Unheard, TypeOK
<1>6. left \in Seq(OtherWrites(p))
  <2>1. Len(held[c]) <= Len(writes[c]) /\ held[c] \in Seq(Acks)
    BY <1>0, HeldAreOldest DEF TypeOK
  <2>2. Len(held[c]) \in Nat /\ Len(writes[c]) \in Nat BY <1>5, <2>1
  <2>3. \A i \in 1 .. Len(writes[c]) : writes[c][i] \in OtherWrites(p) BY <1>5
  <2>4. \A i \in 1 .. Len(held[c]) : writes[c][i] \in OtherWrites(p)
    BY <2>1, <2>2, <2>3
  <2>5. SubSeq(writes[c], 1, Len(held[c])) \in Seq(OtherWrites(p))
    BY <1>5, <2>1, <2>2, <2>4, SubSeqProperties
  <2>6. Unanswered(c) \in Seq(OtherWrites(p)) BY <1>0, <1>5, OtherUnanswered
  <2>7. Settle(Unanswered(c), m) \in Seq(OtherWrites(p))
    BY <2>6, RemoveFirstType DEF Settle
  <2> QED BY <2>5, <2>7, ConcatProperties DEF Left
<1> HIDE DEF m, d, told, left
<1>7. /\ m \in OtherResponses(p) /\ down'[c] \in Seq(OtherResponses(p))
      /\ up'[c] \in Seq(OtherRequests(p))
  BY <1>1, HearingOthers
<1>8. m.write.post # p BY <1>1, <1>7 DEF OtherResponses
<1>9. told \in Seq(OtherCallbacks(p))
  BY <1>4, <1>5, <1>6, <1>8, OtherSettleEvents DEF told
<1>10. mainQ'[c] \in Seq(OtherCallbacks(p)) BY <1>2, <1>5, <1>9, ConcatProperties
<1>11. writes'[c] \in Seq(OtherWrites(p)) BY <1>2, <1>5, <1>6
<1> QED BY <1>2, <1>5, <1>7, <1>10, <1>11 DEF Unheard

LEMMA ReceiveRefusalUnheard ==
  ASSUME TypeInv, EveryWriteTracked, NEW c \in Clients, NEW p \in Posts, Unheard(c, p),
         ReceiveRefusal(c)
  PROVE  Unheard(c, p)'
<1> DEFINE m == Head(down[c])
           d == Tail(down[c])
           left == AckPuts(c, Len(held[c]))
           lost == Cancelled(c)
           freed == AckPutsEvents(c, {}, Nothing, FALSE)
<1>0. TypeOK BY DEF TypeInv
<1>1. Heard(c, m, d)
  BY <1>0 DEF Heard, ReceiveRefusal, Message, TypeOK, envVars
<1>2. /\ UNCHANGED <<repoQ, rows, asked>>
      /\ \/ UNCHANGED <<cache, writes, mainQ>>
         \/ /\ cache'[c] = Nothing /\ writes'[c] = left
            /\ mainQ'[c] = mainQ[c] \o lost \o freed
  <2>1. UNCHANGED <<repoQ, rows, asked>> BY DEF ReceiveRefusal, appVars, historyVars
  <2>2. CASE ListenPending(up[c], d) BY <2>1, <2>2 DEF ReceiveRefusal, sdkVars
  <2>3. CASE ~ListenPending(up[c], d)
    <3>1. /\ cache' = [cache EXCEPT ![c] = Nothing]
          /\ writes' = [writes EXCEPT ![c] = left]
          /\ mainQ' = [mainQ EXCEPT ![c] = @ \o lost \o freed]
      BY <2>3 DEF ReceiveRefusal, CancelView
    <3> HIDE DEF left, lost, freed
    <3> QED BY <1>0, <2>1, <3>1 DEF TypeOK
  <2> QED BY <2>2, <2>3
<1> HIDE DEF m, d, left, lost, freed
<1>3. down'[c] \in Seq(OtherResponses(p)) /\ up'[c] \in Seq(OtherRequests(p))
  BY <1>1, HearingOthers
<1>4. /\ writes[c] \in Seq(OtherWrites(p)) /\ mainQ[c] \in Seq(OtherCallbacks(p))
      /\ cache[c][p] = "none"
  BY DEF Unheard
<1>5. Nothing[p] = "none" BY DEF Nothing
<1>6. left \in Seq(OtherWrites(p)) /\ freed \in Seq(OtherCallbacks(p))
  BY <1>0, <1>4, <1>5, OtherRelease DEF left, freed
<1>7. lost \in Seq(OtherCallbacks(p))
  <2>1. regs[c] \in SUBSET Regs /\ IsFiniteSet(regs[c]) BY <1>0 DEF TypeInv, TypeOK
  <2> QED BY <2>1, OtherValueEvents DEF lost
<1>8. mainQ'[c] \in Seq(OtherCallbacks(p))
  <2>1. mainQ[c] \o lost \in Seq(OtherCallbacks(p)) BY <1>4, <1>7, ConcatProperties
  <2>2. mainQ[c] \o lost \o freed \in Seq(OtherCallbacks(p))
    BY <1>6, <2>1, ConcatProperties
  <2> QED BY <1>2, <1>4, <2>2
<1>9. writes'[c] \in Seq(OtherWrites(p)) /\ cache'[c][p] = "none"
  BY <1>2, <1>4, <1>5, <1>6
<1> QED BY <1>2, <1>3, <1>8, <1>9 DEF Unheard

LEMMA ReceiveRevocationUnheard ==
  ASSUME TypeInv, NEW c \in Clients, NEW p \in Posts, Unheard(c, p), ReceiveRevocation(c)
  PROVE  Unheard(c, p)'
<1> DEFINE m == Head(down[c])
           d == Tail(down[c])
           lost == Cancelled(c)
<1>0. TypeOK BY DEF TypeInv
<1>1. Heard(c, m, d)
  BY <1>0 DEF Heard, ReceiveRevocation, Message, TypeOK, envVars
<1>2. /\ UNCHANGED <<repoQ, writes, rows, asked>>
      /\ cache'[c] = Nothing /\ mainQ'[c] = mainQ[c] \o lost
  BY <1>0 DEF ReceiveRevocation, CancelView, TypeOK, appVars, historyVars
<1> HIDE DEF m, d, lost
<1>3. down'[c] \in Seq(OtherResponses(p)) /\ up'[c] \in Seq(OtherRequests(p))
  BY <1>1, HearingOthers
<1>4. mainQ[c] \in Seq(OtherCallbacks(p)) BY DEF Unheard
<1>5. lost \in Seq(OtherCallbacks(p))
  <2>1. regs[c] \in SUBSET Regs /\ IsFiniteSet(regs[c]) BY <1>0 DEF TypeInv, TypeOK
  <2> QED BY <2>1, OtherValueEvents DEF lost
<1>6. mainQ'[c] \in Seq(OtherCallbacks(p)) BY <1>2, <1>4, <1>5, ConcatProperties
<1>7. cache'[c][p] = "none" BY <1>2 DEF Nothing
<1> QED BY <1>2, <1>3, <1>6, <1>7 DEF Unheard

(* Whatever message comes, it still has not. *)
LEMMA ReceiveUnheard ==
  ASSUME TypeInv, EveryWriteTracked, NEW c \in Clients, connected[c], NEW p \in Posts,
         Unheard(c, p), Receive(c)
  PROVE  Unheard(c, p)'
BY ReceivePushUnheard, ReceiveSnapshotUnheard, ReceiveAckUnheard, ReceiveRefusalUnheard,
   ReceiveRevocationUnheard DEF Receive

-----------------------------------------------------------------------------
(* What the server and the connection do *)

(* A snapshot of a board without p does not tell of it, *)
LEMMA ServeListenUnheard ==
  ASSUME TypeInv, NEW c \in Clients, NEW p \in Posts, Unheard(c, p), server[p] = "none",
         ServeListen(c) \/ ServeUnlisten(c)
  PROVE  Unheard(c, p)'
<1>0. TypeOK BY DEF TypeInv
<1>1. /\ up[c] # <<>> /\ up'[c] = Tail(up[c])
      /\ UNCHANGED <<repoQ, cache, writes, mainQ, rows, asked>>

    BY <1>0 DEF ServeListen, ServeUnlisten, Request, TypeOK, sdkVars, appVars, historyVars
<1>2. /\ up[c] \in Seq(OtherRequests(p)) /\ down[c] \in Seq(OtherResponses(p))
  BY DEF Unheard
<1>3. up'[c] \in Seq(OtherRequests(p)) BY <1>1, <1>2, HeadTailProperties
<1>4. down'[c] \in Seq(OtherResponses(p))
  <2>1. CASE ServeListen(c)
    <3> DEFINE m(ok) == IF ok THEN [type |-> "snapshot", board |-> server]
                              ELSE [type |-> "refusal"]
    <3>1. PICK ok \in BOOLEAN : down'[c] = Append(down[c], m(ok))
      BY <1>0, <2>1 DEF ServeListen, TypeOK
    <3>2. m(ok) \in OtherResponses(p) BY <1>0 DEF OtherResponses, Responses, TypeOK
    <3> HIDE DEF m
    <3> QED BY <1>2, <3>1, <3>2, AppendProperties
  <2>2. CASE ServeUnlisten(c)
    <3>1. down'[c] = down[c] BY <2>2 DEF ServeUnlisten
    <3> QED BY <1>2, <3>1
  <2> QED BY <2>1, <2>2
<1> QED BY <1>1, <1>3, <1>4 DEF Unheard

(* nor does a write performed that is of another post; *)
LEMMA ServeWriteUnheard ==
  ASSUME TypeInv, NEW c \in Clients, NEW d \in Clients, NEW p \in Posts, Unheard(d, p),
         ServeWrite(c), Head(up[c]).post # p
  PROVE  Unheard(d, p)'
<1>0. TypeOK BY DEF TypeInv
<1>1. PICK w \in LocalWrites, ok \in BOOLEAN :
        /\ w = Head(up[c]) /\ up[c] # <<>>
        /\ down'[d] = down[d] \o Pushed(d, w, ok) \o AckedTo(d, c, w, ok)
        /\ up' = [up EXCEPT ![c] = Tail(@)]
  BY <1>0, ServeWriteDef
<1>2. UNCHANGED <<repoQ, cache, writes, mainQ, rows, asked>>
  BY DEF ServeWrite, sdkVars, appVars, historyVars
<1>3. up[d] \in Seq(OtherRequests(p)) /\ down[d] \in Seq(OtherResponses(p))
  BY DEF Unheard
<1>4. up'[d] \in Seq(OtherRequests(p))
  <2>1. up'[d] = IF d = c THEN Tail(up[d]) ELSE up[d] BY <1>0, <1>1 DEF TypeOK
  <2>2. d = c => Tail(up[d]) \in Seq(OtherRequests(p))
    BY <1>1, <1>3, HeadTailProperties
  <2> QED BY <1>3, <2>1, <2>2
<1>5. down'[d] \in Seq(OtherResponses(p))
  <2>1. [type |-> "push", write |-> w] \in OtherResponses(p)
    BY <1>1 DEF OtherResponses, Responses
  <2>2. [type |-> "ack", write |-> w, ok |-> ok] \in OtherResponses(p)
    BY <1>1 DEF OtherResponses, Responses, Acks
  <2>3. Pushed(d, w, ok) \in Seq(OtherResponses(p)) BY <2>1 DEF Pushed
  <2>4. AckedTo(d, c, w, ok) \in Seq(OtherResponses(p)) BY <2>2 DEF AckedTo
  <2>5. down[d] \o Pushed(d, w, ok) \in Seq(OtherResponses(p))
    BY <1>3, <2>3, ConcatProperties
  <2> QED BY <1>1, <2>4, <2>5, ConcatProperties
<1> QED BY <1>2, <1>4, <1>5 DEF Unheard

(* and a connection that is lost, or back, carries no more than before. *)
LEMMA ConnectionUnheard ==
  ASSUME TypeInv, EveryWriteTracked, NEW c \in Clients, NEW p \in Posts, Unheard(c, p),
         RevokeListen(c) \/ Disconnect(c) \/ Reconnect(c) \/ Crash(c)
  PROVE  Unheard(c, p)'
<1>0. TypeOK BY DEF TypeInv
<1>1. /\ up[c] \in Seq(OtherRequests(p)) /\ down[c] \in Seq(OtherResponses(p))
      /\ writes[c] \in Seq(OtherWrites(p))
  BY DEF Unheard
<1>2. CASE RevokeListen(c)
  <2>1. /\ down'[c] = Append(down[c], [type |-> "revocation"])
        /\ UNCHANGED <<up, repoQ, cache, writes, mainQ, rows, asked>>
    BY <1>0, <1>2 DEF RevokeListen, TypeOK, sdkVars, appVars
  <2>2. [type |-> "revocation"] \in OtherResponses(p)
    BY DEF OtherResponses, Responses
  <2>3. down'[c] \in Seq(OtherResponses(p)) BY <1>1, <2>1, <2>2, AppendProperties
  <2> QED BY <2>1, <2>3 DEF Unheard
<1>3. CASE Disconnect(c)
  <2>1. /\ up'[c] = <<>> /\ down'[c] = <<>>
        /\ UNCHANGED <<repoQ, cache, writes, mainQ, rows, asked>>
    BY <1>0, <1>3 DEF Disconnect, TypeOK, sdkVars, appVars
  <2> QED BY <2>1 DEF Unheard
<1>4. CASE Reconnect(c)
  <2>1. /\ up'[c] = Relisten(c) \o Unanswered(c)
        /\ UNCHANGED <<down, repoQ, cache, writes, mainQ, rows, asked>>
    BY <1>0, <1>4 DEF Reconnect, Reconnected, TypeOK, sdkVars, appVars, historyVars
  <2>2. Unanswered(c) \in Seq(OtherRequests(p))
    <3>1. Unanswered(c) \in Seq(OtherWrites(p)) BY <1>0, <1>1, OtherUnanswered
    <3>2. OtherWrites(p) \subseteq OtherRequests(p)
      BY DEF OtherWrites, OtherRequests, Requests
    <3> QED BY <3>1, <3>2, SeqWider
  <2>3. Relisten(c) \in Seq(OtherRequests(p))
    <3>1. [type |-> "listen"] \in OtherRequests(p)
      BY DEF OtherRequests, Requests, WriteOps
    <3>2. <<[type |-> "listen"]>> \in Seq(OtherRequests(p)) /\ <<>> \in Seq(OtherRequests(p))
      BY <3>1
    <3> QED BY <3>2 DEF Relisten
  <2>4. up'[c] \in Seq(OtherRequests(p)) BY <2>1, <2>2, <2>3, ConcatProperties
  <2> QED BY <2>1, <2>4 DEF Unheard
<1>5. CASE Crash(c)
  <2>1. /\ up'[c] = <<>> /\ down'[c] = <<>> /\ repoQ'[c] = <<>> /\ mainQ'[c] = <<>>
        /\ cache'[c] = Nothing /\ writes'[c] = <<>> /\ rows'[c] = NoRows /\ asked' = asked
    BY <1>0, <1>5 DEF Crash, TypeOK
  <2>2. cache'[c][p] = "none" /\ rows'[c][p] = 0 BY <2>1 DEF Nothing, NoRows
  <2> QED BY <2>1, <2>2 DEF Unheard
<1> QED BY <1>2, <1>3, <1>4, <1>5

(* No step of another client changes its rows. *)
LEMMA OthersRows ==
  ASSUME TypeOK, NEW c \in Clients, NEW d \in Clients \ {c}, ActionOf(c)
  PROVE  rows'[d] = rows[d]
<1>1. CASE User(c)
  BY <1>1, SMTT(30)
    DEF User, OpenTimeline, Logout, CreatePost, RemovePost, TypeOK, appVars
<1>2. CASE MainThread(c)
  BY <1>2, ZenonT(60)
    DEF MainThread, PostsRetrieved, RetrievalFailed, PostAdded, PostRemoved,
              FeedEvent, PostWritten, TypeOK, appVars
<1>3. CASE RepoBlock(c)
  BY <1>3 DEF RepoBlock, AddObserver, RemoveObserver, LocalWrite, appVars
<1>4. CASE Receive(c)
  BY <1>4 DEF Receive, ReceivePush, ReceiveSnapshot, ReceiveAck, ReceiveRefusal,
              ReceiveRevocation, appVars
<1>5. CASE Serve(c)
  BY <1>5 DEF Serve, ServeListen, ServeUnlisten, ServeWrite, appVars
<1>6. CASE RevokeListen(c) \/ Disconnect(c) \/ Reconnect(c) \/ Crash(c)

    BY <1>6 DEF RevokeListen, Disconnect, Reconnect, Reconnected, Crash, TypeOK, appVars
<1> QED BY <1>1, <1>2, <1>3, <1>4, <1>5, <1>6 DEF ActionOf

(* A step after which a client may have heard of p creates p there, serves *)
(* a write on it, or tells of a board that has it.                         *)
LEMMA UnheardStays ==
  ASSUME SyncInv, [Next]_vars, NEW d \in Clients, NEW p \in Posts, Unheard(d, p),
         ~CreatePost(d, p), server[p] = "none",
         \A c \in Clients : ServeWrite(c) => Head(up[c]).post # p
  PROVE  Unheard(d, p)'
<1>0. TypeInv /\ TypeOK /\ EveryWriteTracked /\ \A c \in Clients : Sound(c)
  BY SoundTracked DEF SyncInv, TypeInv
<1>1. CASE UNCHANGED vars
  BY <1>1 DEF Unheard, vars, sdkVars, appVars, historyVars
<1>2. CASE ActionOf(d)
  <2>1. CASE Receive(d)
    <3>1. down[d] # <<>>
      BY <2>1 DEF Receive, ReceivePush, ReceiveSnapshot, ReceiveAck, ReceiveRefusal,
                  ReceiveRevocation, Message
    <3>2. connected[d] BY <1>0, <3>1 DEF Sound, Wire, TypeOK
    <3> QED BY <1>0, <2>1, <3>2, ReceiveUnheard
  <2>2. CASE Serve(d)
    BY <1>0, <2>2, ServeListenUnheard, ServeWriteUnheard DEF Serve
  <2>3. CASE User(d) \/ MainThread(d) \/ RepoBlock(d)
    BY <1>0, <2>3, UserUnheard, MainThreadUnheard, RepoBlockUnheard
  <2>4. CASE RevokeListen(d) \/ Disconnect(d) \/ Reconnect(d) \/ Crash(d)
    BY <1>0, <2>4, ConnectionUnheard
  <2> QED BY <1>2, <2>1, <2>2, <2>3, <2>4 DEF ActionOf
<1>3. ASSUME NEW c \in Clients, c # d, ActionOf(c) PROVE Unheard(d, p)'
  <2>1. CASE ServeWrite(c) BY <1>0, <2>1, ServeWriteUnheard
  <2>2. CASE ~ServeWrite(c)
    <3>1. Calm(d)
      BY <1>0, <1>3, <2>2, ScreensAreCalm, OthersAreCalm DEF ActionOf, Serve
    <3>2. repoQ'[d] = repoQ[d] /\ mainQ'[d] = mainQ[d]
      BY <1>0, <1>3, OthersKeep DEF ActionOf
    <3>3. rows'[d] = rows[d] BY <1>0, <1>3, OthersRows
    <3>4. asked'[d][p] = asked[d][p]
      <4>1. ~RemovePost(d, p) BY DEF Unheard, RemovePost
      <4> QED BY <1>0, <4>1, HistoryGrows
    <3> QED BY <3>1, <3>2, <3>3, <3>4 DEF Unheard, Calm
  <2> QED BY <2>1, <2>2
<1> QED BY <1>1, <1>2, <1>3, SomebodyActs

-----------------------------------------------------------------------------
(* Who cannot have heard of a post, has not *)

(* A write that is served is the oldest of its client's. *)
LEMMA ServedOldest ==
  ASSUME SyncInv, NEW c \in Clients, ServeWrite(c)
  PROVE  /\ Served(c) /\ Unserved(c) \in Seq(LocalWrites) /\ Unserved(c) # <<>>
         /\ Head(up[c]) = Head(Unserved(c)) /\ Head(up[c]) \in LocalWrites
<1>1. TypeInv /\ TypeOK /\ EveryWriteTracked /\ Sound(c)
  BY SoundTracked DEF SyncInv, TypeInv
<1>2. up[c] # <<>> BY DEF ServeWrite, Request
<1>3. connected[c] BY <1>1, <1>2 DEF Sound, Wire, TypeOK
<1>4. Served(c) BY <1>1, <1>3, ServeWrites DEF Serve
<1>5. Unserved(c) \in Seq(LocalWrites) BY <1>1, WriteQueues
<1>6. Head(up[c]) \in LocalWrites BY <1>1, ServeWriteDef
<1> QED BY <1>4, <1>5, <1>6 DEF Served

(* A client that has never heard of p has no write on it served. *)
LEMMA UnheardServed ==
  ASSUME SyncInv, NEW c \in Clients, NEW p \in Posts, Unheard(c, p), ServeWrite(c)
  PROVE  Head(up[c]).post # p
<1>1. TypeOK /\ EveryWriteTracked BY SoundTracked DEF SyncInv, TypeInv
<1>2. Unserved(c) \in Seq(OtherWrites(p)) BY <1>1, UnheardWrites
<1>3. Unserved(c) # <<>> /\ Head(up[c]) = Head(Unserved(c)) BY ServedOldest
<1>4. Head(up[c]) \in OtherWrites(p) BY <1>2, <1>3, HeadTailProperties
<1> QED BY <1>4 DEF OtherWrites

(* A post that is hidden was so before the step, and the step neither      *)
(* makes it nor serves a write on it.                                      *)
LEMMA HiddenBefore ==
  ASSUME PostInv, [Next]_vars, NEW c \in Clients, NEW p \in Posts, Hidden(c, p)'
  PROVE  /\ Hidden(c, p) /\ ~CreatePost(c, p)
         /\ \A d \in Clients : ServeWrite(d) => Head(up[d]).post # p
<1> DEFINE k == Creator[p]
<1>0. SyncInv /\ TypeOK /\ EveryWriteTracked /\ k \in Clients
  BY SoundTracked, CreatorAssumption DEF PostInv, SyncInv, TypeInv
<1>1. drops \in Nat /\ drops' \in Nat /\ drops <= drops' /\ posted \subseteq posted'
  BY <1>0, HistoryGrows
<1>2. \A d \in Clients : Hidden(d, p) => Unheard(d, p) BY DEF PostInv
<1>3. CASE p \notin posted
  <2>1. \A d \in Clients : Hidden(d, p) BY <1>3 DEF Hidden
  <2>2. \A d \in Clients : ServeWrite(d) => Head(up[d]).post # p
    BY <1>0, <1>2, <2>1, UnheardServed
  <2>3. ~CreatePost(c, p)
    <3> SUFFICES ASSUME CreatePost(c, p) PROVE FALSE OBVIOUS
    <3>1. p \in posted' /\ Creator[p] = c BY DEF CreatePost
    <3> QED BY <3>1 DEF Hidden
  <2> QED BY <2>1, <2>2, <2>3
<1>4. CASE p \in posted
  <2>1. drops = 0 /\ drops' = 0 /\ c # k /\ In(Unserved(k)', Sets(p))
    <3>1. p \in posted' BY <1>1, <1>4
    <3>2. drops' = 0 /\ c # k /\ In(Unserved(k), Sets(p))' BY <3>1 DEF Hidden
    <3>3. In(Unserved(k)', Sets(p)) BY <3>2 DEF In, Sets
    <3> QED BY <1>1, <3>2, <3>3
  <2>2. PICK s \in Seq(LocalWrites) : s = Unserved(k) BY <1>0, WriteQueues
  <2>3. PICK t : t = Unserved(k)' OBVIOUS
  <2>4. Orderly(k, s, p) BY <1>0, <2>2 DEF PostInv
  <2> HIDE DEF k
  <2>5. ASSUME NEW w \in LocalWrites, w \notin Sets(p), Issued(k, w) PROVE In(s, Sets(p))
    <3>1. t = Append(s, w) BY <2>2, <2>3, <2>5 DEF Issued
    <3>2. In(Append(s, w), Sets(p)) <=> In(s, Sets(p)) \/ w \in Sets(p) BY InAppend
    <3> QED BY <2>1, <2>3, <2>5, <3>1, <3>2
  <2>6. ASSUME Served(k) PROVE In(s, Sets(p)) /\ Head(up[k]) \notin On(p)
    <3>1. s # <<>> /\ t = Tail(s) /\ Head(s) = Head(up[k])
      BY <2>2, <2>3, <2>6 DEF Served
    <3>2. In(t, Sets(p)) BY <2>1, <2>3
    <3>3. In(s, Sets(p)) BY <3>1, <3>2, InHead
    <3>4. Head(s) \notin On(p) BY <2>4, <3>1, <3>2, NeverAfterHead DEF Orderly
    <3> QED BY <3>1, <3>3, <3>4
  <2>7. In(s, Sets(p))
    <3>1. CASE Still(k) \/ Acked(k) BY <2>1, <2>2, <3>1 DEF Still, Acked
    <3>2. CASE Served(k) BY <2>6, <3>2
    <3>3. ~(drops' > 0) BY <2>1
    <3>4. Unserved(k)' # <<>> BY <2>1, InNone
    <3>5. ASSUME NEW q \in Posts, CreatePost(k, q), Issued(k, Write("set", q))
          PROVE  In(s, Sets(p))
      <4>1. q # p BY <1>4, <3>5 DEF CreatePost
      <4>2. Write("set", q) \in LocalWrites /\ Write("set", q) \notin Sets(p)
        BY <4>1 DEF Write, LocalWrites, WriteOps, Sets
      <4> QED BY <2>5, <3>5, <4>2
    <3>6. ASSUME NEW q \in Posts, NEW op \in {"update", "remove"}, Issued(k, Write(op, q))
          PROVE  In(s, Sets(p))
      <4>1. Write(op, q) \in LocalWrites /\ Write(op, q) \notin Sets(p)
        BY DEF Write, LocalWrites, WriteOps, Sets
      <4> QED BY <2>5, <3>6, <4>1
    <3>7. Moves(k) BY <1>0, WritesMove
    <3> QED BY <3>1, <3>2, <3>3, <3>4, <3>5, <3>6, <3>7 DEF Moves
  <2>8. \A d \in Clients : d # k => Hidden(d, p) BY <2>1, <2>2, <2>7 DEF Hidden, k
  <2>9. ASSUME NEW d \in Clients, ServeWrite(d) PROVE Head(up[d]).post # p
    <3>1. CASE d # k BY <1>0, <1>2, <2>8, <2>9, <3>1, UnheardServed
    <3>2. CASE d = k
      <4>1. Served(k) /\ Head(up[k]) \in LocalWrites
        BY <1>0, <2>9, <3>2, ServedOldest
      <4>2. Head(up[k]) \notin On(p) BY <2>6, <4>1
      <4> QED BY <3>2, <4>1, <4>2 DEF On
    <3> QED BY <3>1, <3>2
  <2>10. ~CreatePost(c, p) BY <1>4 DEF CreatePost
  <2> QED BY <2>1, <2>8, <2>9, <2>10
<1> QED BY <1>3, <1>4

(* So the board does not have it, and nobody has heard of it. *)
LEMMA HiddenKept ==
  ASSUME PostInv, [Next]_vars, NEW c \in Clients, NEW p \in Posts, Hidden(c, p)'
  PROVE  server'[p] = "none" /\ Unheard(c, p)'
<1>0. SyncInv /\ TypeOK BY DEF PostInv, SyncInv, TypeInv
<1>1. /\ Hidden(c, p) /\ ~CreatePost(c, p)
      /\ \A d \in Clients : ServeWrite(d) => Head(up[d]).post # p
  BY HiddenBefore
<1>2. server[p] = "none" /\ Unheard(c, p) BY <1>1 DEF PostInv
<1>3. server'[p] = server[p]
  <2> SUFFICES ASSUME server'[p] # server[p] PROVE FALSE OBVIOUS
  <2>1. PICK d \in Clients : ServeWrite(d) BY ServerChanges
  <2>2. Head(up[d]).post # p BY <1>1, <2>1
  <2>3. PICK w \in LocalWrites, ok \in BOOLEAN :
          /\ w = Head(up[d])
          /\ server' = IF ok THEN [server EXCEPT ![w.post] = Apply(w.type, server[w.post])]
                       ELSE server
    BY <1>0, <2>1, ServeWriteDef
  <2> QED BY <1>0, <2>2, <2>3 DEF TypeOK, Boards
<1>4. Unheard(c, p)' BY <1>0, <1>1, <1>2, UnheardStays
<1> QED BY <1>2, <1>3, <1>4

(* Whatever a step does to the local writes, they stay in order. *)
LEMMA OrderlyKept ==
  ASSUME PostInv, [Next]_vars, NEW c \in Clients, NEW p \in Posts
  PROVE  Orderly(c, Unacked(c), p)' /\ Orderly(c, Unserved(c), p)'
<1>0. SyncInv /\ TypeInv /\ TypeOK /\ EveryWriteTracked
  BY SoundTracked DEF PostInv, SyncInv, TypeInv
<1>1. PICK q \in Seq(LocalWrites) : q = Unacked(c) BY <1>0, WriteQueues
<1>2. PICK s \in Seq(LocalWrites) : s = Unserved(c) BY <1>0, WriteQueues
<1>3. PICK r : r = Unacked(c)' OBVIOUS
<1>4. PICK t : t = Unserved(c)' OBVIOUS
<1>5. Orderly(c, q, p) /\ Orderly(c, s, p) BY <1>1, <1>2 DEF PostInv
<1> SUFFICES Orderly(c, r, p)' /\ Orderly(c, t, p)' BY <1>3, <1>4 DEF Orderly
<1>6. ASSUME NEW w \in LocalWrites, Issued(c, w),
             w \in Sets(p) => CreatePost(c, p),
             w \in Removals(p) \/ asked'[c][p] = asked[c][p]
      PROVE  Orderly(c, r, p)' /\ Orderly(c, t, p)'
  <2>1. r = Append(q, w) /\ t = Append(s, w)
    BY <1>1, <1>2, <1>3, <1>4, <1>6 DEF Issued
  <2>2. w \in Sets(p) =>
          Creator[p] = c /\ ~In(q, On(p)) /\ ~In(s, On(p)) /\ asked'[c][p] = 0
    <3> HAVE w \in Sets(p)
    <3>1. Creator[p] = c /\ p \notin posted /\ asked' = asked BY <1>6 DEF CreatePost
    <3>2. Unheard(c, p) BY <3>1 DEF PostInv, Hidden
    <3>3. ~In(q, On(p)) /\ ~In(s, On(p)) BY <1>0, <1>1, <1>2, <3>2, UnheardWrites
    <3> QED BY <3>1, <3>2, <3>3 DEF Unheard
  <2>3. Orderly(c, Append(q, w), p)' BY <1>5, <1>6, <2>2, OrderlyAppend
  <2>4. Orderly(c, Append(s, w), p)' BY <1>5, <1>6, <2>2, OrderlyAppend
  <2> QED BY <2>1, <2>3, <2>4
<1>7. CASE asked'[c][p] # asked[c][p]
  <2>1. RemovePost(c, p) BY <1>0, <1>7, HistoryGrows
  <2>2. User(c) BY <2>1 DEF User
  <2>3. Issued(c, Write("remove", p)) BY <1>0, <2>1, <2>2, UserWrites
  <2>4. /\ Write("remove", p) \in LocalWrites /\ Write("remove", p) \in Removals(p)
        /\ Write("remove", p) \notin Sets(p)
    BY DEF Write, LocalWrites, WriteOps, Removals, Removal, Sets
  <2> QED BY <1>6, <2>3, <2>4
<1>8. CASE asked'[c][p] = asked[c][p]
  <2>1. ASSUME r = q \/ (q # <<>> /\ r = Tail(q)) \/ r = <<>>,
               t = s \/ (s # <<>> /\ t = Tail(s)) \/ t = <<>>
        PROVE  Orderly(c, r, p)' /\ Orderly(c, t, p)'
    BY <1>5, <1>8, <2>1, OrderlyTail
  <2>2. CASE Still(c) BY <1>1, <1>2, <1>3, <1>4, <2>1, <2>2 DEF Still
  <2>3. CASE Acked(c) BY <1>1, <1>2, <1>3, <1>4, <2>1, <2>3 DEF Acked
  <2>4. CASE Served(c) BY <1>1, <1>2, <1>3, <1>4, <2>1, <2>4 DEF Served
  <2>5. CASE Resent(c)
    <3>1. r = q /\ t = q BY <1>1, <1>3, <1>4, <2>5 DEF Resent
    <3>2. Orderly(c, q, p)' BY <1>5, <1>8, OrderlyTail
    <3> QED BY <3>1, <3>2
  <2>6. CASE Unacked(c)' = <<>> /\ Unserved(c)' = <<>> BY <1>3, <1>4, <2>1, <2>6
  <2>7. ASSUME NEW x \in Posts, CreatePost(c, x), Issued(c, Write("set", x))
        PROVE  Orderly(c, r, p)' /\ Orderly(c, t, p)'
    <3>1. Write("set", x) \in LocalWrites /\ (Write("set", x) \in Sets(p) => x = p)
      BY DEF Write, LocalWrites, WriteOps, Sets
    <3> QED BY <1>6, <1>8, <2>7, <3>1
  <2>8. ASSUME NEW x \in Posts, NEW op \in {"update", "remove"}, Issued(c, Write(op, x))
        PROVE  Orderly(c, r, p)' /\ Orderly(c, t, p)'
    <3>1. Write(op, x) \in LocalWrites /\ Write(op, x) \notin Sets(p)
      BY DEF Write, LocalWrites, WriteOps, Sets
    <3> QED BY <1>6, <1>8, <2>8, <3>1
  <2>9. Moves(c) BY <1>0, WritesMove
  <2> QED BY <2>2, <2>3, <2>4, <2>5, <2>6, <2>7, <2>8, <2>9 DEF Moves
<1> QED BY <1>7, <1>8

-----------------------------------------------------------------------------
(* A removed post does not come back *)

(* A removal that is still to be performed stays so, unless it is          *)
(* performed now, or lost in a crash.                                      *)
LEMMA RemovalUnserved ==
  ASSUME SyncInv, [Next]_vars, NEW c \in Clients, NEW p \in Posts,
         In(Unserved(c), Removals(p)), crashes' = 0,
         Served(c) /\ ServeWrite(c) => Head(up[c]) # Removal(p)
  PROVE  In(Unserved(c)', Removals(p))
<1>0. TypeOK /\ EveryWriteTracked BY SoundTracked DEF SyncInv, TypeInv
<1>1. PICK s \in Seq(LocalWrites) : s = Unserved(c) BY <1>0, WriteQueues
<1>2. PICK t : t = Unserved(c)' OBVIOUS
<1>3. In(s, Removals(p)) BY <1>1
<1> SUFFICES In(t, Removals(p)) BY <1>2
<1>4. CASE Still(c) \/ Acked(c) BY <1>1, <1>2, <1>3, <1>4 DEF Still, Acked
<1>5. CASE Served(c) /\ ServeWrite(c)
  <2>1. s # <<>> /\ t = Tail(s) /\ Head(s) # Removal(p)
    BY <1>1, <1>2, <1>5 DEF Served
  <2>2. In(s, Removals(p)) <=> Head(s) \in Removals(p) \/ In(Tail(s), Removals(p))
    BY <2>1, InHead
  <2> QED BY <1>3, <2>1, <2>2 DEF Removals
<1>6. CASE Resent(c)
  <2>1. Has(s, Removal(p)) BY <1>3 DEF In, Has, Removals
  <2>2. Has(t, Removal(p)) BY <1>1, <1>2, <1>6, <2>1 DEF Resent
  <2> QED BY <2>2 DEF In, Has, Removals
<1>7. ASSUME NEW w \in LocalWrites, Issued(c, w) PROVE In(t, Removals(p))
  <2>1. t = Append(s, w) BY <1>1, <1>2, <1>7 DEF Issued
  <2>2. In(Append(s, w), Removals(p)) <=> In(s, Removals(p)) \/ w \in Removals(p)
    BY <1>7, InAppend
  <2> QED BY <1>3, <2>1, <2>2
<1>8. \A q \in Posts, op \in WriteOps : Write(op, q) \in LocalWrites
  BY DEF Write, LocalWrites
<1>9. \/ Still(c) \/ Acked(c) \/ Resent(c) \/ crashes' > 0
      \/ Served(c) /\ ServeWrite(c)
      \/ \E w \in LocalWrites : Issued(c, w)
  <2>1. Moves(c) BY WritesMove
  <2> QED BY <1>8, <2>1 DEF Moves, WriteOps
<1>10. ~(crashes' > 0) OBVIOUS
<1> QED BY <1>4, <1>5, <1>6, <1>7, <1>9, <1>10

(* What a write performed makes of a post: an update makes none of a       *)
(* record that was none, and a removal ends it.                            *)
LEMMA PostPerformed ==
  ASSUME TypeOK, ~RejectsWrites, NEW c \in Clients, ServeWrite(c), NEW p \in Posts,
         IsPost(server'[p])
  PROVE  /\ Head(up[c]) # Removal(p)
         /\ Head(up[c]) = Write("set", p) \/ IsPost(server[p])
<1>1. PICK w \in LocalWrites :
        /\ w = Head(up[c])
        /\ server' = [server EXCEPT ![w.post] = Apply(w.type, server[w.post])]
  BY ServeWriteDef
<1>2. server[p] \in Records BY DEF TypeOK, Boards
<1>3. server'[p] = IF w.post = p THEN Apply(w.type, server[p]) ELSE server[p]
  BY <1>1 DEF TypeOK, Boards
<1>4. w.type \in WriteOps /\ (w.post = p => w = Write(w.type, p))
  BY DEF LocalWrites, Write
<1>5. w # Removal(p)
  <2> SUFFICES ASSUME w = Removal(p) PROVE FALSE OBVIOUS
  <2>1. w.post = p /\ w.type = "remove" BY DEF Removal, Write
  <2>2. server'[p] = "none" BY <1>3, <2>1 DEF Apply
  <2> QED BY <2>2 DEF IsPost
<1>6. CASE w.post # p BY <1>1, <1>3, <1>5, <1>6
<1>7. CASE w.post = p /\ w.type = "update"
  <2>1. server'[p] = Apply("update", server[p]) BY <1>3, <1>7
  <2>2. IsPost(server[p]) BY <1>2, <2>1 DEF Apply, IsPost, Records
  <2> QED BY <1>1, <1>5, <2>2
<1>8. CASE w.post = p /\ w.type # "update"
  <2>1. w.type = "set" BY <1>4, <1>5, <1>8 DEF WriteOps, Removal
  <2> QED BY <1>1, <1>4, <1>5, <1>8, <2>1
<1> QED BY <1>6, <1>7, <1>8

(* A post that is there though somebody asked to remove it was there       *)
(* before, or its creation was performed now, which comes again only after *)
(* a lost connection, before the creator's removal in the same order.      *)
LEMMA RemovingKept ==
  ASSUME PostInv, [Next]_vars, ~RejectsWrites, crashes' = 0, NEW p \in Posts
  PROVE  Removing(p)'
<1>0. SyncInv /\ TypeInv /\ TypeOK /\ EveryWriteTracked
  BY SoundTracked DEF PostInv, SyncInv, TypeInv
<1>1. /\ drops \in Nat /\ drops' \in Nat /\ drops <= drops'
      /\ crashes \in Nat /\ crashes <= crashes'
      /\ \A c \in Clients :
           /\ asked[c][p] \in Nat /\ asked'[c][p] \in Nat /\ asked[c][p] <= asked'[c][p]
           /\ asked'[c][p] # asked[c][p] => RemovePost(c, p)
  BY <1>0, HistoryGrows
<1>2. Removing(p) BY <1>1 DEF PostInv
<1> SUFFICES ASSUME IsPost(server'[p]), NEW a \in Clients, asked'[a][p] > 0,
                    drops' = 0 \/ RemovedByCreator(p)'
             PROVE  \E c \in Clients : In(Unserved(c)', Removals(p))
  BY DEF Removing, In, Removals
<1>3. ASSUME NEW c \in Clients, RemovePost(c, p) PROVE In(Unserved(c)', Removals(p))
  <2>1. Issued(c, Write("remove", p)) BY <1>0, <1>3, UserWrites DEF User
  <2>2. PICK s \in Seq(LocalWrites) : s = Unserved(c) BY <1>0, WriteQueues
  <2>3. Write("remove", p) \in LocalWrites /\ Write("remove", p) \in Removals(p)
    BY DEF Write, LocalWrites, WriteOps, Removals, Removal
  <2>4. In(Append(s, Write("remove", p)), Removals(p)) BY <2>3, InAppend
  <2> QED BY <2>1, <2>2, <2>4 DEF Issued
<1>4. CASE \E c \in Clients : asked'[c][p] # asked[c][p] BY <1>1, <1>3, <1>4
<1>5. CASE \A c \in Clients : asked'[c][p] = asked[c][p]
  <2>1. /\ asked[a][p] > 0
        /\ drops = 0 \/ RemovedByCreator(p)
    BY <1>1, <1>5 DEF RemovedByCreator
  <2>2. CASE IsPost(server[p])
    <3>1. PICK c \in Clients : In(Unserved(c), Removals(p))
      BY <1>2, <2>1, <2>2 DEF Removing
    <3>2. Served(c) /\ ServeWrite(c) => Head(up[c]) # Removal(p)
      BY <1>0, PostPerformed
    <3> QED BY <1>0, <3>1, <3>2, RemovalUnserved
  <2>3. CASE ~IsPost(server[p])
    <3>1. PICK c \in Clients : ServeWrite(c) BY <2>3, ServerChanges
    <3>2. Head(up[c]) = Write("set", p) BY <1>0, <2>3, <3>1, PostPerformed
    <3>3. PICK s \in Seq(LocalWrites) : s = Unserved(c) BY <1>0, WriteQueues
    <3>4. s # <<>> /\ Head(s) \in Sets(p) /\ Unserved(c)' = Tail(s)
      BY <1>0, <3>1, <3>2, <3>3, ServedOldest DEF Served, Sets
    <3>5. In(s, Sets(p)) BY <3>4, InHead
    <3>6. Orderly(c, s, p) BY <3>3 DEF PostInv
    <3>7. Creator[p] = c BY <3>5, <3>6 DEF Orderly
    <3>8. asked[c][p] > 0
      <4>1. CASE drops = 0
        <5>1. a = c
          <6> SUFFICES ASSUME a # c PROVE FALSE OBVIOUS
          <6>1. Hidden(a, p) BY <3>3, <3>5, <3>7, <4>1 DEF Hidden
          <6>2. asked[a][p] = 0 BY <6>1 DEF PostInv, Unheard
          <6> QED BY <2>1, <6>2
        <5> QED BY <2>1, <5>1
      <4>2. CASE RemovedByCreator(p) BY <2>1, <3>7, <4>2 DEF RemovedByCreator
      <4> QED BY <2>1, <4>1, <4>2
    <3>9. Met(s, Sets(p), {}, {}, Removals(p)) BY <3>6, <3>8 DEF Orderly
    <3>10. In(Tail(s), Removals(p)) BY <3>4, <3>9, MetHead
    <3> QED BY <3>4, <3>10
  <2> QED BY <2>2, <2>3
<1> QED BY <1>4, <1>5

(* At first nobody has heard of anything; *)
LEMMA PostInit == Init => PostInv
<1> SUFFICES ASSUME Init PROVE PostInv OBVIOUS
<1>1. SyncInv BY SyncInit
<1>2. ASSUME NEW c \in Clients, NEW p \in Posts
      PROVE  /\ server[p] = "none" /\ Unheard(c, p)
             /\ Orderly(c, Unacked(c), p) /\ Orderly(c, Unserved(c), p)
  <2>1. /\ up[c] = <<>> /\ down[c] = <<>> /\ repoQ[c] = <<>> /\ mainQ[c] = <<>>
        /\ cache[c] = Nothing /\ writes[c] = <<>> /\ rows[c] = NoRows /\ asked[c] = NoRows
        /\ held[c] = <<>> /\ connected[c] /\ server = Nothing
    BY DEF Init
  <2>2. server[p] = "none" /\ Unheard(c, p) BY <2>1 DEF Nothing, NoRows, Unheard
  <2>3. TypeOK /\ EveryWriteTracked BY <1>1, SoundTracked DEF SyncInv, TypeInv
  <2>4. ~In(Unacked(c), Sets(p)) /\ ~In(Unserved(c), Sets(p))
    <3>1. ~In(Unacked(c), On(p)) /\ ~In(Unserved(c), On(p))
      BY <2>2, <2>3, UnheardWrites
    <3>2. Sets(p) \subseteq On(p) BY DEF Sets, On, Write, LocalWrites, WriteOps
    <3> QED BY <3>1, <3>2 DEF In
  <2>5. asked[c][p] = 0 BY <2>2 DEF Unheard
  <2> QED BY <2>2, <2>4, <2>5 DEF Orderly, NeverAfter, In
<1>3. \A p \in Posts : Removing(p)
  <2>1. \A p \in Posts : ~IsPost(server[p]) BY DEF Init, Nothing, IsPost
  <2> QED BY <2>1 DEF Removing
<1> QED BY <1>1, <1>2, <1>3 DEF PostInv

(* the invariant is inductive; *)
LEMMA PostStep == PostInv /\ [Next]_vars => PostInv'
<1> SUFFICES ASSUME PostInv, [Next]_vars PROVE PostInv' OBVIOUS
<1>1. SyncInv' BY SyncStep DEF PostInv
<1>2. \A c \in Clients, p \in Posts :
        /\ Hidden(c, p)' => server'[p] = "none" /\ Unheard(c, p)'
        /\ Orderly(c, Unacked(c), p)' /\ Orderly(c, Unserved(c), p)'
  BY HiddenKept, OrderlyKept
<1>3. ~RejectsWrites /\ crashes' = 0 => \A p \in Posts : Removing(p)'
  BY RemovingKept
<1> QED BY <1>1, <1>2, <1>3 DEF PostInv

(* and with all queues empty no removal is left to be performed. *)
LEMMA PostQuiet == PostInv => RemovedStaysRemoved
<1> SUFFICES ASSUME PostInv, Quiescent, ~RejectsWrites, crashes = 0, NEW p \in Posts,
                    \E c \in Clients : asked[c][p] > 0,
                    drops = 0 \/ RemovedByCreator(p), IsPost(server[p])
             PROVE  FALSE
  BY DEF RemovedStaysRemoved
<1>1. PICK c \in Clients : In(Unserved(c), Removals(p)) BY DEF PostInv, Removing
<1>2. connected[c] /\ up[c] = <<>> /\ repoQ[c] = <<>> BY DEF Quiescent
<1>3. Outbox(c) = <<>> BY <1>2 DEF Outbox
<1>4. <<>> \o <<>> = <<>> BY ConcatEmptySeq, <<>> \in Seq(LocalWrites)
<1>5. Unserved(c) = <<>> BY <1>2, <1>3, <1>4, RequestedEmpty DEF Unserved
<1> QED BY <1>1, <1>5, InNone

(* A post that somebody asked to remove is off the board once all is       *)
(* quiet, for any number of clients, posts and lost connections, although  *)
(* a reconnection sends its creation again, if the server refuses nothing, *)
(* nobody crashed, and, once a connection was lost, only its creator asked *)
(* (FirebaseTimelineService.swift:71-86, FPersistentConnection.m:1000-1009). *)
THEOREM RemovedStayRemoved == Spec => []RemovedStaysRemoved
<1>1. PostInv /\ [Next]_vars => PostInv' BY PostStep
<1> QED BY PostInit, <1>1, PostQuiet, PTL DEF Spec
=============================================================================
