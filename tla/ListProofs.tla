----------------------------- MODULE ListProofs -----------------------------
(***************************************************************************)
(* The timeline screens implement LiveList, for any number of clients,     *)
(* posts, screens, lost connections and crashes, if the server refuses no  *)
(* write.                                                                  *)
(*                                                                         *)
(* LiveList lets a post onto a screen twice at the most: once with the     *)
(* load and once more when its announcement, the rewritten timestamp,      *)
(* comes.  So a screen must never be told a second time of a change of the *)
(* same record, by whichever of local write, answer, push and snapshot the *)
(* SDK hears of it.  The argument is about the post's record in a client's *)
(* picture: before a change that is worth an insertion it is "created"     *)
(* (TurnsFinal), and after it, it is never "created" again (FinalStays).   *)
(* Both rest on what OrderProofs says of the queues.                       *)
(***************************************************************************)
EXTENDS OrderProofs

-----------------------------------------------------------------------------
(* No post three times on a screen *)

(* A row to insert: for a screen, and for a post on it. *)
Adding(s) == {m \in Callbacks : m.type = "changed" /\ m.session = s}

(* The same, for a post on it. *)
Changes(s, p) == {m \in Adding(s) : m.post = p}

(* The block that will register the insertions of screen s. *)
Observing(s) == [type |-> "observe", reg |-> <<"changed", s>>]

(* Nothing has been set up yet that could insert rows on screen s. *)
Unlive(c, s) ==
  /\ ~In(mainQ[c], Adding(s))
  /\ <<"changed", s>> \notin regs[c]
  /\ ~Has(repoQ[c], Observing(s))

(* A screen gets rows only by its load, and only then asks for more. *)
Fresh(c) ==
  /\ \A s \in Sessions :
       s > session[c] \/ (phase[c] = "loading" /\ s = session[c]) => Unlive(c, s)
  /\ phase[c] # "live" => rows[c] = NoRows

(* Only one message of q is in S. *)
Once(q, S) == \A i, j \in 1 .. Len(q) : q[i] \in S /\ q[j] \in S => i = j

(* The post is announced for good, on the board and to client c. *)
Late(c, p) == Past(p) /\ cache[c][p] # "created" /\ ~In(down[c], Making(p))
(* Client c's picture of the post will not be "created" any more. *)
Final(c, p) == Spent(p) /\ (Has(writes[c], Write("update", p)) \/ Late(c, p))

(* No screen shows a post three times, now or after the callbacks that wait. *)
Twice(c, p) ==
  phase[c] = "live" =>
    /\ rows[c][p] <= 2 /\ (rows[c][p] = 2 => Final(c, p))
    /\ In(mainQ[c], Changes(session[c], p)) => Final(c, p) /\ rows[c][p] <= 1
    /\ Once(mainQ[c], Changes(session[c], p))

(* What client c's writes and picture say of the post. *)
Views(c, p) ==
  /\ Spent(p) => ~Has(writes[c], Write("set", p))
  /\ Has(writes[c], Write("update", p)) => c = Creator[p] /\ Spent(p)
  /\ ~Spent(p) => Picture(c)[p] \in {"none", "created"}
  /\ Final(c, p) => Picture(c)[p] # "created"
  /\ Picture(c)[p] = "stamped" => Final(c, p)

(* A callback inserts a post twice only if it comes twice. *)
LEMMA InConcat ==
  ASSUME NEW T, NEW q \in Seq(T), NEW r \in Seq(T)
  PROVE  /\ q \o r \in Seq(T)
         /\ \A S : In(q \o r, S) <=> In(q, S) \/ In(r, S)
         /\ \A S : Once(q, S) /\ ~In(r, S) => Once(q \o r, S)
         /\ \A S : ~In(q, S) /\ Once(r, S) => Once(q \o r, S)
<1> DEFINE t == q \o r
           m == Len(q)
           n == Len(r)
<1>1. /\ t \in Seq(T) /\ m \in Nat /\ n \in Nat /\ Len(t) = m + n
      /\ \A i \in 1 .. m : t[i] = q[i]
      /\ \A i \in m + 1 .. m + n : t[i] = r[i - m]
  BY ConcatProperties
<1> HIDE DEF t, m, n
<1>2. \A i \in 1 .. n : t[m + i] = r[i]
  <2> TAKE i \in 1 .. n
  <2>1. m + i \in m + 1 .. m + n /\ (m + i) - m = i BY <1>1
  <2> QED BY <1>1, <2>1
<1>3. \A i \in 1 .. m + n : i \in 1 .. m \/ (i - m \in 1 .. n /\ t[i] = r[i - m])
  BY <1>1
<1>4. ASSUME NEW S PROVE In(t, S) <=> In(q, S) \/ In(r, S)
  <2>1. ASSUME NEW i \in 1 .. m, q[i] \in S PROVE In(t, S)
    <3>1. i \in 1 .. Len(t) /\ t[i] \in S BY <1>1, <2>1
    <3> QED BY <3>1 DEF In
  <2>2. ASSUME NEW i \in 1 .. n, r[i] \in S PROVE In(t, S)
    <3>1. m + i \in 1 .. Len(t) /\ t[m + i] \in S BY <1>1, <1>2, <2>2
    <3> QED BY <3>1 DEF In
  <2>3. ASSUME NEW i \in 1 .. Len(t), t[i] \in S PROVE In(q, S) \/ In(r, S)
    BY <1>1, <1>3, <2>3 DEF In, m, n
  <2> QED BY <2>1, <2>2, <2>3 DEF In, m, n
<1>5. ASSUME NEW S, Once(q, S), ~In(r, S) PROVE Once(t, S)
  <2>1. \A i \in 1 .. Len(t) : t[i] \in S => i \in 1 .. m /\ q[i] \in S
    BY <1>1, <1>3, <1>5 DEF In, n
  <2> QED BY <1>5, <2>1 DEF Once, m
<1>6. ASSUME NEW S, ~In(q, S), Once(r, S) PROVE Once(t, S)
  <2>1. \A i \in 1 .. Len(t) : t[i] \in S => i - m \in 1 .. n /\ r[i - m] \in S
    BY <1>1, <1>3, <1>6 DEF In, m
  <2> SUFFICES ASSUME NEW i \in 1 .. Len(t), NEW j \in 1 .. Len(t), t[i] \in S, t[j] \in S
               PROVE  i = j
    BY DEF Once
  <2>2. i - m = j - m BY <1>6, <2>1 DEF Once, n
  <2> QED BY <1>1, <2>2
<1> QED BY <1>1, <1>4, <1>5, <1>6 DEF t

(* It stays so in the tail, *)
LEMMA OnceInTail ==
  ASSUME NEW T, NEW q \in Seq(T), q # <<>>, NEW S, Once(q, S)
  PROVE  /\ Once(Tail(q), S)
         /\ Head(q) \in S => ~In(Tail(q), S)
         /\ \A R : In(Tail(q), R) => In(q, R)
<1>1. /\ Tail(q) \in Seq(T) /\ Len(q) \in Nat /\ Len(q) = Len(Tail(q)) + 1
      /\ Len(Tail(q)) \in Nat
      /\ \A i \in 1 .. Len(Tail(q)) : Tail(q)[i] = q[i + 1]
      /\ q[1] = Head(q)
  BY TailPlaces
<1>2. \A i \in 1 .. Len(Tail(q)) : i + 1 \in 1 .. Len(q) /\ i + 1 # 1 BY <1>1
<1>3. 1 \in 1 .. Len(q) BY <1>1
<1>4. \A i, j \in 1 .. Len(Tail(q)) : i + 1 = j + 1 => i = j BY <1>1
<1> QED BY <1>1, <1>2, <1>3, <1>4 DEF Once, In

(* and what is not in q at all is not in it twice. *)
LEMMA OnceInNone ==
  /\ \A S : Once(<<>>, S)
  /\ \A T, S : \A q \in Seq(T) : ~In(q, S) => Once(q, S)
BY DEF Once, In

(* What insertions are. *)
LEMMA AddingMembers ==
  /\ \A s, p : Changes(s, p) \subseteq Adding(s)
  /\ \A s, m : m \in Adding(s) => m.type = "changed" /\ m.session = s
  /\ \A s, p, m : m \in Changes(s, p) => m.post = p
BY DEF Adding, Changes

(* What a change of a record is worth telling as an insertion. *)
Turn(before, after) == before # "none" /\ before # after /\ IsPost(after)

(* A change of the picture inserts the posts it is about, each once. *)
LEMMA ChildrenAdd ==
  ASSUME NEW c \in Clients, session[c] \in Sessions, NEW rs, NEW before, NEW after
  PROVE  /\ ChildEvents(c, rs, before, after) \in Seq(Callbacks)
         /\ \A s : In(ChildEvents(c, rs, before, after), Adding(s)) =>
              s = session[c] /\ <<"changed", s>> \in rs
         /\ \A p \in Posts :
              /\ In(ChildEvents(c, rs, before, after), Changes(session[c], p)) =>
                   Turn(before[p], after[p])
              /\ Once(ChildEvents(c, rs, before, after), Changes(session[c], p))
<1> DEFINE removed == {q \in Posts : IsPost(before[q]) /\ after[q] = "none"}
           changed == {q \in Posts : /\ before[q] # "none" /\ before[q] # after[q]
                                     /\ IsPost(after[q])}
           All(kind, S) == [i \in 1 .. Cardinality(S) |-> Event(kind, c, SetToSeq(S)[i])]
           Tell(kind, S) == IF <<kind, session[c]>> \in rs THEN All(kind, S) ELSE <<>>
<1>1. ChildEvents(c, rs, before, after) = Tell("removed", removed) \o Tell("changed", changed)
  BY DEF ChildEvents
<1>2. removed \in SUBSET Posts /\ changed \in SUBSET Posts OBVIOUS
<1>3. \A p \in Posts : p \in changed => Turn(before[p], after[p]) BY DEF Turn
<1> HIDE DEF removed, changed
<1>4. ASSUME NEW kind \in {"changed", "removed"}, NEW S \in SUBSET Posts
      PROVE  /\ All(kind, S) \in Seq(Callbacks)
             /\ \A s : In(All(kind, S), Adding(s)) => kind = "changed" /\ s = session[c]
             /\ \A p : In(All(kind, S), Changes(session[c], p)) => p \in S
             /\ \A p : Once(All(kind, S), Changes(session[c], p))
  <2> DEFINE N == Cardinality(S)
             q == [i \in 1 .. N |-> Event(kind, c, SetToSeq(S)[i])]
  <2>1. IsFiniteSet(S) BY PostsAssumption, FS_Subset
  <2>2. /\ N \in Nat /\ SetToSeq(S) \in [1 .. N -> S]
        /\ \A i, j \in 1 .. N : SetToSeq(S)[i] = SetToSeq(S)[j] => i = j
    BY <2>1, SetToSeqType
  <2>3. q \in Seq(Callbacks) BY TellType
  <2>4. Len(q) = N /\ \A i \in 1 .. N : q[i] = Event(kind, c, SetToSeq(S)[i])
    <3> HIDE DEF N
    <3> QED BY <2>2
  <2> HIDE DEF q, N
  <2>5. \A i \in 1 .. Len(q) : /\ q[i].type = kind /\ q[i].session = session[c]
                               /\ q[i].post = SetToSeq(S)[i] /\ SetToSeq(S)[i] \in S
    BY <2>2, <2>4 DEF Event
  <2>6. \A s : In(q, Adding(s)) => kind = "changed" /\ s = session[c]
    BY <2>5, AddingMembers DEF In
  <2>7. \A p : In(q, Changes(session[c], p)) => p \in S BY <2>5, AddingMembers DEF In
  <2>8. \A p : Once(q, Changes(session[c], p))
    <3> SUFFICES ASSUME NEW p, NEW i \in 1 .. Len(q), NEW j \in 1 .. Len(q),
                        q[i] \in Changes(session[c], p), q[j] \in Changes(session[c], p)
                 PROVE  i = j
      BY DEF Once
    <3>1. SetToSeq(S)[i] = p /\ SetToSeq(S)[j] = p BY <2>5, AddingMembers
    <3>2. i \in 1 .. N /\ j \in 1 .. N BY <2>4
    <3> QED BY <2>2, <3>1, <3>2
  <2> QED BY <2>3, <2>6, <2>7, <2>8 DEF q, N
<1>5. ASSUME NEW kind \in {"changed", "removed"}, NEW S \in SUBSET Posts
      PROVE  /\ Tell(kind, S) \in Seq(Callbacks)
             /\ \A s : In(Tell(kind, S), Adding(s)) =>
                  kind = "changed" /\ s = session[c] /\ <<kind, session[c]>> \in rs
             /\ \A p : In(Tell(kind, S), Changes(session[c], p)) => p \in S
             /\ \A p : Once(Tell(kind, S), Changes(session[c], p))
  <2> HIDE DEF All
  <2>1. CASE <<kind, session[c]>> \in rs BY <1>4, <2>1
  <2>2. CASE <<kind, session[c]>> \notin rs
    <3>1. Tell(kind, S) = <<>> BY <2>2
    <3> HIDE DEF Tell
    <3> QED BY <3>1, InNone, OnceInNone, EmptySeq
  <2> QED BY <2>1, <2>2
<1> HIDE DEF Tell, All
<1>6. PICK a \in Seq(Callbacks) : /\ a = Tell("removed", removed)
                                  /\ \A s : ~In(a, Adding(s))
  BY <1>2, <1>5
<1>7. PICK b \in Seq(Callbacks) :
        /\ b = Tell("changed", changed)
        /\ \A s : In(b, Adding(s)) => s = session[c] /\ <<"changed", session[c]>> \in rs
        /\ \A p : In(b, Changes(session[c], p)) => p \in changed
        /\ \A p : Once(b, Changes(session[c], p))
  BY <1>2, <1>5
<1>8. \A p : ~In(a, Changes(session[c], p)) BY <1>6, AddingMembers DEF In
<1>9. /\ a \o b \in Seq(Callbacks)
      /\ \A S : In(a \o b, S) <=> In(a, S) \/ In(b, S)
      /\ \A S : ~In(a, S) /\ Once(b, S) => Once(a \o b, S)
  BY InConcat
<1>10. \A s : In(a \o b, Adding(s)) => s = session[c] /\ <<"changed", s>> \in rs
  BY <1>6, <1>7, <1>9
<1>11. \A p \in Posts : In(a \o b, Changes(session[c], p)) => Turn(before[p], after[p])
  BY <1>3, <1>7, <1>8, <1>9
<1>12. \A p : Once(a \o b, Changes(session[c], p)) BY <1>7, <1>8, <1>9
<1>13. ChildEvents(c, rs, before, after) = a \o b BY <1>1, <1>6, <1>7
<1> QED BY <1>9, <1>10, <1>11, <1>12, <1>13

(* First values, cancellations and reports insert nothing; *)
LEMMA ValuesAdd ==
  ASSUME NEW c \in Clients
  PROVE  /\ \A which \in SUBSET Regs : IsFiniteSet(which) =>
              \A picture, s : ~In(ValueEvents(c, which, picture), Adding(s))
         /\ regs[c] \in SUBSET Regs /\ IsFiniteSet(regs[c]) =>
              \A s : ~In(Cancelled(c), Adding(s))
<1>1. ASSUME NEW which \in SUBSET Regs, NEW picture, IsFiniteSet(which), NEW s
      PROVE  ~In(ValueEvents(c, which, picture), Adding(s))
  <2> DEFINE q == ValueEvents(c, which, picture)
  <2>1. Cardinality(which) \in Nat BY <1>1, SetToSeqType
  <2>2. \A i \in 1 .. Len(q) : q[i].type = "value" BY <2>1 DEF ValueEvents
  <2> HIDE DEF q
  <2>3. ~In(q, Adding(s)) BY <2>2, AddingMembers DEF In
  <2> QED BY <2>3 DEF q
<1>2. ASSUME regs[c] \in SUBSET Regs, IsFiniteSet(regs[c]), NEW s
      PROVE  ~In(Cancelled(c), Adding(s))
  <2> DEFINE q == Cancelled(c)
  <2>1. Cardinality(ValueRegs(c)) \in Nat
    BY <1>2, FS_Subset, FS_CardinalityType, ValueRegs(c) \subseteq regs[c] DEF ValueRegs
  <2>2. \A i \in 1 .. Len(q) : q[i].type = "cancelled" BY <2>1 DEF Cancelled
  <2> HIDE DEF q
  <2>3. ~In(q, Adding(s)) BY <2>2, AddingMembers DEF In
  <2> QED BY <2>3 DEF q
<1> QED BY <1>1, <1>2

(* a write that settles inserts what it uncovers, *)
LEMMA SettledAdd ==
  ASSUME NEW c \in Clients, session[c] \in Sessions,
         NEW rs, NEW ca, NEW whole, NEW ws, NEW left, NEW ack \in Acks
  PROVE  LET told == SettleEvents(c, rs, ca, whole, ws, left, ack) IN
         /\ told \in Seq(Callbacks)
         /\ \A s : In(told, Adding(s)) => s = session[c] /\ <<"changed", s>> \in rs
         /\ \A p \in Posts :
              /\ In(told, Changes(session[c], p)) =>
                   Turn(Overlay(ca, whole, ws)[p], Overlay(ca, whole, left)[p])
              /\ Once(told, Changes(session[c], p))
<1> DEFINE x == Overlay(ca, whole, ws)
           y == Overlay(ca, whole, left)
           told == IF ack.ok /\ ack.write.type = "set"
                   THEN <<[type |-> "written", post |-> ack.write.post]>>
                   ELSE <<>>
<1>1. SettleEvents(c, rs, ca, whole, ws, left, ack) = ChildEvents(c, rs, x, y) \o told
  BY DEF SettleEvents
<1>2. [type |-> "written", post |-> ack.write.post] \in Callbacks
  BY DEF Acks, LocalWrites, Callbacks
<1>3. told \in Seq(Callbacks) BY <1>2
<1>4. \A i \in 1 .. Len(told) : told[i].type = "written" OBVIOUS
<1> HIDE DEF x, y, told
<1>5. \A s : ~In(told, Adding(s)) BY <1>4, AddingMembers DEF In
<1>6. \A s, p : ~In(told, Changes(s, p)) BY <1>5, AddingMembers DEF In
<1>7. PICK a \in Seq(Callbacks) :
        /\ a = ChildEvents(c, rs, x, y)
        /\ \A s : In(a, Adding(s)) => s = session[c] /\ <<"changed", s>> \in rs
        /\ \A p \in Posts : /\ In(a, Changes(session[c], p)) => Turn(x[p], y[p])
                            /\ Once(a, Changes(session[c], p))
  BY ChildrenAdd
<1>8. PICK b \in Seq(Callbacks) : b = told BY <1>3
<1>9. /\ a \o b \in Seq(Callbacks)
      /\ \A S : In(a \o b, S) <=> In(a, S) \/ In(b, S)
      /\ \A S : Once(a, S) /\ ~In(b, S) => Once(a \o b, S)
  BY InConcat
<1>10. \A s : In(a \o b, Adding(s)) => s = session[c] /\ <<"changed", s>> \in rs
  BY <1>5, <1>7, <1>8, <1>9
<1>11. \A p \in Posts : /\ In(a \o b, Changes(session[c], p)) => Turn(x[p], y[p])
                        /\ Once(a \o b, Changes(session[c], p))
  BY <1>6, <1>7, <1>8, <1>9
<1>12. SettleEvents(c, rs, ca, whole, ws, left, ack) = a \o b BY <1>1, <1>7, <1>8
<1> QED BY <1>9, <1>10, <1>11, <1>12 DEF x, y

(* be its answer held back or not. *)
LEMMA ReleaseAdds ==
  ASSUME NEW c \in Clients, session[c] \in Sessions, held[c] \in Seq(Acks),
         NEW rs, NEW ca, NEW whole
  PROVE  LET told == AckPutsEvents(c, rs, ca, whole) IN
         /\ told \in Seq(Callbacks)
         /\ \A s : In(told, Adding(s)) => s = session[c] /\ <<"changed", s>> \in rs
         /\ \A p \in Posts : In(told, Changes(session[c], p)) =>
              \E n \in 1 .. Len(held[c]) :
                Turn(Overlay(ca, whole, AckPuts(c, n - 1))[p],
                     Overlay(ca, whole, AckPuts(c, n))[p])
<1> DEFINE N == Len(held[c])
           told(n) == SettleEvents(c, rs, ca, whole, AckPuts(c, n - 1),
                                   AckPuts(c, n), held[c][n])
           Shift(n, p) == Turn(Overlay(ca, whole, AckPuts(c, n - 1))[p],
                               Overlay(ca, whole, AckPuts(c, n))[p])
           Mine(s) == s = session[c] /\ <<"changed", s>> \in rs
<1>1. PICK f \in [0 .. N -> Seq(Callbacks)] :
        /\ IsTelling(f, c, rs, ca, whole)
        /\ AckPutsEvents(c, rs, ca, whole) = f[N]
  BY AckPutsEventsDef
<1>2. N \in Nat /\ \A n \in 1 .. N : held[c][n] \in Acks OBVIOUS
<1>3. f[0] = <<>> /\ \A n \in 1 .. N : f[n] = f[n - 1] \o told(n) BY <1>1 DEF IsTelling
<1>4. \A n \in 1 .. N : /\ told(n) \in Seq(Callbacks)
                        /\ \A s : In(told(n), Adding(s)) => Mine(s)
                        /\ \A p \in Posts : In(told(n), Changes(session[c], p)) => Shift(n, p)
  BY <1>2, SettledAdd
<1> HIDE DEF told, N, Shift, Mine
<1> DEFINE S == {n \in 0 .. N : /\ \A s : In(f[n], Adding(s)) => Mine(s)
                                /\ \A p \in Posts : In(f[n], Changes(session[c], p)) =>
                                     \E k \in 1 .. N : Shift(k, p)}
<1>7. 0 \in S BY <1>2, <1>3, InNone
<1>8. ASSUME NEW n \in 1 .. N, n - 1 \in S PROVE n \in S
  <2>1. n \in 0 .. N /\ n - 1 \in 0 .. N BY <1>2
  <2>2. PICK q \in Seq(Callbacks) : q = f[n - 1] BY <2>1
  <2>3. PICK r \in Seq(Callbacks) : r = told(n) BY <1>4
  <2>4. \A R : In(q \o r, R) <=> In(q, R) \/ In(r, R) BY InConcat
  <2>5. f[n] = q \o r BY <1>3, <2>2, <2>3
  <2>6. \A s : In(q \o r, Adding(s)) => Mine(s) BY <1>4, <1>8, <2>2, <2>3, <2>4
  <2>7. \A p \in Posts : In(q \o r, Changes(session[c], p)) => \E k \in 1 .. N : Shift(k, p)
    BY <1>4, <1>8, <2>2, <2>3, <2>4
  <2> QED BY <2>1, <2>5, <2>6, <2>7
<1>9. 0 .. N \subseteq S
  <2> HIDE DEF S
  <2> QED BY <1>2, <1>7, <1>8, InductionUpTo
<1>10. N \in 0 .. N /\ f[N] \in Seq(Callbacks) BY <1>2
<1>11. /\ \A s : In(f[N], Adding(s)) => Mine(s)
       /\ \A p \in Posts : In(f[N], Changes(session[c], p)) => \E k \in 1 .. N : Shift(k, p)
  BY <1>9, <1>10
<1> QED BY <1>1, <1>10, <1>11 DEF N, Shift, Mine

-----------------------------------------------------------------------------
(* What a step tells the main thread *)

(* A step of client c inserts post p, because its picture of it changes. *)
Turns(c, p) ==
  LET m == Head(down[c]) IN
  \/ /\ LocalWrite(c)
     /\ Turn(Picture(c)[p],
             Overlay(cache[c], complete[c], Append(writes[c], Head(repoQ[c])))[p])
  \/ /\ ReceivePush(c)
     /\ Turn(Picture(c)[p], Overlay(cache'[c], complete[c], writes[c])[p])
  \/ /\ ReceiveSnapshot(c)
     /\ Turn(Picture(c)[p], Overlay(m.board, TRUE, writes[c])[p])
  \/ /\ ReceiveAck(c) /\ ~ListenPending(up[c], down[c])
     /\ Turn(Picture(c)[p], Overlay(cache[c], complete[c], Left(c, m))[p])

(* A snapshot releases the answer to a write, and that inserts post p. *)
Uncovers(c, p) ==
  LET board == Head(down[c]).board IN
  /\ ReceiveSnapshot(c) /\ ~ListenPending(up[c], Tail(down[c]))
  /\ \E n \in 1 .. Len(held[c]) :
       Turn(Overlay(board, TRUE, AckPuts(c, n - 1))[p],
            Overlay(board, TRUE, AckPuts(c, n))[p])

(* Callbacks v insert posts on the screen that asked for them, only those  *)
(* whose picture changes, each once.                                       *)
Voices(c, v) ==
  /\ \A s : In(v, Adding(s)) => s = session[c] /\ <<"changed", s>> \in regs[c]
  /\ \A p \in Posts :
       /\ In(v, Changes(session[c], p)) => Turns(c, p) \/ Uncovers(c, p)
       /\ Uncovers(c, p) \/ Once(v, Changes(session[c], p))

(* Callbacks without insertions insert nothing. *)
LEMMA VoicesNone ==
  ASSUME NEW c \in Clients, NEW v, \A s : ~In(v, Adding(s))
  PROVE  Voices(c, v)
<1>1. \A s, p : ~In(v, Changes(s, p)) BY AddingMembers DEF In
<1> QED BY <1>1, OnceInNone DEF Voices, Once, In

(* What a step tells the main thread: it goes on, it is silent, or it      *)
(* tells the changes of the picture.                                       *)
Speaks(c) ==
  \E v \in Seq(Callbacks) :
    /\ RepoBlock(c) \/ Receive(c)
    /\ mainQ'[c] = mainQ[c] \o v /\ Voices(c, v)

(* A block of the repo queue tells what it changes, *)
LEMMA BlockSpeaks ==
  ASSUME TypeInv, NEW c \in Clients, RepoBlock(c)
  PROVE  mainQ'[c] = mainQ[c] \/ Speaks(c)
<1>0. TypeOK BY DEF TypeInv
<1>1. session[c] \in Sessions BY <1>0 DEF TypeOK
<1>2. CASE AddObserver(c)
  <2> DEFINE reg == Head(repoQ[c]).reg
  <2>1. {reg} \in SUBSET Regs /\ IsFiniteSet({reg})
    <3>1. Head(repoQ[c]) \in Blocks /\ Head(repoQ[c]).type = "observe"
      BY <1>0, <1>2, HeadsOfQueues DEF AddObserver, Block
    <3>2. reg \in Regs BY <3>1 DEF Blocks, LocalWrites, WriteOps
    <3> QED BY <3>2, FS_Singleton
  <2>2. mainQ'[c] = IF reg[1] = "value" /\ complete[c]
                    THEN mainQ[c] \o ValueEvents(c, {reg}, Picture(c)) ELSE mainQ[c]
    BY <1>0, <1>2 DEF AddObserver, TypeOK
  <2>3. ValueEvents(c, {reg}, Picture(c)) \in Seq(Callbacks) BY <2>1, ValueEventsType
  <2>4. \A s : ~In(ValueEvents(c, {reg}, Picture(c)), Adding(s)) BY <2>1, ValuesAdd
  <2>5. Voices(c, ValueEvents(c, {reg}, Picture(c))) BY <2>4, VoicesNone
  <2> HIDE DEF reg
  <2> QED BY <1>2, <2>2, <2>3, <2>5 DEF Speaks, RepoBlock
<1>3. CASE RemoveObserver(c) BY <1>3 DEF RemoveObserver
<1>4. CASE LocalWrite(c)
  <2> DEFINE y == Overlay(cache[c], complete[c], Append(writes[c], Head(repoQ[c])))
             v == ChildEvents(c, regs[c], Picture(c), y)
  <2>1. mainQ'[c] = mainQ[c] \o v BY <1>0, <1>4 DEF LocalWrite, TypeOK
  <2>2. \A p : Turn(Picture(c)[p], y[p]) => Turns(c, p) BY <1>4 DEF Turns
  <2> HIDE DEF y
  <2>3. /\ v \in Seq(Callbacks)
        /\ \A s : In(v, Adding(s)) => s = session[c] /\ <<"changed", s>> \in regs[c]
        /\ \A p \in Posts : /\ In(v, Changes(session[c], p)) => Turn(Picture(c)[p], y[p])
                            /\ Once(v, Changes(session[c], p))
    BY <1>1, ChildrenAdd
  <2> HIDE DEF v
  <2>4. Voices(c, v) BY <2>2, <2>3 DEF Voices
  <2> QED BY <1>4, <2>1, <2>3, <2>4 DEF Speaks, RepoBlock
<1> QED BY <1>2, <1>3, <1>4 DEF RepoBlock

(* a listen's answer tells what it changes and what the answers released   *)
(* uncover,                                                                *)
LEMMA SnapshotSpeaks ==
  ASSUME TypeInv, NEW c \in Clients, ReceiveSnapshot(c)
  PROVE  Speaks(c)
<1>0. TypeOK BY DEF TypeInv
<1>1. /\ session[c] \in Sessions /\ held[c] \in Seq(Acks) /\ mainQ[c] \in Seq(Callbacks)
      /\ regs[c] \in SUBSET Regs /\ IsFiniteSet(regs[c])
  BY <1>0 DEF TypeOK, TypeInv
<1> DEFINE board == Head(down[c]).board
           ca == IF regs[c] # {} THEN board ELSE cache[c]
           whole == regs[c] # {} \/ complete[c]
           shown == Overlay(ca, whole, writes[c])
           values == IF complete[c] THEN <<>> ELSE ValueEvents(c, ValueRegs(c), shown)
           wait == ListenPending(up[c], Tail(down[c]))
           told == ChildEvents(c, regs[c], Picture(c), shown)
           acks == IF wait THEN <<>> ELSE AckPutsEvents(c, regs[c], ca, whole)
           Shift(n, p) == Turn(Overlay(ca, whole, AckPuts(c, n - 1))[p],
                               Overlay(ca, whole, AckPuts(c, n))[p])
           Mine(s) == s = session[c] /\ <<"changed", s>> \in regs[c]
<1>2. mainQ'[c] = ((mainQ[c] \o told) \o values) \o acks
  BY <1>0 DEF ReceiveSnapshot, TypeOK
<1>3. regs[c] # {} => ca = board /\ whole = TRUE BY <1>0 DEF TypeOK
<1>4. \A p : regs[c] # {} /\ Turn(Picture(c)[p], shown[p]) => Turns(c, p)
  BY <1>3 DEF Turns
<1>5. \A p : regs[c] # {} /\ ~wait /\ (\E n \in 1 .. Len(held[c]) : Shift(n, p))
         => Uncovers(c, p)
  BY <1>3 DEF Uncovers
<1> HIDE DEF ca, whole, shown, wait
<1>6. /\ told \in Seq(Callbacks)
      /\ \A s : In(told, Adding(s)) => Mine(s)
      /\ \A p \in Posts : /\ In(told, Changes(session[c], p)) => Turn(Picture(c)[p], shown[p])
                          /\ Once(told, Changes(session[c], p))
  BY <1>1, ChildrenAdd
<1>7. values \in Seq(Callbacks) /\ \A s : ~In(values, Adding(s))
  <2>1. ValueRegs(c) \subseteq regs[c] BY DEF ValueRegs
  <2>2. ValueRegs(c) \in SUBSET Regs /\ IsFiniteSet(ValueRegs(c))
    BY <1>1, <2>1, FS_Subset
  <2> QED BY <2>2, ValueEventsType, ValuesAdd, InNone
<1>8. /\ acks \in Seq(Callbacks)
      /\ \A s : In(acks, Adding(s)) => Mine(s)
      /\ \A p \in Posts : In(acks, Changes(session[c], p)) =>
           ~wait /\ \E n \in 1 .. Len(held[c]) : Shift(n, p)
  <2>1. CASE wait
    <3>1. acks = <<>> BY <2>1
    <3> HIDE DEF acks
    <3> QED BY <3>1, InNone, EmptySeq
  <2>2. CASE ~wait
    <3>1. acks = AckPutsEvents(c, regs[c], ca, whole) BY <2>2
    <3> HIDE DEF acks
    <3> QED BY <1>1, <2>2, <3>1, ReleaseAdds
  <2> QED BY <2>1, <2>2
<1> HIDE DEF told, values, acks, Shift
<1>9. PICK x \in Seq(Callbacks) : x = told BY <1>6
<1>10. PICK y \in Seq(Callbacks) : y = values BY <1>7
<1>11. PICK z \in Seq(Callbacks) : z = acks BY <1>8
<1>12. x \o y \in Seq(Callbacks) /\ (mainQ[c] \o x) \o y = mainQ[c] \o (x \o y)
  <2>1. mainQ[c] \in Seq(Callbacks) BY <1>1
  <2> QED BY <2>1, CallbacksAssociate, ZenonT(60)
<1>13. PICK v \in Seq(Callbacks) : v = x \o y BY <1>12
<1>14. v \o z \in Seq(Callbacks) /\ (mainQ[c] \o v) \o z = mainQ[c] \o (v \o z)
  <2>1. mainQ[c] \in Seq(Callbacks) BY <1>1
  <2> QED BY <2>1, CallbacksAssociate, ZenonT(60)
<1>15. PICK w \in Seq(Callbacks) : w = v \o z BY <1>14
<1>16. mainQ'[c] = mainQ[c] \o w BY <1>2, <1>9, <1>10, <1>11, <1>12, <1>13, <1>14, <1>15
<1>17. \A s, p, q : In(q, Changes(s, p)) => In(q, Adding(s)) BY AddingMembers DEF In
<1>18. /\ \A S : In(v, S) <=> In(x, S) \/ In(y, S)
       /\ \A S : Once(x, S) /\ ~In(y, S) => Once(v, S)
  <2>1. /\ \A S : In(x \o y, S) <=> In(x, S) \/ In(y, S)
        /\ \A S : Once(x, S) /\ ~In(y, S) => Once(x \o y, S)
    BY InConcat
  <2> QED BY <1>13, <2>1
<1>19. /\ \A S : In(w, S) <=> In(v, S) \/ In(z, S)
       /\ \A S : Once(v, S) /\ ~In(z, S) => Once(w, S)
  <2>1. /\ \A S : In(v \o z, S) <=> In(v, S) \/ In(z, S)
        /\ \A S : Once(v, S) /\ ~In(z, S) => Once(v \o z, S)
    BY InConcat
  <2> QED BY <1>15, <2>1
<1>20. \A s : In(w, Adding(s)) => Mine(s) BY <1>6, <1>7, <1>8, <1>9, <1>10, <1>11, <1>18,
  <1>19
<1>21. ASSUME NEW p \in Posts
       PROVE  /\ In(w, Changes(session[c], p)) => Turns(c, p) \/ Uncovers(c, p)
              /\ Uncovers(c, p) \/ Once(w, Changes(session[c], p))
  <2> DEFINE S == Changes(session[c], p)
  <2>1. ~In(y, S) BY <1>7, <1>10, <1>17
  <2>2. In(x, S) => regs[c] # {} /\ Turns(c, p) BY <1>4, <1>6, <1>9, <1>17
  <2>3. In(z, S) => regs[c] # {} /\ Uncovers(c, p) BY <1>5, <1>8, <1>11, <1>17
  <2>4. Once(x, S) BY <1>6, <1>9
  <2> HIDE DEF S
  <2>5. In(w, S) => Turns(c, p) \/ Uncovers(c, p) BY <1>18, <1>19, <2>1, <2>2, <2>3
  <2>6. Uncovers(c, p) \/ Once(w, S) BY <1>18, <1>19, <2>1, <2>3, <2>4
  <2> QED BY <2>5, <2>6 DEF S
<1>22. Voices(c, w) BY <1>20, <1>21 DEF Voices
<1> QED BY <1>16, <1>22 DEF Speaks, Receive

(* and so do all messages. *)
LEMMA ReceiveSpeaks ==
  ASSUME TypeInv, NEW c \in Clients, Receive(c)
  PROVE  mainQ'[c] = mainQ[c] \/ Speaks(c)
<1>0. TypeOK BY DEF TypeInv
<1>1. /\ session[c] \in Sessions /\ held[c] \in Seq(Acks) /\ mainQ[c] \in Seq(Callbacks)
      /\ regs[c] \in SUBSET Regs /\ IsFiniteSet(regs[c])
  BY <1>0 DEF TypeOK, TypeInv
<1>2. Cancelled(c) \in Seq(Callbacks) /\ \A s : ~In(Cancelled(c), Adding(s))
  BY <1>1, ReleaseTypes, ValuesAdd
<1>3. CASE ReceivePush(c)
  <2> DEFINE y == Overlay(cache'[c], complete[c], writes[c])
             v == ChildEvents(c, regs[c], Picture(c), y)
  <2>1. mainQ'[c] = mainQ[c] \o v BY <1>0, <1>3 DEF ReceivePush, TypeOK
  <2>2. \A p : Turn(Picture(c)[p], y[p]) => Turns(c, p) BY <1>3 DEF Turns
  <2> HIDE DEF y
  <2>3. /\ v \in Seq(Callbacks)
        /\ \A s : In(v, Adding(s)) => s = session[c] /\ <<"changed", s>> \in regs[c]
        /\ \A p \in Posts : /\ In(v, Changes(session[c], p)) => Turn(Picture(c)[p], y[p])
                            /\ Once(v, Changes(session[c], p))
    BY <1>1, ChildrenAdd
  <2> HIDE DEF v
  <2>4. Voices(c, v) BY <2>2, <2>3 DEF Voices
  <2> QED BY <2>1, <2>3, <2>4 DEF Speaks
<1>4. CASE ReceiveRevocation(c)
  <2>1. mainQ'[c] = mainQ[c] \o Cancelled(c) BY <1>0, <1>4 DEF ReceiveRevocation, TypeOK
  <2> QED BY <1>2, <2>1, VoicesNone DEF Speaks
<1>5. CASE ReceiveRefusal(c)
  <2>1. CASE ListenPending(up[c], Tail(down[c]))
    BY <1>5, <2>1 DEF ReceiveRefusal
  <2>2. CASE ~ListenPending(up[c], Tail(down[c]))
    <3> DEFINE a == AckPutsEvents(c, {}, Nothing, FALSE)
    <3>1. mainQ'[c] = (mainQ[c] \o Cancelled(c)) \o a
      BY <1>0, <1>5, <2>2, ZenonT(60) DEF ReceiveRefusal, TypeOK
    <3>a. \E rs : rs = {} OBVIOUS
    <3>b. PICK rs : rs = {} BY <3>a
    <3>c. LET told == AckPutsEvents(c, rs, Nothing, FALSE) IN
          /\ told \in Seq(Callbacks)
          /\ \A s : In(told, Adding(s)) => s = session[c] /\ <<"changed", s>> \in rs
      BY <1>1, ReleaseAdds
    <3>d. a \in Seq(Callbacks) /\ \A s : ~In(a, Adding(s)) BY <3>b, <3>c
    <3>2. PICK x \in Seq(Callbacks) : x = a /\ \A s : ~In(x, Adding(s)) BY <3>d
    <3>3. PICK y \in Seq(Callbacks) : y = Cancelled(c) /\ \A s : ~In(y, Adding(s)) BY <1>2
    <3> HIDE DEF a
    <3>4. /\ y \o x \in Seq(Callbacks) /\ (mainQ[c] \o y) \o x = mainQ[c] \o (y \o x)
      BY <1>1, CallbacksAssociate, Zenon
    <3>5. \A s : ~In(y \o x, Adding(s)) BY <3>2, <3>3, InConcat
    <3> QED BY <3>1, <3>2, <3>3, <3>4, <3>5, VoicesNone DEF Speaks
  <2> QED BY <2>1, <2>2
<1>6. CASE ReceiveAck(c)
  <2> DEFINE ack == Head(down[c])
             x == Overlay(cache[c], complete[c], writes[c])
             y == Overlay(cache[c], complete[c], Left(c, ack))
             v == SettleEvents(c, regs[c], cache[c], complete[c], writes[c], Left(c, ack), ack)
  <2>1. CASE ListenPending(up[c], down[c])
    BY <1>6, <2>1 DEF ReceiveAck
  <2>2. CASE ~ListenPending(up[c], down[c])
    <3>1. mainQ'[c] = mainQ[c] \o v
      BY <1>0, <1>6, <2>2 DEF ReceiveAck, TypeOK
    <3>2. ack \in Acks
      <4>1. Message(c, "ack") BY <1>6 DEF ReceiveAck
      <4>2. ack \in Responses /\ ack.type = "ack" BY <1>0, <4>1, HeadsOfQueues DEF Message
      <4> QED BY <4>2 DEF Responses, Acks
    <3>3. \A p : Turn(x[p], y[p]) => Turns(c, p) BY <1>6, <2>2 DEF Turns, Picture
    <3> HIDE DEF ack
    <3>4. /\ v \in Seq(Callbacks)
          /\ \A s : In(v, Adding(s)) => s = session[c] /\ <<"changed", s>> \in regs[c]
          /\ \A p \in Posts : /\ In(v, Changes(session[c], p)) => Turn(x[p], y[p])
                              /\ Once(v, Changes(session[c], p))
      BY <1>1, <3>2, SettledAdd
    <3> HIDE DEF v, x, y
    <3>5. Voices(c, v) BY <3>3, <3>4 DEF Voices
    <3> QED BY <3>1, <3>4, <3>5 DEF Speaks
  <2> QED BY <2>1, <2>2
<1>7. CASE ReceiveSnapshot(c) BY <1>7, SnapshotSpeaks
<1> QED BY <1>3, <1>4, <1>5, <1>6, <1>7 DEF Receive

(* What a step does to the main thread's queue. *)
LEMMA Tellings ==
  ASSUME TypeInv, NEW c \in Clients, ActionOf(c)
  PROVE  \/ mainQ'[c] = mainQ[c]
         \/ MainThread(c) /\ mainQ[c] # <<>> /\ mainQ'[c] = Tail(mainQ[c])
         \/ Crash(c) /\ mainQ'[c] = <<>>
         \/ Speaks(c)
<1>0. TypeOK BY DEF TypeInv
<1>1. CASE User(c) BY <1>1 DEF User, OpenTimeline, Logout, CreatePost, RemovePost
<1>2. CASE MainThread(c)
  BY <1>0, <1>2, Zenon DEF MainThread, PostsRetrieved, RetrievalFailed, PostAdded,
                           PostRemoved,
                    FeedEvent, PostWritten, Callback, TypeOK
<1>3. CASE RepoBlock(c) BY <1>3, BlockSpeaks
<1>4. CASE Receive(c) BY <1>4, ReceiveSpeaks
<1>5. CASE Serve(c) \/ RevokeListen(c) \/ Disconnect(c) \/ Reconnect(c)
  BY <1>5 DEF Serve, ServeListen, ServeUnlisten, ServeWrite, RevokeListen, Disconnect,
              Reconnect, Reconnected
<1>6. CASE Crash(c)
  <2>1. mainQ' = [mainQ EXCEPT ![c] = <<>>] BY <1>6 DEF Crash
  <2>2. mainQ'[c] = <<>> BY <1>0, <2>1 DEF TypeOK
  <2> QED BY <1>6, <2>2
<1> QED BY <1>1, <1>2, <1>3, <1>4, <1>5, <1>6 DEF ActionOf

-----------------------------------------------------------------------------
(* Screens before their load *)

(* What can come of the first insertion's three causes in a step. *)
LEMMA ObservingArises ==
  ASSUME TypeInv, NEW c \in Clients, ActionOf(c), NEW s,
         Has(repoQ'[c], Observing(s))
  PROVE  \/ Has(repoQ[c], Observing(s))
         \/ /\ phase[c] = "loading" /\ phase'[c] = "live"
            /\ session[c] = s /\ session'[c] = s
<1>0. TypeOK BY DEF TypeInv
<1>1. repoQ[c] \in Seq(Blocks) BY <1>0 DEF TypeOK
<1>2. SUFFICES ASSUME ~Has(repoQ[c], Observing(s))
               PROVE  /\ phase[c] = "loading" /\ phase'[c] = "live"
                      /\ session[c] = s /\ session'[c] = s
  OBVIOUS
<1>3. repoQ'[c] # repoQ[c] BY <1>2
<1>4. ASSUME NEW b \in Blocks, repoQ'[c] = Append(repoQ[c], b)
      PROVE  b = Observing(s)
  <2>1. \A e : Has(Append(repoQ[c], b), e) <=> Has(repoQ[c], e) \/ b = e
    BY <1>1, HasInAppend
  <2> QED BY <1>2, <1>4, <2>1
<1>5. ~(\E q \in Posts, op \in WriteOps : repoQ'[c] = Append(repoQ[c], Write(op, q)))
  <2> SUFFICES ASSUME NEW q \in Posts, NEW op \in WriteOps,
                      repoQ'[c] = Append(repoQ[c], Write(op, q))
               PROVE  FALSE
    OBVIOUS
  <2>1. Write(op, q) \in Blocks /\ Write(op, q).type # "observe"
    BY DEF Write, Blocks, LocalWrites, WriteOps
  <2> QED BY <1>4, <2>1 DEF Observing
<1>6. ~User(c)
  <2>1. ~OpenTimeline(c)
    <3> SUFFICES ASSUME OpenTimeline(c) PROVE FALSE OBVIOUS
    <3> DEFINE b == [type |-> "observe", reg |-> <<"value", session'[c]>>]
    <3>1. session'[c] \in Sessions BY UserTypes DEF TypeInv, TypeOK
    <3>2. b \in Blocks BY <3>1 DEF Blocks, Regs
    <3>3. repoQ'[c] = Append(repoQ[c], b) BY <1>0 DEF OpenTimeline, TypeOK
    <3>4. b # Observing(s) BY DEF Observing
    <3> HIDE DEF b
    <3> QED BY <1>4, <3>2, <3>3, <3>4
  <2>2. ~Logout(c) BY <1>3 DEF Logout
  <2>3. \A q \in Posts : ~CreatePost(c, q) BY <1>0, <1>5 DEF CreatePost, TypeOK, WriteOps
  <2>4. \A q \in Posts : ~RemovePost(c, q) BY <1>0, <1>5 DEF RemovePost, TypeOK, WriteOps
  <2> QED BY <2>1, <2>2, <2>3, <2>4 DEF User
<1>7. ~RepoBlock(c)
  <2> SUFFICES ASSUME RepoBlock(c) PROVE FALSE OBVIOUS
  <2>1. repoQ[c] # <<>> /\ repoQ'[c] = Tail(repoQ[c])
    BY <1>0 DEF RepoBlock, AddObserver, RemoveObserver, LocalWrite, Block, TypeOK
  <2> QED BY <1>1, <1>2, <2>1, HasInHead
<1>8. ~(Receive(c) \/ Serve(c) \/ RevokeListen(c) \/ Disconnect(c) \/ Reconnect(c))
  BY <1>3 DEF Receive, ReceivePush, ReceiveSnapshot, ReceiveAck, ReceiveRefusal,
              ReceiveRevocation, Serve, ServeListen, ServeUnlisten, ServeWrite,
              RevokeListen, Disconnect, Reconnect, Reconnected
<1>9. ~Crash(c)
  <2> SUFFICES ASSUME Crash(c) PROVE FALSE OBVIOUS
  <2>1. repoQ' = [repoQ EXCEPT ![c] = <<>>] BY DEF Crash
  <2>2. repoQ'[c] = <<>> BY <1>0, <2>1 DEF TypeOK
  <2> QED BY <2>2, HasInNone
<1>10. MainThread(c) BY <1>6, <1>7, <1>8, <1>9 DEF ActionOf
<1> DEFINE m == Head(mainQ[c])
<1>11. m \in Callbacks
  <2>1. mainQ[c] # <<>>
    BY <1>10 DEF MainThread, PostsRetrieved, RetrievalFailed, PostAdded, PostRemoved,
                FeedEvent, PostWritten, Callback
  <2> QED BY <1>0, <2>1, HeadsOfQueues
<1>12. ~RetrievalFailed(c)
  <2> SUFFICES ASSUME RetrievalFailed(c) PROVE FALSE OBVIOUS
  <2> DEFINE b == [type |-> "stop", reg |-> <<"value", m.session>>]
  <2>1. m.session \in Sessions BY <1>11 DEF RetrievalFailed, Callback, Callbacks
  <2>2. b \in Blocks BY <2>1 DEF Blocks, Regs
  <2>3. repoQ'[c] = Append(repoQ[c], b) BY <1>0 DEF RetrievalFailed, TypeOK
  <2>4. b # Observing(s) BY DEF Observing
  <2> HIDE DEF b
  <2> QED BY <1>4, <2>2, <2>3, <2>4
<1>13. ~(PostAdded(c) \/ PostRemoved(c))
  BY <1>3 DEF PostAdded, PostRemoved, FeedEvent
<1>14. ~PostWritten(c)
  <2> SUFFICES ASSUME PostWritten(c) PROVE FALSE OBVIOUS
  <2>1. m.post \in Posts BY <1>11 DEF PostWritten, Callback, Callbacks
  <2> QED BY <1>0, <1>5, <2>1 DEF PostWritten, TypeOK, WriteOps
<1>15. PostsRetrieved(c) BY <1>10, <1>12, <1>13, <1>14 DEF MainThread
<1> DEFINE off == [type |-> "stop", reg |-> <<"value", m.session>>]
           on(kind) == [type |-> "observe", reg |-> <<kind, m.session>>]
           awaited == phase[c] = "loading" /\ session[c] = m.session
<1>16. m.session \in Sessions BY <1>11, <1>15 DEF PostsRetrieved, Callback, Callbacks
<1>17. off \in Blocks /\ on("changed") \in Blocks /\ on("removed") \in Blocks
  BY <1>16 DEF Blocks, Regs
<1>18. /\ repoQ'[c] = repoQ[c] \o IF awaited THEN <<off, on("changed"), on("removed")>>
                                  ELSE <<off>>
       /\ phase'[c] = IF awaited THEN "live" ELSE phase[c]
       /\ session'[c] = session[c]
  BY <1>0, <1>15 DEF PostsRetrieved, TypeOK
<1>19. off # Observing(s) /\ on("removed") # Observing(s)
  BY DEF Observing
<1>20. on("changed") = Observing(s) => m.session = s
  BY DEF Observing
<1> HIDE DEF off, on, m
<1>21. ASSUME NEW v \in Seq(Blocks), repoQ'[c] = repoQ[c] \o v
       PROVE  Has(v, Observing(s))
  <2>1. \A e : Has(repoQ[c] \o v, e) <=> Has(repoQ[c], e) \/ Has(v, e)
    BY <1>1, HasInConcat
  <2> QED BY <1>2, <1>21, <2>1
<1>22. CASE ~awaited
  <2>1. <<off>> \in Seq(Blocks) BY <1>17
  <2>2. ~Has(<<off>>, Observing(s)) BY <1>19, HasInOne
  <2> QED BY <1>18, <1>21, <1>22, <2>1, <2>2
<1>23. CASE awaited
  <2> DEFINE v == <<off, on("changed"), on("removed")>>
  <2>1. v \in Seq(Blocks) BY <1>17
  <2>2. Has(v, Observing(s)) BY <1>18, <1>21, <1>23, <2>1
  <2>3. Len(v) = 3 /\ v[1] = off /\ v[2] = on("changed") /\ v[3] = on("removed")
    OBVIOUS
  <2> HIDE DEF v
  <2>4. on("changed") = Observing(s) BY <1>19, <2>2, <2>3 DEF Has
  <2> QED BY <1>18, <1>20, <1>23, <2>4
<1> QED BY <1>22, <1>23

(* A registration comes of its block. *)
LEMMA RegistrationArises ==
  ASSUME TypeInv, NEW c \in Clients, ActionOf(c), NEW s,
         <<"changed", s>> \in regs'[c]
  PROVE  <<"changed", s>> \in regs[c] \/ Has(repoQ[c], Observing(s))
<1>0. TypeOK BY DEF TypeInv
<1>1. CASE AddObserver(c)
  <2> DEFINE b == Head(repoQ[c])
  <2>1. regs'[c] = regs[c] \cup {b.reg} BY <1>0, <1>1 DEF AddObserver, TypeOK
  <2>2. repoQ[c] # <<>> /\ b.type = "observe" /\ b \in Blocks
    BY <1>0, <1>1, HeadsOfQueues DEF AddObserver, Block
  <2>3. b = [type |-> b.type, reg |-> b.reg]
    <3> HIDE DEF b
    <3> QED BY <2>2 DEF Blocks, LocalWrites, WriteOps
  <2>4. Has(repoQ[c], b)
    <3>1. repoQ[c] \in Seq(Blocks) BY <1>0 DEF TypeOK
    <3> QED BY <2>2, <3>1, HasInHead
  <2> HIDE DEF b
  <2> QED BY <2>1, <2>2, <2>3, <2>4 DEF Observing
<1>2. CASE ~AddObserver(c)
  <2>1. regs'[c] \subseteq regs[c]
    <3>1. CASE User(c) \/ MainThread(c)
      BY <3>1 DEF User, OpenTimeline, Logout, CreatePost, RemovePost, MainThread,
             PostsRetrieved, RetrievalFailed, PostAdded, PostRemoved, FeedEvent,
             PostWritten, sdkVars
    <3>2. CASE RepoBlock(c)
      BY <1>0, <1>2, <3>2 DEF RepoBlock, RemoveObserver, LocalWrite, TypeOK
    <3>3. CASE Receive(c)
      BY <1>0, <3>3, Zenon DEF Receive, ReceivePush, ReceiveSnapshot, ReceiveAck,
                               ReceiveRefusal,
                 ReceiveRevocation, CancelView, sdkVars, TypeOK
    <3>4. CASE Serve(c) \/ RevokeListen(c) \/ Disconnect(c) \/ Reconnect(c)
      BY <3>4 DEF Serve, ServeListen, ServeUnlisten, ServeWrite, RevokeListen, Disconnect,
                  Reconnect, Reconnected, sdkVars
    <3>5. CASE Crash(c) BY <1>0, <3>5 DEF Crash, TypeOK
    <3> QED BY <3>1, <3>2, <3>3, <3>4, <3>5 DEF ActionOf
  <2> QED BY <2>1
<1> QED BY <1>1, <1>2

(* Nothing is set up for a screen before its load. *)
LEMMA UnliveStays ==
  ASSUME TypeInv, NEW c \in Clients, ActionOf(c), NEW s, Unlive(c, s),
         ~(phase[c] = "loading" /\ phase'[c] = "live" /\ session[c] = s /\ session'[c] = s)
  PROVE  Unlive(c, s)'
<1>0. TypeOK BY DEF TypeInv
<1>1. ~Has(repoQ'[c], Observing(s)) BY ObservingArises DEF Unlive
<1>2. <<"changed", s>> \notin regs'[c] BY RegistrationArises DEF Unlive
<1>3. ~In(mainQ'[c], Adding(s))
  <2>0. mainQ[c] \in Seq(Callbacks) /\ ~In(mainQ[c], Adding(s)) BY <1>0 DEF TypeOK, Unlive
  <2>1. CASE mainQ'[c] = mainQ[c] BY <2>0, <2>1
  <2>2. CASE mainQ[c] # <<>> /\ mainQ'[c] = Tail(mainQ[c]) BY <2>0, <2>2, InHead
  <2>3. CASE mainQ'[c] = <<>> BY <2>3, InNone
  <2>4. CASE Speaks(c)
    <3>1. PICK v \in Seq(Callbacks) : mainQ'[c] = mainQ[c] \o v /\ Voices(c, v)
      BY <2>4 DEF Speaks
    <3>2. ~In(v, Adding(s)) BY <3>1 DEF Voices, Unlive
    <3> QED BY <2>0, <3>1, <3>2, InConcat
  <2> QED BY <2>1, <2>2, <2>3, <2>4, Tellings
<1> QED BY <1>1, <1>2, <1>3 DEF Unlive, Adding, Observing

(* What a step does to the screen. *)
LEMMA ScreenMoves ==
  ASSUME TypeInv, NEW c \in Clients, ActionOf(c)
  PROVE  \/ OpenTimeline(c) /\ session'[c] = session[c] + 1 /\ rows'[c] = NoRows
         \/ /\ session'[c] = session[c]
            /\ phase'[c] = "loading" => phase[c] = "loading"
            /\ phase'[c] = "live" \/ rows'[c] = NoRows
               \/ (rows'[c] = rows[c] /\ phase[c] # "live")
<1>0. TypeOK BY DEF TypeInv
<1>1. phase[c] # "live" \/ phase[c] = "live" OBVIOUS
<1>2. CASE User(c)
  <2>1. CASE OpenTimeline(c) BY <1>0, <2>1 DEF OpenTimeline, TypeOK
  <2>2. CASE Logout(c) BY <1>0, <2>2 DEF Logout, TypeOK
  <2>3. ASSUME NEW p \in Posts, CreatePost(c, p) \/ RemovePost(c, p)
        PROVE  UNCHANGED appVars
    BY <2>3 DEF CreatePost, RemovePost
  <2> QED BY <1>2, <2>1, <2>2, <2>3 DEF User, appVars
<1>3. CASE MainThread(c)
  <2>1. CASE PostsRetrieved(c) BY <1>0, <2>1 DEF PostsRetrieved, TypeOK
  <2>2. CASE RetrievalFailed(c) BY <1>0, <2>2 DEF RetrievalFailed, TypeOK
  <2>3. CASE PostAdded(c) BY <1>0, <2>3 DEF PostAdded, FeedEvent, TypeOK
  <2>4. CASE PostRemoved(c)
    <3>1. PICK n : FeedEvent(c, "removed", n) BY <2>4 DEF PostRemoved
    <3> QED BY <1>0, <3>1 DEF FeedEvent, TypeOK
  <2>5. CASE PostWritten(c) BY <2>5 DEF PostWritten, appVars
  <2> QED BY <1>3, <2>1, <2>2, <2>3, <2>4, <2>5 DEF MainThread
<1>4. CASE RepoBlock(c) \/ Receive(c) \/ Serve(c)
  BY <1>4, Zenon DEF RepoBlock, AddObserver, RemoveObserver, LocalWrite, Receive,
                     ReceivePush,
              ReceiveSnapshot, ReceiveAck, ReceiveRefusal, ReceiveRevocation, Serve,
              ServeListen, ServeUnlisten, ServeWrite, appVars
<1>5. CASE RevokeListen(c) \/ Disconnect(c) \/ Reconnect(c)
  BY <1>5 DEF RevokeListen, Disconnect, Reconnect, Reconnected, appVars
<1>6. CASE Crash(c) BY <1>0, <1>6 DEF Crash, TypeOK
<1> QED BY <1>2, <1>3, <1>4, <1>5, <1>6 DEF ActionOf

(* Every step of every client leaves it so. *)
LEMMA FreshStays ==
  ASSUME TypeInv, [Next]_vars, NEW c \in Clients, Fresh(c)
  PROVE  Fresh(c)'
<1>a. Sessions \subseteq Nat BY BoundsAssumption DEF Sessions
<1>b. TypeOK BY DEF TypeInv
<1>c. session[c] \in Sessions BY <1>b DEF TypeOK
<1>0. TypeOK /\ session[c] \in Nat BY <1>a, <1>b, <1>c
<1>1. CASE ActionOf(c)
  <2>1. phase'[c] # "live" => rows'[c] = NoRows BY <1>1, ScreenMoves DEF Fresh
  <2>2. ASSUME NEW s \in Sessions,
               s > session'[c] \/ (phase'[c] = "loading" /\ s = session'[c])
        PROVE  Unlive(c, s)'
    <3>0. s \in Nat BY <1>a
    <3>1. s > session[c] \/ (phase[c] = "loading" /\ s = session[c])
      BY <1>0, <1>1, <2>2, <3>0, ScreenMoves
    <3>2. Unlive(c, s) BY <3>1 DEF Fresh
    <3>3. ~(phase[c] = "loading" /\ phase'[c] = "live" /\ session[c] = s /\ session'[c] = s)
      BY <2>2, <3>0
    <3> QED BY <1>1, <3>2, <3>3, UnliveStays
  <2> QED BY <2>1, <2>2 DEF Fresh, NoRows, Sessions
<1>2. CASE ~ActionOf(c)
  <2>1. /\ mainQ'[c] = mainQ[c] /\ repoQ'[c] = repoQ[c] /\ regs'[c] = regs[c]
        /\ phase'[c] = phase[c] /\ session'[c] = session[c] /\ rows'[c] = rows[c]
    <3>1. CASE UNCHANGED vars BY <3>1 DEF vars, sdkVars, appVars
    <3>2. CASE ~UNCHANGED vars
      <4>1. PICK d \in Clients : ActionOf(d) BY <3>2, SomebodyActs
      <4>2. c \in Clients \ {d} BY <1>2, <4>1
      <4>3. repoQ'[c] = repoQ[c] /\ mainQ'[c] = mainQ[c]
        BY <1>0, <4>1, <4>2, OthersKeep DEF ActionOf
      <4>4. rows'[c] = rows[c] BY <1>0, <4>1, <4>2, OthersRows
      <4>5. regs'[c] = regs[c] /\ phase'[c] = phase[c] /\ session'[c] = session[c]
        <5>1. CASE ServeWrite(d) BY <5>1 DEF ServeWrite, sdkVars, appVars
        <5>2. CASE ~ServeWrite(d) BY <1>0, <4>1, <4>2, <5>2, IdleSilent
        <5> QED BY <5>1, <5>2
      <4> QED BY <4>3, <4>4, <4>5
    <3> QED BY <3>1, <3>2
  <2> QED BY <2>1 DEF Fresh, Unlive, Adding, Observing, NoRows, Sessions
<1> QED BY <1>1, <1>2

-----------------------------------------------------------------------------
(* What the picture says of a post *)

(* A picture under writes none of which creates the post. *)
LEMMA FinalPicture ==
  ASSUME NEW p \in Posts, NEW ws \in Seq(LocalWrites), ~Has(ws, Write("set", p)),
         NEW ca \in Boards, NEW whole
  PROVE  /\ Has(ws, Write("update", p)) \/ ca[p] # "created" =>
              Overlay(ca, whole, ws)[p] # "created"
         /\ Overlay(ca, whole, ws)[p] = "stamped" =>
              Has(ws, Write("update", p)) \/ ca[p] = "stamped"
<1> DEFINE base == IF ca[p] = "none" /\ ~whole THEN "unknown" ELSE ca[p]
           seen == Written(ws, p, base)
<1>1. Overlay(ca, whole, ws)[p] = IF seen = "unknown" THEN "none" ELSE seen
  BY DEF Overlay
<1>2. ca[p] \in Records BY DEF Boards
<1>3. base \in Seen BY <1>2 DEF Seen
<1>4. base = "created" <=> ca[p] = "created" BY <1>2
<1>5. base = "stamped" <=> ca[p] = "stamped" BY <1>2
<1> HIDE DEF base
<1>6. Shaped(ws, p) BY Shape
<1>7. CASE \E v \in {"none", "stub"} : \A r \in Seen : Written(ws, p, r) = v
  BY <1>1, <1>3, <1>7
<1>8. CASE /\ Has(ws, Write("update", p))
           /\ \A r \in Seen : Written(ws, p, r) = Apply("update", r)
  <2>1. seen = Apply("update", base) BY <1>3, <1>8
  <2>2. Apply("update", base) # "created" BY <1>3 DEF Apply, Seen, Records
  <2> QED BY <1>1, <1>8, <2>1, <2>2
<1>9. CASE /\ ~Has(ws, Write("update", p))
           /\ \A r \in Seen : Written(ws, p, r) = r
  <2>1. seen = base BY <1>3, <1>9
  <2> QED BY <1>1, <1>4, <1>5, <1>9, <2>1
<1> QED BY <1>6, <1>7, <1>8, <1>9 DEF Shaped

(* Without an update in the tree an unannounced post is none or created. *)
LEMMA EarlyPicture ==
  ASSUME NEW p \in Posts, NEW ws \in Seq(LocalWrites), ~Has(ws, Write("update", p)),
         NEW ca \in Boards, NEW whole, ca[p] \in {"none", "created"}
  PROVE  Overlay(ca, whole, ws)[p] \in {"none", "created"}
<1> DEFINE base == IF ca[p] = "none" /\ ~whole THEN "unknown" ELSE ca[p]
           seen == Written(ws, p, base)
<1>1. Overlay(ca, whole, ws)[p] = IF seen = "unknown" THEN "none" ELSE seen
  BY DEF Overlay
<1>2. base \in {"none", "created", "unknown"} OBVIOUS
<1> HIDE DEF base
<1>3. seen \in {"none", "created", "unknown"} BY <1>2, Unstamped
<1> QED BY <1>1, <1>3

(* A local write has no response, or its response is held back. *)
LEMMA TreeParts ==
  ASSUME SyncInv, NEW c \in Clients, NEW w, Has(writes[c], w)
  PROVE  Has(Unacked(c), w) \/ In(held[c], AcksTo(w))
<1>0. TypeOK /\ EveryWriteTracked BY SoundTracked DEF SyncInv, TypeInv
<1>1. /\ Answered(held[c]) \in Seq(LocalWrites) /\ Unanswered(c) \in Seq(LocalWrites)
      /\ writes[c] = Answered(held[c]) \o Unanswered(c)
  BY <1>0, HeldAreOldest
<1>2. Has(Answered(held[c]), w) \/ Has(Unanswered(c), w) BY <1>1, HasInConcat
<1>3. held[c] \in Seq(Acks) BY <1>0 DEF TypeOK
<1>4. CASE Has(Answered(held[c]), w)
  <2>1. /\ Len(Answered(held[c])) = Len(held[c])
        /\ \A i \in 1 .. Len(held[c]) : Answered(held[c])[i] = held[c][i].write
    BY <1>3, AnsweredAcks
  <2>2. PICK i \in 1 .. Len(held[c]) : held[c][i].write = w BY <1>4, <2>1 DEF Has
  <2>3. held[c][i] \in Acks BY <1>3
  <2>4. held[c][i] \in AcksTo(w) BY <2>2, <2>3, AcksAreResponses DEF AcksTo, Acks
  <2> QED BY <2>4 DEF In
<1>5. CASE Has(Unanswered(c), w) BY <1>5, UnansweredUnacked
<1> QED BY <1>2, <1>4, <1>5

(* A creation in the tree is the creator's, of a post not announced, *)
LEMMA SetInTree ==
  ASSUME PostInv, NEW c \in Clients, NEW p \in Posts, \A d \in Clients : PostPhase(d, p),
         Has(writes[c], Write("set", p))
  PROVE  c = Creator[p] /\ ~Spent(p)
<1>0. SyncInv /\ Orderly(c, Unacked(c), p) BY DEF PostInv
<1>1. AcksTo(Write("set", p)) = Created(p) BY DEF AcksTo, Created
<1>2. Has(Unacked(c), Write("set", p)) \/ In(held[c], Created(p))
  BY <1>0, <1>1, TreeParts
<1>3. c = Creator[p]
  <2>1. CASE Has(Unacked(c), Write("set", p))
    BY <1>0, <2>1 DEF Orderly, Sets, Has, In
  <2>2. CASE In(held[c], Created(p)) BY <2>2 DEF PostPhase
  <2> QED BY <1>2, <2>1, <2>2
<1> QED BY <1>2, <1>3 DEF Spent

(* an announcement in the tree is the creator's. *)
LEMMA UpdateInTree ==
  ASSUME PostInv, NEW c \in Clients, NEW p \in Posts, \A d \in Clients : PostPhase(d, p),
         Aged(c, p), Has(writes[c], Write("update", p))
  PROVE  c = Creator[p] /\ Spent(p)
<1>0. SyncInv BY DEF PostInv
<1>1. Has(Unacked(c), Write("update", p)) \/ In(held[c], AcksTo(Write("update", p)))
  BY <1>0, TreeParts
<1>2. CASE Has(Unacked(c), Write("update", p)) BY <1>2 DEF PostPhase
<1>3. CASE In(held[c], AcksTo(Write("update", p)))
  <2>1. Announced(c, p) BY <1>3 DEF Announced
  <2> QED BY <1>3, <2>1 DEF Aged, Past
<1> QED BY <1>1, <1>2, <1>3

(* The queues' order says so. *)
LEMMA ViewsHold ==
  ASSUME PostInv, NEW c \in Clients, NEW p \in Posts, \A d \in Clients : PostPhase(d, p),
         Aged(c, p)
  PROVE  Views(c, p)
<1>0. /\ writes[c] \in Seq(LocalWrites) /\ cache[c] \in Boards
      /\ cache[c][p] \in Records
  BY DEF PostInv, SyncInv, TypeInv, TypeOK, Boards
<1>1. Spent(p) => ~Has(writes[c], Write("set", p)) BY SetInTree
<1>2. Has(writes[c], Write("update", p)) => c = Creator[p] /\ Spent(p) BY UpdateInTree
<1>3. cache[c][p] \in {"stamped", "stub"} => Past(p) /\ ~In(down[c], Making(p))
  BY DEF Aged, Announced
<1>4. ~Spent(p) => Picture(c)[p] \in {"none", "created"}
  <2> SUFFICES ASSUME ~Spent(p) PROVE Picture(c)[p] \in {"none", "created"} OBVIOUS
  <2>1. ~Has(writes[c], Write("update", p)) BY <1>2
  <2>2. cache[c][p] \in {"none", "created"} BY <1>0, <1>3 DEF Past, Records
  <2> QED BY <1>0, <2>1, <2>2, EarlyPicture DEF Picture
<1>5. Final(c, p) => Picture(c)[p] # "created"
  <2> SUFFICES ASSUME Final(c, p) PROVE Picture(c)[p] # "created" OBVIOUS
  <2>1. ~Has(writes[c], Write("set", p)) BY <1>1 DEF Final
  <2>2. Has(writes[c], Write("update", p)) \/ cache[c][p] # "created" BY DEF Final, Late
  <2> QED BY <1>0, <2>1, <2>2, FinalPicture DEF Picture
<1>6. Picture(c)[p] = "stamped" => Final(c, p)
  <2> SUFFICES ASSUME Picture(c)[p] = "stamped" PROVE Final(c, p) OBVIOUS
  <2>1. Spent(p) BY <1>4
  <2>2. ~Has(writes[c], Write("set", p)) BY <1>1, <2>1
  <2>3. Has(writes[c], Write("update", p)) \/ cache[c][p] = "stamped"
    BY <1>0, <2>2, FinalPicture DEF Picture
  <2> QED BY <1>3, <2>1, <2>3 DEF Final, Late
<1> QED BY <1>1, <1>2, <1>4, <1>5, <1>6 DEF Views

-----------------------------------------------------------------------------
(* An announcement is final *)

(* An announcement that has arrived stays. *)
LEMMA LateStays ==
  ASSUME PostInv, [Next]_vars, ~RejectsWrites, NEW c \in Clients, NEW p \in Posts,
         Late(c, p), Blank(c)
  PROVE  Late(c, p)'
<1> DEFINE B == Making(p)
<1>1. TypeOK /\ server \in Boards BY DEF PostInv, SyncInv, TypeInv, TypeOK
<1>2. PICK q \in Seq(Responses) : q = down[c] BY <1>1 DEF TypeOK
<1>3. Past(p)' BY PastStays DEF Late
<1>4. cache[c][p] # "created" /\ ~In(q, B) /\ Spent(p) /\ server[p] # "created"
  BY <1>2 DEF Late, Past
<1>5. Nothing[p] = "none" /\ ~In(<<>>, B) BY InNone DEF Nothing
<1> HIDE DEF B
<1>6. SameView(c) \/ NoView(c) => cache'[c][p] # "created"
  BY <1>4, <1>5 DEF SameView, NoView
<1>7. SUFFICES cache'[c][p] # "created" /\ ~In(down'[c], B)
  BY <1>3 DEF Late, B
<1>8. CASE Waits(c) BY <1>2, <1>4, <1>6, <1>8 DEF Waits
<1>9. CASE Loses(c) BY <1>5, <1>6, <1>9 DEF Loses
<1>10. ASSUME NEW m \in Responses, Gets(c, m) PROVE cache'[c][p] # "created" /\ ~In(down'[c], B)
  <2>1. down'[c] = Append(q, m) /\ SameView(c) BY <1>2, <1>10 DEF Gets
  <2>2. m \notin B BY <1>4, <1>10 DEF Gets, Making, B
  <2>3. ~In(down'[c], B) BY <1>4, <2>1, <2>2, InAppend
  <2> QED BY <1>6, <2>1, <2>3
<1>11. ASSUME NEW m, NEW t, Hears(c, m, t) PROVE cache'[c][p] # "created" /\ ~In(down'[c], B)
  <2>1. /\ Heeds(c, p, m) /\ m \in Responses
        /\ down'[c] = Tail(q) /\ q # <<>> /\ m = Head(q)
    BY <1>2, <1>11 DEF Hears, Heard
  <2>2. m \notin B /\ ~In(Tail(q), B) BY <1>4, <2>1, InHead
  <2>3. Brought(m, p, cache[c][p]) # "created"
    <3>1. CASE m.type = "snapshot" BY <2>1, <2>2, <3>1 DEF Brought, Making, B
    <3>2. CASE m.type = "push" /\ m.write.post = p
      <4>1. m.write \in LocalWrites BY <2>1, <3>2 DEF Responses, Acks
      <4>2. m.write.type \in WriteOps /\ m.write = Write(m.write.type, p)
        BY <3>2, <4>1 DEF LocalWrites, Write
      <4>3. m.write.type # "set" BY <2>1, <2>2, <3>2, <4>2 DEF Making, B
      <4>4. Brought(m, p, cache[c][p]) = Apply(m.write.type, cache[c][p])
        BY <3>2 DEF Brought
      <4>5. cache[c][p] \in Records BY <1>1 DEF TypeOK, Boards
      <4> QED BY <1>4, <4>2, <4>3, <4>4, <4>5 DEF Apply, WriteOps, Records
    <3>3. CASE m.type # "snapshot" /\ ~(m.type = "push" /\ m.write.post = p)
      BY <1>4, <3>3 DEF Brought
    <3> QED BY <3>1, <3>2, <3>3
  <2> QED BY <1>4, <2>1, <2>2, <2>3 DEF Heeds
<1>12. ASSUME NEW d \in Clients, NEW w \in LocalWrites, Learns(c, d, w)
       PROVE  cache'[c][p] # "created" /\ ~In(down'[c], B)
  <2>1. Performs(d, w) /\ down'[c] = ToldTo(c, d, w, q) /\ SameView(c)
    BY <1>2, <1>12 DEF Learns
  <2>2. Push(w) \notin B /\ Answer(w) \notin B
    <3>1. w # Write("set", p)
      <4> SUFFICES ASSUME w = Write("set", p) PROVE FALSE OBVIOUS
      <4>1. ServeWrite(d) /\ Head(up[d]) = Write("set", p) BY <2>1 DEF Performs
      <4> QED BY <1>4, <4>1, SetUnanswered
    <3> QED BY <3>1, WriteTold DEF B
  <2>3. ~In(down'[c], B) BY <1>4, <2>1, <2>2, InTold
  <2> QED BY <1>6, <2>1, <2>3
<1> QED BY <1>8, <1>9, <1>10, <1>11, <1>12, ViewMoves

(* What changes a client's write tree. *)
LEMMA TreeChanges ==
  ASSUME TypeOK, [Next]_vars, NEW c \in Clients
  PROVE  \/ writes'[c] = writes[c] \/ LocalWrite(c) \/ Crash(c)
         \/ ReceiveSnapshot(c) \/ ReceiveRefusal(c) \/ ReceiveAck(c)
<1>1. CASE UNCHANGED vars BY <1>1 DEF vars, sdkVars
<1>2. ASSUME NEW d \in Clients, ActionOf(d) PROVE
         \/ writes'[c] = writes[c] \/ LocalWrite(c) \/ Crash(c)
         \/ ReceiveSnapshot(c) \/ ReceiveRefusal(c) \/ ReceiveAck(c)
  <2>0. writes \in [Clients -> Seq(LocalWrites)] BY DEF TypeOK
  <2>1. CASE User(d) \/ MainThread(d)
    BY <2>1 DEF User, OpenTimeline, Logout, CreatePost, RemovePost, MainThread,
                PostsRetrieved,
       RetrievalFailed, PostAdded, PostRemoved, FeedEvent, PostWritten, sdkVars
  <2>2. CASE RepoBlock(d)
    BY <2>0, <2>2 DEF RepoBlock, AddObserver, RemoveObserver, LocalWrite
  <2>3. CASE Receive(d)
    <3>1. CASE d = c
      BY <2>3, <3>1 DEF Receive, ReceivePush, ReceiveRevocation
    <3>2. CASE d # c
      <4>1. CASE ReceivePush(d) \/ ReceiveRevocation(d)
        BY <4>1 DEF ReceivePush, ReceiveRevocation
      <4>2. CASE ReceiveSnapshot(d) BY <2>0, <3>2, <4>2 DEF ReceiveSnapshot
      <4>3. CASE ReceiveAck(d) BY <2>0, <3>2, <4>3 DEF ReceiveAck
      <4>4. CASE ReceiveRefusal(d) BY <2>0, <3>2, <4>4 DEF ReceiveRefusal, sdkVars
      <4> QED BY <2>3, <4>1, <4>2, <4>3, <4>4 DEF Receive
    <3> QED BY <3>1, <3>2
  <2>4. CASE Serve(d) \/ RevokeListen(d) \/ Disconnect(d) \/ Reconnect(d)
    BY <2>4 DEF Serve, ServeListen, ServeUnlisten, ServeWrite, RevokeListen, Disconnect,
       Reconnect, Reconnected, sdkVars
  <2>5. CASE Crash(d)
    BY <2>0, <2>5 DEF Crash
  <2> QED BY <1>2, <2>1, <2>2, <2>3, <2>4, <2>5 DEF ActionOf
<1> QED BY <1>1, <1>2, SomebodyActs

(* A write leaves the tree with its response: at once, or when those held  *)
(* back are released.                                                      *)
LEMMA TreeLeaves ==
  ASSUME SyncInv, [Next]_vars, NEW c \in Clients, NEW w \in LocalWrites,
         Has(writes[c], w), ~Has(writes'[c], w), ~Crash(c)
  PROVE  \/ /\ ReceiveAck(c) /\ ~ListenPending(up[c], down[c])
            /\ Head(down[c]).write = w
         \/ /\ ReceiveSnapshot(c) \/ ReceiveRefusal(c)
            /\ In(held[c], AcksTo(w))
<1>0. TypeOK /\ EveryWriteTracked /\ TypeInv BY SoundTracked DEF SyncInv, TypeInv
<1>1. /\ Answered(held[c]) \in Seq(LocalWrites) /\ Unanswered(c) \in Seq(LocalWrites)
      /\ writes[c] = Answered(held[c]) \o Unanswered(c)
      /\ connected[c] => Unanswered(c) = Answered(down[c]) \o Requested(up[c])
  BY <1>0, HeldAreOldest
<1>2. Has(Answered(held[c]), w) \/ Has(Unanswered(c), w) BY <1>1, HasInConcat
<1>3. held[c] \in Seq(Acks) BY <1>0 DEF TypeOK
<1>4. Has(Answered(held[c]), w) => In(held[c], AcksTo(w))
  <2> SUFFICES ASSUME Has(Answered(held[c]), w) PROVE In(held[c], AcksTo(w)) OBVIOUS
  <2>1. /\ Len(Answered(held[c])) = Len(held[c])
        /\ \A i \in 1 .. Len(held[c]) : Answered(held[c])[i] = held[c][i].write
    BY <1>3, AnsweredAcks
  <2>2. PICK i \in 1 .. Len(held[c]) : held[c][i].write = w BY <2>1 DEF Has
  <2>3. held[c][i] \in Acks BY <1>3
  <2>4. held[c][i] \in AcksTo(w) BY <2>2, <2>3, AcksAreResponses DEF AcksTo, Acks
  <2> QED BY <2>4 DEF In
<1>5. CASE LocalWrite(c)
  <2>1. repoQ[c] # <<>> /\ Head(repoQ[c]) \in Blocks
    BY <1>0, <1>5, HeadsOfQueues DEF LocalWrite, Block
  <2>2. Head(repoQ[c]).type \in WriteOps BY <1>5 DEF LocalWrite, Block
  <2>3. Head(repoQ[c]) \in LocalWrites BY <2>1, <2>2 DEF Blocks, WriteOps
  <2>4. writes'[c] = Append(writes[c], Head(repoQ[c])) BY <1>0, <1>5 DEF LocalWrite, TypeOK
  <2>5. writes[c] \in Seq(LocalWrites) BY <1>0 DEF TypeOK
  <2> QED BY <2>3, <2>4, <2>5, HasInAppend
<1>6. CASE ReceiveSnapshot(c) \/ ReceiveRefusal(c)
  <2>1. writes'[c] = writes[c] \/ writes'[c] = AckPuts(c, Len(held[c]))
    <3>1. CASE ReceiveSnapshot(c) BY <1>0, <3>1 DEF ReceiveSnapshot, TypeOK
    <3>2. CASE ReceiveRefusal(c)
      <4>1. CASE ListenPending(up[c], Tail(down[c]))
        BY <3>2, <4>1 DEF ReceiveRefusal, sdkVars
      <4>2. CASE ~ListenPending(up[c], Tail(down[c]))
        BY <1>0, <3>2, <4>2 DEF ReceiveRefusal, TypeOK
      <4> QED BY <4>1, <4>2
    <3> QED BY <1>6, <3>1, <3>2
  <2>2. writes'[c] = Unanswered(c) BY <1>0, <2>1, AckPutsRest
  <2>3. In(held[c], AcksTo(w)) BY <1>2, <1>4, <2>2
  <2> QED BY <1>6, <2>3
<1>7. CASE ReceiveAck(c)
  <2>1. ~ListenPending(up[c], down[c]) /\ writes'[c] = Left(c, Head(down[c]))
    BY <1>0, <1>7 DEF ReceiveAck, TypeOK
  <2>2. Message(c, "ack") BY <1>7 DEF ReceiveAck
  <2>3. connected[c]
    <3>1. down[c] # <<>> BY <2>2 DEF Message
    <3> QED BY <3>1 DEF SyncInv, Sound, Wire
  <2>4. /\ Head(down[c]) \in Acks
        /\ Answered(down[c]) = <<Head(down[c]).write>> \o Answered(Tail(down[c]))
        /\ Left(c, Head(down[c])) =
             Answered(held[c]) \o Answered(Tail(down[c])) \o Requested(up[c])
    BY <1>0, <2>2, <2>3, LeftRest
  <2> DEFINE a == Answered(held[c])
             e == <<Head(down[c]).write>>
             s == Answered(Tail(down[c]))
             r == Requested(up[c])
  <2>5. /\ a \in Seq(LocalWrites) /\ e \in Seq(LocalWrites) /\ s \in Seq(LocalWrites)
        /\ r \in Seq(LocalWrites)
    <3>1. down[c] # <<>> /\ Tail(down[c]) \in Seq(Responses)
      BY <1>0, <2>2, HeadsOfQueues DEF Message
    <3>2. up[c] \in Seq(Requests) BY <1>0 DEF TypeOK
    <3>3. Head(down[c]).write \in LocalWrites BY <2>4 DEF Acks
    <3>4. e \in Seq(LocalWrites) BY <3>3
    <3>5. s \in Seq(LocalWrites) BY <3>1, AnsweredType
    <3>6. r \in Seq(LocalWrites) BY <3>2, RequestedType
    <3> QED BY <1>1, <3>4, <3>5, <3>6
  <2>6. writes[c] = a \o ((e \o s) \o r) BY <1>1, <2>3, <2>4
  <2>7. writes'[c] = (a \o s) \o r BY <2>1, <2>4
  <2>8. Has(e, w) <=> Head(down[c]).write = w BY HasInOne
  <2> HIDE DEF a, e, s, r
  <2>9. /\ e \o s \in Seq(LocalWrites) /\ (e \o s) \o r \in Seq(LocalWrites)
        /\ a \o s \in Seq(LocalWrites)
    BY <2>5, ConcatProperties
  <2>10. Has(writes[c], w) <=> Has(a, w) \/ Has(e, w) \/ Has(s, w) \/ Has(r, w)
    <3>1. Has(e \o s, w) <=> Has(e, w) \/ Has(s, w) BY <2>5, HasInConcat
    <3>2. Has((e \o s) \o r, w) <=> Has(e \o s, w) \/ Has(r, w) BY <2>5, <2>9, HasInConcat
    <3>3. PICK t \in Seq(LocalWrites) : t = (e \o s) \o r BY <2>9
    <3>4. Has(a \o t, w) <=> Has(a, w) \/ Has(t, w) BY <2>5, HasInConcat
    <3> QED BY <2>6, <3>1, <3>2, <3>3, <3>4
  <2>11. Has(writes'[c], w) <=> Has(a, w) \/ Has(s, w) \/ Has(r, w)
    <3>1. Has(a \o s, w) <=> Has(a, w) \/ Has(s, w) BY <2>5, HasInConcat
    <3>2. Has((a \o s) \o r, w) <=> Has(a \o s, w) \/ Has(r, w) BY <2>5, <2>9, HasInConcat
    <3> QED BY <2>7, <3>1, <3>2
  <2> QED BY <1>7, <2>1, <2>8, <2>10, <2>11
<1> QED BY <1>0, <1>5, <1>6, <1>7, TreeChanges

(* Once a client's picture of a post is settled it stays so. *)
LEMMA FinalStays ==
  ASSUME PostInv, [Next]_vars, ~RejectsWrites, NEW c \in Clients, NEW p \in Posts,
         Final(c, p), Aged(c, p), Blank(c), Backed(c), ~Crash(c)
  PROVE  Final(c, p)'
<1> DEFINE u == Write("update", p)
<1>1. SyncInv /\ TypeOK /\ TypeInv /\ EveryWriteTracked /\ cache[c] \in Boards
  BY SoundTracked DEF PostInv, SyncInv, TypeInv, TypeOK
<1>2. Spent(p)' BY <1>1, SpentStays DEF Final
<1>3. Late(c, p) => Final(c, p)' BY <1>2, LateStays DEF Final
<1>4. Has(writes'[c], u) => Final(c, p)' BY <1>2 DEF Final
<1>5. SUFFICES ASSUME Has(writes[c], u), ~Has(writes'[c], u) PROVE Late(c, p) \/ Late(c, p)'
  BY <1>2, <1>3, <1>4 DEF Final
<1>6. u \in LocalWrites BY DEF Write, LocalWrites, WriteOps
<1>7. CASE /\ ReceiveAck(c) /\ ~ListenPending(up[c], down[c])
           /\ Head(down[c]).write = u
  <2>1. down[c] # <<>> /\ Head(down[c]) \in Responses /\ Head(down[c]).type = "ack"
    BY <1>1, <1>7, HeadsOfQueues DEF ReceiveAck, Message
  <2>2. PICK q \in Seq(Responses) : q = down[c] BY <1>1 DEF TypeOK
  <2>3. Head(q) \in Stamping(p) /\ Head(q) \notin Making(p) /\ q # <<>>
    BY <1>7, <2>1, <2>2 DEF Stamping, Making
  <2>4. In(q, Stamping(p)) BY <2>2, <2>3, InHead
  <2>5. Past(p) BY <2>2, <2>4 DEF Aged
  <2>6. ~In(Tail(q), Making(p))
    BY <2>2, <2>3, NeverAfterHead DEF Aged
  <2>7. ~In(q, Making(p)) BY <2>3, <2>6, InHead
  <2>8. cache[c][p] # "created"
    <3>1. CASE complete[c]
      <4>1. Reflects(cache[c], u) BY <1>1, <1>7, <3>1, AckReflects
      <4>2. Apply("update", cache[c][p]) = cache[c][p] BY <4>1 DEF Reflects, Write
      <4>3. Apply("update", "created") = "stamped" BY DEF Apply
      <4> QED BY <4>2, <4>3
    <3>2. CASE ~complete[c]
      <4>1. connected[c] BY <1>1, <2>1 DEF SyncInv, Sound, Wire
      <4>2. regs[c] = {} BY <1>1, <1>7, <3>2, <4>1 DEF SyncInv, Sound, Awaits
      <4> QED BY <4>2 DEF Blank, Nothing
    <3> QED BY <3>1, <3>2
  <2> QED BY <2>2, <2>5, <2>7, <2>8 DEF Late
<1>8. CASE (ReceiveSnapshot(c) \/ ReceiveRefusal(c)) /\ In(held[c], AcksTo(u))
  <2>1. Announced(c, p) BY <1>8 DEF Announced
  <2>2. Past(p) /\ ~In(down[c], Making(p)) BY <2>1 DEF Aged
  <2>3. Past(p)' BY <2>2, PastStays
  <2>4. PICK q \in Seq(Responses) : q = down[c] BY <1>1 DEF TypeOK
  <2>5. q # <<>> /\ down'[c] = Tail(q) /\ Head(q) \in Responses
    BY <1>1, <1>8, <2>4, HeadsOfQueues DEF ReceiveSnapshot, ReceiveRefusal, Message, TypeOK
  <2>6. ~In(Tail(q), Making(p)) /\ Head(q) \notin Making(p)
    BY <2>2, <2>4, <2>5, InHead
  <2>7. cache'[c][p] # "created"
    <3>1. CASE ReceiveSnapshot(c)
      <4>1. Head(q).type = "snapshot" BY <2>4, <3>1 DEF ReceiveSnapshot, Message
      <4>2. cache'[c] = IF regs[c] # {} THEN Head(q).board ELSE cache[c]
        BY <1>1, <2>4, <3>1 DEF ReceiveSnapshot, TypeOK
      <4>3. CASE regs[c] # {} BY <2>5, <2>6, <4>1, <4>2, <4>3 DEF Making
      <4>4. CASE regs[c] = {} BY <4>2, <4>4 DEF Blank, Nothing
      <4> QED BY <4>3, <4>4
    <3>2. CASE ReceiveRefusal(c)
      <4>1. writes'[c] # writes[c] BY <1>5
      <4>2. ~ListenPending(up[c], Tail(down[c])) BY <3>2, <4>1 DEF ReceiveRefusal, sdkVars
      <4>3. cache'[c] = Nothing
        BY <1>1, <3>2, <4>2 DEF ReceiveRefusal, CancelView, TypeOK
      <4> QED BY <4>3 DEF Nothing
    <3> QED BY <1>8, <3>1, <3>2
  <2> QED BY <2>3, <2>4, <2>5, <2>6, <2>7 DEF Late
<1> QED BY <1>1, <1>5, <1>6, <1>7, <1>8, TreeLeaves

-----------------------------------------------------------------------------
(* What a change of the picture means: local writes *)

(* A record of the picture: the cache's, or unknown, with the writes       *)
(* laid over.                                                              *)
LEMMA OverlayParts ==
  ASSUME NEW p \in Posts, NEW ws \in Seq(LocalWrites), NEW ca \in Boards, NEW whole
  PROVE  \E base \in Seen :
           /\ base = IF ca[p] = "none" /\ ~whole THEN "unknown" ELSE ca[p]
           /\ Written(ws, p, base) \in Seen
           /\ Overlay(ca, whole, ws)[p] =
                IF Written(ws, p, base) = "unknown" THEN "none" ELSE Written(ws, p, base)
<1> DEFINE base == IF ca[p] = "none" /\ ~whole THEN "unknown" ELSE ca[p]
<1>1. Overlay(ca, whole, ws)[p] =
        IF Written(ws, p, base) = "unknown" THEN "none" ELSE Written(ws, p, base)
  BY DEF Overlay
<1>2. ca[p] \in Records BY DEF Boards
<1>3. base \in Seen BY <1>2 DEF Seen
<1>4. base = IF ca[p] = "none" /\ ~whole THEN "unknown" ELSE ca[p] OBVIOUS
<1> HIDE DEF base
<1>5. Written(ws, p, base) \in Seen BY <1>3, WrittenSeen
<1> QED BY <1>1, <1>3, <1>4, <1>5

(* It is a record. *)
LEMMA OverlayRecord ==
  ASSUME NEW p \in Posts, NEW ws \in Seq(LocalWrites), NEW ca \in Boards, NEW whole
  PROVE  Overlay(ca, whole, ws)[p] \in Records
<1>1. PICK base \in Seen :
        /\ Written(ws, p, base) \in Seen
        /\ Overlay(ca, whole, ws)[p] =
             IF Written(ws, p, base) = "unknown" THEN "none" ELSE Written(ws, p, base)
  BY OverlayParts
<1> QED BY <1>1 DEF Seen, Records

(* Writes that show a stub over one cache and a post over another. *)
LEMMA StubPicture ==
  ASSUME NEW p \in Posts, NEW ws \in Seq(LocalWrites), ~Has(ws, Write("set", p)),
         NEW ca \in Boards, NEW whole, ca[p] = "stub" => whole,
         Overlay(ca, whole, ws)[p] = "stub",
         NEW cb \in Boards, NEW full, IsPost(Overlay(cb, full, ws)[p])
  PROVE  /\ whole /\ ~IsPost(ca[p]) /\ IsPost(cb[p])
         /\ ca[p] = "stub" \/ Has(ws, Write("update", p))
<1>1. PICK x \in Seen :
        /\ x = IF ca[p] = "none" /\ ~whole THEN "unknown" ELSE ca[p]
        /\ Overlay(ca, whole, ws)[p] =
             IF Written(ws, p, x) = "unknown" THEN "none" ELSE Written(ws, p, x)
  BY OverlayParts
<1>2. PICK y \in Seen :
        /\ y = IF cb[p] = "none" /\ ~full THEN "unknown" ELSE cb[p]
        /\ Overlay(cb, full, ws)[p] =
             IF Written(ws, p, y) = "unknown" THEN "none" ELSE Written(ws, p, y)
  BY OverlayParts
<1>3. Written(ws, p, x) = "stub" BY <1>1
<1>4. IsPost(Written(ws, p, y)) BY <1>2 DEF IsPost
<1>5. Shaped(ws, p) BY Shape
<1>6. ~\E v \in {"none", "stub"} : \A r \in Seen : Written(ws, p, r) = v
  BY <1>4 DEF IsPost
<1>7. CASE Has(ws, Write("update", p)) /\ \A r \in Seen : Written(ws, p, r) = Apply("update", r)
  <2>1. Apply("update", x) = "stub" /\ IsPost(Apply("update", y)) BY <1>3, <1>4, <1>7
  <2>2. x \in {"none", "stub"} BY <2>1 DEF Apply, Seen, Records
  <2>3. y \in {"created", "stamped"} BY <2>1 DEF Apply, Seen, Records, IsPost
  <2>4. ca[p] = x BY <1>1, <2>2
  <2>5. whole BY <1>1, <2>2, <2>4
  <2>6. cb[p] = y BY <1>2, <2>3
  <2> QED BY <1>7, <2>2, <2>3, <2>4, <2>5, <2>6 DEF IsPost
<1>8. CASE \A r \in Seen : Written(ws, p, r) = r
  <2>1. x = "stub" /\ IsPost(y) BY <1>3, <1>4, <1>8
  <2>2. ca[p] = "stub" BY <1>1, <2>1
  <2>3. cb[p] = y BY <1>2, <2>1 DEF IsPost
  <2> QED BY <2>1, <2>2, <2>3 DEF IsPost
<1> QED BY <1>5, <1>6, <1>7, <1>8 DEF Shaped

(* What every kind of a turn rests on. *)
Steady(c, p) ==
  /\ PostInv /\ ~RejectsWrites /\ \A d \in Clients : PostPhase(d, p)
  /\ Aged(c, p) /\ Blank(c) /\ Backed(c) /\ Tailed(c, p) /\ Course(c, p)
  /\ Settling(p) /\ Views(c, p)

(* A creation unanswered is of a post not announced. *)
LEMMA UnackedSet ==
  ASSUME PostInv, NEW c \in Clients, NEW p \in Posts, Has(Unacked(c), Write("set", p))
  PROVE  c = Creator[p] /\ ~Spent(p)
<1>1. Orderly(c, Unacked(c), p) BY DEF PostInv
<1>2. c = Creator[p] BY <1>1 DEF Orderly, Sets, Has, In
<1> QED BY <1>2 DEF Spent

(* A picture that was stamped, or becomes so. *)
LEMMA PostTurns ==
  ASSUME [Next]_vars, NEW c \in Clients, NEW p \in Posts, Steady(c, p), ~Crash(c),
         Views(c, p)', Turn(Picture(c)[p], Picture(c)'[p]), Picture(c)[p] # "stub",
         Picture(c)[p] \in Records
  PROVE  Picture(c)[p] = "created" /\ Final(c, p)'
<1>1. CASE Picture(c)[p] = "stamped"
  <2>1. Final(c, p) BY <1>1 DEF Steady, Views
  <2>2. Final(c, p)' BY <2>1, FinalStays DEF Steady
  <2>3. Picture(c)'[p] # "created" BY <2>2 DEF Views
  <2> QED BY <1>1, <2>3 DEF Turn, IsPost
<1>2. CASE Picture(c)[p] = "created"
  <2>1. Picture(c)'[p] = "stamped" BY <1>2 DEF Turn, IsPost
  <2> QED BY <1>2, <2>1 DEF Views
<1> QED BY <1>1, <1>2 DEF Turn, Records

(* A local write that is worth an insertion announces the post for good, *)
LEMMA LocalTurns ==
  ASSUME [Next]_vars, NEW c \in Clients, NEW p \in Posts, Steady(c, p),
         Views(c, p)', LocalWrite(c),
         Turn(Picture(c)[p],
              Overlay(cache[c], complete[c], Append(writes[c], Head(repoQ[c])))[p])
  PROVE  Picture(c)[p] = "created" /\ Final(c, p)'
<1>1. TypeOK /\ TypeInv /\ SyncInv BY DEF Steady, PostInv, SyncInv, TypeInv
<1>2. repoQ[c] # <<>> /\ Head(repoQ[c]) \in LocalWrites
  <2>1. repoQ[c] # <<>> /\ Head(repoQ[c]) \in Blocks /\ Head(repoQ[c]).type \in WriteOps
    BY <1>1, HeadsOfQueues DEF LocalWrite, Block
  <2> QED BY <2>1 DEF Blocks, WriteOps
<1>3. PICK w \in LocalWrites : w = Head(repoQ[c]) BY <1>2
<1>4. /\ writes[c] \in Seq(LocalWrites) /\ cache[c] \in Boards /\ repoQ[c] \in Seq(Blocks)
  BY <1>1 DEF TypeOK
<1>5. /\ writes'[c] = Append(writes[c], w) /\ cache'[c] = cache[c]
      /\ complete'[c] = complete[c]
  BY <1>1, <1>3 DEF LocalWrite, TypeOK
<1>6. Picture(c)'[p] = Overlay(cache[c], complete[c], Append(writes[c], w))[p]
  BY <1>5 DEF Picture, Overlay, Written
<1>7. Turn(Picture(c)[p], Picture(c)'[p]) BY <1>3, <1>6
<1>8. Picture(c)[p] \in Records BY <1>4, OverlayRecord DEF Picture
<1>9. ~Crash(c)
  <2>1. Append(writes[c], w) # <<>>
    <3>1. Append(writes[c], w) \in Seq(LocalWrites) BY <1>4
    <3>2. PICK t \in Seq(LocalWrites) : t = Append(writes[c], w) BY <3>1
    <3>3. Len(t) = Len(writes[c]) + 1 /\ Len(writes[c]) \in Nat
      BY <1>4, <3>2, AppendPlaces
    <3>4. t # <<>> BY <3>3
    <3> QED BY <3>2, <3>4
  <2>2. Crash(c) => writes'[c] = <<>> BY <1>1 DEF Crash, TypeOK
  <2> QED BY <1>5, <2>1, <2>2
<1>10. Picture(c)[p] # "stub"
  <2> SUFFICES ASSUME Picture(c)[p] = "stub" PROVE FALSE OBVIOUS
  <2>1. Spent(p) BY DEF Steady, Views
  <2>2. PICK x \in Seen :
          /\ x = IF cache[c][p] = "none" /\ ~complete[c] THEN "unknown" ELSE cache[c][p]
          /\ Picture(c)[p] =
               IF Written(writes[c], p, x) = "unknown" THEN "none"
               ELSE Written(writes[c], p, x)
    BY <1>4, OverlayParts DEF Picture
  <2>3. Written(writes[c], p, x) = "stub" BY <2>2
  <2>4. Append(writes[c], w) \in Seq(LocalWrites) BY <1>4
  <2> DEFINE ws == Append(writes[c], w)
  <2>13. ws \in Seq(LocalWrites) BY <2>4
  <2>5. PICK y \in Seen :
          /\ y = IF cache[c][p] = "none" /\ ~complete[c] THEN "unknown" ELSE cache[c][p]
          /\ Picture(c)'[p] =
               IF Written(ws, p, y) = "unknown" THEN "none" ELSE Written(ws, p, y)
    <3> HIDE DEF ws
    <3>1. PICK y \in Seen :
          /\ y = IF cache[c][p] = "none" /\ ~complete[c] THEN "unknown" ELSE cache[c][p]
          /\ Overlay(cache[c], complete[c], ws)[p] =
               IF Written(ws, p, y) = "unknown" THEN "none" ELSE Written(ws, p, y)
      BY <1>4, <2>13, OverlayParts
    <3> QED BY <1>6, <3>1 DEF ws
  <2>6. x = y BY <2>2, <2>5
  <2>7. Written(Append(writes[c], w), p, y) = Laid(w, p, "stub")
    BY <1>4, <2>3, <2>6, WrittenAppend
  <2>8. IsPost(Laid(w, p, "stub")) BY <1>7, <2>5, <2>7 DEF Turn, IsPost
  <2>9. w.type \in WriteOps /\ w = Write(w.type, w.post) BY DEF LocalWrites, Write
  <2>10. w.post = p /\ w.type = "set" BY <2>8, <2>9 DEF Laid, Apply, WriteOps, IsPost
  <2>11. Has(repoQ[c], Write("set", p))
    <3>1. 1 \in 1 .. Len(repoQ[c]) /\ repoQ[c][1] = Head(repoQ[c]) BY <1>2, <1>4
    <3> QED BY <1>3, <2>9, <2>10, <3>1 DEF Has
  <2>12. Has(Unacked(c), Write("set", p))
    <3>1. Unanswered(c) \in Seq(LocalWrites) /\ Requested(repoQ[c]) \in Seq(LocalWrites)
      BY <1>1, SoundTracked, WriteQueues DEF SyncInv
    <3>2. Has(Requested(repoQ[c]), Write("set", p))
      <4>1. /\ repoQ[c] \in Seq(Orders) /\ Head(repoQ[c]) \in Orders
            /\ Requested(repoQ[c]) = RequestOf(Head(repoQ[c])) \o Requested(Tail(repoQ[c]))
        BY <1>2, <1>4, BlocksAreOrders, OrderedHead, HeadThenTail
      <4>2. RequestOf(Head(repoQ[c])) = <<w>> BY <1>3, <2>9 DEF RequestOf
      <4>3. PICK t \in Seq(LocalWrites) : t = Requested(Tail(repoQ[c]))
        <5>1. Tail(repoQ[c]) \in Seq(Blocks) BY <1>2, <1>4, HeadThenTail
        <5> QED BY <5>1, BlocksAreOrders
      <4>8. <<w>> \in Seq(LocalWrites) OBVIOUS
      <4>4. PICK o \in Seq(LocalWrites) : o = <<w>> BY <4>8
      <4>5. Requested(repoQ[c]) = o \o t BY <4>1, <4>2, <4>3, <4>4
      <4>6. Has(o, w) BY <4>4, HasInOne
      <4>7. Has(o \o t, w) BY <4>6, HasInConcat
      <4> QED BY <2>9, <2>10, <4>5, <4>7
    <3> QED BY <3>1, <3>2, HasInConcat DEF Unacked
  <2> QED BY <2>1, <2>12, UnackedSet DEF Steady
<1> QED BY <1>7, <1>8, <1>9, <1>10, PostTurns

-----------------------------------------------------------------------------
(* Pushes and snapshots *)

(* so does a push, *)
LEMMA PushTurns ==
  ASSUME [Next]_vars, NEW c \in Clients, NEW p \in Posts, Steady(c, p),
         Views(c, p)', ReceivePush(c),
         Turn(Picture(c)[p], Overlay(cache'[c], complete[c], writes[c])[p])
  PROVE  Picture(c)[p] = "created" /\ Final(c, p)'
<1>1. TypeOK /\ TypeInv /\ SyncInv BY DEF Steady, PostInv, SyncInv, TypeInv
<1>2. /\ writes[c] \in Seq(LocalWrites) /\ cache[c] \in Boards /\ complete[c] \in BOOLEAN
      /\ down[c] \in Seq(Responses)
  BY <1>1 DEF TypeOK
<1>3. writes'[c] = writes[c] /\ complete'[c] = complete[c] /\ down'[c] = Tail(down[c])
  BY <1>1 DEF ReceivePush, TypeOK
<1>4. /\ down[c] # <<>> /\ Head(down[c]).type = "push" /\ Head(down[c]) \in Responses
  BY <1>1, HeadsOfQueues DEF ReceivePush, Message
<1>5. PICK m \in Responses : m = Head(down[c]) BY <1>4
<1>6. m.type = "push" /\ m.write \in LocalWrites BY <1>4, <1>5 DEF Responses, Acks
<1>7. cache'[c] \in Boards
  <2>1. Patch(c, m.write) \in Boards BY <1>1, <1>6, PatchType
  <2>2. cache'[c] = Patch(c, m.write) BY <1>1, <1>5 DEF ReceivePush, TypeOK
  <2> QED BY <2>1, <2>2
<1>8. Turn(Picture(c)[p], Picture(c)'[p])
  <2>1. Picture(c)' = Overlay(cache'[c], complete[c], writes[c])
    BY <1>3 DEF Picture, Overlay, Written
  <2> QED BY <2>1
<1>9. Picture(c)[p] \in Records BY <1>2, OverlayRecord DEF Picture
<1>10. ~Crash(c)
  <2> SUFFICES ASSUME Crash(c) PROVE FALSE OBVIOUS
  <2>1. crashes' = crashes + 1 /\ crashes \in Nat BY <1>1, QueueTypes DEF Crash
  <2>2. crashes' = crashes BY DEF ReceivePush, envVars
  <2> QED BY <2>1, <2>2
<1>11. Picture(c)[p] # "stub"
  <2> SUFFICES ASSUME Picture(c)[p] = "stub" PROVE FALSE OBVIOUS
  <2>1. Spent(p) /\ ~Has(writes[c], Write("set", p)) BY DEF Steady, Views
  <2>2. cache[c][p] = "stub" => complete[c] BY DEF Steady, Blank
  <2>3. /\ Overlay(cache[c], complete[c], writes[c])[p] = "stub"
        /\ IsPost(Overlay(cache'[c], complete[c], writes[c])[p])
    BY DEF Picture, Turn
  <2>4. /\ complete[c] /\ ~IsPost(cache[c][p]) /\ IsPost(cache'[c][p])
        /\ cache[c][p] = "stub" \/ Has(writes[c], Write("update", p))
    BY <1>2, <1>7, <2>1, <2>2, <2>3, StubPicture
  <2>5. Heeds(c, p, m)
    <3>1. Hears(c, Head(down[c]), Tail(down[c])) BY <1>1, Hearings DEF Steady, Receive
    <3> QED BY <1>5, <3>1 DEF Hears
  <2>6. cache'[c][p] = Brought(m, p, cache[c][p]) BY <1>3, <2>4, <2>5 DEF Heeds
  <2>7. CASE cache[c][p] = "stub"
    <3>1. ~IsPost(Brought(Head(down[c]), p, "stub"))
      BY <1>1, <1>4, <2>7, StubHeard DEF Steady
    <3> QED BY <1>5, <2>4, <2>6, <2>7, <3>1
  <2>8. CASE cache[c][p] # "stub"
    <3>1. Has(writes[c], Write("update", p)) BY <2>4, <2>8
    <3>2. c = Creator[p] BY <3>1 DEF Steady, Views
    <3>3. cache[c][p] = "none"
      <4>1. cache[c][p] \in Records BY <1>2 DEF Boards
      <4> QED BY <2>4, <2>8, <4>1 DEF Records, IsPost
    <3>4. m.write.post = p /\ IsPost(Apply(m.write.type, "none"))
      BY <1>6, <2>4, <2>6, <3>3 DEF Brought, IsPost
    <3>5. m.write.type \in WriteOps /\ m.write = Write(m.write.type, m.write.post)
      BY <1>6 DEF LocalWrites, Write
    <3>6. m.write = Write("set", p) BY <3>4, <3>5 DEF Apply, WriteOps, IsPost
    <3>7. m \in Pushes(Write("set", p))
      <4>1. m.write = Write("set", p) /\ m = [type |-> "push", write |-> m.write]
        <5>1. m \in [type : {"push"}, write : LocalWrites] BY <1>6 DEF Responses, Acks
        <5> QED BY <3>6, <5>1
      <4> QED BY <4>1 DEF Pushes, Push
    <3>8. Met(down[c], Pushes(Write("set", p)), {}, {}, AcksTo(Write("set", p)))
      BY <3>2 DEF Steady, Tailed
    <3>9. PICK q \in Seq(Responses) : q = down[c] BY <1>2
    <3>10. In(Tail(q), AcksTo(Write("set", p)))
      BY <1>4, <1>5, <3>7, <3>8, <3>9, MetHead
    <3>11. In(q, AcksTo(Write("set", p))) BY <1>4, <3>9, <3>10, InHead
    <3>12. Has(Unacked(c), Write("set", p))
      BY <1>1, <3>9, <3>11, UnansweredUnacked DEF In, AcksTo
    <3> QED BY <2>1, <3>12, UnackedSet DEF Steady
  <2> QED BY <2>7, <2>8
<1> QED BY <1>8, <1>9, <1>10, <1>11, PostTurns

(* and so does a snapshot. *)
LEMMA SnapshotTurns ==
  ASSUME [Next]_vars, NEW c \in Clients, NEW p \in Posts, Steady(c, p),
         ReceiveSnapshot(c), regs[c] # {},
         Turn(Picture(c)[p], Overlay(Head(down[c]).board, TRUE, writes[c])[p])
  PROVE  Picture(c)[p] = "created" /\ Final(c, p)'
<1>1. TypeOK /\ TypeInv /\ SyncInv BY DEF Steady, PostInv, SyncInv, TypeInv
<1>2. /\ writes[c] \in Seq(LocalWrites) /\ cache[c] \in Boards /\ complete[c] \in BOOLEAN
      /\ down[c] \in Seq(Responses)
  BY <1>1 DEF TypeOK
<1>3. /\ down[c] # <<>> /\ Head(down[c]).type = "snapshot" /\ Head(down[c]) \in Responses
  BY <1>1, HeadsOfQueues DEF ReceiveSnapshot, Message
<1>4. PICK b \in Boards : b = Head(down[c]).board
  BY <1>3 DEF Responses, Acks
<1>5. down'[c] = Tail(down[c]) /\ cache'[c] = b
  BY <1>1, <1>4 DEF ReceiveSnapshot, TypeOK
<1>6. PICK q \in Seq(Responses) : q = down[c] BY <1>2
<1>7. /\ b[p] = "created" => Head(q) \in Making(p)
      /\ b[p] \in {"stamped", "stub"} => Head(q) \in Stamping(p)
      /\ IsPost(b[p]) => Head(q) \in Bringing(p)
  BY <1>3, <1>4, <1>6 DEF Making, Stamping, Bringing
<1>8. \A S : Head(q) \in S => In(q, S) BY <1>3, <1>6, InHead
<1>9. b[p] \in Records BY DEF Boards
<1> DEFINE before == Picture(c)[p]
           after == Overlay(b, TRUE, writes[c])[p]
<1>10. Turn(before, after) BY <1>4
<1>11. before \in Records BY <1>2, OverlayRecord DEF Picture
<1>12. before = Overlay(cache[c], complete[c], writes[c])[p] BY DEF Picture
<1> HIDE DEF before, after
<1>13. b[p] \in {"stamped", "stub"} => Past(p) /\ ~In(Tail(q), Making(p))
  <2> SUFFICES ASSUME b[p] \in {"stamped", "stub"} PROVE Past(p) /\ ~In(Tail(q), Making(p))
    OBVIOUS
  <2>1. Head(q) \in Stamping(p) /\ In(q, Stamping(p)) BY <1>7, <1>8
  <2>2. NeverAfter(q, Stamping(p), Making(p)) /\ Past(p) BY <1>6, <2>1 DEF Steady, Aged
  <2> QED BY <1>3, <1>6, <2>1, <2>2, NeverAfterHead
<1>14. Spent(p)
  <2> SUFFICES ASSUME ~Spent(p) PROVE FALSE OBVIOUS
  <2>1. ~Has(writes[c], Write("update", p)) BY DEF Steady, Views
  <2>2. b[p] \in {"none", "created"} BY <1>9, <1>13 DEF Past, Records
  <2>3. after \in {"none", "created"}
    <3>1. \A whole : Overlay(b, whole, writes[c])[p] \in {"none", "created"}
      BY <1>2, <2>1, <2>2, EarlyPicture
    <3> QED BY <3>1 DEF after
  <2>4. before \in {"none", "created"} BY DEF Steady, Views, before
  <2> QED BY <1>10, <2>3, <2>4 DEF Turn, IsPost
<1>15. ~Has(writes[c], Write("set", p)) BY <1>14 DEF Steady, Views
<1>16. /\ Has(writes[c], Write("update", p)) \/ b[p] # "created" => after # "created"
       /\ after = "stamped" => Has(writes[c], Write("update", p)) \/ b[p] = "stamped"
  BY <1>2, <1>15, FinalPicture DEF after
<1>17. before # "stamped"
  <2> SUFFICES ASSUME before = "stamped" PROVE FALSE OBVIOUS
  <2>1. Final(c, p) BY DEF Steady, Views, before
  <2>2. Has(writes[c], Write("update", p)) \/ b[p] # "created"
    BY <1>6, <1>7, <1>8, <2>1 DEF Final, Late
  <2> QED BY <1>10, <1>16, <2>2 DEF Turn, IsPost
<1>18. before # "stub"
  <2> SUFFICES ASSUME before = "stub" PROVE FALSE OBVIOUS
  <2>1. cache[c][p] = "stub" => complete[c] BY DEF Steady, Blank
  <2>2. IsPost(after) BY <1>10 DEF Turn
  <2>3. /\ complete[c] /\ ~IsPost(cache[c][p]) /\ IsPost(b[p])
        /\ cache[c][p] = "stub" \/ Has(writes[c], Write("update", p))
    <3>1. \A full : IsPost(Overlay(b, full, writes[c])[p]) =>
            /\ complete[c] /\ ~IsPost(cache[c][p]) /\ IsPost(b[p])
            /\ cache[c][p] = "stub" \/ Has(writes[c], Write("update", p))
      BY <1>2, <1>12, <1>15, <2>1, StubPicture
    <3> QED BY <2>2, <3>1 DEF after
  <2>4. CASE cache[c][p] = "stub"
    <3>1. ~IsPost(Brought(Head(down[c]), p, "stub"))
      BY <1>1, <1>3, <2>4, StubHeard DEF Steady
    <3> QED BY <1>3, <1>4, <2>3, <3>1 DEF Brought
  <2>5. CASE Has(writes[c], Write("update", p))
    <3>1. c = Creator[p] BY <2>5 DEF Steady, Views
    <3>2. ~In(down[c], Bringing(p)) BY <1>14, <2>3, <3>1 DEF Steady, Settling
    <3> QED BY <1>6, <1>7, <1>8, <2>3, <3>2
  <2> QED BY <2>3, <2>4, <2>5
<1>19. before = "created" BY <1>10, <1>11, <1>17, <1>18 DEF Turn, Records
<1>20. after = "stamped" BY <1>10, <1>19 DEF Turn, IsPost
<1>21. ~Has(writes[c], Write("update", p))
  BY <1>14, <1>19 DEF Steady, Views, Final, before
<1>22. b[p] = "stamped" BY <1>16, <1>20, <1>21
<1>23. Late(c, p)'
  <2>1. Past(p) /\ ~In(Tail(q), Making(p)) BY <1>13, <1>22
  <2>2. Past(p)' BY <2>1, PastStays DEF Steady
  <2>3. ~In(down'[c], Making(p)) BY <1>5, <1>6, <2>1
  <2>4. cache'[c][p] # "created" BY <1>5, <1>22
  <2> QED BY <2>2, <2>3, <2>4 DEF Late
<1>24. Spent(p)' BY <1>1, <1>14, SpentStays
<1> QED BY <1>19, <1>23, <1>24 DEF before, Final

-----------------------------------------------------------------------------
(* Answers to writes *)

(* A response that is not held back is that of the oldest write. *)
LEMMA AckOldest ==
  ASSUME TypeOK, EveryWriteTracked, NEW c \in Clients, connected[c], Message(c, "ack"),
         held[c] = <<>>
  PROVE  LET ack == Head(down[c]) IN
         /\ ack \in Acks /\ Left(c, ack) \in Seq(LocalWrites)
         /\ writes[c] \in Seq(LocalWrites) /\ writes[c] # <<>>
         /\ Head(writes[c]) = ack.write /\ Tail(writes[c]) = Left(c, ack)
<1> DEFINE ack == Head(down[c])
           left == Left(c, ack)
<1>1. down[c] # <<>> /\ Tail(down[c]) \in Seq(Responses)
  BY HeadsOfQueues DEF Message
<1>2. PICK D \in Seq(LocalWrites) : D = Answered(Tail(down[c])) BY <1>1, AnsweredType
<1>3. PICK Q \in Seq(LocalWrites) : Q = Requested(up[c]) BY QueueTypes
<1>4. ack \in Acks BY LeftRest
<1>5. PICK w \in LocalWrites : w = ack.write BY <1>4 DEF Acks
<1>6. Answered(down[c]) = <<w>> \o D BY <1>2, <1>5, LeftRest
<1>7. left = Answered(held[c]) \o D \o Q BY <1>2, <1>3, LeftRest
<1>8. Answered(held[c]) = <<>> BY AnsweredEmpty
<1>9. left = D \o Q
  <2>1. <<>> \o D = D BY EmptySeq, ConcatEmptySeq
  <2> QED BY <1>7, <1>8, <2>1
<1>10. writes[c] = (<<w>> \o D) \o Q
  <2>1. writes[c] = Answered(held[c]) \o Unanswered(c) BY HeldAreOldest
  <2>2. Unanswered(c) \in Seq(LocalWrites) /\ Unanswered(c) = Answered(down[c]) \o Q
    BY <1>3, HeldAreOldest
  <2>3. <<>> \o Unanswered(c) = Unanswered(c) BY <2>2, EmptySeq, ConcatEmptySeq
  <2> QED BY <1>6, <1>8, <2>1, <2>2, <2>3
<1>11. /\ D \o Q \in Seq(LocalWrites) /\ <<w>> \in Seq(LocalWrites)
       /\ (<<w>> \o D) \o Q = <<w>> \o (D \o Q)
  BY ConcatThree
<1>12. PICK E \in Seq(LocalWrites) : E = D \o Q BY <1>11
<1>13. writes[c] = <<w>> \o E BY <1>10, <1>11, <1>12
<1>14. /\ <<w>> \o E # <<>> /\ Head(<<w>> \o E) = w /\ Tail(<<w>> \o E) = E
  BY HeadOfConcat
<1>15. writes[c] \in Seq(LocalWrites) BY DEF TypeOK
<1> HIDE DEF left, ack
<1>16. /\ ack \in Acks /\ left \in Seq(LocalWrites)
       /\ writes[c] \in Seq(LocalWrites) /\ writes[c] # <<>>
       /\ Head(writes[c]) = ack.write /\ Tail(writes[c]) = left
  BY <1>4, <1>5, <1>9, <1>12, <1>13, <1>14, <1>15
<1> QED BY <1>16 DEF left, ack

(* An answer to a write is not worth an insertion, *)
LEMMA AckTurns ==
  ASSUME NEW c \in Clients, NEW p \in Posts, Steady(c, p), regs[c] # {},
         ReceiveAck(c), ~ListenPending(up[c], down[c])
  PROVE  ~Turn(Picture(c)[p], Overlay(cache[c], complete[c], Left(c, Head(down[c])))[p])
<1>1. TypeOK /\ TypeInv /\ SyncInv /\ EveryWriteTracked
  BY SoundTracked DEF Steady, PostInv, SyncInv, TypeInv
<1>2. Message(c, "ack") BY DEF ReceiveAck
<1>3. connected[c] BY <1>2 DEF Message, Steady, PostInv, SyncInv, Sound, Wire
<1>4. complete[c] BY <1>1, <1>3 DEF SyncInv, Sound, Awaits
<1>5. held[c] = <<>> BY <1>1, <1>3 DEF SyncInv, Sound, HeldFor
<1>6. PICK left \in Seq(LocalWrites) : left = Left(c, Head(down[c]))
  BY <1>1, <1>2, <1>3, <1>5, AckOldest
<1>7. PICK w \in LocalWrites : w = Head(down[c]).write
  <2>1. Head(down[c]) \in Acks BY <1>1, <1>2, <1>3, <1>5, AckOldest
  <2> QED BY <2>1 DEF Acks
<1>8. PICK ws \in Seq(LocalWrites) : ws = writes[c] BY <1>1 DEF TypeOK
<1>9. ws # <<>> /\ Head(ws) = w /\ Tail(ws) = left
  BY <1>1, <1>2, <1>3, <1>5, <1>6, <1>7, <1>8, AckOldest
<1>10. PICK ca \in Boards : ca = cache[c] BY <1>1 DEF TypeOK
<1>11. ca[p] \in Records BY DEF Boards
<1>12. Laid(w, p, ca[p]) = ca[p]
  <2>1. Reflects(cache[c], Head(down[c]).write)
    BY <1>1, <1>4, AckReflects DEF Steady
  <2>2. w.post = p => Apply(w.type, ca[p]) = ca[p] BY <1>7, <1>10, <2>1 DEF Reflects
  <2> QED BY <2>2 DEF Laid
<1>13. Written(ws, p, ca[p]) = Written(left, p, ca[p])
  <2>1. Written(ws, p, ca[p]) = Written(Tail(ws), p, Laid(Head(ws), p, ca[p]))
    BY <1>9, <1>11, WrittenHead
  <2> QED BY <1>9, <1>12, <2>1
<1>14. PICK whole \in BOOLEAN : whole = complete[c] BY <1>1 DEF TypeOK
<1>15. PICK x \in Seen :
         /\ x = IF ca[p] = "none" /\ ~whole THEN "unknown" ELSE ca[p]
         /\ Overlay(ca, whole, ws)[p] =
              IF Written(ws, p, x) = "unknown" THEN "none" ELSE Written(ws, p, x)
  BY OverlayParts
<1>16. PICK y \in Seen :
         /\ y = IF ca[p] = "none" /\ ~whole THEN "unknown" ELSE ca[p]
         /\ Overlay(ca, whole, left)[p] =
              IF Written(left, p, y) = "unknown" THEN "none" ELSE Written(left, p, y)
  BY OverlayParts
<1>17. x = ca[p] /\ y = ca[p] BY <1>4, <1>14, <1>15, <1>16
<1>18. Overlay(ca, whole, ws)[p] = Overlay(ca, whole, left)[p]
  BY <1>13, <1>15, <1>16, <1>17
<1> QED BY <1>6, <1>8, <1>10, <1>14, <1>18 DEF Turn, Picture

(* What is uncovered write by write over a board, once all have settled. *)
LEMMA UncoveredOne ==
  ASSUME NEW p \in Posts, NEW ws \in Seq(LocalWrites), ws # <<>>, NEW b \in Boards,
         Turn(Written(ws, p, b[p]), Written(Tail(ws), p, b[p])),
         ~Has(ws, Write("set", p)),
         Head(ws) = Write("update", p) => b[p] # "created"
  PROVE  /\ Head(ws) = Write("remove", p) /\ Has(Tail(ws), Write("update", p))
         /\ IsPost(b[p])
<1>1. Head(ws) \in LocalWrites /\ Tail(ws) \in Seq(LocalWrites) BY HeadThenTail
<1>2. PICK w \in LocalWrites : w = Head(ws) BY <1>1
<1>3. PICK t \in Seq(LocalWrites) : t = Tail(ws) BY <1>1
<1>4. PICK r \in Records : r = b[p] BY DEF Boards
<1>5. Written(ws, p, r) = Written(t, p, Laid(w, p, r)) BY <1>2, <1>3, WrittenHead
<1>6. \A e : Has(ws, e) <=> w = e \/ Has(t, e) BY <1>2, <1>3, HasInHead
<1>7. Turn(Written(t, p, Laid(w, p, r)), Written(t, p, r)) BY <1>3, <1>4, <1>5
<1>8. w.type \in WriteOps /\ w = Write(w.type, w.post) BY DEF LocalWrites, Write
<1>9. ~Has(t, Write("set", p)) /\ w # Write("set", p) BY <1>6
<1>10. w.post = p
  <2>1. w.post # p => Laid(w, p, r) = r BY DEF Laid
  <2> QED BY <1>7, <2>1 DEF Turn
<1>11. w = Write("update", p) \/ w = Write("remove", p)
  BY <1>8, <1>9, <1>10 DEF WriteOps
<1>12. Laid(w, p, r) = Apply(w.type, r) BY <1>10 DEF Laid
<1>13. Laid(w, p, r) \in Seen /\ r \in Seen
  BY <1>8, <1>12, ApplyType DEF Seen
<1>14. PICK l \in Seen : l = Laid(w, p, r) BY <1>13
<1>15. Turn(Written(t, p, l), Written(t, p, r)) BY <1>7, <1>14
<1>16. l # r BY <1>15 DEF Turn
<1>17. Shaped(t, p) BY <1>9, Shape
<1>18. CASE \E v \in {"none", "stub"} : \A s \in Seen : Written(t, p, s) = v
  BY <1>13, <1>15, <1>18 DEF Turn
<1>19. CASE w = Write("update", p)
  <2>1. w.type = "update" BY <1>19 DEF Write
  <2>2. l = Apply("update", r) BY <1>12, <1>14, <2>1
  <2>3. r # "created" BY <1>2, <1>4, <1>19
  <2>4. r = "none" BY <1>16, <2>2, <2>3 DEF Apply, Records
  <2>5. Apply("update", r) = "stub" BY <2>4 DEF Apply
  <2>6. ~IsPost(r) /\ ~IsPost(Apply("update", r)) BY <2>4, <2>5 DEF IsPost
  <2> QED BY <1>13, <1>15, <1>17, <1>18, <2>6 DEF Shaped, Turn
<1>20. CASE w = Write("remove", p)
  <2>1. w.type = "remove" BY <1>20 DEF Write
  <2>2. l = "none" BY <1>12, <1>14, <2>1 DEF Apply
  <2>3. CASE \A s \in Seen : Written(t, p, s) = s BY <1>15, <2>2, <2>3 DEF Turn
  <2>4. CASE /\ Has(t, Write("update", p))
             /\ \A s \in Seen : Written(t, p, s) = Apply("update", s)
    <3>1. IsPost(Apply("update", r)) BY <1>13, <1>15, <2>4 DEF Turn
    <3>2. IsPost(r) BY <3>1 DEF Apply, IsPost, Records
    <3> QED BY <1>2, <1>3, <1>4, <1>20, <2>4, <3>2
  <2> QED BY <1>17, <1>18, <2>3, <2>4 DEF Shaped
<1> QED BY <1>11, <1>19, <1>20

(* nor is one that was held back. *)
LEMMA NeverUncovers ==
  ASSUME NEW c \in Clients, NEW p \in Posts, Steady(c, p), regs[c] # {}
  PROVE  ~Uncovers(c, p)
<1> SUFFICES ASSUME Uncovers(c, p) PROVE FALSE OBVIOUS
<1>1. TypeOK /\ TypeInv /\ SyncInv /\ EveryWriteTracked
  BY SoundTracked DEF Steady, PostInv, SyncInv, TypeInv
<1>2. ReceiveSnapshot(c) BY DEF Uncovers
<1>3. /\ down[c] # <<>> /\ Head(down[c]).type = "snapshot" /\ Head(down[c]) \in Responses
  BY <1>1, <1>2, HeadsOfQueues DEF ReceiveSnapshot, Message
<1>4. PICK b \in Boards : b = Head(down[c]).board
  BY <1>3 DEF Responses, Acks
<1>5. PICK n \in 1 .. Len(held[c]) :
        Turn(Overlay(b, TRUE, AckPuts(c, n - 1))[p], Overlay(b, TRUE, AckPuts(c, n))[p])
  BY <1>4 DEF Uncovers
<1>6. PICK qs \in Seq(LocalWrites) : qs = writes[c] BY <1>1 DEF TypeOK
<1>7. /\ held[c] \in Seq(Acks) /\ Len(held[c]) \in Nat /\ Len(held[c]) <= Len(qs)
      /\ qs[n] = held[c][n].write /\ Len(qs) \in Nat /\ n \in 1 .. Len(qs)
  <2>1. held[c] \in Seq(Acks) /\ Len(held[c]) \in Nat BY <1>1 DEF TypeOK
  <2>2. Len(held[c]) <= Len(qs) /\ qs[n] = held[c][n].write BY <1>1, <1>6, HeldAreOldest
  <2> QED BY <2>1, <2>2
<1>8. /\ AckPuts(c, n - 1) = SubSeq(qs, n, Len(qs))
      /\ AckPuts(c, n) = SubSeq(qs, n + 1, Len(qs))
  <2>1. \A k \in 0 .. Len(held[c]) : AckPuts(c, k) = SubSeq(qs, k + 1, Len(qs))
    BY <1>1, <1>6, AckPutsAll
  <2>2. n - 1 \in 0 .. Len(held[c]) /\ n \in 0 .. Len(held[c]) /\ (n - 1) + 1 = n
    BY <1>7
  <2> QED BY <2>1, <2>2
<1>9. PICK ws \in Seq(LocalWrites) : ws = SubSeq(qs, n, Len(qs))
  <2>1. n - 1 \in 0 .. Len(held[c]) BY <1>7
  <2>2. AckPuts(c, n - 1) \in Seq(LocalWrites) BY <1>6, <1>7, <2>1, AckPutsType
  <2> QED BY <1>8, <2>2
<1>10. /\ ws # <<>> /\ SubSeq(qs, n + 1, Len(qs)) = Tail(ws) /\ Head(ws) = qs[n]
       /\ \A e : Has(ws, e) => Has(qs, e)
  <2>1. n - 1 \in Nat /\ n - 1 < Len(qs) /\ (n - 1) + 1 = n /\ (n - 1) + 2 = n + 1 BY <1>7
  <2>2. /\ SubSeq(qs, (n - 1) + 1, Len(qs)) # <<>>
        /\ SubSeq(qs, (n - 1) + 2, Len(qs)) = Tail(SubSeq(qs, (n - 1) + 1, Len(qs)))
    BY <2>1, TailOfRest
  <2>3. n - 1 \in 0 .. Len(qs) BY <1>7
  <2>4. \A e : Has(SubSeq(qs, (n - 1) + 1, Len(qs)), e) <=>
                 \E i \in (n - 1) + 1 .. Len(qs) : qs[i] = e
    BY <2>3, HasInRest
  <2>5. \A e : Has(ws, e) => Has(qs, e) BY <1>7, <1>9, <2>1, <2>4 DEF Has
  <2>6. Head(ws) = qs[n]
    <3>1. Len(ws) >= 1 /\ ws[1] = qs[n] BY <1>7, <1>9, SubSeqProperties
    <3>2. ws[1] = Head(ws) BY <2>1, <2>2, <1>9, TailPlaces
    <3> QED BY <3>1, <3>2
  <2> QED BY <1>9, <2>1, <2>2, <2>5, <2>6
<1>11. PICK t \in Seq(LocalWrites) : t = Tail(ws) BY <1>10, HeadThenTail
<1>12. Turn(Written(ws, p, b[p]), Written(t, p, b[p]))
  <2>1. \A v \in Seq(LocalWrites) : Overlay(b, TRUE, v)[p] = Written(v, p, b[p])
    BY <1>1, WholePicture
  <2> QED BY <1>5, <1>8, <1>9, <1>10, <1>11, <2>1
<1>13. b[p] \in Records /\ b[p] \in {"none", "created", "stamped", "stub"}
  BY DEF Boards, Records
<1>14. In(down[c], {Head(down[c])})
  <2>1. down[c] \in Seq(Responses) BY <1>1 DEF TypeOK
  <2> QED BY <1>3, <2>1, InHead
<1>15. /\ b[p] = "created" => In(down[c], Making(p))
       /\ b[p] \in {"stamped", "stub"} => In(down[c], Stamping(p))
       /\ IsPost(b[p]) => In(down[c], Bringing(p))
  BY <1>3, <1>4, <1>14 DEF In, Making, Stamping, Bringing
<1>16. In(held[c], AcksTo(Head(ws)))
  <2>1. held[c][n] \in Acks BY <1>7
  <2>2. held[c][n] \in AcksTo(Head(ws))
    BY <1>7, <1>10, <2>1, AcksAreResponses DEF AcksTo, Acks
  <2> QED BY <2>2 DEF In
<1>17. Spent(p)
  <2> SUFFICES ASSUME ~Spent(p) PROVE FALSE OBVIOUS
  <2>1. ~Has(qs, Write("update", p)) BY <1>6 DEF Steady, Views
  <2>2. \A e : Has(t, e) => Has(ws, e) BY <1>10, <1>11, HasInHead
  <2>3. ~Has(ws, Write("update", p)) /\ ~Has(t, Write("update", p)) BY <1>10, <2>1, <2>2
  <2>4. ~In(down[c], Stamping(p)) BY DEF Steady, Aged, Past
  <2>5. b[p] \in {"none", "created"} BY <1>13, <1>15, <2>4
  <2>6. Written(ws, p, b[p]) \in {"none", "created"} BY <2>3, <2>5, Unstamped
  <2>7. Written(t, p, b[p]) \in {"none", "created"} BY <2>3, <2>5, Unstamped
  <2> QED BY <1>12, <2>6, <2>7 DEF Turn, IsPost
<1>18. ~Has(ws, Write("set", p)) BY <1>6, <1>10, <1>17 DEF Steady, Views
<1>19. Head(ws) = Write("update", p) => b[p] # "created"
  BY <1>15, <1>16 DEF Steady, Aged, Announced
<1>20. /\ Head(ws) = Write("remove", p) /\ Has(t, Write("update", p)) /\ IsPost(b[p])
  BY <1>10, <1>11, <1>12, <1>18, <1>19, UncoveredOne
<1>21. Has(writes[c], Write("update", p)) BY <1>6, <1>10, <1>11, <1>20, HasInHead
<1>22. c = Creator[p] BY <1>21 DEF Steady, Views
<1>23. In(held[c], AcksTo(Removal(p))) BY <1>16, <1>20 DEF Removal
<1> QED BY <1>15, <1>20, <1>22, <1>23 DEF Steady, Settling

(* So a record changes into an announced post only once. *)
LEMMA TurnsFinal ==
  ASSUME [Next]_vars, NEW c \in Clients, NEW p \in Posts, Steady(c, p), Views(c, p)',
         regs[c] # {}, Turns(c, p)
  PROVE  Picture(c)[p] = "created" /\ Final(c, p)'
BY LocalTurns, PushTurns, SnapshotTurns, AckTurns DEF Turns

-----------------------------------------------------------------------------
(* At most two rows *)

(* A step that leaves the rows of p alone and tells of no insertion. *)
LEMMA TwiceKept ==
  ASSUME NEW c \in Clients, NEW p \in Posts, Twice(c, p), rows[c][p] \in Nat,
         phase'[c] = "live" => phase[c] = "live", session'[c] = session[c],
         rows'[c][p] \in Nat, rows'[c][p] <= rows[c][p],
         Final(c, p) => Final(c, p)',
         LET S == Changes(session[c], p) IN
         /\ In(mainQ'[c], S) => In(mainQ[c], S)
         /\ Once(mainQ[c], S) => Once(mainQ'[c], S)
  PROVE  Twice(c, p)'
<1> SUFFICES ASSUME phase'[c] = "live"
             PROVE  /\ rows'[c][p] <= 2 /\ (rows'[c][p] = 2 => Final(c, p)')
                    /\ In(mainQ'[c], Changes(session[c], p)) =>
                         Final(c, p)' /\ rows'[c][p] <= 1
                    /\ Once(mainQ'[c], Changes(session[c], p))
  BY DEF Twice, Changes, Adding
<1>1. /\ rows[c][p] <= 2 /\ (rows[c][p] = 2 => Final(c, p))
      /\ In(mainQ[c], Changes(session[c], p)) => Final(c, p) /\ rows[c][p] <= 1
      /\ Once(mainQ[c], Changes(session[c], p))
  BY DEF Twice
<1> QED BY <1>1

(* The main thread takes one insertion off the queue for each row. *)
LEMMA MainThreadTwice ==
  ASSUME TypeInv, NEW c \in Clients, NEW p \in Posts, Fresh(c), Twice(c, p),
         MainThread(c), Final(c, p) => Final(c, p)', rows'[c][p] \in Nat
  PROVE  Twice(c, p)'
<1>1. TypeOK BY DEF TypeInv
<1>2. rows[c] \in PostCounts /\ rows[c][p] \in Nat /\ session[c] \in Sessions
  BY <1>1 DEF TypeOK, PostCounts
<1>3. PICK q \in Seq(Callbacks) : q = mainQ[c] BY <1>1 DEF TypeOK
<1>4. q # <<>> /\ mainQ'[c] = Tail(q) /\ session'[c] = session[c]
  <2>1. CASE PostsRetrieved(c)
    BY <1>1, <1>3, <2>1 DEF PostsRetrieved, Callback, TypeOK
  <2>2. CASE RetrievalFailed(c)
    BY <1>1, <1>3, <2>2 DEF RetrievalFailed, Callback, TypeOK
  <2>3. CASE PostAdded(c)
    BY <1>1, <1>3, <2>3 DEF PostAdded, FeedEvent, Callback, TypeOK
  <2>4. CASE PostRemoved(c)
    <3>1. PICK n : FeedEvent(c, "removed", n) BY <2>4 DEF PostRemoved
    <3> QED BY <1>1, <1>3, <3>1 DEF FeedEvent, Callback, TypeOK
  <2>5. CASE PostWritten(c)
    BY <1>1, <1>3, <2>5 DEF PostWritten, Callback, TypeOK, appVars
  <2> QED BY <2>1, <2>2, <2>3, <2>4, <2>5 DEF MainThread
<1>5. PICK S : S = Changes(session[c], p) OBVIOUS
<1>6. /\ \A R : In(Tail(q), R) => In(q, R)
      /\ Once(q, S) => Once(Tail(q), S) /\ (Head(q) \in S => ~In(Tail(q), S))
  <2>1. \A R : In(q, R) <=> Head(q) \in R \/ In(Tail(q), R) BY <1>4, InHead
  <2>2. ASSUME Once(q, S)
        PROVE  Once(Tail(q), S) /\ (Head(q) \in S => ~In(Tail(q), S))
    BY <1>4, <2>2, OnceInTail
  <2> QED BY <2>1, <2>2
<1>7. PICK m \in Callbacks : m = Head(mainQ[c]) BY <1>1, <1>3, <1>4, HeadsOfQueues
<1>8. /\ In(mainQ'[c], S) => In(mainQ[c], S)
      /\ Once(mainQ[c], S) => Once(mainQ'[c], S)
  BY <1>3, <1>4, <1>6
<1>9. ASSUME phase'[c] = "live" => phase[c] = "live", rows'[c][p] <= rows[c][p]
      PROVE  Twice(c, p)'
  BY <1>2, <1>4, <1>5, <1>8, <1>9, TwiceKept
<1>10. CASE PostsRetrieved(c)
  <2> DEFINE awaited == phase[c] = "loading" /\ session[c] = Head(mainQ[c]).session
  <2>1. /\ phase'[c] = IF awaited THEN "live" ELSE phase[c]
        /\ rows'[c] = IF awaited THEN OneRowEach(Head(mainQ[c]).posts) ELSE rows[c]
    BY <1>1, <1>10 DEF PostsRetrieved, TypeOK
  <2>2. CASE awaited
    <3>1. rows'[c][p] \in {0, 1} BY <2>1, <2>2 DEF OneRowEach
    <3>2. Unlive(c, session[c]) BY <1>2, <2>2 DEF Fresh
    <3>3. ~In(q, Adding(session[c])) BY <1>3, <3>2 DEF Unlive
    <3>4. ~In(q, S) BY <1>5, <3>3, AddingMembers DEF In
    <3>5. Tail(q) \in Seq(Callbacks) BY <1>4, HeadThenTail
    <3>6. ~In(Tail(q), S) /\ Once(Tail(q), S) BY <1>6, <3>4, <3>5, OnceInNone
    <3>7. S = Changes(session'[c], p) BY <1>4, <1>5
    <3>8. ~In(mainQ'[c], Changes(session'[c], p)) /\ Once(mainQ'[c], Changes(session'[c], p))
      BY <1>4, <3>6, <3>7
    <3>9. rows'[c][p] <= 2 /\ rows'[c][p] # 2 BY <3>1
    <3> QED BY <3>8, <3>9 DEF Twice, Changes, Adding
  <2>3. CASE ~awaited BY <1>2, <1>9, <2>1, <2>3
  <2> QED BY <2>2, <2>3
<1>11. CASE RetrievalFailed(c)
  <2>1. phase'[c] = "live" => phase[c] = "live"
    BY <1>1, <1>11 DEF RetrievalFailed, TypeOK
  <2>2. rows'[c] = rows[c] BY <1>11 DEF RetrievalFailed
  <2> QED BY <1>2, <1>9, <2>1, <2>2
<1>12. CASE PostAdded(c)
  <2>1. /\ phase'[c] = phase[c] /\ m.type = "changed"
        /\ rows' = IF phase[c] = "live" /\ session[c] = m.session
                   THEN [rows EXCEPT ![c][m.post] = rows[c][m.post] + 1] ELSE rows
    BY <1>7, <1>12 DEF PostAdded, FeedEvent, Callback
  <2>2. CASE phase[c] = "live" /\ session[c] = m.session /\ m.post = p
    <3>1. rows'[c][p] = rows[c][p] + 1
      BY <1>1, <1>2, <2>1, <2>2 DEF TypeOK, PostCounts
    <3>2. m \in S BY <1>5, <2>1, <2>2 DEF Changes, Adding
    <3>3. m = Head(q) BY <1>3, <1>7
    <3>4. In(q, S) BY <1>4, <3>2, <3>3, InHead
    <3>5. Final(c, p) /\ rows[c][p] <= 1 /\ Once(q, S)
      BY <1>3, <1>5, <2>2, <3>4 DEF Twice
    <3>6. ~In(Tail(q), S) /\ Once(Tail(q), S) BY <1>6, <3>2, <3>3, <3>5
    <3>7. S = Changes(session'[c], p) BY <1>4, <1>5
    <3>8. ~In(mainQ'[c], Changes(session'[c], p)) /\ Once(mainQ'[c], Changes(session'[c], p))
      BY <1>4, <3>6, <3>7
    <3>9. rows'[c][p] <= 2 /\ Final(c, p)' BY <1>2, <3>1, <3>5
    <3> QED BY <3>8, <3>9 DEF Twice, Changes, Adding
  <2>3. CASE ~(phase[c] = "live" /\ session[c] = m.session /\ m.post = p)
    <3>1. rows'[c][p] = rows[c][p]
      BY <1>1, <1>2, <2>1, <2>3 DEF TypeOK, PostCounts
    <3> QED BY <1>2, <1>9, <2>1, <3>1
  <2> QED BY <2>2, <2>3
<1>13. CASE PostRemoved(c)
  <2> DEFINE n == rows[c][m.post]
             l == IF n > 0 THEN n - 1 ELSE 0
  <2>1. m.type = "removed" BY <1>7, <1>13 DEF PostRemoved, FeedEvent, Callback
  <2>2. m.post \in Posts BY <2>1 DEF Callbacks
  <2>3. n \in Nat BY <1>2, <2>2 DEF PostCounts
  <2>4. l \in Nat /\ l <= n BY <2>3
  <2>5. /\ phase'[c] = phase[c]
        /\ rows' = rows \/ rows' = [rows EXCEPT ![c][m.post] = l]
    BY <1>7, <1>13 DEF PostRemoved, FeedEvent
  <2> HIDE DEF n, l
  <2>6. rows'[c][p] = rows[c][p] \/ (m.post = p /\ rows'[c][p] = l)
    BY <1>1, <1>2, <2>5 DEF TypeOK, PostCounts
  <2>7. rows'[c][p] <= rows[c][p] BY <1>2, <2>4, <2>6 DEF n
  <2> QED BY <1>9, <2>5, <2>7
<1>14. CASE PostWritten(c)
  <2>1. phase'[c] = phase[c] /\ rows'[c] = rows[c] BY <1>14 DEF PostWritten, appVars
  <2> QED BY <1>2, <1>9, <2>1
<1> QED BY <1>10, <1>11, <1>12, <1>13, <1>14 DEF MainThread

(* An insertion is told for a post that has one row at the most. *)
LEMMA SpeaksTwice ==
  ASSUME [Next]_vars, NEW c \in Clients, NEW p \in Posts, Steady(c, p), Views(c, p)',
         Twice(c, p), Speaks(c), rows'[c] = rows[c],
         phase'[c] = phase[c], session'[c] = session[c],
         Final(c, p) => Final(c, p)'
  PROVE  Twice(c, p)'
<1>1. TypeOK BY DEF Steady, PostInv, SyncInv, TypeInv
<1>2. rows[c][p] \in Nat /\ mainQ[c] \in Seq(Callbacks) BY <1>1 DEF TypeOK, PostCounts
<1>3. PICK v \in Seq(Callbacks) : mainQ'[c] = mainQ[c] \o v /\ Voices(c, v)
  BY DEF Speaks
<1>4. PICK S : S = Changes(session[c], p) OBVIOUS
<1>5. PICK q \in Seq(Callbacks) : q = mainQ[c] BY <1>2
<1>6. /\ \A R : In(q \o v, R) <=> In(q, R) \/ In(v, R)
      /\ Once(q, S) /\ ~In(v, S) => Once(q \o v, S)
      /\ ~In(q, S) /\ Once(v, S) => Once(q \o v, S)
  BY InConcat
<1>7. CASE ~In(v, S)
  <2>1. /\ In(mainQ'[c], S) => In(mainQ[c], S)
        /\ Once(mainQ[c], S) => Once(mainQ'[c], S)
    BY <1>3, <1>5, <1>6, <1>7
  <2> QED BY <1>2, <1>4, <2>1, TwiceKept
<1>8. CASE In(v, S)
  <2>1. In(v, Adding(session[c])) BY <1>4, <1>8, AddingMembers DEF In
  <2>2. regs[c] # {} BY <1>3, <2>1 DEF Voices
  <2>3. ~Uncovers(c, p) BY <2>2, NeverUncovers
  <2>4. Turns(c, p) /\ Once(v, S) BY <1>3, <1>4, <1>8, <2>3 DEF Voices
  <2>5. Picture(c)[p] = "created" /\ Final(c, p)' BY <2>2, <2>4, TurnsFinal
  <2>6. ~Final(c, p) BY <2>5 DEF Steady, Views
  <2> SUFFICES ASSUME phase[c] = "live" PROVE Twice(c, p)' BY DEF Twice
  <2>7. rows[c][p] <= 2 /\ rows[c][p] # 2 /\ ~In(q, S)
    BY <1>4, <1>5, <2>6 DEF Twice
  <2>8. rows'[c][p] <= 1 /\ rows'[c][p] <= 2 /\ rows'[c][p] # 2 BY <1>2, <2>7
  <2>9. Once(mainQ'[c], S) BY <1>3, <1>5, <1>6, <2>4, <2>7
  <2>10. Once(mainQ'[c], Changes(session'[c], p)) BY <1>4, <2>9
  <2> QED BY <2>5, <2>8, <2>10 DEF Twice, Changes, Adding
<1> QED BY <1>7, <1>8

(* A post comes onto a screen once with the load and once when announced. *)
LEMMA TwiceStays ==
  ASSUME [Next]_vars, NEW c \in Clients, NEW p \in Posts, Steady(c, p), Fresh(c),
         Twice(c, p), Views(c, p)', rows'[c][p] \in Nat
  PROVE  Twice(c, p)'
<1>1. TypeOK /\ TypeInv BY DEF Steady, PostInv, SyncInv, TypeInv
<1>2. rows[c][p] \in Nat BY <1>1 DEF TypeOK, PostCounts
<1>3. SUFFICES ASSUME phase'[c] = "live" PROVE Twice(c, p)' BY DEF Twice
<1>4. ~Crash(c) BY <1>1, <1>3 DEF Crash, TypeOK
<1>5. Final(c, p) => Final(c, p)' BY <1>4, FinalStays DEF Steady
<1>6. ASSUME rows'[c] = rows[c], phase'[c] = phase[c], session'[c] = session[c],
             mainQ'[c] = mainQ[c]
      PROVE  Twice(c, p)'
  BY <1>2, <1>5, <1>6, TwiceKept
<1>7. CASE ActionOf(c)
  <2>1. CASE MainThread(c) BY <1>1, <1>2, <1>5, <2>1, MainThreadTwice
  <2>2. CASE User(c)
    <3>1. ~OpenTimeline(c) /\ ~Logout(c)
      BY <1>1, <1>3 DEF OpenTimeline, Logout, TypeOK
    <3>2. PICK r \in Posts : CreatePost(c, r) \/ RemovePost(c, r) BY <2>2, <3>1 DEF User
    <3>3. UNCHANGED appVars /\ mainQ' = mainQ BY <3>2 DEF CreatePost, RemovePost
    <3> QED BY <1>6, <3>3 DEF appVars
  <2>3. CASE ~MainThread(c) /\ ~User(c)
    <3>1. UNCHANGED appVars
      <4>1. CASE RepoBlock(c) \/ Receive(c) \/ Serve(c)
        BY <4>1, Zenon DEF RepoBlock, AddObserver, RemoveObserver, LocalWrite, Receive,
                           ReceivePush,
                    ReceiveSnapshot, ReceiveAck, ReceiveRefusal, ReceiveRevocation, Serve,
                    ServeListen, ServeUnlisten, ServeWrite
      <4>2. CASE RevokeListen(c) \/ Disconnect(c) \/ Reconnect(c)
        BY <4>2 DEF RevokeListen, Disconnect, Reconnect, Reconnected
      <4> QED BY <1>4, <1>7, <2>3, <4>1, <4>2 DEF ActionOf
    <3>2. rows'[c] = rows[c] /\ phase'[c] = phase[c] /\ session'[c] = session[c]
      BY <3>1 DEF appVars
    <3>3. mainQ'[c] = mainQ[c] \/ Speaks(c) BY <1>1, <1>4, <1>7, <2>3, Tellings
    <3> QED BY <1>5, <1>6, <3>2, <3>3, SpeaksTwice
  <2> QED BY <2>1, <2>2, <2>3
<1>8. CASE ~ActionOf(c)
  <2>1. /\ mainQ'[c] = mainQ[c] /\ phase'[c] = phase[c] /\ session'[c] = session[c]
        /\ rows'[c] = rows[c]
    <3>1. CASE UNCHANGED vars BY <3>1 DEF vars, appVars
    <3>2. CASE ~UNCHANGED vars
      <4>1. PICK d \in Clients : ActionOf(d) BY <3>2, SomebodyActs
      <4>2. c \in Clients \ {d} BY <1>8, <4>1
      <4>3. mainQ'[c] = mainQ[c] BY <1>1, <4>1, <4>2, OthersKeep DEF ActionOf
      <4>4. rows'[c] = rows[c] BY <1>1, <4>1, <4>2, OthersRows
      <4>5. phase'[c] = phase[c] /\ session'[c] = session[c]
        <5>1. CASE ServeWrite(d) BY <5>1 DEF ServeWrite, appVars
        <5>2. CASE ~ServeWrite(d) BY <1>1, <4>1, <4>2, <5>2, IdleSilent
        <5> QED BY <5>1, <5>2
      <4> QED BY <4>3, <4>4, <4>5
    <3> QED BY <3>1, <3>2
  <2> QED BY <1>6, <2>1
<1> QED BY <1>7, <1>8

-----------------------------------------------------------------------------
(* The invariant *)

(* All is in order between the server and the list of client c. *)
InOrder(c, p) ==
  /\ Blank(c) /\ Backed(c) /\ Aged(c, p) /\ Tailed(c, p) /\ Course(c, p)
  /\ Dated(p) /\ Settling(p)

(* The invariant of all lists. *)
ListInv ==
  /\ FeedInv /\ RowsInv /\ \A c \in Clients : Fresh(c)
  /\ ~RejectsWrites => \A c \in Clients, p \in Posts : InOrder(c, p)

(* Where nothing is queued nothing is out of order. *)
LEMMA NothingQueued ==
  ASSUME NEW p, NEW S
  PROVE  /\ ~In(<<>>, S) /\ \A A, B, E, C : NeverAfter(<<>>, A, B) /\ Met(<<>>, A, B, E, C)
         /\ \A got, gone : Missed(<<>>, p, got, gone)
         /\ \A e : ~Has(<<>>, e)
<1>1. Len(<<>>) = 0 BY EmptySeq
<1>2. 1 .. Len(<<>>) = {} BY <1>1
<1> QED BY <1>1, <1>2 DEF In, NeverAfter, Met, Missed, Has

(* It holds at first, *)
LEMMA ListInit == Init => ListInv
<1> SUFFICES ASSUME Init PROVE ListInv OBVIOUS
<1>1. FeedInv /\ RowsInv BY FeedInit, RowsInit
<1>2. TypeOK BY <1>1 DEF FeedInv, SyncInv, TypeInv
<1>4. ASSUME NEW c \in Clients PROVE Fresh(c)
  <2>1. mainQ[c] = <<>> /\ repoQ[c] = <<>> /\ regs[c] = {} /\ rows[c] = NoRows
        /\ phase[c] = "closed"
    BY DEF Init
  <2>2. \A s : Unlive(c, s) BY <2>1, NothingQueued DEF Unlive
  <2> QED BY <2>1, <2>2 DEF Fresh
<1>3. ASSUME NEW c \in Clients, NEW p \in Posts PROVE InOrder(c, p)
  <2>1. /\ server[p] = "none" /\ down[c] = <<>> /\ held[c] = <<>> /\ mainQ[c] = <<>>
        /\ repoQ[c] = <<>> /\ regs[c] = {} /\ cache[c] = Nothing /\ ~complete[c]
        /\ rows[c] = NoRows /\ phase[c] = "closed" /\ ~listening[c]
    BY DEF Init, Nothing
  <2>2. down[Creator[p]] = <<>> /\ held[Creator[p]] = <<>> /\ ~complete[Creator[p]]
    BY CreatorAssumption DEF Init
  <2>3. cache[c][p] = "none" /\ \A r \in Posts : cache[c][r] = "none" BY <2>1 DEF Nothing
  <2>4. Blank(c) BY <2>1, <2>3 DEF Blank
  <2>6. Backed(c) BY <2>1 DEF Backed
  <2>7. Aged(c, p)
    <3>1. \A S : ~In(<<>>, S) BY NothingQueued
    <3>2. ~Announced(c, p) BY <2>1, <2>3, <3>1 DEF Announced
    <3>3. NeverAfter(<<>>, Stamping(p), Making(p)) BY NothingQueued
    <3> QED BY <2>1, <3>1, <3>2, <3>3 DEF Aged
  <2>8. Tailed(c, p)
    <3>1. \A A, B, E, C : Met(<<>>, A, B, E, C) BY NothingQueued
    <3> QED BY <2>1, <3>1 DEF Tailed
  <2>9. Course(c, p)
    <3>1. Len(down[c]) = 0 BY <2>1, EmptySeq
    <3>2. PICK f \in [0 .. Len(down[c]) -> Records] :
            \A i \in 0 .. Len(down[c]) : f[i] = "none"
      <4>1. "none" \in Records BY DEF Records
      <4>2. [i \in 0 .. Len(down[c]) |-> "none"] \in [0 .. Len(down[c]) -> Records] BY <4>1
      <4> QED BY <4>2
    <3>3. \A i \in 0 .. Len(down[c]) : f[i] # "stub" BY <3>2
    <3>4. 1 .. Len(down[c]) = {} BY <3>1
    <3>5. CourseOf(f, down[c], p, Dead(p)) BY <3>2, <3>3, <3>4 DEF CourseOf
    <3> QED BY <2>1, <3>5 DEF Course
  <2>10. Dated(p) BY <2>1 DEF Dated
  <2>11. Settling(p)
    <3>1. \A S : ~In(<<>>, S) BY NothingQueued
    <3>2. Missed(<<>>, p, Got(p), ~IsPost(server[p])) BY NothingQueued
    <3> QED BY <2>2, <3>1, <3>2 DEF Settling
  <2> QED BY <2>4, <2>6, <2>7, <2>8, <2>9, <2>10, <2>11 DEF InOrder
<1> QED BY <1>1, <1>3, <1>4 DEF ListInv

(* and after every step. *)
LEMMA ListStep == ListInv /\ [Next]_vars => ListInv'
<1> SUFFICES ASSUME ListInv, [Next]_vars PROVE ListInv' OBVIOUS
<1>1. FeedInv' /\ RowsInv' BY FeedStep, RowsStep DEF ListInv
<1>2. /\ PostInv /\ SyncInv /\ TypeInv /\ \A d \in Clients : Deaf(d)
      /\ \A d \in Clients, p \in Posts : PostPhase(d, p)
  BY DEF ListInv, FeedInv, RowsInv, PostInv, SyncInv
<1>3. ASSUME ~RejectsWrites, NEW c \in Clients, NEW p \in Posts PROVE InOrder(c, p)'
  <2>1. InOrder(c, p) BY <1>3 DEF ListInv
  <2>2. Creator[p] \in Clients BY CreatorAssumption
  <2>3. InOrder(Creator[p], p) BY <1>3, <2>2 DEF ListInv
  <2>4. Blank(c)' BY <1>2, <2>1, BlankStays DEF InOrder
  <2>6. Backed(c)' BY <1>2, <1>3, <2>1, BackedStays DEF InOrder
  <2>7. Aged(c, p)' BY <1>2, <1>3, <2>1, AgedStays DEF InOrder
  <2>8. Tailed(c, p)' BY <1>2, <1>3, <2>1, TailedStays DEF InOrder
  <2>9. Dated(p)' BY <1>2, <1>3, <2>1, DatedStays DEF InOrder
  <2>10. Dead(p) => Dead(p)' BY <1>2, <1>3, PastStays
  <2>11. Course(c, p)' BY <1>2, <1>3, <2>1, <2>9, <2>10, CourseStays DEF InOrder
  <2>12. Settling(p)' BY <1>2, <1>3, <2>2, <2>3, SettlingStays DEF InOrder
  <2> QED BY <2>4, <2>6, <2>7, <2>8, <2>9, <2>11, <2>12 DEF InOrder
<1>4. \A c \in Clients : Fresh(c)' BY <1>2, FreshStays DEF ListInv
<1> QED BY <1>1, <1>3, <1>4 DEF ListInv

(* No screen shows a post three times, or is about to. *)
ListsTwice == ~RejectsWrites => \A c \in Clients, p \in Posts : Twice(c, p)

(* What pictures say of posts, for all clients. *)
ListViews == ~RejectsWrites => \A c \in Clients, p \in Posts : Views(c, p)

(* Lists in order say so. *)
LEMMA ListViewed == ListInv => ListViews
<1> SUFFICES ASSUME ListInv, ~RejectsWrites, NEW c \in Clients, NEW p \in Posts
             PROVE  Views(c, p)
  BY DEF ListViews
<1>1. PostInv /\ \A d \in Clients : PostPhase(d, p) BY DEF ListInv, RowsInv
<1>2. Aged(c, p) BY DEF ListInv, InOrder
<1> QED BY <1>1, <1>2, ViewsHold

(* It holds at first, *)
LEMMA TwiceInit == Init => ListsTwice
<1> SUFFICES ASSUME Init, NEW c \in Clients, NEW p \in Posts PROVE Twice(c, p)
  BY DEF ListsTwice
<1>1. phase[c] # "live" BY DEF Init
<1> QED BY <1>1 DEF Twice

(* and after every step between lists in order. *)
LEMMA TwiceStep ==
  ListInv /\ ListViews /\ ListViews' /\ ListInv' /\ ListsTwice /\ [Next]_vars => ListsTwice'
<1> SUFFICES ASSUME ListInv, ListViews, ListViews', ListInv', ListsTwice, [Next]_vars,
                    ~RejectsWrites, NEW c \in Clients, NEW p \in Posts
             PROVE  Twice(c, p)'
  BY DEF ListsTwice
<1>1. Views(c, p) /\ Views(c, p)' /\ Twice(c, p) BY DEF ListViews, ListsTwice
<1>2. InOrder(c, p) /\ Fresh(c) BY DEF ListInv
<1>3. PostInv /\ \A d \in Clients : PostPhase(d, p) BY DEF ListInv, RowsInv
<1>4. Steady(c, p) BY <1>1, <1>2, <1>3 DEF Steady, InOrder
<1>5. TypeOK' BY DEF ListInv, FeedInv, SyncInv, TypeInv
<1>6. rows'[c][p] \in Nat BY <1>5 DEF TypeOK, PostCounts
<1> QED BY <1>1, <1>2, <1>4, <1>6, TwiceStays DEF InOrder

(* No live screen shows a post more than twice, with what is queued for    *)
(* it counted: a second row is inserted only once, when the post's         *)
(* announcement comes (FirebaseTimelineService.swift:67-118,               *)
(* TimelineViewModel.swift:78-97).                                         *)
THEOREM ListsInOrder == Spec => [](ListInv /\ ListsTwice)
<1>1. Spec => []ListInv
  <2>1. ListInv /\ [Next]_vars => ListInv' BY ListStep
  <2> QED BY ListInit, <2>1, PTL DEF Spec
<1>2. ListInv /\ ListViews /\ ListViews' /\ ListInv' /\ ListsTwice /\ [Next]_vars =>
        ListsTwice'
  BY TwiceStep
<1> QED BY <1>1, <1>2, TwiceInit, ListViewed, PTL DEF Spec

-----------------------------------------------------------------------------
(* The lists implement LiveList *)

(* The posts somebody asked to remove: LiveList's "removed". *)
Removed == {p \in Posts : \E c \in Clients : asked[c][p] > 0}

(* What is known of the callback a client runs next. *)
LEMMA NextCallback ==
  ASSUME ListInv, NEW c \in Clients, mainQ[c] # <<>>
  PROVE  LET m == Head(mainQ[c]) IN
         /\ m \in Callbacks /\ In(mainQ[c], {m})
         /\ m.type = "value" => m.posts \subseteq posted
         /\ m.type \in {"changed", "removed"} => m.post \in posted
         /\ m.type = "removed" /\ ~RejectsWrites => m.post \in Removed
<1>1. TypeOK /\ PostInv /\ NoPhantomRemoval
  BY FeedTells DEF ListInv, RowsInv, PostInv, SyncInv, TypeInv
<1>2. PICK q \in Seq(Callbacks) : q = mainQ[c] BY <1>1 DEF TypeOK
<1>3. PICK m \in Callbacks : m = Head(mainQ[c]) BY <1>1, <1>2, HeadsOfQueues
<1>4. q # <<>> /\ m = Head(q) BY <1>2, <1>3
<1>5. In(q, {m})
  <2>1. \A S : In(q, S) <=> Head(q) \in S \/ In(Tail(q), S) BY <1>4, InHead
  <2> QED BY <1>4, <2>1
<1>6. ASSUME NEW p \in Posts, p \notin posted PROVE m \in OtherCallbacks(p)
  <2>1. Unheard(c, p) BY <1>1, <1>6 DEF PostInv, Hidden
  <2>2. q \in Seq(OtherCallbacks(p)) BY <1>2, <2>1 DEF Unheard
  <2> QED BY <1>4, <2>2, HeadThenTail
<1>7. m.type = "value" => m.posts \subseteq posted
  <2>1. m.type = "value" => m.posts \subseteq Posts BY DEF Callbacks
  <2> QED BY <1>6, <2>1 DEF OtherCallbacks
<1>8. m.type \in {"changed", "removed"} => m.post \in posted
  <2>1. m.type \in {"changed", "removed"} => m.post \in Posts BY DEF Callbacks
  <2> QED BY <1>6, <2>1 DEF OtherCallbacks
<1>9. ASSUME m.type = "removed", ~RejectsWrites PROVE m.post \in Removed
  <2>1. m.post \in Posts BY <1>1, <1>8, <1>9 DEF TypeOK
  <2>2. 1 \in DOMAIN q /\ q[1] = m BY <1>4
  <2>3. \E d \in Clients : asked[d][m.post] > 0
    BY <1>1, <1>2, <1>9, <2>2 DEF NoPhantomRemoval
  <2> QED BY <2>1, <2>3 DEF Removed
<1> QED BY <1>2, <1>3, <1>5, <1>7, <1>8, <1>9

(* A step that LiveList does not see. *)
LEMMA Unseen ==
  ASSUME posted' = posted, asked' = asked, phase' = phase, rows' = rows
  PROVE  [Lists!Next]_(Lists!vars)
BY DEF Lists!vars

(* What the user does is LiveList's Open, Close, Post or Remove, *)
LEMMA UserLists ==
  ASSUME ListInv, NEW c \in Clients, User(c)
  PROVE  [Lists!Next]_(Lists!vars)
<1>1. TypeOK BY DEF ListInv, FeedInv, SyncInv, TypeInv
<1>2. Fresh(c) BY DEF ListInv
<1>3. CASE OpenTimeline(c)
  <2>1. phase[c] = "closed" /\ phase' = [phase EXCEPT ![c] = "loading"]
        /\ rows' = [rows EXCEPT ![c] = NoRows] /\ asked' = asked /\ posted' = posted
    BY <1>3 DEF OpenTimeline, historyVars
  <2>2. rows[c] = NoRows BY <1>2, <2>1 DEF Fresh
  <2>3. rows' = rows BY <1>1, <2>1, <2>2 DEF TypeOK
  <2>4. Lists!Open(c) BY <2>1, <2>3 DEF Lists!Open
  <2> QED BY <2>4 DEF Lists!Next
<1>4. CASE Logout(c)
  <2>1. phase[c] # "closed" /\ phase' = [phase EXCEPT ![c] = "closed"]
        /\ rows' = [rows EXCEPT ![c] = NoRows] /\ asked' = asked /\ posted' = posted
    BY <1>4 DEF Logout
  <2>2. Lists!Close(c) BY <2>1 DEF Lists!Close, Lists!NoRows, NoRows
  <2> QED BY <2>2 DEF Lists!Next
<1>5. ASSUME NEW r \in Posts, CreatePost(c, r) PROVE [Lists!Next]_(Lists!vars)
  <2>1. r \notin posted /\ posted' = posted \cup {r} /\ phase' = phase /\ rows' = rows
        /\ asked' = asked
    BY <1>5 DEF CreatePost, appVars
  <2>2. Lists!Post(r) BY <2>1 DEF Lists!Post
  <2> QED BY <2>2 DEF Lists!Next
<1>6. ASSUME NEW r \in Posts, RemovePost(c, r) PROVE [Lists!Next]_(Lists!vars)
  <2>1. rows[c][r] > 0 /\ asked' = [asked EXCEPT ![c][r] = @ + 1]
        /\ posted' = posted /\ phase' = phase /\ rows' = rows
    BY <1>6 DEF RemovePost, appVars
  <2>2. Removed' = Removed \cup {r}
    <3>1. \A d \in Clients : asked[d] \in [Posts -> Nat] BY <1>1 DEF TypeOK, PostCounts
    <3>2. asked'[c][r] = asked[c][r] + 1 /\ asked[c][r] \in Nat
      BY <1>1, <2>1, <3>1 DEF TypeOK
    <3>3. \A d \in Clients, s \in Posts \ {r} : asked'[d][s] = asked[d][s]
      BY <1>1, <2>1, <3>1 DEF TypeOK
    <3>4. r \in Removed' BY <3>2 DEF Removed
    <3>5. \A s \in Posts \ {r} : s \in Removed' <=> s \in Removed BY <3>3 DEF Removed
    <3> QED BY <3>4, <3>5 DEF Removed
  <2>3. Lists!Remove(r) BY <2>1, <2>2 DEF Lists!Remove, Removed
  <2> QED BY <2>3 DEF Lists!Next
<1> QED BY <1>3, <1>4, <1>5, <1>6 DEF User

(* what the main thread does is Load, Fail, Insert or Drop or not seen, *)
LEMMA MainThreadLists ==
  ASSUME ListInv, ListsTwice, ~RejectsWrites, NEW c \in Clients, MainThread(c)
  PROVE  [Lists!Next]_(Lists!vars)
<1>1. TypeOK BY DEF ListInv, FeedInv, SyncInv, TypeInv
<1>2. PICK m : m = Head(mainQ[c]) OBVIOUS
<1>3. /\ mainQ[c] # <<>> /\ posted' = posted /\ asked' = asked
  <2>1. CASE PostsRetrieved(c) BY <2>1 DEF PostsRetrieved, Callback, historyVars
  <2>2. CASE RetrievalFailed(c) BY <2>2 DEF RetrievalFailed, Callback, historyVars
  <2>3. CASE PostAdded(c) BY <2>3 DEF PostAdded, FeedEvent, Callback, historyVars
  <2>4. CASE PostRemoved(c)
    <3>1. PICK n : FeedEvent(c, "removed", n) BY <2>4 DEF PostRemoved
    <3> QED BY <3>1 DEF FeedEvent, Callback, historyVars
  <2>5. CASE PostWritten(c) BY <2>5 DEF PostWritten, Callback, historyVars
  <2> QED BY <2>1, <2>2, <2>3, <2>4, <2>5 DEF MainThread
<1>4. /\ m \in Callbacks /\ In(mainQ[c], {m})
      /\ m.type = "value" => m.posts \subseteq posted
      /\ m.type \in {"changed", "removed"} => m.post \in posted
      /\ m.type = "removed" => m.post \in Removed
  BY <1>2, <1>3, NextCallback
<1>5. \A r \in Posts : rows[c][r] \in Nat BY <1>1 DEF TypeOK, PostCounts
<1>6. CASE PostsRetrieved(c)
  <2>1. m.type = "value" BY <1>2, <1>6 DEF PostsRetrieved, Callback
  <2>2. CASE phase[c] = "loading" /\ session[c] = m.session
    <3>1. phase' = [phase EXCEPT ![c] = "live"]
          /\ rows' = [rows EXCEPT ![c] = OneRowEach(m.posts)]
      BY <1>2, <1>6, <2>2 DEF PostsRetrieved
    <3>2. Lists!Load(c, m.posts)
      BY <1>3, <1>4, <2>1, <2>2, <3>1 DEF Lists!Load, Lists!OneRowEach, OneRowEach
    <3>3. m.posts \in SUBSET posted BY <1>4, <2>1
    <3> QED BY <3>2, <3>3 DEF Lists!Next
  <2>3. CASE ~(phase[c] = "loading" /\ session[c] = m.session)
    <3>1. phase' = [phase EXCEPT ![c] = phase[c]] /\ rows' = [rows EXCEPT ![c] = rows[c]]
      BY <1>2, <1>6, <2>3 DEF PostsRetrieved
    <3>2. phase' = phase /\ rows' = rows BY <1>1, <3>1 DEF TypeOK
    <3> QED BY <1>3, <3>2, Unseen
  <2> QED BY <2>2, <2>3
<1>7. CASE RetrievalFailed(c)
  <2>1. rows' = rows BY <1>7 DEF RetrievalFailed
  <2>2. CASE phase[c] = "loading" /\ session[c] = m.session
    <3>1. phase' = [phase EXCEPT ![c] = "failed"]
      BY <1>1, <1>2, <1>7, <2>2 DEF RetrievalFailed, TypeOK
    <3>2. Lists!Fail(c) BY <1>3, <2>1, <2>2, <3>1 DEF Lists!Fail
    <3> QED BY <3>2 DEF Lists!Next
  <2>3. CASE ~(phase[c] = "loading" /\ session[c] = m.session)
    <3>1. phase' = phase BY <1>1, <1>2, <1>7, <2>3 DEF RetrievalFailed, TypeOK
    <3> QED BY <1>3, <2>1, <3>1, Unseen
  <2> QED BY <2>2, <2>3
<1>8. CASE PostAdded(c)
  <2>1. /\ phase' = phase /\ m.type = "changed"
        /\ rows' = IF phase[c] = "live" /\ session[c] = m.session
                   THEN [rows EXCEPT ![c][m.post] = rows[c][m.post] + 1] ELSE rows
    BY <1>2, <1>8 DEF PostAdded, FeedEvent, Callback
  <2>2. CASE phase[c] = "live" /\ session[c] = m.session
    <3>1. PICK p \in Posts : p = m.post BY <1>1, <1>4, <2>1 DEF TypeOK
    <3>2. m \in Changes(session[c], p)
      BY <1>4, <2>1, <2>2, <3>1 DEF Changes, Adding
    <3>3. In(mainQ[c], Changes(session[c], p)) BY <1>4, <3>2 DEF In
    <3>4. rows[c][p] <= 1 BY <2>2, <3>3 DEF ListsTwice, Twice
    <3>5. rows[c][p] < 2 BY <1>5, <3>4
    <3>6. rows' = [rows EXCEPT ![c][p] = @ + 1] BY <2>1, <2>2, <3>1
    <3>7. Lists!Insert(c, p)
      BY <1>3, <1>4, <2>1, <2>2, <3>1, <3>5, <3>6 DEF Lists!Insert
    <3> QED BY <3>7 DEF Lists!Next
  <2>3. CASE ~(phase[c] = "live" /\ session[c] = m.session)
    BY <1>3, <2>1, <2>3, Unseen
  <2> QED BY <2>2, <2>3
<1>9. CASE PostRemoved(c)
  <2> DEFINE n == rows[c][m.post]
             l == IF n > 0 THEN n - 1 ELSE 0
  <2>1. FeedEvent(c, "removed", l) BY <1>2, <1>9 DEF PostRemoved
  <2>2. n \in Nat
    <3>1. m.type = "removed" BY <1>2, <2>1 DEF FeedEvent, Callback
    <3>2. m.post \in Posts BY <1>1, <1>4, <3>1 DEF TypeOK
    <3> QED BY <1>5, <3>2
  <2>3. n > 0 => l = n - 1 OBVIOUS
  <2>4. ~(n > 0) => l = n BY <2>2
  <2> HIDE DEF l
  <2>5. /\ phase' = phase /\ m.type = "removed"
        /\ rows' = IF phase[c] = "live" /\ session[c] = m.session
                   THEN [rows EXCEPT ![c][m.post] = l] ELSE rows
    BY <1>2, <2>1 DEF FeedEvent, Callback
  <2>6. PICK p \in Posts : p = m.post BY <1>1, <1>4, <2>5 DEF TypeOK
  <2>7. CASE phase[c] = "live" /\ session[c] = m.session /\ n > 0
    <3>1. rows' = [rows EXCEPT ![c][p] = @ - 1] BY <2>3, <2>5, <2>6, <2>7
    <3>2. Lists!Drop(c, p)
      BY <1>3, <1>4, <2>5, <2>6, <2>7, <3>1 DEF Lists!Drop, Removed
    <3> QED BY <3>2 DEF Lists!Next
  <2>8. CASE ~(phase[c] = "live" /\ session[c] = m.session /\ n > 0)
    <3>1. rows' = rows \/ rows' = [rows EXCEPT ![c][p] = rows[c][p]]
      BY <2>4, <2>5, <2>6, <2>8
    <3>2. rows' = rows
      <4>1. rows[c] = [rows[c] EXCEPT ![p] = rows[c][p]] BY <1>1 DEF TypeOK, PostCounts
      <4> QED BY <1>1, <3>1, <4>1 DEF TypeOK
    <3> QED BY <1>3, <2>5, <3>2, Unseen
  <2> QED BY <2>7, <2>8
<1>10. CASE PostWritten(c)
  <2>1. phase' = phase /\ rows' = rows BY <1>10 DEF PostWritten, appVars
  <2> QED BY <1>3, <2>1, Unseen
<1> QED BY <1>6, <1>7, <1>8, <1>9, <1>10 DEF MainThread

(* and a crash closes the screen. *)
LEMMA CrashLists ==
  ASSUME ListInv, NEW c \in Clients, Crash(c)
  PROVE  [Lists!Next]_(Lists!vars)
<1>1. TypeOK BY DEF ListInv, FeedInv, SyncInv, TypeInv
<1>2. Fresh(c) BY DEF ListInv
<1>3. phase' = [phase EXCEPT ![c] = "closed"] /\ rows' = [rows EXCEPT ![c] = NoRows]
      /\ asked' = asked /\ posted' = posted
  BY DEF Crash
<1>4. CASE phase[c] = "closed"
  <2>1. rows[c] = NoRows BY <1>2, <1>4 DEF Fresh
  <2>2. rows' = rows /\ phase' = phase BY <1>1, <1>3, <1>4, <2>1 DEF TypeOK
  <2> QED BY <1>3, <2>2, Unseen
<1>5. CASE phase[c] # "closed"
  <2>1. Lists!Close(c) BY <1>3, <1>5 DEF Lists!Close, Lists!NoRows, NoRows
  <2> QED BY <2>1 DEF Lists!Next
<1> QED BY <1>4, <1>5

(* Every step is one of LiveList or is not seen by it. *)
LEMMA ListSteps ==
  ListInv /\ ListsTwice /\ ~RejectsWrites /\ [Next]_vars => [Lists!Next]_(Lists!vars)
<1> SUFFICES ASSUME ListInv, ListsTwice, ~RejectsWrites, [Next]_vars
             PROVE  [Lists!Next]_(Lists!vars)
  OBVIOUS
<1>1. CASE UNCHANGED vars BY <1>1, Unseen DEF vars, appVars, historyVars
<1>2. ASSUME NEW c \in Clients, User(c) \/ Crash(c) PROVE [Lists!Next]_(Lists!vars)
  BY <1>2, UserLists, CrashLists
<1>3. ASSUME NEW c \in Clients,
             RepoBlock(c) \/ Receive(c) \/ Serve(c) \/ RevokeListen(c) \/ Disconnect(c)
               \/ Reconnect(c)
      PROVE  [Lists!Next]_(Lists!vars)
  <2>1. posted' = posted /\ asked' = asked /\ phase' = phase /\ rows' = rows
    <3>1. CASE RepoBlock(c) \/ Receive(c) \/ Serve(c)
      BY <3>1, Zenon DEF RepoBlock, AddObserver, RemoveObserver, LocalWrite, Receive,
                         ReceivePush,
                  ReceiveSnapshot, ReceiveAck, ReceiveRefusal, ReceiveRevocation, Serve,
                  ServeListen, ServeUnlisten, ServeWrite, appVars, historyVars
    <3>2. CASE RevokeListen(c) \/ Disconnect(c) \/ Reconnect(c)
      BY <3>2 DEF RevokeListen, Disconnect, Reconnect, Reconnected, appVars, historyVars
    <3> QED BY <1>3, <3>1, <3>2
  <2> QED BY <2>1, Unseen
<1>4. ASSUME NEW c \in Clients, MainThread(c) PROVE [Lists!Next]_(Lists!vars)
  BY <1>4, MainThreadLists
<1> QED BY <1>1, <1>2, <1>3, <1>4 DEF Next

(* The first state is LiveList's. *)
LEMMA ListsBegin == Init => Lists!Init
<1> SUFFICES ASSUME Init PROVE Lists!Init OBVIOUS
<1>1. \A c \in Clients, p \in Posts : ~(asked[c][p] > 0) BY DEF Init, NoRows
<1> QED BY <1>1 DEF Init, Lists!Init, Lists!NoRows, NoRows

(* All timeline screens together do what LiveList promises: a screen       *)
(* shows posts that were posted, none more than twice, and drops a row     *)
(* only for a post that somebody asked to remove, if the server refuses    *)
(* no write (FirebaseTimelineService.swift:18-119,                         *)
(* TimelineViewModel.swift:46-97).                                         *)
THEOREM ListsImplemented == ~RejectsWrites => (Spec => ImplementsLiveList)
<1> SUFFICES ASSUME ~RejectsWrites PROVE Spec => ImplementsLiveList OBVIOUS
<1>1. ListInv /\ ListsTwice /\ [Next]_vars => [Lists!Next]_(Lists!vars) BY ListSteps
<1> QED BY <1>1, ListsInOrder, ListsBegin, PTL DEF Spec, ImplementsLiveList, Lists!Spec
=============================================================================
