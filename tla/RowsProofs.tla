----------------------------- MODULE RowsProofs -----------------------------
(***************************************************************************)
(* The live feed's promise about the rows: LiveRowsExact, for any number   *)
(* of clients, posts, screens, drops and crashes.                          *)
(*                                                                         *)
(* Two things are kept for a client that was tuned in when p was made and  *)
(* still is.  Wired: what is on its way down to it (a write's answer comes *)
(* right behind the write's own push, the creation comes before the        *)
(* update).  Shows: the callbacks on their way to its screen will make of  *)
(* the rows of p what the SDK's picture of p says, one if it is stamped    *)
(* and none if not.  The second is lost only for a post that is Void: gone *)
(* for good by the hand of a device other than its creator's.              *)
(***************************************************************************)
EXTENDS PostProofs

-----------------------------------------------------------------------------
(* The callbacks on their way, and what they make of the number of rows *)

(* What callback m makes of n rows of p, on the screen of session s. *)
Tells(m, s, p) ==
  m.type \in {"changed", "removed"} /\ m.session = s /\ m.post = p
Counted(m, s, p, n) ==
  IF ~Tells(m, s, p) THEN n
  ELSE IF m.type = "changed" THEN n + 1
  ELSE IF n > 0 THEN n - 1 ELSE 0

(* The callbacks of q, in their order, lead from n rows of p to l. *)
Leads(q, s, p, n, l) ==
  \E f \in [0 .. Len(q) -> Nat] :
    /\ f[0] = n /\ f[Len(q)] = l
    /\ \A i \in 1 .. Len(q) : f[i] = Counted(q[i], s, p, f[i - 1])

(* Counts are counts. *)
LEMMA CountedType ==
  ASSUME NEW m, NEW s, NEW p, NEW n \in Nat
  PROVE  Counted(m, s, p, n) \in Nat
BY DEF Counted

(* No callback leads nowhere; *)
LEMMA LeadsNone ==
  ASSUME NEW s, NEW p, NEW n, NEW l, Leads(<<>>, s, p, n, l)
  PROVE  n = l
<1>1. Len(<<>>) = 0 OBVIOUS
<1> QED BY <1>1 DEF Leads

(* nor do those that do not tell of p. *)
LEMMA LeadsOthers ==
  ASSUME NEW T, NEW q \in Seq(T), NEW s, NEW p, NEW n \in Nat,
         \A i \in 1 .. Len(q) : ~Tells(q[i], s, p)
  PROVE  Leads(q, s, p, n, n)
<1> DEFINE f == [i \in 0 .. Len(q) |-> n]
<1>1. Len(q) \in Nat OBVIOUS
<1>2. f \in [0 .. Len(q) -> Nat] /\ f[0] = n /\ f[Len(q)] = n BY <1>1
<1>3. \A i \in 1 .. Len(q) : f[i] = Counted(q[i], s, p, f[i - 1])
  BY <1>1 DEF Counted
<1> HIDE DEF f
<1> QED BY <1>2, <1>3 DEF Leads

(* Of callbacks of which one tells of p, that one counts. *)
LEMMA LeadsOnce ==
  ASSUME NEW T, NEW q \in Seq(T), NEW s, NEW p, NEW n \in Nat, NEW j \in 1 .. Len(q),
         \A i \in 1 .. Len(q) : i # j => ~Tells(q[i], s, p)
  PROVE  Leads(q, s, p, n, Counted(q[j], s, p, n))
<1> DEFINE l == Counted(q[j], s, p, n)
           f == [i \in 0 .. Len(q) |-> IF i < j THEN n ELSE l]
<1>1. Len(q) \in Nat /\ l \in Nat BY CountedType
<1> HIDE DEF l
<1>2. f \in [0 .. Len(q) -> Nat] /\ f[0] = n /\ f[Len(q)] = l BY <1>1
<1>3. ASSUME NEW i \in 1 .. Len(q) PROVE f[i] = Counted(q[i], s, p, f[i - 1])
  <2>1. CASE i = j
    <3>1. f[i] = l /\ f[i - 1] = n BY <1>1, <2>1
    <3> QED BY <2>1, <3>1 DEF l
  <2>2. CASE i # j
    <3>1. f[i] = f[i - 1] BY <1>1, <2>2
    <3>2. ~Tells(q[i], s, p) BY <2>2
    <3> HIDE DEF f
    <3> QED BY <3>1, <3>2 DEF Counted
  <2> QED BY <2>1, <2>2
<1> HIDE DEF f
<1> QED BY <1>2, <1>3 DEF Leads, l

(* Callbacks after others lead on, *)
LEMMA LeadsConcat ==
  ASSUME NEW T, NEW q \in Seq(T), NEW r \in Seq(T), NEW s, NEW p,
         NEW n, NEW l, NEW k, Leads(q, s, p, n, l), Leads(r, s, p, l, k)
  PROVE  Leads(q \o r, s, p, n, k)
<1> DEFINE t == q \o r
<1>1. /\ t \in Seq(T) /\ Len(q) \in Nat /\ Len(r) \in Nat /\ Len(t) = Len(q) + Len(r)
      /\ \A i \in 1 .. Len(q) + Len(r) : t[i] = IF i <= Len(q) THEN q[i] ELSE r[i - Len(q)]
  BY ConcatProperties
<1>2. PICK f \in [0 .. Len(q) -> Nat] :
        /\ f[0] = n /\ f[Len(q)] = l
        /\ \A i \in 1 .. Len(q) : f[i] = Counted(q[i], s, p, f[i - 1])
  BY DEF Leads
<1>3. PICK g \in [0 .. Len(r) -> Nat] :
        /\ g[0] = l /\ g[Len(r)] = k
        /\ \A i \in 1 .. Len(r) : g[i] = Counted(r[i], s, p, g[i - 1])
  BY DEF Leads
<1> HIDE DEF t
<1> DEFINE h == [i \in 0 .. Len(t) |-> IF i <= Len(q) THEN f[i] ELSE g[i - Len(q)]]
<1>4. h \in [0 .. Len(t) -> Nat] /\ h[0] = n BY <1>1, <1>2, <1>3
<1>5. h[Len(t)] = k
  <2>1. CASE Len(r) = 0 BY <1>1, <1>2, <1>3, <2>1
  <2>2. CASE Len(r) # 0 BY <1>1, <1>3, <2>2
  <2> QED BY <2>1, <2>2
<1>6. ASSUME NEW i \in 1 .. Len(t) PROVE h[i] = Counted(t[i], s, p, h[i - 1])
  <2>1. CASE i <= Len(q)
    <3>1. i \in 1 .. Len(q) /\ h[i] = f[i] /\ h[i - 1] = f[i - 1] /\ t[i] = q[i]
      BY <1>1, <2>1
    <3> QED BY <1>2, <3>1
  <2>2. CASE i = Len(q) + 1
    <3>1. i - Len(q) = 1 /\ 1 \in 1 .. Len(r) BY <1>1, <2>2
    <3>0. i \in 1 .. Len(q) + Len(r) /\ ~(i <= Len(q)) BY <1>1, <2>2
    <3>2. h[i] = g[1] /\ t[i] = r[1]
      <4>1. h[i] = g[i - Len(q)] BY <1>1, <3>0
      <4>2. t[i] = r[i - Len(q)] BY <1>1, <3>0
      <4> QED BY <3>1, <4>1, <4>2
    <3>3. h[i - 1] = f[Len(q)] BY <1>1, <2>2
    <3> HIDE DEF h
    <3>4. g[1] = Counted(r[1], s, p, g[1 - 1]) BY <1>3, <3>1
    <3> QED BY <1>2, <1>3, <3>2, <3>3, <3>4
  <2>3. CASE i > Len(q) + 1
    <3>1. i - Len(q) \in 1 .. Len(r) BY <1>1, <2>3
    <3>2. h[i] = g[i - Len(q)] /\ t[i] = r[i - Len(q)] BY <1>1, <2>3
    <3>3. h[i - 1] = g[(i - Len(q)) - 1] BY <1>1, <2>3
    <3> HIDE DEF h
    <3> QED BY <1>3, <3>1, <3>2, <3>3
  <2> QED BY <1>1, <2>1, <2>2, <2>3
<1> HIDE DEF h
<1> QED BY <1>4, <1>5, <1>6 DEF Leads, t

(* and after the first one has counted, the others do. *)
LEMMA LeadsHead ==
  ASSUME NEW T, NEW q \in Seq(T), q # <<>>, NEW s, NEW p, NEW n, NEW l,
         Leads(q, s, p, n, l)
  PROVE  Leads(Tail(q), s, p, Counted(Head(q), s, p, n), l)
<1> DEFINE r == Tail(q)
<1>1. /\ r \in Seq(T) /\ Len(q) \in Nat /\ Len(q) = Len(r) + 1
      /\ Len(r) \in Nat
      /\ \A i \in 1 .. Len(r) : r[i] = q[i + 1]
      /\ q[1] = Head(q)
  BY TailPlaces
<1> HIDE DEF r
<1>2. PICK f \in [0 .. Len(q) -> Nat] :
        /\ f[0] = n /\ f[Len(q)] = l
        /\ \A i \in 1 .. Len(q) : f[i] = Counted(q[i], s, p, f[i - 1])
  BY DEF Leads
<1> DEFINE g == [i \in 0 .. Len(r) |-> f[i + 1]]
<1>3. g \in [0 .. Len(r) -> Nat] /\ g[0] = f[1] /\ g[Len(r)] = l BY <1>1, <1>2
<1>4. f[1] = Counted(Head(q), s, p, n)
  <2>1. 1 \in 1 .. Len(q) /\ 1 - 1 = 0 BY <1>1
  <2>2. f[1] = Counted(q[1], s, p, f[1 - 1]) BY <1>2, <2>1
  <2> QED BY <1>1, <1>2, <2>1, <2>2
<1>5. ASSUME NEW i \in 1 .. Len(r) PROVE g[i] = Counted(r[i], s, p, g[i - 1])
  <2>1. i + 1 \in 1 .. Len(q) /\ r[i] = q[i + 1] BY <1>1
  <2>2. g[i] = f[i + 1] /\ g[i - 1] = f[(i + 1) - 1] BY <1>1
  <2> HIDE DEF g
  <2> QED BY <1>2, <2>1, <2>2
<1> HIDE DEF g
<1> QED BY <1>3, <1>4, <1>5 DEF Leads, r

-----------------------------------------------------------------------------
(* What the local writes make of a record *)

(* What one more write makes of it: at the end, *)
Laid(w, p, r) == IF w.post = p THEN Apply(w.type, r) ELSE r

(* What the picture may be made from: a record, or one not heard of yet. *)
Seen == Records \cup {"unknown"}

(* Every write makes a record of a record. *)
LEMMA KeepsRecords ==
  ASSUME NEW ws \in Seq(LocalWrites), NEW p
  PROVE  KeptIn(Records, ws, p) /\ KeptIn(Seen, ws, p)
<1>1. \A i \in 1 .. Len(ws) : ws[i].type \in WriteOps
  <2>1. \A i \in 1 .. Len(ws) : ws[i] \in LocalWrites OBVIOUS
  <2> QED BY <2>1 DEF LocalWrites
<1>2. \A op \in WriteOps : Apply(op, "unknown") \in Seen
  BY DEF Apply, WriteOps, Seen, Records
<1>3. \A op \in WriteOps, r \in Seen : Apply(op, r) \in Seen
  BY <1>2, ApplyType DEF Seen
<1> QED BY <1>1, <1>3, ApplyType DEF KeptIn

(* Writes laid over a record make a record. *)
LEMMA WrittenType ==
  ASSUME NEW ws \in Seq(LocalWrites), NEW p, NEW r \in Records
  PROVE  Written(ws, p, r) \in Records
BY KeepsRecords, WrittenStays

LEMMA WrittenSeen ==
  ASSUME NEW ws \in Seq(LocalWrites), NEW p, NEW r \in Seen
  PROVE  Written(ws, p, r) \in Seen
BY KeepsRecords, WrittenStays

(* The last write is laid over what the others make. *)
LEMMA WrittenAppend ==
  ASSUME NEW ws \in Seq(LocalWrites), NEW w \in LocalWrites, NEW p, NEW r \in Seen
  PROVE  Written(Append(ws, w), p, r) = Laid(w, p, Written(ws, p, r))
<1> DEFINE t == Append(ws, w)
           n == Len(ws)
<1>1. /\ t \in Seq(LocalWrites) /\ Len(t) = n + 1 /\ n \in Nat
      /\ t[n + 1] = w /\ \A i \in 1 .. n : t[i] = ws[i]
  BY AppendProperties
<1> HIDE DEF t
<1>a. KeptIn(Seen, ws, p) BY KeepsRecords
<1>b. KeptIn(Seen, t, p) BY <1>1, KeepsRecords
<1>2. PICK f \in [0 .. n -> Seen] :
        IsWriting(f, ws, p, r) /\ Written(ws, p, r) = f[n]
  BY <1>a, WrittenDef
<1>3. PICK g \in [0 .. Len(t) -> Seen] :
        IsWriting(g, t, p, r) /\ Written(t, p, r) = g[Len(t)]
  BY <1>1, <1>b, WrittenDef
<1> DEFINE S == {i \in 0 .. n : g[i] = f[i]}
<1>4. 0 \in S BY <1>1, <1>2, <1>3 DEF IsWriting
<1>5. \A i \in 1 .. n : i - 1 \in S => i \in S
  <2> SUFFICES ASSUME NEW i \in 1 .. n, g[i - 1] = f[i - 1] PROVE g[i] = f[i]
    OBVIOUS
  <2>1. i \in 1 .. Len(t) /\ t[i] = ws[i] BY <1>1
  <2>2. g[i] = IF t[i].post = p THEN Apply(t[i].type, g[i - 1]) ELSE g[i - 1]
    BY <1>3, <2>1 DEF IsWriting
  <2>3. f[i] = IF ws[i].post = p THEN Apply(ws[i].type, f[i - 1]) ELSE f[i - 1]
    BY <1>2 DEF IsWriting
  <2> QED BY <2>1, <2>2, <2>3
<1>6. 0 .. n \subseteq S
  <2> HIDE DEF S
  <2> QED BY <1>1, <1>4, <1>5, InductionUpTo
<1>7. g[n] = f[n] BY <1>1, <1>6
<1>8. n + 1 \in 1 .. Len(t) /\ (n + 1) - 1 = n BY <1>1
<1>9. g[n + 1] = IF t[n + 1].post = p THEN Apply(t[n + 1].type, g[(n + 1) - 1])
                 ELSE g[(n + 1) - 1]
  BY <1>3, <1>8 DEF IsWriting
<1> QED BY <1>1, <1>2, <1>3, <1>7, <1>8, <1>9 DEF Laid, t

(* or at the head. *)
LEMMA WrittenHead ==
  ASSUME NEW ws \in Seq(LocalWrites), ws # <<>>, NEW p, NEW r \in Records
  PROVE  Written(ws, p, r) = Written(Tail(ws), p, Laid(Head(ws), p, r))
<1> DEFINE t == Tail(ws)
           x == Laid(Head(ws), p, r)
<1>1. /\ t \in Seq(LocalWrites) /\ Len(ws) \in Nat /\ Len(ws) = Len(t) + 1
      /\ Len(t) \in Nat
      /\ \A i \in 1 .. Len(t) : t[i] = ws[i + 1]
      /\ ws[1] = Head(ws)
  BY TailPlaces
<1> HIDE DEF t
<1>2. x \in Records
  <2>1. Head(ws) \in LocalWrites BY HeadTailProperties
  <2> QED BY <2>1, ApplyType DEF LocalWrites, Laid
<1>3. PICK f \in [0 .. Len(ws) -> Records] :
        IsWriting(f, ws, p, r) /\ Written(ws, p, r) = f[Len(ws)]
  BY KeepsRecords, WrittenDef
<1>4. PICK g \in [0 .. Len(t) -> Records] :
        IsWriting(g, t, p, x) /\ Written(t, p, x) = g[Len(t)]
  BY <1>1, <1>2, KeepsRecords, WrittenDef
<1>5. f[1] = x
  <2>1. 1 \in 1 .. Len(ws) /\ 1 - 1 = 0 BY <1>1
  <2>2. f[1] = IF ws[1].post = p THEN Apply(ws[1].type, f[1 - 1]) ELSE f[1 - 1]
    BY <1>3, <2>1 DEF IsWriting
  <2>3. f[0] = r BY <1>3 DEF IsWriting
  <2> QED BY <1>1, <2>1, <2>2, <2>3 DEF Laid
<1> HIDE DEF x
<1> DEFINE S == {i \in 0 .. Len(t) : g[i] = f[i + 1]}
<1>6. 0 \in S BY <1>1, <1>4, <1>5 DEF IsWriting
<1>7. \A i \in 1 .. Len(t) : i - 1 \in S => i \in S
  <2> SUFFICES ASSUME NEW i \in 1 .. Len(t), g[i - 1] = f[(i - 1) + 1]
               PROVE g[i] = f[i + 1]
    OBVIOUS
  <2>1. i + 1 \in 1 .. Len(ws) /\ t[i] = ws[i + 1] /\ (i - 1) + 1 = i /\ (i + 1) - 1 = i
    BY <1>1
  <2>2. g[i] = IF t[i].post = p THEN Apply(t[i].type, g[i - 1]) ELSE g[i - 1]
    BY <1>4 DEF IsWriting
  <2>3. f[i + 1] = IF ws[i + 1].post = p THEN Apply(ws[i + 1].type, f[(i + 1) - 1])
                   ELSE f[(i + 1) - 1]
    BY <1>3, <2>1 DEF IsWriting
  <2> QED BY <2>1, <2>2, <2>3
<1>8. 0 .. Len(t) \subseteq S
  <2> HIDE DEF S
  <2> QED BY <1>1, <1>6, <1>7, InductionUpTo
<1>9. g[Len(t)] = f[Len(ws)] BY <1>1, <1>8
<1> QED BY <1>3, <1>4, <1>9 DEF t, x

(* Writes without the creation of p make of all records the same one, that *)
(* is no post; or there is an update of p and no removal, and they do as   *)
(* one update; or nothing.                                                 *)
Shaped(ws, p) ==
  \/ \E v \in {"none", "stub"} : \A r \in Seen : Written(ws, p, r) = v
  \/ /\ Has(ws, Write("update", p)) /\ ~Has(ws, Write("remove", p))
     /\ \A r \in Seen : Written(ws, p, r) = Apply("update", r)
  \/ /\ ~Has(ws, Write("update", p)) /\ ~Has(ws, Write("remove", p))
     /\ \A r \in Seen : Written(ws, p, r) = r

(* Writes without a creation have one of few shapes: they leave a record as it
   is, stamp what is there, or end in a removal. *)
LEMMA Shape ==
  ASSUME NEW p
  PROVE  \A ws \in Seq(LocalWrites) : ~Has(ws, Write("set", p)) => Shaped(ws, p)
<1> DEFINE S == {ws \in Seq(LocalWrites) : ~Has(ws, Write("set", p)) =>
                   Shaped(ws, p) /\ (Has(ws, Write("remove", p)) =>
                     \E v \in {"none", "stub"} : \A r \in Seen : Written(ws, p, r) = v)}
<1>1. <<>> \in S
  <2>1. \A r \in Seen : Written(<<>>, p, r) = r BY WrittenNothing
  <2>2. Shaped(<<>>, p) BY <2>1, HasInNone DEF Shaped
  <2>3. ~Has(<<>>, Write("remove", p)) /\ <<>> \in Seq(LocalWrites) BY HasInNone
  <2> QED BY <2>2, <2>3
<1>2. ASSUME NEW ws \in Seq(LocalWrites), NEW w \in LocalWrites, ws \in S
      PROVE  Append(ws, w) \in S
  <2> DEFINE t == Append(ws, w)
             u == Write("update", p)
             x == Write("remove", p)
  <2>1. t \in Seq(LocalWrites) BY AppendProperties
  <2>2. \A e : Has(t, e) <=> Has(ws, e) \/ w = e BY HasInAppend
  <2>3. \A r \in Seen : Written(t, p, r) = Laid(w, p, Written(ws, p, r))
    BY WrittenAppend
  <2>4. \A r \in Seen : Written(ws, p, r) \in Seen BY WrittenSeen
  <2>5. w.type \in WriteOps /\ (w.post = p => w = Write(w.type, p))
    BY DEF LocalWrites, Write
  <2> HIDE DEF t
  <2> SUFFICES ASSUME ~Has(t, Write("set", p))
               PROVE  /\ Shaped(t, p)
                      /\ Has(t, x) => \E v \in {"none", "stub"} :
                                        \A r \in Seen : Written(t, p, r) = v
    BY <2>1 DEF t
  <2>6. /\ Shaped(ws, p)
        /\ Has(ws, x) => \E v \in {"none", "stub"} : \A r \in Seen : Written(ws, p, r) = v
    BY <1>2, <2>2
  <2>7. u # x BY DEF Write
  <2>8. CASE w.post # p
    <3>1. \A r \in Seen : Written(t, p, r) = Written(ws, p, r)
      BY <2>3, <2>8 DEF Laid
    <3>2. w # u /\ w # x BY <2>8 DEF Write
    <3> QED BY <2>2, <2>6, <3>1, <3>2 DEF Shaped
  <2>9. CASE w = x
    <3>1. \A r \in Seen : Written(t, p, r) = "none"
      BY <2>3, <2>9 DEF Laid, Write, Apply
    <3> QED BY <3>1 DEF Shaped
  <2>10. CASE w = u
    <3>1. \A r \in Seen : Written(t, p, r) = Apply("update", Written(ws, p, r))
      BY <2>3, <2>10 DEF Laid, Write
    <3>2. CASE \E v \in {"none", "stub"} : \A r \in Seen : Written(ws, p, r) = v
      <4>1. \A r \in Seen : Written(t, p, r) = "stub" BY <3>1, <3>2 DEF Apply
      <4> QED BY <4>1 DEF Shaped
    <3>3. CASE ~\E v \in {"none", "stub"} : \A r \in Seen : Written(ws, p, r) = v
      <4>1. ~Has(t, x) BY <2>2, <2>6, <2>7, <2>10, <3>3
      <4>2. Has(t, u) BY <2>2, <2>10
      <4>3. \A r \in Seen : Apply("update", Apply("update", r)) = Apply("update", r)
        BY DEF Apply, Seen, Records
      <4>4. \A r \in Seen : Written(t, p, r) = Apply("update", r)
        <5> TAKE r \in Seen
        <5>1. Written(ws, p, r) = r \/ Written(ws, p, r) = Apply("update", r)
          BY <2>6, <3>3 DEF Shaped
        <5> QED BY <3>1, <4>3, <5>1
      <4> QED BY <4>1, <4>2, <4>4 DEF Shaped
    <3> QED BY <3>2, <3>3
  <2>11. w # Write("set", p) BY <2>2
  <2> QED BY <2>5, <2>8, <2>9, <2>10, <2>11 DEF WriteOps
<1>3. Seq(LocalWrites) \subseteq S
  <2> HIDE DEF S
  <2> QED BY <1>1, <1>2, InductionOnSeq
<1> QED BY <1>3

(* Without an update, what was not stamped stays so. *)
LEMMA Unstamped ==
  ASSUME NEW p, NEW ws \in Seq(LocalWrites), ~Has(ws, Write("update", p)),
         NEW r \in {"none", "created", "unknown"}
  PROVE  /\ r # "unknown" => Written(ws, p, r) \in {"none", "created"}
         /\ Written(ws, p, r) \in {"none", "created", "unknown"}
<1> DEFINE S == {"none", "created"}
           T == {"none", "created", "unknown"}
<1>1. KeptIn(S, ws, p) /\ KeptIn(T, ws, p)
  <2> SUFFICES ASSUME NEW i \in 1 .. Len(ws), ws[i].post = p
               PROVE  \A s \in T : Apply(ws[i].type, s) \in S
    BY DEF KeptIn
  <2>1. ws[i] \in LocalWrites OBVIOUS
  <2>2. ws[i] # Write("update", p) BY DEF Has
  <2>3. ws[i].type \in {"set", "remove"} BY <2>1, <2>2 DEF LocalWrites, Write, WriteOps
  <2> QED BY <2>3 DEF Apply
<1>2. r \in T /\ (r # "unknown" => r \in S) OBVIOUS
<1> HIDE DEF S, T
<1>3. Written(ws, p, r) \in T BY <1>1, <1>2, WrittenStays
<1>4. r # "unknown" => Written(ws, p, r) \in S BY <1>1, <1>2, WrittenStays
<1> QED BY <1>3, <1>4 DEF S, T

-----------------------------------------------------------------------------
(* What is told of a change of the picture *)

(* What is told of a record that changes counts so: *)
Noticed(before, after, n) ==
  IF IsPost(before) /\ after = "none" THEN IF n > 0 THEN n - 1 ELSE 0
  ELSE IF before # "none" /\ before # after /\ IsPost(after) THEN n + 1
  ELSE n

(* a set of posts told to a live screen, *)
LEMMA TellLeads ==
  ASSUME NEW c \in Clients, session[c] \in Sessions, NEW p \in Posts, NEW n \in Nat,
         NEW kind \in {"changed", "removed"}, NEW S \in SUBSET Posts
  PROVE  Leads([i \in 1 .. Cardinality(S) |-> Event(kind, c, SetToSeq(S)[i])],
               session[c], p, n,
               IF p \in S THEN Counted(Event(kind, c, p), session[c], p, n) ELSE n)
<1> DEFINE s == session[c]
           N == Cardinality(S)
           q == [i \in 1 .. N |-> Event(kind, c, SetToSeq(S)[i])]
<1>1. IsFiniteSet(S) BY PostsAssumption, FS_Subset
<1>2. /\ N \in Nat /\ SetToSeq(S) \in [1 .. N -> S]
      /\ \A x \in S : \E i \in 1 .. N : SetToSeq(S)[i] = x
      /\ \A i, j \in 1 .. N : SetToSeq(S)[i] = SetToSeq(S)[j] => i = j
  BY <1>1, SetToSeqType
<1>3. q \in Seq(Callbacks) BY TellType
<1>4. Len(q) = N /\ \A i \in 1 .. N : q[i] = Event(kind, c, SetToSeq(S)[i])
  <2> HIDE DEF N
  <2> QED BY <1>2
<1>5. \A x : Tells(Event(kind, c, x), s, p) <=> x = p BY DEF Tells, Event
<1> HIDE DEF q, N
<1>6. CASE p \notin S
  <2>1. \A i \in 1 .. N : SetToSeq(S)[i] # p BY <1>2, <1>6
  <2>2. \A i \in 1 .. Len(q) : ~Tells(q[i], s, p) BY <1>4, <1>5, <2>1
  <2>3. Leads(q, s, p, n, n) BY <1>3, <2>2, LeadsOthers
  <2> QED BY <1>6, <2>3 DEF q, N
<1>7. CASE p \in S
  <2>1. PICK j \in 1 .. N : SetToSeq(S)[j] = p BY <1>2, <1>7
  <2>2. \A i \in 1 .. N : i # j => SetToSeq(S)[i] # p BY <1>2, <2>1
  <2>3. \A i \in 1 .. Len(q) : i # j => ~Tells(q[i], s, p) BY <1>4, <1>5, <2>2
  <2>4. j \in 1 .. Len(q) /\ q[j] = Event(kind, c, p) BY <1>4, <2>1
  <2>5. Leads(q, s, p, n, Counted(q[j], s, p, n)) BY <1>3, <2>3, <2>4, LeadsOnce
  <2> QED BY <1>7, <2>4, <2>5 DEF q, N
<1> QED BY <1>6, <1>7

(* and a change of the picture. *)
LEMMA ChildEventsLead ==
  ASSUME NEW c \in Clients, session[c] \in Sessions, NEW p \in Posts, NEW n \in Nat,
         NEW rs, {<<"changed", session[c]>>, <<"removed", session[c]>>} \subseteq rs,
         NEW before, NEW after
  PROVE  Leads(ChildEvents(c, rs, before, after), session[c], p, n,
               Noticed(before[p], after[p], n))
<1> DEFINE s == session[c]
           removed == {q \in Posts : IsPost(before[q]) /\ after[q] = "none"}
           changed == {q \in Posts : /\ before[q] # "none" /\ before[q] # after[q]
                                     /\ IsPost(after[q])}
           Tell(kind, S) == [i \in 1 .. Cardinality(S) |-> Event(kind, c, SetToSeq(S)[i])]
           N(kind, S, k) == IF p \in S THEN Counted(Event(kind, c, p), s, p, k) ELSE k
<1>1. ChildEvents(c, rs, before, after) = Tell("removed", removed) \o Tell("changed", changed)
  BY DEF ChildEvents
<1>2. removed \in SUBSET Posts /\ changed \in SUBSET Posts OBVIOUS
<1>3. /\ p \in removed <=> IsPost(before[p]) /\ after[p] = "none"
      /\ p \in changed <=> before[p] # "none" /\ before[p] # after[p] /\ IsPost(after[p])
  OBVIOUS
<1> HIDE DEF removed, changed
<1>4. Tell("removed", removed) \in Seq(Callbacks) /\ Tell("changed", changed) \in Seq(Callbacks)
  BY <1>2, TellType
<1>5. Leads(Tell("removed", removed), s, p, n, N("removed", removed, n))
  BY <1>2, TellLeads
<1>6. N("removed", removed, n) \in Nat BY CountedType
<1>7. Leads(Tell("changed", changed), s, p, N("removed", removed, n),
            N("changed", changed, N("removed", removed, n)))
  <2> DEFINE k == N("removed", removed, n)
  <2>1. k \in Nat BY <1>6
  <2> HIDE DEF k
  <2>2. Leads(Tell("changed", changed), s, p, k, N("changed", changed, k))
    BY <1>2, <2>1, TellLeads
  <2> QED BY <2>2 DEF k
<1>8. N("changed", changed, N("removed", removed, n)) = Noticed(before[p], after[p], n)
  <2>1. \A k : N("removed", removed, k) = IF p \in removed THEN IF k > 0 THEN k - 1 ELSE 0 ELSE k
    BY DEF Counted, Tells, Event
  <2>2. \A k : N("changed", changed, k) = IF p \in changed THEN k + 1 ELSE k
    BY DEF Counted, Tells, Event
  <2>3. ~(p \in removed /\ p \in changed) BY <1>3 DEF IsPost
  <2> HIDE DEF N
  <2> QED BY <1>3, <2>1, <2>2, <2>3 DEF Noticed
<1> HIDE DEF Tell, N
<1>9. Leads(Tell("removed", removed) \o Tell("changed", changed), s, p, n,
            N("changed", changed, N("removed", removed, n)))
  BY <1>4, <1>5, <1>7, LeadsConcat
<1> QED BY <1>1, <1>8, <1>9

(* How a live screen's picture of a post may change: a row is told for a   *)
(* stamped post and for no other.                                          *)
Rowed(r) == IF r = "stamped" THEN 1 ELSE 0
Goes(r, t) ==
  \/ t = r \/ t = "none"
  \/ r = "created" /\ t = "stamped"
  \/ r = "none" /\ t \in {"created", "stub"}

(* A change the SDK notices takes the rows to the new record's. *)
LEMMA GoesRowed ==
  ASSUME NEW r \in Records, NEW t \in Records, Goes(r, t)
  PROVE  Noticed(r, t, Rowed(r)) = Rowed(t)
BY DEF Noticed, Rowed, Goes, Records, IsPost

(* A write laid over a picture changes it so, but for a creation. *)
LEMMA LaidGoes ==
  ASSUME NEW r \in Records, NEW op \in WriteOps, op = "set" => r \in {"none", "created"}
  PROVE  Goes(r, Apply(op, r))
BY DEF Goes, Apply, Records, WriteOps

(* The picture of a whole view, post by post. *)
LEMMA WholePicture ==
  ASSUME TypeOK, NEW c \in Clients, NEW p \in Posts, NEW ca \in Boards,
         NEW ws \in Seq(LocalWrites)
  PROVE  /\ Overlay(ca, TRUE, ws)[p] = Written(ws, p, ca[p])
         /\ ca[p] \in Records /\ Written(ws, p, ca[p]) \in Records
<1>1. ca[p] \in Records BY DEF Boards
<1>2. Written(ws, p, ca[p]) \in Records BY <1>1, WrittenType
<1>3. Written(ws, p, ca[p]) # "unknown" BY <1>2 DEF Records
<1> QED BY <1>1, <1>2, <1>3 DEF Overlay

(* Only events of the screen's session count. *)
LEMMA SilentCallbacks ==
  ASSUME NEW q \in Seq(Callbacks), NEW s, NEW p, NEW n \in Nat,
         \A i \in 1 .. Len(q) : q[i].type \in {"value", "cancelled", "written"}
  PROVE  Leads(q, s, p, n, n)
<1>1. \A i \in 1 .. Len(q) : ~Tells(q[i], s, p) BY DEF Tells
<1> QED BY <1>1, LeadsOthers

-----------------------------------------------------------------------------
(* A post from its creation to its update *)

-----------------------------------------------------------------------------
(* A post whose creation has been answered *)

(* The callback that says so, *)
Reported(p) == [type |-> "written", post |-> p]

(* and a post made, with no creation that waits for an answer or whose     *)
(* answer is held back: no write of it brings it any more.                 *)
Spent(p) ==
  /\ p \in posted
  /\ ~Has(Unacked(Creator[p]), Write("set", p))
  /\ ~In(held[Creator[p]], Created(p))

(* A post is stamped by its creator, and when its creation was answered;   *)
(* it is removed by who was asked to.                                      *)
PostPhase(d, p) ==
  /\ Has(Unacked(d), Write("update", p)) => Creator[p] = d /\ Spent(p)
  /\ Has(Unacked(d), Removal(p)) => asked[d][p] > 0
  /\ Has(mainQ[d], Reported(p)) => Creator[p] = d /\ Spent(p)
  /\ In(held[d], Created(p)) =>
       Creator[p] = d /\ p \in posted /\ ~Has(Unacked(d), Write("set", p))

(* Changes of a picture do not say so, *)
LEMMA ChildrenReport ==
  ASSUME NEW c \in Clients, session[c] \in Sessions, NEW p \in Posts,
         NEW rs, NEW before, NEW after
  PROVE  ~Has(ChildEvents(c, rs, before, after), Reported(p))
<1> DEFINE removed == {q \in Posts : IsPost(before[q]) /\ after[q] = "none"}
           changed == {q \in Posts : /\ before[q] # "none" /\ before[q] # after[q]
                                     /\ IsPost(after[q])}
           Tell(kind, S) == IF <<kind, session[c]>> \in rs
                            THEN [i \in 1 .. Cardinality(S) |->
                                    Event(kind, c, SetToSeq(S)[i])]
                            ELSE <<>>
<1>1. ASSUME NEW kind \in {"changed", "removed"}, NEW S \in SUBSET Posts
      PROVE  Tell(kind, S) \in Seq(Callbacks) /\ ~Has(Tell(kind, S), Reported(p))
  <2>1. CASE <<kind, session[c]>> \notin rs BY <2>1, HasInNone
  <2>2. CASE <<kind, session[c]>> \in rs
    <3> DEFINE t == [i \in 1 .. Cardinality(S) |-> Event(kind, c, SetToSeq(S)[i])]
    <3>1. IsFiniteSet(S) BY PostsAssumption, FS_Subset
    <3>2. Cardinality(S) \in Nat BY <3>1, FS_CardinalityType
    <3>3. t \in Seq(Callbacks) BY TellType
    <3>4. \A i \in 1 .. Len(t) : t[i].type = kind BY <3>2 DEF Event
    <3>5. ~Has(t, Reported(p))
      <4> HIDE DEF t
      <4> QED BY <3>4 DEF Has, Reported
    <3>6. Tell(kind, S) = t BY <2>2
    <3> HIDE DEF t, Tell
    <3> QED BY <3>3, <3>5, <3>6
  <2> QED BY <2>1, <2>2
<1>2. removed \in SUBSET Posts /\ changed \in SUBSET Posts OBVIOUS
<1>3. ChildEvents(c, rs, before, after) = Tell("removed", removed) \o Tell("changed", changed)
  BY DEF ChildEvents
<1> HIDE DEF Tell, removed, changed
<1>4. PICK a \in Seq(Callbacks) : a = Tell("removed", removed) /\ ~Has(a, Reported(p))
  BY <1>1, <1>2
<1>5. PICK b \in Seq(Callbacks) : b = Tell("changed", changed) /\ ~Has(b, Reported(p))
  BY <1>1, <1>2
<1>6. ~Has(a \o b, Reported(p)) BY <1>4, <1>5, HasInConcat
<1> QED BY <1>3, <1>4, <1>5, <1>6

(* nor do first values and cancellations; *)
LEMMA ValuesReport ==
  ASSUME NEW c \in Clients, NEW p \in Posts
  PROVE  /\ \A which \in SUBSET Regs : IsFiniteSet(which) =>
              \A picture : ~Has(ValueEvents(c, which, picture), Reported(p))
         /\ regs[c] \in SUBSET Regs /\ IsFiniteSet(regs[c]) =>
              ~Has(Cancelled(c), Reported(p))
<1>1. ASSUME NEW which \in SUBSET Regs, NEW picture, IsFiniteSet(which)
      PROVE  ~Has(ValueEvents(c, which, picture), Reported(p))
  <2> DEFINE q == ValueEvents(c, which, picture)
  <2>1. Cardinality(which) \in Nat BY <1>1, SetToSeqType
  <2>2. \A i \in 1 .. Len(q) : q[i].type = "value" BY <2>1 DEF ValueEvents
  <2> HIDE DEF q
  <2>3. ~Has(q, Reported(p)) BY <2>2 DEF Has, Reported
  <2> QED BY <2>3 DEF q
<1>2. ASSUME regs[c] \in SUBSET Regs, IsFiniteSet(regs[c])
      PROVE  ~Has(Cancelled(c), Reported(p))
  <2> DEFINE q == Cancelled(c)
  <2>1. Cardinality(ValueRegs(c)) \in Nat
    BY <1>2, FS_Subset, FS_CardinalityType, ValueRegs(c) \subseteq regs[c] DEF ValueRegs
  <2>2. \A i \in 1 .. Len(q) : q[i].type = "cancelled" BY <2>1 DEF Cancelled
  <2> HIDE DEF q
  <2>3. ~Has(q, Reported(p)) BY <2>2 DEF Has, Reported
  <2> QED BY <2>3 DEF q
<1> QED BY <1>1, <1>2

(* only the answer to the creation does, *)
LEMMA SettledReports ==
  ASSUME NEW c \in Clients, session[c] \in Sessions, NEW p \in Posts,
         NEW rs, NEW ca, NEW whole, NEW ws, NEW left, NEW ack \in Acks,
         Has(SettleEvents(c, rs, ca, whole, ws, left, ack), Reported(p))
  PROVE  ack \in Created(p)
<1> DEFINE x == Overlay(ca, whole, ws)
           y == Overlay(ca, whole, left)
           told == IF ack.ok /\ ack.write.type = "set"
                   THEN <<[type |-> "written", post |-> ack.write.post]>>
                   ELSE <<>>
<1>1. PICK a \in Seq(Callbacks) :
        a = ChildEvents(c, rs, x, y) /\ ~Has(a, Reported(p))
  <2> HIDE DEF x, y
  <2> QED BY ChildEventsType, ChildrenReport
<1>2. [type |-> "written", post |-> ack.write.post] \in Callbacks
  BY DEF Acks, LocalWrites, Callbacks
<1>3. PICK b \in Seq(Callbacks) : b = told
  <2>1. told \in Seq(Callbacks) BY <1>2
  <2> QED BY <2>1
<1>4. SettleEvents(c, rs, ca, whole, ws, left, ack) = a \o b
  BY <1>1, <1>3 DEF SettleEvents
<1>5. Has(a \o b, Reported(p)) => Has(b, Reported(p)) BY <1>1, HasInConcat
<1>6. Has(told, Reported(p)) BY <1>3, <1>4, <1>5
<1>7. ack.write.type = "set" /\ ack.write.post = p
  <2>1. CASE ack.ok /\ ack.write.type = "set"
    <3>1. Has(<<[type |-> "written", post |-> ack.write.post]>>, Reported(p))
      BY <1>6, <2>1
    <3>2. [type |-> "written", post |-> ack.write.post] = Reported(p)
      BY <3>1, HasInOne
    <3> QED BY <2>1, <3>2 DEF Reported
  <2>2. CASE ~(ack.ok /\ ack.write.type = "set") BY <1>6, <2>2, HasInNone
  <2> QED BY <2>1, <2>2
<1> QED BY <1>7, AcksAreResponses DEF Created, Acks, LocalWrites, Write

(* be it held back. *)
LEMMA ReleaseReports ==
  ASSUME NEW c \in Clients, session[c] \in Sessions, held[c] \in Seq(Acks),
         NEW p \in Posts, NEW rs, NEW ca, NEW whole,
         Has(AckPutsEvents(c, rs, ca, whole), Reported(p))
  PROVE  In(held[c], Created(p))
<1> DEFINE N == Len(held[c])
           told(n) == SettleEvents(c, rs, ca, whole, AckPuts(c, n - 1),
                                   AckPuts(c, n), held[c][n])
<1>1. PICK f \in [0 .. N -> Seq(Callbacks)] :
        /\ IsTelling(f, c, rs, ca, whole)
        /\ AckPutsEvents(c, rs, ca, whole) = f[N]
  BY AckPutsEventsDef
<1>2. N \in Nat /\ \A n \in 1 .. N : held[c][n] \in Acks OBVIOUS
<1>3. f[0] = <<>> /\ \A n \in 1 .. N : f[n] = f[n - 1] \o told(n) BY <1>1 DEF IsTelling
<1>4. \A n \in 1 .. N : /\ told(n) \in Seq(Callbacks)
                        /\ Has(told(n), Reported(p)) => held[c][n] \in Created(p)
  BY <1>2, SettleEventsType, SettledReports
<1>5. SUFFICES ASSUME ~In(held[c], Created(p)) PROVE FALSE OBVIOUS
<1>6. \A n \in 1 .. N : held[c][n] \notin Created(p) BY <1>5 DEF In
<1> HIDE DEF told, N
<1> DEFINE S == {n \in 0 .. N : ~Has(f[n], Reported(p))}
<1>7. 0 \in S BY <1>2, <1>3, HasInNone
<1>8. ASSUME NEW n \in 1 .. N, n - 1 \in S PROVE n \in S
  <2>1. n \in 0 .. N /\ n - 1 \in 0 .. N BY <1>2
  <2>2. PICK q \in Seq(Callbacks) : q = f[n - 1] BY <2>1
  <2>3. PICK r \in Seq(Callbacks) : r = told(n) BY <1>4
  <2>4. ~Has(q, Reported(p)) /\ ~Has(r, Reported(p)) BY <1>4, <1>6, <1>8, <2>2, <2>3
  <2>5. ~Has(q \o r, Reported(p)) BY <2>4, HasInConcat
  <2>6. f[n] = q \o r BY <1>3, <2>2, <2>3
  <2> QED BY <2>1, <2>5, <2>6
<1>9. 0 .. N \subseteq S
  <2> HIDE DEF S
  <2> QED BY <1>2, <1>7, <1>8, InductionUpTo
<1>10. N \in 0 .. N BY <1>2
<1> QED BY <1>1, <1>9, <1>10

-----------------------------------------------------------------------------
(* Writes without a response *)

(* What has been performed of a client's writes is the oldest of what has  *)
(* no response.                                                            *)
LEMMA UnservedUnacked ==
  ASSUME SyncInv, NEW c \in Clients
  PROVE  \A e : Has(Unserved(c), e) => Has(Unacked(c), e)
<1>0. TypeOK /\ EveryWriteTracked BY SoundTracked DEF SyncInv, TypeInv
<1>1. PICK U \in Seq(LocalWrites) : U = Unanswered(c) BY <1>0, WriteQueues
<1>2. PICK R \in Seq(LocalWrites) : R = Requested(repoQ[c]) BY <1>0, WriteQueues
<1>3. PICK Q \in Seq(LocalWrites) : Q = Requested(Outbox(c)) BY <1>0, WriteQueues
<1>4. \A e : Has(Q, e) => Has(U, e)
  <2>1. CASE connected[c]
    <3>1. PICK D \in Seq(LocalWrites) : D = Answered(down[c]) BY <1>0, QueueTypes
    <3>2. U = D \o Q BY <1>0, <1>1, <1>3, <2>1, <3>1, HeldAreOldest DEF Outbox
    <3>3. \A e : Has(D \o Q, e) <=> Has(D, e) \/ Has(Q, e) BY HasInConcat
    <3> QED BY <3>2, <3>3
  <2>2. CASE ~connected[c]
    <3>1. Q = Requested(U) BY <1>1, <1>3, <2>2 DEF Outbox
    <3>2. Q = U BY <3>1, RequestedWrites
    <3> QED BY <3>2
  <2> QED BY <2>1, <2>2
<1>5. \A e : Has(U \o R, e) <=> Has(U, e) \/ Has(R, e) BY HasInConcat
<1>6. \A e : Has(Q \o R, e) <=> Has(Q, e) \/ Has(R, e) BY HasInConcat
<1>7. Unacked(c) = U \o R /\ Unserved(c) = Q \o R
  BY <1>1, <1>2, <1>3 DEF Unacked, Unserved
<1> QED BY <1>4, <1>5, <1>6, <1>7

(* The responses on their way answer writes. *)
LEMMA AnsweredHasAll ==
  \A q \in Seq(Responses) : \A i \in 1 .. Len(q) : q[i].type = "ack" =>
    Has(Answered(q), q[i].write)
<1> DEFINE S == {q \in Seq(Responses) : \A i \in 1 .. Len(q) : q[i].type = "ack" =>
                   Has(Answered(q), q[i].write)}
<1>1. <<>> \in S OBVIOUS
<1>2. ASSUME NEW q \in Seq(Responses), NEW m \in Responses, q \in S
      PROVE  Append(q, m) \in S
  <2> DEFINE t == Append(q, m)
  <2>1. /\ t \in Seq(Responses) /\ Len(q) \in Nat /\ Len(t) = Len(q) + 1
        /\ \A i \in 1 .. Len(q) : t[i] = q[i]
        /\ t[Len(q) + 1] = m
    BY AppendPlaces
  <2>2. PICK D \in Seq(LocalWrites) : D = Answered(q) BY AnsweredType
  <2>3. PICK v \in Seq(LocalWrites) : v = AnswerOf(m) BY AnswerOfType
  <2>4. Answered(t) = D \o v BY <2>2, <2>3, AnsweredAppend
  <2> HIDE DEF t
  <2>5. \A e : Has(D \o v, e) <=> Has(D, e) \/ Has(v, e) BY HasInConcat
  <2> SUFFICES ASSUME NEW i \in 1 .. Len(t), t[i].type = "ack"
               PROVE  Has(D \o v, t[i].write)
    BY <2>1, <2>4 DEF t
  <2>6. CASE i \in 1 .. Len(q) BY <1>2, <2>1, <2>2, <2>5, <2>6
  <2>7. CASE i = Len(q) + 1
    <3>1. t[i] = m /\ v = <<m.write>> BY <2>1, <2>3, <2>7 DEF AnswerOf
    <3>2. Has(v, m.write) BY <3>1, HasInOne
    <3> QED BY <2>5, <3>1, <3>2
  <2> QED BY <2>1, <2>6, <2>7
<1>3. Seq(Responses) \subseteq S
  <2> HIDE DEF S
  <2> QED BY <1>1, <1>2, InductionOnSeq
<1> QED BY <1>3

(* The writes answered on the way, and those in the tree without a         *)
(* response, have none yet.                                                *)
LEMMA UnansweredUnacked ==
  ASSUME SyncInv, NEW c \in Clients
  PROVE  /\ \A e : Has(Unanswered(c), e) => Has(Unacked(c), e)
         /\ \A i \in 1 .. Len(down[c]) : down[c][i].type = "ack" =>
              Has(Unacked(c), down[c][i].write)
<1>0. TypeOK /\ EveryWriteTracked /\ Sound(c)
  BY SoundTracked DEF SyncInv, TypeInv
<1>1. PICK U \in Seq(LocalWrites) : U = Unanswered(c) BY <1>0, WriteQueues
<1>2. PICK R \in Seq(LocalWrites) : R = Requested(repoQ[c]) BY <1>0, WriteQueues
<1>3. \A e : Has(U \o R, e) <=> Has(U, e) \/ Has(R, e) BY HasInConcat
<1>4. \A e : Has(U, e) => Has(Unacked(c), e) BY <1>1, <1>2, <1>3 DEF Unacked
<1>5. ASSUME NEW i \in 1 .. Len(down[c]), down[c][i].type = "ack"
      PROVE  Has(Unacked(c), down[c][i].write)
  <2>1. PICK q \in Seq(Responses) : q = down[c] BY <1>0, QueueTypes
  <2>2. connected[c]
    <3>1. down[c] # <<>> BY <1>5
    <3> QED BY <1>0, <3>1 DEF Sound, Wire, TypeOK
  <2>3. PICK D \in Seq(LocalWrites) : D = Answered(q) BY <2>1, AnsweredType
  <2>4. PICK Q \in Seq(LocalWrites) : Q = Requested(up[c]) BY <1>0, QueueTypes
  <2>5. U = D \o Q BY <1>0, <1>1, <2>1, <2>2, <2>3, <2>4, HeldAreOldest
  <2>6. \A e : Has(D \o Q, e) <=> Has(D, e) \/ Has(Q, e) BY HasInConcat
  <2>7. Has(D, q[i].write) BY <1>5, <2>1, <2>3, AnsweredHasAll
  <2> QED BY <1>4, <2>1, <2>5, <2>6, <2>7
<1> QED BY <1>1, <1>4, <1>5

(* A write without a response is an old one, or one just made. *)
LEMMA UnackedNew ==
  ASSUME SyncInv, [Next]_vars, NEW d \in Clients, NEW w,
         Has(Unacked(d)', w), ~Has(Unacked(d), w)
  PROVE  \E p \in Posts :
           \/ CreatePost(d, p) /\ w = Write("set", p)
           \/ Has(mainQ[d], Reported(p)) /\ w = Write("update", p)
           \/ RemovePost(d, p) /\ w = Removal(p)
<1>0. TypeOK /\ EveryWriteTracked BY SoundTracked DEF SyncInv, TypeInv
<1>1. PICK q \in Seq(LocalWrites) : q = Unacked(d) BY <1>0, WriteQueues
<1>2. PICK r : r = Unacked(d)' OBVIOUS
<1>3. Has(r, w) /\ ~Has(q, w) BY <1>1, <1>2
<1>4. ASSUME NEW x \in LocalWrites, Issued(d, x) PROVE w = x
  <2>1. r = Append(q, x) BY <1>1, <1>2, <1>4 DEF Issued
  <2>2. Has(Append(q, x), w) <=> Has(q, w) \/ x = w BY HasInAppend
  <2> QED BY <1>3, <2>1, <2>2
<1>5. \A p \in Posts, op \in WriteOps : Write(op, p) \in LocalWrites
  BY DEF Write, LocalWrites
<1>6. ~Still(d) /\ ~Served(d) /\ ~Resent(d)
  BY <1>1, <1>2, <1>3 DEF Still, Served, Resent
<1>7. ~Acked(d)
  <2> SUFFICES ASSUME Acked(d) PROVE FALSE OBVIOUS
  <2>1. q # <<>> /\ r = Tail(q) BY <1>1, <1>2 DEF Acked
  <2> QED BY <1>3, <2>1, HasInHead
<1>8. r # <<>> BY <1>3, HasInNone
<1>9. Moves(d) BY WritesMove
<1> QED BY <1>2, <1>4, <1>5, <1>6, <1>7, <1>8, <1>9 DEF Moves, WriteOps, Reported, Removal

(* The answer to the creation, when it comes, is to the oldest write.      *)
LEMMA AckTakesOldest ==
  ASSUME SyncInv, NEW d \in Clients, ReceiveAck(d)
  PROVE  /\ Acked(d) /\ Head(Unacked(d)) = Head(down[d]).write
         /\ Has(Unacked(d), Head(down[d]).write)
<1>0. TypeInv /\ TypeOK /\ EveryWriteTracked /\ Sound(d)
  BY SoundTracked DEF SyncInv, TypeInv
<1>1. down[d] # <<>> BY DEF ReceiveAck, Message
<1>2. connected[d] BY <1>0, <1>1 DEF Sound, Wire, TypeOK
<1>3. Acked(d) /\ Head(Unacked(d)) = Head(down[d]).write
  BY <1>0, <1>2, ReceiveWrites DEF Receive
<1>4. PICK q \in Seq(LocalWrites) : q = Unacked(d) BY <1>0, WriteQueues
<1>5. q # <<>> BY <1>3, <1>4 DEF Acked
<1>6. Has(q, Head(q)) BY <1>5, HasInHead
<1> QED BY <1>3, <1>4, <1>6

(* Answers held back are old ones, or just come; *)
LEMMA HeldGrows ==
  ASSUME TypeOK, [Next]_vars, NEW d \in Clients, NEW p \in Posts,
         In(held'[d], Created(p)), ~In(held[d], Created(p))
  PROVE  ReceiveAck(d) /\ Head(down[d]) \in Created(p)
<1>1. held'[d] # held[d] BY DEF In
<1>2. held'[d] # <<>> BY InNone
<1>3. Receive(d)
  <2> SUFFICES ASSUME ~Receive(d) PROVE FALSE OBVIOUS
  <2>1. \A c \in Clients : ~ServeWrite(c) BY <1>1 DEF ServeWrite, sdkVars
  <2>2. ~\A e \in Clients : Quiet(e) BY <1>1 DEF Quiet
  <2>3. PICK c \in Clients :
          /\ Receive(c) \/ ServeListen(c) \/ RevokeListen(c) \/ Disconnect(c) \/ Crash(c)
          /\ \A e \in Clients \ {c} : Quiet(e)
    BY <2>1, <2>2, OthersAreQuiet
  <2>4. c = d BY <1>1, <2>3 DEF Quiet
  <2>5. ServeListen(d) \/ RevokeListen(d) \/ Disconnect(d) \/ Crash(d) BY <2>3, <2>4
  <2>6. ~Crash(d)
    <3> SUFFICES ASSUME Crash(d) PROVE FALSE OBVIOUS
    <3>1. held' = [held EXCEPT ![d] = <<>>] BY DEF Crash
    <3> QED BY <1>2, <3>1 DEF TypeOK
  <2> QED BY <1>1, <2>5, <2>6 DEF ServeListen, RevokeListen, Disconnect, sdkVars
<1>4. ~(ReceivePush(d) \/ ReceiveRevocation(d))
  BY <1>1 DEF ReceivePush, ReceiveRevocation
<1>5. ~ReceiveSnapshot(d)
  <2> SUFFICES ASSUME ReceiveSnapshot(d) PROVE FALSE OBVIOUS
  <2>1. held'[d] = held[d] \/ held'[d] = <<>>
    BY DEF ReceiveSnapshot, TypeOK
  <2> QED BY <1>1, <1>2, <2>1
<1>6. ~ReceiveRefusal(d)
  <2> SUFFICES ASSUME ReceiveRefusal(d) PROVE FALSE OBVIOUS
  <2>1. held'[d] = held[d] \/ held'[d] = <<>>
    BY DEF ReceiveRefusal, TypeOK, sdkVars
  <2> QED BY <1>1, <1>2, <2>1
<1>7. ReceiveAck(d) BY <1>3, <1>4, <1>5, <1>6 DEF Receive
<1>8. Head(down[d]) \in Created(p)
  <2>1. held'[d] = Append(held[d], Head(down[d]))
    BY <1>1, <1>7 DEF ReceiveAck, TypeOK
  <2>2. held[d] \in Seq(Responses)
    <3>1. held[d] \in Seq(Acks) BY DEF TypeOK
    <3> QED BY <3>1, AcksAreResponses, SeqWider
  <2>3. Head(down[d]) \in Responses
    <3>1. down[d] # <<>> BY <1>7 DEF ReceiveAck, Message
    <3> QED BY <3>1, HeadsOfQueues
  <2>4. \A S : In(Append(held[d], Head(down[d])), S) <=> In(held[d], S) \/ Head(down[d]) \in S
    BY <2>2, <2>3, InAppend
  <2> QED BY <2>1, <2>4
<1> QED BY <1>7, <1>8

(* Callbacks in three queues. *)
LEMMA CallbacksAssociate ==
  \A q, r, t \in Seq(Callbacks) :
    r \o t \in Seq(Callbacks) /\ (q \o r) \o t = q \o (r \o t)
<1> TAKE q, r, t \in Seq(Callbacks)
<1> QED BY ConcatThree

(* and a callback that says of a creation that it was answered is old, or  *)
(* that answer has just come or just been released.                        *)
LEMMA ReportsArise ==
  ASSUME SyncInv, [Next]_vars, NEW d \in Clients, NEW p \in Posts,
         Has(mainQ'[d], Reported(p)), ~Has(mainQ[d], Reported(p))
  PROVE  \/ ReceiveAck(d) /\ Head(down[d]) \in Created(p) /\ held'[d] = held[d]
         \/ In(held[d], Created(p)) /\ held'[d] = <<>>
<1>0. TypeInv /\ TypeOK /\ EveryWriteTracked BY SoundTracked DEF SyncInv, TypeInv
<1>1. mainQ[d] \in Seq(Callbacks) /\ held[d] \in Seq(Acks) /\ session[d] \in Sessions
  BY <1>0 DEF TypeOK
<1>2. mainQ'[d] # mainQ[d] BY DEF Has
<1>3. ~UNCHANGED vars BY <1>2 DEF vars
<1>4. ActionOf(d)
  <2>1. PICK c \in Clients : ActionOf(c) BY <1>3, SomebodyActs
  <2>2. CASE c = d BY <2>1, <2>2
  <2>3. CASE c # d BY <1>0, <1>2, <2>1, <2>3, OthersKeep DEF ActionOf
  <2> QED BY <2>2, <2>3
<1>5. ASSUME NEW v \in Seq(Callbacks), mainQ'[d] = mainQ[d] \o v
      PROVE  Has(v, Reported(p))
  <2>1. \A e : Has(mainQ[d] \o v, e) <=> Has(mainQ[d], e) \/ Has(v, e)
    BY <1>1, HasInConcat
  <2> QED BY <1>5, <2>1
<1>6. ~User(d)
  BY <1>2 DEF User, OpenTimeline, Logout, CreatePost, RemovePost
<1>7. ~MainThread(d)
  <2> SUFFICES ASSUME MainThread(d) PROVE FALSE OBVIOUS
  <2>1. mainQ[d] # <<>> /\ mainQ'[d] = Tail(mainQ[d])
    BY <1>0 DEF MainThread, PostsRetrieved, RetrievalFailed, PostAdded, PostRemoved,
                FeedEvent, PostWritten, Callback, TypeOK
  <2> QED BY <1>1, <2>1, HasInHead
<1>8. ~RepoBlock(d)
  <2>1. ~AddObserver(d)
    <3> SUFFICES ASSUME AddObserver(d) PROVE FALSE OBVIOUS
    <3> DEFINE reg == Head(repoQ[d]).reg
    <3>1. {reg} \in SUBSET Regs /\ IsFiniteSet({reg})
      <4>1. Head(repoQ[d]) \in Blocks /\ Head(repoQ[d]).type = "observe"
        BY <1>0, HeadsOfQueues DEF AddObserver, Block
      <4>2. reg \in Regs BY <4>1 DEF Blocks, LocalWrites, WriteOps
      <4> QED BY <4>2, FS_Singleton
    <3>2. mainQ'[d] = IF reg[1] = "value" /\ complete[d]
                      THEN mainQ[d] \o ValueEvents(d, {reg}, Picture(d)) ELSE mainQ[d]
      BY <1>0 DEF AddObserver, TypeOK
    <3>3. ValueEvents(d, {reg}, Picture(d)) \in Seq(Callbacks) BY <3>1, ValueEventsType
    <3>4. ~Has(ValueEvents(d, {reg}, Picture(d)), Reported(p)) BY <3>1, ValuesReport
    <3> HIDE DEF reg
    <3> QED BY <1>2, <1>5, <3>2, <3>3, <3>4
  <2>2. ~RemoveObserver(d) BY <1>2 DEF RemoveObserver
  <2>3. ~LocalWrite(d)
    <3> SUFFICES ASSUME LocalWrite(d) PROVE FALSE OBVIOUS
    <3> DEFINE y == Overlay(cache[d], complete[d], Append(writes[d], Head(repoQ[d])))
               v == ChildEvents(d, regs[d], Picture(d), y)
    <3>1. mainQ'[d] = mainQ[d] \o v BY <1>0 DEF LocalWrite, TypeOK
    <3> HIDE DEF y
    <3>2. v \in Seq(Callbacks) /\ ~Has(v, Reported(p))
      BY <1>1, ChildEventsType, ChildrenReport
    <3> HIDE DEF v
    <3> QED BY <1>5, <3>1, <3>2
  <2> QED BY <2>1, <2>2, <2>3 DEF RepoBlock
<1>9. ~(Serve(d) \/ RevokeListen(d) \/ Disconnect(d) \/ Reconnect(d))
  BY <1>2 DEF Serve, ServeListen, ServeUnlisten, ServeWrite, RevokeListen, Disconnect,
              Reconnect, Reconnected
<1>10. ~Crash(d)
  <2> SUFFICES ASSUME Crash(d) PROVE FALSE OBVIOUS
  <2>1. mainQ' = [mainQ EXCEPT ![d] = <<>>] BY DEF Crash
  <2>2. mainQ'[d] = <<>> BY <1>0, <2>1 DEF TypeOK
  <2> QED BY <2>2, HasInNone
<1>11. Receive(d) BY <1>4, <1>6, <1>7, <1>8, <1>9, <1>10 DEF ActionOf
<1>12. regs[d] \in SUBSET Regs /\ IsFiniteSet(regs[d]) BY <1>0 DEF TypeInv, TypeOK
<1>13. /\ Cancelled(d) \in Seq(Callbacks) /\ ~Has(Cancelled(d), Reported(p))
       /\ \A rs, ca, whole : /\ AckPutsEvents(d, rs, ca, whole) \in Seq(Callbacks)
                             /\ Has(AckPutsEvents(d, rs, ca, whole), Reported(p)) =>
                                  In(held[d], Created(p))
  BY <1>0, <1>1, <1>12, ReleaseTypes, ValuesReport, ReleaseReports
<1>14. CASE ReceivePush(d)
  <2> DEFINE y == Overlay(Patch(d, Head(down[d]).write), complete[d], writes[d])
             v == ChildEvents(d, regs[d], Picture(d), y)
  <2>1. cache'[d] = Patch(d, Head(down[d]).write) BY <1>0, <1>14 DEF ReceivePush, TypeOK
  <2>2. mainQ'[d] = mainQ[d] \o v BY <1>0, <1>14, <2>1 DEF ReceivePush, TypeOK
  <2> HIDE DEF y
  <2>3. v \in Seq(Callbacks) /\ ~Has(v, Reported(p))
    BY <1>1, ChildEventsType, ChildrenReport
  <2> HIDE DEF v
  <2> QED BY <1>5, <2>2, <2>3
<1>15. CASE ReceiveRevocation(d)
  <2>1. mainQ'[d] = mainQ[d] \o Cancelled(d) BY <1>0, <1>15 DEF ReceiveRevocation, TypeOK
  <2> QED BY <1>5, <1>13, <2>1
<1>16. CASE ReceiveRefusal(d)
  <2>1. CASE ListenPending(up[d], Tail(down[d]))
    BY <1>2, <1>16, <2>1 DEF ReceiveRefusal
  <2>2. CASE ~ListenPending(up[d], Tail(down[d]))
    <3> DEFINE a == AckPutsEvents(d, {}, Nothing, FALSE)
               v == Cancelled(d) \o a
    <3>1. mainQ'[d] = (mainQ[d] \o Cancelled(d)) \o a /\ held'[d] = <<>>
      BY <1>0, <1>16, <2>2, ZenonT(60) DEF ReceiveRefusal, TypeOK
    <3>2. PICK x \in Seq(Callbacks) : x = a /\ (Has(x, Reported(p)) => In(held[d], Created(p)))
      BY <1>13
    <3>3. PICK y \in Seq(Callbacks) : y = Cancelled(d) /\ ~Has(y, Reported(p)) BY <1>13
    <3> HIDE DEF a
    <3>4. /\ y \o x \in Seq(Callbacks) /\ (mainQ[d] \o y) \o x = mainQ[d] \o (y \o x)
      BY <1>1, CallbacksAssociate, Zenon
    <3>5. Has(y \o x, Reported(p)) BY <1>5, <3>1, <3>2, <3>3, <3>4
    <3>6. Has(x, Reported(p)) BY <3>3, <3>5, HasInConcat
    <3> QED BY <3>1, <3>2, <3>6
  <2> QED BY <2>1, <2>2
<1>17. CASE ReceiveAck(d)
  <2> DEFINE ack == Head(down[d])
             v == SettleEvents(d, regs[d], cache[d], complete[d], writes[d], Left(d, ack), ack)
  <2>1. CASE ListenPending(up[d], down[d])
    BY <1>2, <1>17, <2>1 DEF ReceiveAck
  <2>2. CASE ~ListenPending(up[d], down[d])
    <3>1. mainQ'[d] = mainQ[d] \o v /\ held'[d] = held[d]
      BY <1>0, <1>17, <2>2 DEF ReceiveAck, TypeOK
    <3>2. ack \in Acks
      <4>1. Message(d, "ack") BY <1>17 DEF ReceiveAck
      <4>2. ack \in Responses /\ ack.type = "ack" BY <1>0, <4>1, HeadsOfQueues DEF Message
      <4> QED BY <4>2 DEF Responses, Acks
    <3> HIDE DEF ack
    <3>3. v \in Seq(Callbacks) /\ (Has(v, Reported(p)) => ack \in Created(p))
      BY <1>1, <3>2, SettleEventsType, SettledReports
    <3> HIDE DEF v
    <3> QED BY <1>5, <1>17, <3>1, <3>3 DEF ack
  <2> QED BY <2>1, <2>2
<1>18. CASE ReceiveSnapshot(d)
  <2> DEFINE board == Head(down[d]).board
             ca == IF regs[d] # {} THEN board ELSE cache[d]
             whole == regs[d] # {} \/ complete[d]
             shown == Overlay(ca, whole, writes[d])
             values == IF complete[d] THEN <<>> ELSE ValueEvents(d, ValueRegs(d), shown)
             wait == ListenPending(up[d], Tail(down[d]))
             told == ChildEvents(d, regs[d], Picture(d), shown)
             acks == IF wait THEN <<>> ELSE AckPutsEvents(d, regs[d], ca, whole)
  <2>1. /\ mainQ'[d] = ((mainQ[d] \o told) \o values) \o acks
        /\ held'[d] = IF wait THEN held[d] ELSE <<>>
    BY <1>0, <1>18 DEF ReceiveSnapshot, TypeOK
  <2> HIDE DEF ca, whole, shown, wait
  <2>2. told \in Seq(Callbacks) /\ ~Has(told, Reported(p))
    BY <1>1, ChildEventsType, ChildrenReport
  <2>3. values \in Seq(Callbacks) /\ ~Has(values, Reported(p))
    <3>1. ValueRegs(d) \subseteq regs[d] BY DEF ValueRegs
    <3>2. ValueRegs(d) \in SUBSET Regs /\ IsFiniteSet(ValueRegs(d))
      BY <1>12, <3>1, FS_Subset
    <3> QED BY <3>2, ValueEventsType, ValuesReport, HasInNone
  <2>4. /\ acks \in Seq(Callbacks)
        /\ Has(acks, Reported(p)) => ~wait /\ In(held[d], Created(p))
    BY <1>13, HasInNone
  <2> HIDE DEF told, values, acks
  <2>5. PICK x \in Seq(Callbacks) : x = told BY <2>2
  <2>6. PICK y \in Seq(Callbacks) : y = values BY <2>3
  <2>7. PICK z \in Seq(Callbacks) : z = acks BY <2>4
  <2>8. x \o y \in Seq(Callbacks) /\ (mainQ[d] \o x) \o y = mainQ[d] \o (x \o y)
    <3>1. mainQ[d] \in Seq(Callbacks) BY <1>1
    <3>2. x \in Seq(Callbacks) /\ y \in Seq(Callbacks) BY <2>5, <2>6
    <3> QED BY <3>1, <3>2, CallbacksAssociate, ZenonT(60)
  <2>9. PICK v \in Seq(Callbacks) : v = x \o y BY <2>8
  <2>10. v \o z \in Seq(Callbacks) /\ (mainQ[d] \o v) \o z = mainQ[d] \o (v \o z)
    <3>1. mainQ[d] \in Seq(Callbacks) BY <1>1
    <3> QED BY <3>1, CallbacksAssociate, ZenonT(60)
  <2>11. Has(v \o z, Reported(p))
    BY <1>5, <2>1, <2>5, <2>6, <2>7, <2>8, <2>9, <2>10
  <2>12. Has(v, Reported(p)) \/ Has(z, Reported(p)) BY <2>11, HasInConcat
  <2>13. ~Has(x \o y, Reported(p)) BY <2>2, <2>3, <2>5, <2>6, HasInConcat
  <2> QED BY <2>1, <2>4, <2>7, <2>9, <2>12, <2>13
<1> QED BY <1>11, <1>14, <1>15, <1>16, <1>17, <1>18 DEF Receive

-----------------------------------------------------------------------------
(* The update comes after the creation is answered *)

(* A creation once answered stays so; *)
LEMMA SpentStays ==
  ASSUME SyncInv, [Next]_vars, NEW p \in Posts, Spent(p)
  PROVE  Spent(p)'
<1> DEFINE k == Creator[p]
           s == Write("set", p)
<1>0. TypeOK /\ k \in Clients BY CreatorAssumption DEF SyncInv, TypeInv
<1>1. p \in posted /\ ~Has(Unacked(k), s) /\ ~In(held[k], Created(p)) BY DEF Spent
<1>2. p \in posted' BY <1>0, <1>1, HistoryGrows
<1> HIDE DEF k
<1>3. ~Has(Unacked(k)', s)
  <2> SUFFICES ASSUME Has(Unacked(k)', s) PROVE FALSE OBVIOUS
  <2>1. PICK q \in Posts :
           \/ CreatePost(k, q) /\ s = Write("set", q)
           \/ Has(mainQ[k], Reported(q)) /\ s = Write("update", q)
           \/ RemovePost(k, q) /\ s = Removal(q)
    BY <1>0, <1>1, UnackedNew
  <2>2. CreatePost(k, q) /\ q = p BY <2>1 DEF Write, Removal
  <2> QED BY <1>1, <2>2 DEF CreatePost
<1>4. ~In(held'[k], Created(p))
  <2> SUFFICES ASSUME In(held'[k], Created(p)) PROVE FALSE OBVIOUS
  <2>1. ReceiveAck(k) /\ Head(down[k]) \in Created(p) BY <1>0, <1>1, HeldGrows
  <2>2. Has(Unacked(k), Head(down[k]).write) BY <1>0, <2>1, AckTakesOldest
  <2> QED BY <1>1, <2>1, <2>2 DEF Created
<1> QED BY <1>2, <1>3, <1>4 DEF Spent, k

(* it becomes so when the answer comes and is not held back. *)
LEMMA CreationAnswered ==
  ASSUME PostInv, [Next]_vars, NEW d \in Clients, NEW p \in Posts, PostPhase(d, p),
         ReceiveAck(d), Head(down[d]) \in Created(p)
  PROVE  /\ Creator[p] = d /\ p \in posted' /\ ~Has(Unacked(d)', Write("set", p))
         /\ ~In(held[d], Created(p))
<1> DEFINE s == Write("set", p)
<1>0. SyncInv /\ TypeOK /\ EveryWriteTracked
  BY SoundTracked DEF PostInv, SyncInv, TypeInv
<1>1. Head(down[d]).write = s BY DEF Created
<1>2. PICK q \in Seq(LocalWrites) : q = Unacked(d) BY <1>0, WriteQueues
<1>3. q # <<>> /\ Head(q) = s /\ Has(q, s) /\ Unacked(d)' = Tail(q)
  BY <1>0, <1>1, <1>2, AckTakesOldest DEF Acked
<1>4. Orderly(d, q, p) BY <1>2 DEF PostInv
<1>5. In(q, Sets(p)) BY <1>3 DEF In, Has, Sets
<1>6. Creator[p] = d BY <1>4, <1>5 DEF Orderly
<1>7. s \in On(p) BY WriteTypes DEF On
<1>8. ~In(Tail(q), Sets(p)) BY <1>3, <1>4, <1>7, NeverAfterHead DEF Orderly
<1>9. ~Has(Unacked(d)', s) BY <1>3, <1>8 DEF In, Has, Sets
<1>10. p \in posted
  <2> SUFFICES ASSUME p \notin posted PROVE FALSE OBVIOUS
  <2>1. Unheard(d, p) BY DEF PostInv, Hidden
  <2>2. ~In(q, On(p)) BY <1>0, <1>2, <2>1, UnheardWrites
  <2> QED BY <1>3, <1>7, <2>2 DEF In, Has
<1>11. p \in posted' BY <1>0, <1>10, HistoryGrows
<1>12. ~In(held[d], Created(p)) BY <1>2, <1>3 DEF PostPhase
<1> QED BY <1>6, <1>9, <1>11, <1>12

(* So it is kept that a post is stamped after that only. *)
LEMMA PhaseStep ==
  ASSUME PostInv, [Next]_vars, NEW d \in Clients, NEW p \in Posts, PostPhase(d, p)
  PROVE  PostPhase(d, p)'
<1> DEFINE s == Write("set", p)
           u == Write("update", p)
<1>0. SyncInv /\ TypeOK BY DEF PostInv, SyncInv, TypeInv
<1>1. Spent(p) => Spent(p)' BY <1>0, SpentStays
<1>2. Has(Unacked(d)', u) => Creator[p] = d /\ Spent(p)'
  <2> SUFFICES ASSUME Has(Unacked(d)', u) PROVE Creator[p] = d /\ Spent(p)
    BY <1>1
  <2>1. CASE Has(Unacked(d), u) BY <2>1 DEF PostPhase
  <2>2. CASE ~Has(Unacked(d), u)
    <3>1. PICK q \in Posts :
             \/ CreatePost(d, q) /\ u = Write("set", q)
             \/ Has(mainQ[d], Reported(q)) /\ u = Write("update", q)
             \/ RemovePost(d, q) /\ u = Removal(q)
      BY <1>0, <2>2, UnackedNew
    <3>2. Has(mainQ[d], Reported(q)) /\ q = p BY <3>1 DEF Write, Removal
    <3> QED BY <3>2 DEF PostPhase
  <2> QED BY <2>1, <2>2
<1>3. Has(Unacked(d)', Removal(p)) => asked'[d][p] > 0
  <2> SUFFICES ASSUME Has(Unacked(d)', Removal(p)) PROVE asked'[d][p] > 0 OBVIOUS
  <2>1. asked[d][p] \in Nat /\ asked'[d][p] \in Nat /\ asked[d][p] <= asked'[d][p]
    BY <1>0, HistoryGrows
  <2>2. CASE Has(Unacked(d), Removal(p)) BY <2>1, <2>2 DEF PostPhase
  <2>3. CASE ~Has(Unacked(d), Removal(p))
    <3>1. PICK q \in Posts :
             \/ CreatePost(d, q) /\ Removal(p) = Write("set", q)
             \/ Has(mainQ[d], Reported(q)) /\ Removal(p) = Write("update", q)
             \/ RemovePost(d, q) /\ Removal(p) = Removal(q)
      BY <1>0, <2>3, UnackedNew
    <3>2. RemovePost(d, p) BY <3>1 DEF Write, Removal
    <3>3. asked'[d][p] = asked[d][p] + 1
      BY <1>0, <3>2 DEF RemovePost, TypeOK, PostCounts
    <3> QED BY <2>1, <3>3
  <2> QED BY <2>2, <2>3
<1>4. ASSUME In(held[d], Created(p))
      PROVE  Creator[p] = d /\ p \in posted' /\ ~Has(Unacked(d)', s)
  <2>1. Creator[p] = d /\ p \in posted /\ ~Has(Unacked(d), s) BY <1>4 DEF PostPhase
  <2>2. p \in posted' BY <1>0, <2>1, HistoryGrows
  <2>3. ~Has(Unacked(d)', s)
    <3> SUFFICES ASSUME Has(Unacked(d)', s) PROVE FALSE OBVIOUS
    <3>1. PICK q \in Posts :
             \/ CreatePost(d, q) /\ s = Write("set", q)
             \/ Has(mainQ[d], Reported(q)) /\ s = Write("update", q)
             \/ RemovePost(d, q) /\ s = Removal(q)
      BY <1>0, <2>1, UnackedNew
    <3>2. CreatePost(d, q) /\ q = p BY <3>1 DEF Write, Removal
    <3> QED BY <2>1, <3>2 DEF CreatePost
  <2> QED BY <2>1, <2>2, <2>3
<1>5. Has(mainQ'[d], Reported(p)) => Creator[p] = d /\ Spent(p)'
  <2> SUFFICES ASSUME Has(mainQ'[d], Reported(p)) PROVE Creator[p] = d /\ Spent(p)'
    OBVIOUS
  <2>1. CASE Has(mainQ[d], Reported(p)) BY <1>1, <2>1 DEF PostPhase
  <2>2. CASE ReceiveAck(d) /\ Head(down[d]) \in Created(p) /\ held'[d] = held[d]
    <3>1. /\ Creator[p] = d /\ p \in posted' /\ ~Has(Unacked(d)', s)
          /\ ~In(held[d], Created(p))
      BY <2>2, CreationAnswered
    <3> QED BY <2>2, <3>1 DEF Spent
  <2>3. CASE In(held[d], Created(p)) /\ held'[d] = <<>>
    <3>1. ~In(held'[d], Created(p)) BY <2>3, InNone
    <3> QED BY <1>4, <2>3, <3>1 DEF Spent
  <2> QED BY <1>0, <2>1, <2>2, <2>3, ReportsArise
<1>6. In(held'[d], Created(p)) => Creator[p] = d /\ p \in posted' /\ ~Has(Unacked(d)', s)
  <2> SUFFICES ASSUME In(held'[d], Created(p)), ~In(held[d], Created(p))
               PROVE  Creator[p] = d /\ p \in posted' /\ ~Has(Unacked(d)', s)
    BY <1>4
  <2>1. ReceiveAck(d) /\ Head(down[d]) \in Created(p) BY <1>0, HeldGrows
  <2> QED BY <2>1, CreationAnswered
<1> QED
  <2>1. asked'[d][p] = (asked[d][p])' /\ held'[d] = (held[d])' OBVIOUS
  <2> QED BY <1>2, <1>3, <1>5, <1>6 DEF PostPhase

-----------------------------------------------------------------------------
(* The responses on their way *)

-----------------------------------------------------------------------------
(* What is on its way to a client with live updates running *)

Push(w) == [type |-> "push", write |-> w]
Pushes(w) == {Push(w)}
AcksTo(w) == {m \in Responses : m.type = "ack" /\ m.write = w}

(* The answer to a write on p comes right behind the write's own push, or  *)
(* the push has come, and the cache has it: r is its record of p.          *)
Paired(q, p, r) ==
  \A i \in 1 .. Len(q) : q[i].type = "ack" /\ q[i].write.post = p =>
    IF i = 1 THEN Apply(q[i].write.type, r) = r ELSE q[i - 1] = Push(q[i].write)

(* Of the responses q on their way to c, and its record r of p: the        *)
(* creator's own writes come with their answers, the creation comes before *)
(* the update, and the update not before the creation is answered.         *)
Wired(q, r, c, p) ==
  /\ Paired(q, p, r)
  /\ c = Creator[p] =>
       Met(q, Pushes(Write("set", p)), {}, {}, AcksTo(Write("set", p)))
  /\ c = Creator[p] /\ RemovedByCreator(p) =>
       Met(q, Pushes(Removal(p)), {}, {}, AcksTo(Removal(p)))
  /\ NeverAfter(q, Pushes(Write("update", p)), Pushes(Write("set", p)))
  /\ r \notin {"none", "created"} => ~In(q, Pushes(Write("set", p)))
  /\ ~Spent(p) => r \in {"none", "created"} /\ ~In(q, Pushes(Write("update", p)))

(* A post gone for good, and not by its creator's hand: what is promised   *)
(* of its rows is promised no longer.                                      *)
Void(p) == Spent(p) /\ ~IsPost(server[p]) /\ ~RemovedByCreator(p)

(* Pushes and answers are different responses. *)
LEMMA PushesAndAcks ==
  ASSUME NEW w \in LocalWrites
  PROVE  /\ Push(w) \in Responses /\ Push(w).type = "push"
         /\ \A v : Push(w) \in Pushes(v) <=> w = v
         /\ \A v : Push(w) \notin AcksTo(v)
         /\ \A v, m : m \in AcksTo(v) => m.type = "ack" /\ m \notin Pushes(w)
BY DEF Push, Pushes, AcksTo, Responses

(* A write served is pushed, and answered right behind if it is c's own; *)
LEMMA WiredServed ==
  ASSUME NEW c \in Clients, NEW p \in Posts, NEW q \in Seq(Responses),
         NEW r, Wired(q, r, c, p),
         NEW w \in LocalWrites, NEW a \in AcksTo(w), NEW own \in BOOLEAN,
         w = Write("set", p) => ~Spent(p) /\ (c = Creator[p] => own),
         w = Removal(p) /\ c = Creator[p] /\ RemovedByCreator(p) => own,
         w = Write("update", p) => Spent(p)
  PROVE  /\ own => Wired(Append(Append(q, Push(w)), a), r, c, p)
         /\ ~own => Wired(Append(q, Push(w)), r, c, p)
<1> DEFINE s == Write("set", p)
           u == Write("update", p)
           x == Removal(p)
           t == Append(q, Push(w))
           z == Append(t, a)
<1>1. /\ Push(w) \in Responses /\ Push(w).type = "push"
      /\ \A v : Push(w) \in Pushes(v) <=> w = v
      /\ \A v : Push(w) \notin AcksTo(v)
  BY PushesAndAcks
<1>2. /\ a \in Responses /\ a.type = "ack" /\ a.write = w
      /\ \A v : a \in AcksTo(v) <=> w = v
      /\ \A v : a \notin Pushes(v)
  BY DEF AcksTo, Pushes, Push
<1>3. /\ s # u /\ s # x /\ u # x BY DEF Write, Removal
<1>4. /\ t \in Seq(Responses) /\ Len(q) \in Nat /\ Len(t) = Len(q) + 1
      /\ \A i \in 1 .. Len(q) : t[i] = q[i]
      /\ t[Len(q) + 1] = Push(w)
  BY <1>1, AppendPlaces
<1>5. \A S : In(t, S) <=> In(q, S) \/ Push(w) \in S BY <1>1, InAppend
<1>6. ASSUME NEW A, NEW B, NeverAfter(q, A, B), In(q, A) => Push(w) \notin B
      PROVE  NeverAfter(t, A, B)
  BY <1>1, <1>6, NeverAfterAppend
<1>7. ASSUME NEW v, v # w, Met(q, Pushes(v), {}, {}, AcksTo(v))
      PROVE  Met(t, Pushes(v), {}, {}, AcksTo(v))
  BY <1>1, <1>7, MetAppend
<1> HIDE DEF t
<1>8. /\ z \in Seq(Responses) /\ Len(z) = Len(t) + 1
      /\ \A i \in 1 .. Len(t) : z[i] = t[i]
      /\ z[Len(t) + 1] = a
  BY <1>2, <1>4, AppendPlaces
<1>9. \A S : In(z, S) <=> In(t, S) \/ a \in S BY <1>2, <1>4, InAppend
<1>10. ASSUME NEW A, NEW v, NeverAfter(t, A, Pushes(v)) PROVE NeverAfter(z, A, Pushes(v))
  BY <1>2, <1>4, <1>10, NeverAfterAppend
<1>11. ASSUME NEW v, v # w, Met(t, Pushes(v), {}, {}, AcksTo(v))
       PROVE  Met(z, Pushes(v), {}, {}, AcksTo(v))
  BY <1>2, <1>4, <1>11, MetAppend
<1>12. Met(z, Pushes(w), {}, {}, AcksTo(w)) BY <1>2, <1>4, MetAppend
<1> HIDE DEF z
<1>13. Paired(t, p, r)
  <2> SUFFICES ASSUME NEW i \in 1 .. Len(t), t[i].type = "ack", t[i].write.post = p
               PROVE  IF i = 1 THEN Apply(t[i].write.type, r) = r ELSE t[i - 1] = Push(t[i].write)
    BY DEF Paired
  <2>1. i # Len(q) + 1 BY <1>1, <1>4
  <2>2. i \in 1 .. Len(q) /\ t[i] = q[i] /\ (i # 1 => t[i - 1] = q[i - 1])
    BY <1>4, <2>1
  <2>3. Paired(q, p, r) BY DEF Wired
  <2> QED BY <2>2, <2>3 DEF Paired
<1>14. Paired(z, p, r)
  <2> SUFFICES ASSUME NEW i \in 1 .. Len(z), z[i].type = "ack", z[i].write.post = p
               PROVE  IF i = 1 THEN Apply(z[i].write.type, r) = r ELSE z[i - 1] = Push(z[i].write)
    BY DEF Paired
  <2>1. CASE i = Len(t) + 1
    <3>1. i # 1 /\ i - 1 = Len(q) + 1 /\ i - 1 \in 1 .. Len(t) BY <1>4, <2>1
    <3>2. z[i] = a /\ z[i - 1] = Push(w) BY <1>4, <1>8, <2>1, <3>1
    <3> QED BY <1>2, <3>1, <3>2
  <2>2. CASE i # Len(t) + 1
    <3>1. i \in 1 .. Len(t) /\ z[i] = t[i] /\ (i # 1 => z[i - 1] = t[i - 1])
      BY <1>4, <1>8, <2>2
    <3> QED BY <1>13, <3>1 DEF Paired
  <2> QED BY <2>1, <2>2
<1> HIDE DEF s, u, x
<1>15. /\ c = Creator[p] => Met(q, Pushes(s), {}, {}, AcksTo(s))
       /\ c = Creator[p] /\ RemovedByCreator(p) => Met(q, Pushes(x), {}, {}, AcksTo(x))
       /\ NeverAfter(q, Pushes(u), Pushes(s))
       /\ r \notin {"none", "created"} => ~In(q, Pushes(s))
       /\ ~Spent(p) => r \in {"none", "created"} /\ ~In(q, Pushes(u))
  BY DEF Wired, s, u, x
<1>16. /\ w = s => ~Spent(p) /\ (c = Creator[p] => own)
       /\ w = x /\ c = Creator[p] /\ RemovedByCreator(p) => own
       /\ w = u => Spent(p)
  BY DEF s, u, x
<1>17. NeverAfter(t, Pushes(u), Pushes(s)) BY <1>1, <1>6, <1>15, <1>16
<1>18. r \notin {"none", "created"} => ~In(t, Pushes(s)) BY <1>1, <1>5, <1>15, <1>16
<1>19. ~Spent(p) => r \in {"none", "created"} /\ ~In(t, Pushes(u))
  BY <1>1, <1>5, <1>15, <1>16
<1>20. ASSUME ~own PROVE Wired(t, r, c, p)
  <2>1. c = Creator[p] => Met(t, Pushes(s), {}, {}, AcksTo(s))
    BY <1>7, <1>15, <1>16, <1>20
  <2>2. c = Creator[p] /\ RemovedByCreator(p) => Met(t, Pushes(x), {}, {}, AcksTo(x))
    BY <1>7, <1>15, <1>16, <1>20
  <2> QED BY <1>13, <1>17, <1>18, <1>19, <2>1, <2>2 DEF Wired, s, u, x
<1>21. ASSUME NEW v, Met(q, Pushes(v), {}, {}, AcksTo(v))
       PROVE  Met(z, Pushes(v), {}, {}, AcksTo(v))
  BY <1>7, <1>11, <1>12, <1>21
<1>22. Wired(z, r, c, p)
  <2>1. c = Creator[p] => Met(z, Pushes(s), {}, {}, AcksTo(s)) BY <1>15, <1>21
  <2>2. c = Creator[p] /\ RemovedByCreator(p) => Met(z, Pushes(x), {}, {}, AcksTo(x))
    BY <1>15, <1>21
  <2>3. NeverAfter(z, Pushes(u), Pushes(s)) BY <1>10, <1>17
  <2>4. \A v : In(z, Pushes(v)) <=> In(t, Pushes(v)) BY <1>2, <1>9
  <2> QED BY <1>14, <1>18, <1>19, <2>1, <2>2, <2>3, <2>4 DEF Wired, s, u, x
<1> QED BY <1>20, <1>22 DEF t, z

(* a push that has come leaves its write in the cache, *)
LEMMA WiredPushed ==
  ASSUME NEW c \in Clients, NEW p \in Posts, NEW q \in Seq(Responses), q # <<>>,
         NEW r \in Records, Wired(q, r, c, p),
         NEW w \in LocalWrites, Head(q) = Push(w)
  PROVE  Wired(Tail(q), Laid(w, p, r), c, p)
<1> DEFINE s == Write("set", p)
           u == Write("update", p)
           x == Removal(p)
           t == Tail(q)
           y == Laid(w, p, r)
<1>1. /\ t \in Seq(Responses) /\ Len(q) \in Nat /\ Len(q) = Len(t) + 1 /\ Len(t) \in Nat
      /\ \A i \in 1 .. Len(t) : t[i] = q[i + 1]
      /\ q[1] = Head(q)
  BY TailPlaces
<1>2. \A S : In(q, S) <=> Push(w) \in S \/ In(t, S) BY InHead
<1>3. \A A, B : NeverAfter(q, A, B) =>
        NeverAfter(t, A, B) /\ (Push(w) \in A => ~In(t, B))
  BY NeverAfterHead
<1>4. \A A, C : Met(q, A, {}, {}, C) => Met(t, A, {}, {}, C)
  BY MetHead
<1> HIDE DEF t
<1>5. /\ w.type \in WriteOps /\ (w.post = p => w = Write(w.type, p))
      /\ \A v : Push(w) \in Pushes(v) <=> w = v
  <2>1. w.type \in WriteOps /\ (w.post = p => w = Write(w.type, p))
    BY DEF LocalWrites, Write
  <2> QED BY <2>1, PushesAndAcks
<1>6. Paired(t, p, y)
  <2> SUFFICES ASSUME NEW i \in 1 .. Len(t), t[i].type = "ack", t[i].write.post = p
               PROVE  IF i = 1 THEN Apply(t[i].write.type, y) = y ELSE t[i - 1] = Push(t[i].write)
    BY DEF Paired
  <2>1. i + 1 \in 1 .. Len(q) /\ t[i] = q[i + 1] /\ (i + 1) - 1 = i /\ i + 1 # 1 BY <1>1
  <2>2. q[i] = Push(t[i].write)
    <3>1. Paired(q, p, r) BY DEF Wired
    <3> QED BY <2>1, <3>1 DEF Paired
  <2>3. CASE i = 1
    <3>1. Push(w) = Push(t[i].write) BY <1>1, <2>2, <2>3
    <3>2. w = t[i].write BY <3>1 DEF Push
    <3>3. y = Apply(w.type, r) BY <3>2 DEF Laid
    <3>4. Apply(w.type, Apply(w.type, r)) = Apply(w.type, r)
      BY <1>5 DEF Apply, Records, WriteOps
    <3> QED BY <2>3, <3>2, <3>3, <3>4
  <2>4. CASE i # 1
    <3>1. i - 1 \in 1 .. Len(t) /\ (i - 1) + 1 = i BY <1>1, <2>4
    <3>2. t[i - 1] = q[i] BY <1>1, <3>1
    <3> QED BY <2>2, <2>4, <3>2
  <2> QED BY <2>3, <2>4
<1> HIDE DEF s, u, x
<1>7. /\ c = Creator[p] => Met(q, Pushes(s), {}, {}, AcksTo(s))
      /\ c = Creator[p] /\ RemovedByCreator(p) => Met(q, Pushes(x), {}, {}, AcksTo(x))
      /\ NeverAfter(q, Pushes(u), Pushes(s))
      /\ r \notin {"none", "created"} => ~In(q, Pushes(s))
      /\ ~Spent(p) => r \in {"none", "created"} /\ ~In(q, Pushes(u))
  BY DEF Wired, s, u, x
<1>8. y = r \/ w = u \/ y \in {"none", "created"}
  BY <1>5 DEF Laid, Apply, WriteOps, u
<1>9. y \notin {"none", "created"} => ~In(t, Pushes(s))
  BY <1>2, <1>3, <1>5, <1>7, <1>8
<1>10. ~Spent(p) => y \in {"none", "created"} /\ ~In(t, Pushes(u))
  BY <1>2, <1>5, <1>7, <1>8
<1> QED BY <1>3, <1>4, <1>6, <1>7, <1>9, <1>10 DEF Wired, s, u, x, t

(* and an answer that has come leaves nothing. *)
LEMMA WiredAcked ==
  ASSUME NEW c \in Clients, NEW p \in Posts, NEW q \in Seq(Responses), q # <<>>,
         NEW r \in Records, Wired(q, r, c, p), Head(q).type = "ack"
  PROVE  Wired(Tail(q), r, c, p)
<1> DEFINE s == Write("set", p)
           u == Write("update", p)
           x == Removal(p)
           t == Tail(q)
<1>1. /\ t \in Seq(Responses) /\ Len(q) \in Nat /\ Len(q) = Len(t) + 1 /\ Len(t) \in Nat
      /\ \A i \in 1 .. Len(t) : t[i] = q[i + 1]
      /\ q[1] = Head(q)
  BY TailPlaces
<1>2. \A S : In(t, S) => In(q, S) BY InHead
<1>3. \A A, B : NeverAfter(q, A, B) => NeverAfter(t, A, B) BY NeverAfterHead
<1>4. \A A, C : Met(q, A, {}, {}, C) => Met(t, A, {}, {}, C) BY MetHead
<1> HIDE DEF t
<1>5. Paired(t, p, r)
  <2> SUFFICES ASSUME NEW i \in 1 .. Len(t), t[i].type = "ack", t[i].write.post = p
               PROVE  IF i = 1 THEN Apply(t[i].write.type, r) = r ELSE t[i - 1] = Push(t[i].write)
    BY DEF Paired
  <2>1. i + 1 \in 1 .. Len(q) /\ t[i] = q[i + 1] /\ (i + 1) - 1 = i /\ i + 1 # 1 BY <1>1
  <2>2. q[i] = Push(t[i].write)
    <3>1. Paired(q, p, r) BY DEF Wired
    <3> QED BY <2>1, <3>1 DEF Paired
  <2>3. i # 1
    <3>1. q[i].type = "push" BY <2>2 DEF Push
    <3> QED BY <1>1, <3>1
  <2>4. i - 1 \in 1 .. Len(t) /\ (i - 1) + 1 = i BY <1>1, <2>3
  <2>5. t[i - 1] = q[i] BY <1>1, <2>4
  <2> QED BY <2>2, <2>3, <2>5
<1> HIDE DEF s, u, x
<1>6. /\ c = Creator[p] => Met(q, Pushes(s), {}, {}, AcksTo(s))
      /\ c = Creator[p] /\ RemovedByCreator(p) => Met(q, Pushes(x), {}, {}, AcksTo(x))
      /\ NeverAfter(q, Pushes(u), Pushes(s))
      /\ r \notin {"none", "created"} => ~In(q, Pushes(s))
      /\ ~Spent(p) => r \in {"none", "created"} /\ ~In(q, Pushes(u))
  BY DEF Wired, s, u, x
<1> QED BY <1>2, <1>3, <1>4, <1>5, <1>6 DEF Wired, s, u, x, t

-----------------------------------------------------------------------------
(* Clients that are tuned in *)

(* What takes back a registration takes back a load's: the live observers  *)
(* of a screen stay as long as the view.                                   *)
LoadStops == {b \in Blocks : b.type = "stop" => b.reg[1] = "value"}

StopsLoads == \A c \in Clients : repoQ[c] \in Seq(LoadStops)

(* The rows of p on c's screen become, once the callbacks on their way have *)
(* run, what the SDK's picture says;                                        *)
Shows(c, p) ==
  Leads(mainQ[c], session[c], p, rows[c][p], Rowed(Picture(c)[p]))

(* this is kept, with what it needs, for a client that was tuned in when p *)
(* was made and still is.                                                  *)
Tuned(c, p) ==
  /\ p \in posted /\ TunedIn(c)
  /\ Wired(down[c], cache[c][p], c, p)
  /\ Void(p) \/ Shows(c, p)

RowsInv ==
  /\ PostInv /\ StopsLoads
  /\ \A c \in Clients, p \in Posts : PostPhase(c, p)
  /\ ~RejectsWrites => \A p \in Posts : \A c \in tuned[p] : Tuned(c, p)

(* What is known of a client that is tuned in. *)
LEMMA TunedClient ==
  ASSUME SyncInv, NEW c \in Clients, TunedIn(c), NEW p \in Posts
  PROVE  /\ connected[c] /\ complete[c] /\ listening[c] /\ held[c] = <<>>
         /\ regs[c] # {} /\ phase[c] = "live" /\ session[c] \in Sessions
         /\ {<<"changed", session[c]>>, <<"removed", session[c]>>} \subseteq regs[c]
         /\ ~ListenPending(up[c], down[c])
         /\ ~HasType(up[c], "listen") /\ ~HasType(up[c], "unlisten")
         /\ \A i \in 1 .. Len(down[c]) : down[c][i].type \in {"push", "ack"}
         /\ Unanswered(c) = writes[c]
         /\ Delivered(down[c], cache[c]) = server
         /\ Picture(c)[p] = Written(writes[c], p, cache[c][p])
         /\ cache[c][p] \in Records /\ Picture(c)[p] \in Records
<1>1. /\ TypeOK /\ Sound(c) /\ Following(c) /\ phase[c] = "live"
      /\ {<<"changed", session[c]>>, <<"removed", session[c]>>} \subseteq regs[c]
  BY DEF SyncInv, TypeInv, TunedIn
<1>2. /\ up[c] \in Seq(Requests) /\ down[c] \in Seq(Responses)
      /\ writes[c] \in Seq(LocalWrites) /\ held[c] \in Seq(Acks)
      /\ cache[c] \in Boards
  BY <1>1, QueueTypes
<1>3. /\ regs[c] # {} /\ connected[c] /\ ~ListenPending(up[c], down[c])
  BY <1>1 DEF Following
<1>4. DOMAIN up[c] = 1 .. Len(up[c]) /\ DOMAIN down[c] = 1 .. Len(down[c])
  BY <1>2
<1>5. ~HasType(up[c], "unlisten") /\ ~HasType(down[c], "revocation")
  BY <1>1, <1>4 DEF Following, HasType
<1>6. ~HasType(up[c], "listen") /\ ~HasType(down[c], "snapshot") /\ ~HasType(down[c], "refusal")
  BY <1>2, <1>3, PendingDef
<1>7. \A i \in 1 .. Len(down[c]) : down[c][i].type \in {"push", "ack"}
  <2> SUFFICES ASSUME NEW i \in 1 .. Len(down[c]) PROVE down[c][i].type \in {"push", "ack"}
    OBVIOUS
  <2>1. down[c][i] \in Responses BY <1>2
  <2>2. down[c][i].type \in {"push", "snapshot", "ack", "refusal", "revocation"}
    BY <2>1 DEF Responses, Acks
  <2> QED BY <1>5, <1>6, <2>2 DEF HasType
<1>8. complete[c] /\ Delivered(down[c], cache[c]) = server
  BY <1>1, FollowedCache DEF CacheFollowsServer
<1>9. Followed(down[c], "refusal", "snapshot") BY <1>6, FollowedIfNone
<1>10. listening[c]
  BY <1>1, <1>3, <1>5, <1>6, <1>9 DEF Sound, Synced
<1>11. held[c] = <<>>
  BY <1>1, <1>3 DEF Sound, HeldFor
<1>12. Unanswered(c) = writes[c]
  <2>1. Len(held[c]) = 0 BY <1>11
  <2> QED BY <1>2, <2>1 DEF Unanswered
<1>13. complete[c] = TRUE BY <1>1, <1>8 DEF TypeOK
<1>14. /\ Picture(c)[p] = Written(writes[c], p, cache[c][p])
       /\ cache[c][p] \in Records /\ Picture(c)[p] \in Records
  <2>1. /\ Overlay(cache[c], TRUE, writes[c])[p] = Written(writes[c], p, cache[c][p])
        /\ cache[c][p] \in Records /\ Written(writes[c], p, cache[c][p]) \in Records
    BY <1>1, <1>2, WholePicture
  <2> QED BY <1>13, <2>1 DEF Picture
<1>15. session[c] \in Sessions BY <1>1 DEF TypeOK
<1> QED BY <1>1, <1>3, <1>5, <1>6, <1>7, <1>8, <1>10, <1>11, <1>12, <1>14, <1>15

(* Who does not act keeps everything but what comes down the socket. *)
Idle(c) ==
  /\ connected'[c] = connected[c] /\ up'[c] = up[c] /\ down'[c] = down[c]
  /\ regs'[c] = regs[c] /\ complete'[c] = complete[c] /\ cache'[c] = cache[c]
  /\ writes'[c] = writes[c] /\ held'[c] = held[c] /\ mainQ'[c] = mainQ[c]
  /\ phase'[c] = phase[c] /\ session'[c] = session[c] /\ rows'[c] = rows[c]

(* What another device does changes no screen, *)
LEMMA IdleSilent ==
  ASSUME TypeOK, NEW d \in Clients, NEW c \in Clients \ {d}, ActionOf(d), ~ServeWrite(d)
  PROVE  regs'[c] = regs[c] /\ phase'[c] = phase[c] /\ session'[c] = session[c]
<1>1. CASE User(d)
  BY <1>1 DEF User, OpenTimeline, Logout, CreatePost, RemovePost, sdkVars, appVars, TypeOK
<1>2. CASE MainThread(d)
  BY <1>2 DEF MainThread, PostsRetrieved, RetrievalFailed, PostAdded, PostRemoved, FeedEvent,
              PostWritten, sdkVars, appVars, TypeOK
<1>3. CASE RepoBlock(d)
  BY <1>3 DEF RepoBlock, AddObserver, RemoveObserver, LocalWrite, appVars, TypeOK
<1>4. CASE Receive(d)
  <2>1. CASE ReceivePush(d) \/ ReceiveSnapshot(d) \/ ReceiveAck(d)
    BY <2>1 DEF ReceivePush, ReceiveSnapshot, ReceiveAck, appVars
  <2>2. CASE ReceiveRefusal(d) \/ ReceiveRevocation(d)
    BY <2>2 DEF ReceiveRefusal, ReceiveRevocation, CancelView, sdkVars, appVars, TypeOK
  <2> QED BY <1>4, <2>1, <2>2 DEF Receive
<1>5. CASE Serve(d)
  BY <1>5 DEF Serve, ServeListen, ServeUnlisten, sdkVars, appVars
<1>6. CASE RevokeListen(d) \/ Disconnect(d)
  BY <1>6 DEF RevokeListen, Disconnect, sdkVars, appVars
<1>7. CASE Reconnect(d) \/ Crash(d)
  BY <1>7 DEF Reconnect, Reconnected, Crash, sdkVars, appVars, TypeOK
<1> QED BY <1>1, <1>2, <1>3, <1>4, <1>5, <1>6, <1>7 DEF ActionOf

(* and nothing else here, unless the server serves its write. *)
LEMMA OthersIdle ==
  ASSUME TypeOK, NEW d \in Clients, NEW c \in Clients \ {d}, ActionOf(d), ~ServeWrite(d)
  PROVE  Idle(c)
<1>1. Calm(c)
  <2>1. CASE User(d) \/ MainThread(d) BY <2>1, ScreensAreCalm
  <2>2. CASE ~(User(d) \/ MainThread(d))
    BY <2>2, OthersAreCalm DEF ActionOf, Serve
  <2> QED BY <2>1, <2>2
<1>2. mainQ'[c] = mainQ[c] BY OthersKeep DEF ActionOf
<1>3. rows'[c] = rows[c] BY OthersRows
<1>4. regs'[c] = regs[c] /\ phase'[c] = phase[c] /\ session'[c] = session[c]
  BY IdleSilent
<1> QED BY <1>1, <1>2, <1>3, <1>4 DEF Idle, Calm

(* It is still tuned in, with the same picture. *)
LEMMA IdleTuned ==
  ASSUME NEW c \in Clients, Idle(c)
  PROVE  /\ TunedIn(c) => TunedIn(c)'
         /\ Picture(c)' = Picture(c)
         /\ \A p : Shows(c, p) => Shows(c, p)'
<1>1. TunedIn(c) => TunedIn(c)'
  BY DEF Idle, TunedIn, Following, ListenPending
<1>2. Picture(c)' = Picture(c) BY DEF Idle, Picture, Overlay, Written
<1> QED BY <1>1, <1>2 DEF Idle, Shows

(* A removal asked for stays so, and a post void stays void. *)
LEMMA CreatorsRemoval ==
  ASSUME TypeOK, [Next]_vars, NEW p \in Posts, RemovedByCreator(p)'
  PROVE  RemovedByCreator(p)
<1> SUFFICES ASSUME NEW c \in Clients, asked[c][p] > 0 PROVE c = Creator[p]
  BY DEF RemovedByCreator
<1>1. asked[c][p] \in Nat /\ asked'[c][p] \in Nat /\ asked[c][p] <= asked'[c][p]
  BY HistoryGrows
<1>2. asked'[c][p] > 0 BY <1>1
<1> QED BY <1>2 DEF RemovedByCreator

(* A creation served is its creator's, and no device had served it before. *)
LEMMA SetIsCreators ==
  ASSUME PostInv, NEW d \in Clients, NEW p \in Posts, ServeWrite(d),
         Head(up[d]) = Write("set", p)
  PROVE  d = Creator[p] /\ ~Spent(p)
<1>1. /\ Unserved(d) \in Seq(LocalWrites) /\ Unserved(d) # <<>>
      /\ Head(up[d]) = Head(Unserved(d))
  BY ServedOldest DEF PostInv
<1>2. Has(Unserved(d), Write("set", p)) BY <1>1, HasInHead
<1>3. In(Unserved(d), Sets(p)) BY <1>2 DEF Has, In, Sets
<1>4. d = Creator[p] BY <1>3 DEF PostInv, Orderly
<1>5. Has(Unacked(d), Write("set", p)) BY <1>2, UnservedUnacked DEF PostInv
<1> QED BY <1>4, <1>5 DEF Spent

(* A void post stays void. *)
LEMMA VoidStays ==
  ASSUME PostInv, [Next]_vars, ~RejectsWrites, NEW p \in Posts, Void(p)
  PROVE  Void(p)'
<1>1. Spent(p) /\ ~IsPost(server[p]) /\ ~RemovedByCreator(p) BY DEF Void
<1>2. Spent(p)' BY <1>1, SpentStays DEF PostInv
<1>3. TypeOK BY DEF PostInv, SyncInv, TypeInv
<1>4. ~RemovedByCreator(p)' BY <1>1, <1>3, CreatorsRemoval
<1>5. ~IsPost(server'[p])
  <2> SUFFICES ASSUME IsPost(server'[p]) PROVE FALSE
    OBVIOUS
  <2>1. server'[p] # server[p] BY <1>1
  <2>2. PICK d \in Clients : ServeWrite(d) BY <2>1, ServerChanges
  <2>3. Head(up[d]) = Write("set", p) BY <1>1, <1>3, <2>2, PostPerformed
  <2> QED BY <1>1, <2>2, <2>3, SetIsCreators
<1>6. (~IsPost(server[p]))' BY <1>5 DEF IsPost
<1> QED BY <1>2, <1>4, <1>6 DEF Void

(* What is on its way depends on the rest of the system so. *)
LEMMA WiredKept ==
  ASSUME PostInv, [Next]_vars, NEW c \in Clients, NEW p \in Posts,
         NEW q, NEW r, Wired(q, r, c, p), down'[c] = q, cache'[c][p] = r
  PROVE  Wired(down[c], cache[c][p], c, p)'
<1>1. SyncInv /\ TypeOK BY DEF PostInv, SyncInv, TypeInv
<1>2. Spent(p) => Spent(p)' BY <1>1, SpentStays
<1>3. RemovedByCreator(p)' => RemovedByCreator(p) BY <1>1, CreatorsRemoval
<1>4. Paired(q, p, r) => Paired(down[c], p, cache[c][p])' BY DEF Paired, Push
<1>5. \A A, B : NeverAfter(q, A, B) => NeverAfter(down'[c], A, B) OBVIOUS
<1>6. \A A, B, E, C : Met(q, A, B, E, C) => Met(down'[c], A, B, E, C) OBVIOUS
<1>7. \A A : In(down'[c], A) <=> In(q, A) OBVIOUS
<1> QED BY <1>2, <1>3, <1>4, <1>5, <1>6, <1>7
        DEF Wired, Pushes, Push, AcksTo, Responses, Removal, Write

(* The callbacks added to the queue tell what the picture becomes; *)
LEMMA ShowsGrows ==
  ASSUME TypeOK, NEW c \in Clients, NEW p \in Posts, Shows(c, p),
         session'[c] = session[c], rows'[c] = rows[c],
         NEW v \in Seq(Callbacks), mainQ'[c] = mainQ[c] \o v,
         Leads(v, session[c], p, Rowed(Picture(c)[p]), Rowed(Picture(c)'[p]))
  PROVE  Shows(c, p)'
<1>1. mainQ[c] \in Seq(Callbacks) BY DEF TypeOK
<1> DEFINE m == Rowed(Picture(c)[p])
           n == Rowed(Picture(c)'[p])
<1>2. Leads(mainQ[c], session[c], p, rows[c][p], m) BY DEF Shows
<1>3. Leads(v, session[c], p, m, n) OBVIOUS
<1>4. Shows(c, p)' = Leads(mainQ'[c], session[c], p, rows[c][p], n)
  BY DEF Shows, Rowed, Leads, Counted, Tells
<1> HIDE DEF m, n
<1>5. Leads(mainQ[c] \o v, session[c], p, rows[c][p], n)
  BY <1>1, <1>2, <1>3, LeadsConcat
<1> QED BY <1>4, <1>5

(* so it is when they are those of a change the screen notices, *)
LEMMA ShowsGoes ==
  ASSUME TypeOK, NEW c \in Clients, NEW p \in Posts, Shows(c, p),
         session'[c] = session[c], rows'[c] = rows[c],
         {<<"changed", session[c]>>, <<"removed", session[c]>>} \subseteq regs[c],
         mainQ'[c] = mainQ[c] \o ChildEvents(c, regs[c], Picture(c), Picture(c)'),
         Picture(c)[p] \in Records, Picture(c)'[p] \in Records,
         Goes(Picture(c)[p], Picture(c)'[p])
  PROVE  Shows(c, p)'
<1> DEFINE v == ChildEvents(c, regs[c], Picture(c), Picture(c)')
<1>1. session[c] \in Sessions BY DEF TypeOK
<1>2. v \in Seq(Callbacks) BY <1>1, ChildEventsType
<1>3. Rowed(Picture(c)[p]) \in Nat BY DEF Rowed
<1>4. Leads(v, session[c], p, Rowed(Picture(c)[p]),
            Noticed(Picture(c)[p], Picture(c)'[p], Rowed(Picture(c)[p])))
  BY <1>1, <1>3, ChildEventsLead
<1>5. Noticed(Picture(c)[p], Picture(c)'[p], Rowed(Picture(c)[p])) = Rowed(Picture(c)'[p])
  BY GoesRowed
<1>6. mainQ'[c] = mainQ[c] \o v OBVIOUS
<1> HIDE DEF v
<1> QED BY <1>2, <1>4, <1>5, <1>6, ShowsGrows

(* or when they tell of nothing; *)
LEMMA ShowsSilently ==
  ASSUME TypeOK, NEW c \in Clients, NEW p \in Posts, Shows(c, p),
         session'[c] = session[c], rows'[c] = rows[c], Picture(c)' = Picture(c),
         NEW v \in Seq(Callbacks), mainQ'[c] = mainQ[c] \o v,
         \A i \in 1 .. Len(v) : v[i].type \in {"value", "cancelled", "written"}
  PROVE  Shows(c, p)'
<1>1. Rowed(Picture(c)[p]) \in Nat BY DEF Rowed
<1>2. Leads(v, session[c], p, Rowed(Picture(c)[p]), Rowed(Picture(c)'[p]))
  BY <1>1, SilentCallbacks
<1> QED BY <1>2, ShowsGrows

(* and a callback that has run has told the rows. *)
LEMMA ShowsHeard ==
  ASSUME TypeOK, NEW c \in Clients, NEW p \in Posts, Shows(c, p),
         session'[c] = session[c], Picture(c)' = Picture(c),
         mainQ[c] # <<>>, mainQ'[c] = Tail(mainQ[c]),
         rows'[c][p] = Counted(Head(mainQ[c]), session[c], p, rows[c][p])
  PROVE  Shows(c, p)'
<1>1. mainQ[c] \in Seq(Callbacks) BY DEF TypeOK
<1> DEFINE m == Rowed(Picture(c)[p])
<1>2. Leads(mainQ[c], session[c], p, rows[c][p], m) BY DEF Shows
<1>3. Shows(c, p)' = Leads(Tail(mainQ[c]), session[c], p, rows'[c][p], m)
  BY DEF Shows, Rowed, Leads, Counted, Tells
<1> HIDE DEF m
<1> QED BY <1>1, <1>2, <1>3, LeadsHead

-----------------------------------------------------------------------------
(* What the client itself does *)

(* The picture is the cache's and the write tree's. *)
LEMMA PictureSame ==
  ASSUME NEW c \in Clients,
         cache'[c] = cache[c], complete'[c] = complete[c], writes'[c] = writes[c]
  PROVE  Picture(c)' = Picture(c)
BY DEF Picture, Overlay, Written

(* What remains to be shown of a client that stays tuned in. *)
LEMMA TunedStays ==
  ASSUME PostInv, [Next]_vars, ~RejectsWrites, NEW c \in Clients, NEW p \in Posts,
         Tuned(c, p), TunedIn(c)', NEW q, NEW r, Wired(q, r, c, p),
         down'[c] = q, cache'[c][p] = r,
         ~Void(p) /\ Shows(c, p) => Void(p)' \/ Shows(c, p)'
  PROVE  Tuned(c, p)'
<1>1. TypeOK BY DEF PostInv, SyncInv, TypeInv
<1>2. p \in posted' BY <1>1, HistoryGrows DEF Tuned
<1>3. Wired(down[c], cache[c][p], c, p)' BY WiredKept
<1>4. Void(p)' \/ Shows(c, p)'
  <2>1. CASE Void(p) BY <2>1, VoidStays
  <2>2. CASE ~Void(p) BY <2>2 DEF Tuned
  <2> QED BY <2>1, <2>2
<1> QED BY <1>2, <1>3, <1>4 DEF Tuned

(* What a client was tuned to, it stays tuned to when idle. *)
LEMMA TunedIdle ==
  ASSUME PostInv, [Next]_vars, ~RejectsWrites, NEW c \in Clients, NEW p \in Posts,
         Tuned(c, p), Idle(c)
  PROVE  Tuned(c, p)'
<1>1. TunedIn(c)' BY IdleTuned DEF Tuned
<1>2. Wired(down[c], cache[c][p], c, p) /\ down'[c] = down[c] /\ cache'[c][p] = cache[c][p]
  BY DEF Tuned, Idle
<1>3. Shows(c, p) => Shows(c, p)' BY IdleTuned
<1> QED BY <1>1, <1>2, <1>3, TunedStays

(* The user: the screen is left, or nothing on it changes. *)
LEMMA UserTuned ==
  ASSUME PostInv, [Next]_vars, ~RejectsWrites, NEW c \in Clients, NEW p \in Posts,
         Tuned(c, p), User(c), c \in tuned'[p]
  PROVE  Tuned(c, p)'
<1>1. TypeOK BY DEF PostInv, SyncInv, TypeInv
<1>2. phase[c] = "live" BY DEF Tuned, TunedIn
<1>3. ~OpenTimeline(c) BY <1>2 DEF OpenTimeline
<1>4. ~Logout(c) BY <1>1 DEF Logout, TuneOut, TypeOK
<1>5. PICK q \in Posts : CreatePost(c, q) \/ RemovePost(c, q)
  BY <1>3, <1>4 DEF User
<1>6. Idle(c) BY <1>5 DEF CreatePost, RemovePost, sdkVars, appVars, Idle
<1> QED BY <1>6, TunedIdle

(* The app's callbacks: the rows follow what is told. *)
LEMMA MainThreadTuned ==
  ASSUME PostInv, [Next]_vars, ~RejectsWrites, NEW c \in Clients, NEW p \in Posts,
         Tuned(c, p), MainThread(c)
  PROVE  Tuned(c, p)'
<1>1. TypeOK BY DEF PostInv, SyncInv, TypeInv
<1>2. phase[c] = "live" /\ TunedIn(c) /\ Wired(down[c], cache[c][p], c, p)
  BY DEF Tuned, TunedIn
<1>3. /\ connected'[c] = connected[c] /\ up'[c] = up[c] /\ down'[c] = down[c]
      /\ regs'[c] = regs[c] /\ complete'[c] = complete[c] /\ cache'[c] = cache[c]
      /\ writes'[c] = writes[c] /\ session'[c] = session[c]
      /\ mainQ[c] # <<>> /\ mainQ'[c] = Tail(mainQ[c])
  <2>1. CASE PostsRetrieved(c) \/ RetrievalFailed(c)
    BY <1>1, <2>1 DEF PostsRetrieved, RetrievalFailed, Callback, sdkVars, TypeOK
  <2>2. CASE PostAdded(c) \/ PostRemoved(c) \/ PostWritten(c)
    BY <1>1, <2>2 DEF PostAdded, PostRemoved, FeedEvent, PostWritten, Callback, sdkVars,
                      appVars, TypeOK
  <2> QED BY <2>1, <2>2 DEF MainThread
<1> DEFINE m == Head(mainQ[c])
<1>4. m \in Callbacks BY <1>1, <1>3, HeadsOfQueues
<1>5. rows[c] \in PostCounts /\ rows[c][p] \in Nat /\ rows \in [Clients -> PostCounts]
  BY <1>1 DEF TypeOK, PostCounts
<1>6. phase'[c] = phase[c] /\ rows'[c][p] = Counted(m, session[c], p, rows[c][p])
  <2>1. CASE PostsRetrieved(c)
    <3>1. m.type = "value" /\ phase'[c] = phase[c] /\ rows'[c] = rows[c]
      BY <1>1, <1>2, <2>1 DEF PostsRetrieved, Callback, TypeOK
    <3> HIDE DEF m
    <3> QED BY <3>1 DEF Counted, Tells
  <2>2. CASE RetrievalFailed(c)
    <3>1. m.type = "cancelled" /\ phase'[c] = phase[c] /\ rows'[c] = rows[c]
      BY <1>1, <1>2, <2>2 DEF RetrievalFailed, Callback, TypeOK
    <3> HIDE DEF m
    <3> QED BY <3>1 DEF Counted, Tells
  <2>3. CASE PostWritten(c)
    <3>1. m.type = "written" /\ phase'[c] = phase[c] /\ rows'[c] = rows[c]
      BY <2>3 DEF PostWritten, Callback, appVars
    <3> HIDE DEF m
    <3> QED BY <3>1 DEF Counted, Tells
  <2>4. CASE PostAdded(c)
    <3>1. /\ m.type = "changed" /\ phase'[c] = phase[c]
          /\ rows' = IF session[c] = m.session
                     THEN [rows EXCEPT ![c][m.post] = rows[c][m.post] + 1] ELSE rows
      BY <1>2, <2>4 DEF PostAdded, FeedEvent, Callback
    <3> HIDE DEF m
    <3> QED BY <1>5, <3>1 DEF Counted, Tells, PostCounts
  <2>5. CASE PostRemoved(c)
    <3>1. /\ m.type = "removed" /\ phase'[c] = phase[c]
          /\ rows' = IF session[c] = m.session
                     THEN [rows EXCEPT ![c][m.post] =
                             IF rows[c][m.post] > 0 THEN rows[c][m.post] - 1 ELSE 0]
                     ELSE rows
      BY <1>2, <2>5 DEF PostRemoved, FeedEvent, Callback
    <3> HIDE DEF m
    <3> QED BY <1>5, <3>1 DEF Counted, Tells, PostCounts
  <2> QED BY <2>1, <2>2, <2>3, <2>4, <2>5 DEF MainThread
<1>7. TunedIn(c)' BY <1>2, <1>3, <1>6 DEF TunedIn, Following, ListenPending
<1>8. Picture(c)' = Picture(c) BY <1>3, PictureSame
<1>9. Shows(c, p) => Shows(c, p)' BY <1>1, <1>3, <1>6, <1>8, ShowsHeard
<1>10. down'[c] = down[c] /\ cache'[c][p] = cache[c][p] BY <1>3
<1> QED BY <1>2, <1>7, <1>9, <1>10, TunedStays

(* The SDK's blocks: an observer that comes or goes tells the live         *)
(* observers nothing, *)
LEMMA ObserverTuned ==
  ASSUME PostInv, StopsLoads, [Next]_vars, ~RejectsWrites, NEW c \in Clients,
         NEW p \in Posts, Tuned(c, p), AddObserver(c) \/ RemoveObserver(c)
  PROVE  Tuned(c, p)'
<1>1. TypeOK /\ SyncInv BY DEF PostInv, SyncInv, TypeInv
<1>2. TunedIn(c) /\ Wired(down[c], cache[c][p], c, p) BY DEF Tuned
<1>3. /\ regs[c] # {} /\ complete[c]
      /\ {<<"changed", session[c]>>, <<"removed", session[c]>>} \subseteq regs[c]
  BY <1>1, <1>2, TunedClient
<1>4. /\ connected'[c] = connected[c] /\ down'[c] = down[c] /\ writes'[c] = writes[c]
      /\ phase'[c] = phase[c] /\ session'[c] = session[c] /\ rows'[c] = rows[c]
  BY DEF AddObserver, RemoveObserver, appVars
<1>5. mainQ[c] \in Seq(Callbacks) /\ complete[c] = TRUE BY <1>1, <1>3 DEF TypeOK
<1>6. /\ up'[c] = up[c] /\ complete'[c] = complete[c] /\ cache'[c] = cache[c]
      /\ regs'[c] # {}
      /\ {<<"changed", session[c]>>, <<"removed", session[c]>>} \subseteq regs'[c]
      /\ \/ mainQ'[c] = mainQ[c]
         \/ \E reg \in Regs :
              mainQ'[c] = mainQ[c] \o ValueEvents(c, {reg}, Picture(c))
  <2>1. CASE AddObserver(c)
    <3> DEFINE reg == Head(repoQ[c]).reg
    <3>1. Head(repoQ[c]) \in Blocks /\ Head(repoQ[c]).type = "observe"
      BY <1>1, <2>1, HeadsOfQueues DEF AddObserver, Block
    <3>2. reg \in Regs BY <3>1 DEF Blocks, LocalWrites, WriteOps
    <3>3. regs'[c] = regs[c] \cup {reg} BY <1>1, <2>1 DEF AddObserver, TypeOK
    <3>4. Send(c, <<>>) BY <1>3, <2>1 DEF AddObserver
    <3>5. up'[c] = up[c]
      <4>1. [type |-> "listen"] \in Requests BY DEF Requests
      <4> QED BY <1>1, <3>4, <4>1, SendOne
    <3>6. complete'[c] = complete[c] /\ cache'[c] = cache[c] BY <2>1 DEF AddObserver
    <3>7. \/ mainQ'[c] = mainQ[c]
          \/ mainQ'[c] = mainQ[c] \o ValueEvents(c, {reg}, Picture(c))
      BY <1>1, <2>1 DEF AddObserver, TypeOK
    <3> HIDE DEF reg
    <3> QED BY <1>3, <3>2, <3>3, <3>5, <3>6, <3>7
  <2>2. CASE RemoveObserver(c)
    <3> DEFINE b == Head(repoQ[c])
    <3>1. repoQ[c] # <<>> /\ b.type = "stop" BY <2>2 DEF RemoveObserver, Block
    <3>2. b \in LoadStops BY <3>1, HeadThenTail DEF StopsLoads
    <3>3. b.reg[1] = "value" BY <3>1, <3>2 DEF LoadStops
    <3>4. {<<"changed", session[c]>>, <<"removed", session[c]>>} \subseteq regs[c] \ {b.reg}
      BY <1>3, <3>3
    <3>5. regs[c] \ {b.reg} # {} BY <3>4
    <3>6. /\ regs'[c] = regs[c] \ {b.reg} /\ Send(c, <<>>)
          /\ complete'[c] = complete[c] /\ cache'[c] = cache[c] /\ mainQ'[c] = mainQ[c]
      BY <1>1, <2>2, <3>5 DEF RemoveObserver, TypeOK
    <3>7. up'[c] = up[c]
      <4>1. [type |-> "listen"] \in Requests BY DEF Requests
      <4> QED BY <1>1, <3>6, <4>1, SendOne
    <3> QED BY <3>4, <3>5, <3>6, <3>7
  <2> QED BY <2>1, <2>2
<1>7. TunedIn(c)' BY <1>2, <1>4, <1>6 DEF TunedIn, Following, ListenPending
<1>8. Picture(c)' = Picture(c) BY <1>4, <1>6, PictureSame
<1>9. ASSUME Shows(c, p) PROVE Shows(c, p)'
  <2>1. CASE mainQ'[c] = mainQ[c] BY <1>4, <1>8, <1>9, <2>1 DEF Shows
  <2>2. ASSUME NEW reg \in Regs,
               mainQ'[c] = mainQ[c] \o ValueEvents(c, {reg}, Picture(c))
        PROVE  Shows(c, p)'
    <3> DEFINE v == ValueEvents(c, {reg}, Picture(c))
    <3>1. IsFiniteSet({reg}) BY FS_Singleton
    <3>2. v \in Seq(Callbacks) BY <3>1, ValueEventsType
    <3>3. Cardinality({reg}) \in Nat BY <3>1, SetToSeqType
    <3>4. \A i \in 1 .. Len(v) : v[i].type \in {"value", "cancelled", "written"}
      BY <3>3 DEF ValueEvents
    <3>5. mainQ'[c] = mainQ[c] \o v BY <2>2
    <3> HIDE DEF v
    <3> QED BY <1>1, <1>4, <1>8, <1>9, <3>2, <3>4, <3>5, ShowsSilently
  <2> QED BY <1>6, <2>1, <2>2
<1>10. down'[c] = down[c] /\ cache'[c][p] = cache[c][p] BY <1>4, <1>6
<1> QED BY <1>2, <1>7, <1>9, <1>10, TunedStays

(* a write of the user is laid over the picture, *)
LEMMA LocalWriteTuned ==
  ASSUME PostInv, [Next]_vars, ~RejectsWrites, NEW c \in Clients, NEW p \in Posts,
         PostPhase(c, p), Tuned(c, p), LocalWrite(c)
  PROVE  Tuned(c, p)'
<1>1. TypeOK /\ SyncInv /\ EveryWriteTracked
  BY SoundTracked DEF PostInv, SyncInv, TypeInv
<1>2. TunedIn(c) /\ Wired(down[c], cache[c][p], c, p) BY DEF Tuned
<1>3. /\ connected[c] /\ complete[c]
      /\ {<<"changed", session[c]>>, <<"removed", session[c]>>} \subseteq regs[c]
      /\ Unanswered(c) = writes[c]
      /\ Picture(c)[p] = Written(writes[c], p, cache[c][p])
      /\ cache[c][p] \in Records /\ Picture(c)[p] \in Records
  BY <1>1, <1>2, TunedClient
<1> DEFINE w == Head(repoQ[c])
           ws == Append(writes[c], w)
<1>4. /\ w \in Blocks /\ repoQ[c] \in Seq(Blocks) /\ repoQ[c] # <<>>
      /\ w.type \in WriteOps /\ writes[c] \in Seq(LocalWrites) /\ cache[c] \in Boards
      /\ up[c] \in Seq(Requests) /\ complete[c] = TRUE
  <2>1. repoQ[c] # <<>> /\ w.type \in WriteOps BY DEF LocalWrite, Block
  <2>2. w \in Blocks BY <1>1, <2>1, HeadsOfQueues
  <2> QED BY <1>1, <1>3, <2>1, <2>2 DEF TypeOK
<1>5. w \in LocalWrites /\ w \in Requests BY <1>4 DEF Blocks, WriteOps, Requests
<1>6. ws \in Seq(LocalWrites) BY <1>4, <1>5, AppendProperties
<1>7. /\ connected'[c] = connected[c] /\ down'[c] = down[c] /\ regs'[c] = regs[c]
      /\ complete'[c] = complete[c] /\ cache'[c] = cache[c] /\ writes'[c] = ws
      /\ phase'[c] = phase[c] /\ session'[c] = session[c] /\ rows'[c] = rows[c]
      /\ Send(c, <<w>>)
      /\ mainQ'[c] = mainQ[c] \o
           ChildEvents(c, regs[c], Picture(c), Overlay(cache[c], complete[c], ws))
  BY <1>1 DEF LocalWrite, TypeOK, appVars
<1>8. up'[c] = Append(up[c], w) BY <1>1, <1>3, <1>5, <1>7, SendOne
<1>9. Picture(c)' = Overlay(cache[c], complete[c], ws)
  <2>1. cache'[c] = cache[c] /\ complete'[c] = complete[c] /\ writes'[c] = ws BY <1>7
  <2> HIDE DEF ws
  <2> QED BY <2>1 DEF Picture, Overlay, Written
<1>10. /\ Picture(c)'[p] = Written(ws, p, cache[c][p]) /\ Picture(c)'[p] \in Records
  <2> HIDE DEF ws
  <2>1. /\ Overlay(cache[c], TRUE, ws)[p] = Written(ws, p, cache[c][p])
        /\ Written(ws, p, cache[c][p]) \in Records
    BY <1>1, <1>4, <1>6, WholePicture
  <2> QED BY <1>4, <1>9, <2>1
<1>11. Picture(c)'[p] = Laid(w, p, Picture(c)[p])
  <2>1. Written(ws, p, cache[c][p]) = Laid(w, p, Written(writes[c], p, cache[c][p]))
    BY <1>3, <1>4, <1>5, WrittenAppend DEF Seen
  <2> HIDE DEF ws, w
  <2> QED BY <1>3, <1>10, <2>1
<1>12. ASSUME w = Write("set", p) PROVE Picture(c)[p] \in {"none", "created"}
  <2>1. Requested(repoQ[c]) \in Seq(LocalWrites) /\ Unanswered(c) \in Seq(LocalWrites)
    BY <1>1, WriteQueues
  <2>2. Has(Requested(repoQ[c]), w)
    <3>1. repoQ[c] \in Seq(Orders) /\ w \in Orders /\ Tail(repoQ[c]) \in Seq(Orders)
      BY <1>4, BlocksAreOrders, HeadThenTail
    <3>2. Requested(repoQ[c]) = RequestOf(w) \o Requested(Tail(repoQ[c]))
      BY <1>4, <3>1, OrderedHead
    <3>3. RequestOf(w) = <<w>> BY <1>4 DEF RequestOf
    <3>4. Requested(Tail(repoQ[c])) \in Seq(LocalWrites) BY <3>1, OrderedType
    <3>5. <<w>> \in Seq(LocalWrites) /\ Has(<<w>>, w) BY <1>5, HasInOne
    <3>6. PICK r \in Seq(LocalWrites) : r = Requested(Tail(repoQ[c])) BY <3>4
    <3>7. Requested(repoQ[c]) = <<w>> \o r BY <3>2, <3>3, <3>6
    <3> HIDE DEF w
    <3>8. Has(<<w>> \o r, w) BY <3>5, HasInConcat
    <3> QED BY <3>7, <3>8
  <2>3. Has(Unacked(c), Write("set", p)) BY <1>12, <2>1, <2>2, HasInConcat DEF Unacked
  <2>4. In(Unacked(c), Sets(p)) BY <2>3 DEF Has, In, Sets
  <2>5. Creator[p] = c BY <2>4 DEF PostInv, Orderly
  <2>6. ~Spent(p) BY <2>3, <2>5 DEF Spent
  <2>7. cache[c][p] \in {"none", "created"} BY <1>2, <2>6 DEF Wired
  <2>8. ~Has(writes[c], Write("update", p))
    <3>1. ~Has(Unacked(c), Write("update", p)) BY <2>6 DEF PostPhase
    <3> QED BY <1>1, <1>3, <3>1, UnansweredUnacked
  <2> QED BY <1>3, <1>4, <2>7, <2>8, Unstamped
<1>13. Goes(Picture(c)[p], Picture(c)'[p])
  <2>1. CASE w.post # p
    <3>1. Picture(c)'[p] = Picture(c)[p] BY <1>11, <2>1 DEF Laid
    <3> QED BY <3>1 DEF Goes
  <2>2. CASE w.post = p
    <3>1. w = Write(w.type, p) BY <1>5, <2>2 DEF LocalWrites, Write
    <3>2. Picture(c)'[p] = Apply(w.type, Picture(c)[p]) BY <1>11, <2>2 DEF Laid
    <3>3. w.type = "set" => Picture(c)[p] \in {"none", "created"} BY <1>12, <3>1
    <3> QED BY <1>3, <1>4, <3>2, <3>3, LaidGoes
  <2> QED BY <2>1, <2>2
<1>14. TunedIn(c)'
  <2>1. \A i \in 1 .. Len(up'[c]) : up'[c][i].type \notin {"listen", "unlisten"}
    <3>1. ~HasType(up[c], "listen") /\ ~HasType(up[c], "unlisten")
      BY <1>1, <1>2, TunedClient
    <3>2. \A t : HasType(up'[c], t) <=> HasType(up[c], t) \/ w.type = t
      BY <1>4, <1>5, <1>8, HasTypeAppend
    <3> QED BY <1>4, <3>1, <3>2 DEF HasType, WriteOps
  <2>2. up'[c] \in Seq(Requests) BY <1>4, <1>5, <1>8, AppendProperties
  <2>3. DOMAIN up'[c] = 1 .. Len(up'[c]) BY <2>2
  <2>4. \A i \in DOMAIN up'[c] : up'[c][i].type \notin {"listen", "unlisten"}
    BY <2>1, <2>3
  <2> HIDE DEF w, ws
  <2> QED BY <1>2, <1>7, <2>4 DEF TunedIn, Following, ListenPending
<1>15. Shows(c, p) => Shows(c, p)'
  <2> HIDE DEF w, ws
  <2> QED BY <1>1, <1>3, <1>7, <1>9, <1>10, <1>13, ShowsGoes
<1>16. cache'[c][p] = cache[c][p] /\ down'[c] = down[c] BY <1>7
<1> QED BY <1>2, <1>14, <1>15, <1>16, TunedStays

-----------------------------------------------------------------------------
(* What comes down the socket *)

(* Where neither a creation nor a board is on its way, a post gone stays   *)
(* gone.                                                                   *)
LEMMA DeliveredUnposted ==
  ASSUME NEW q \in Seq(Responses), NEW ca \in Boards, NEW p \in Posts,
         \A i \in 1 .. Len(q) : q[i].type \in {"push", "ack"},
         ~In(q, Pushes(Write("set", p))), ca[p] \in {"none", "stub"}
  PROVE  Delivered(q, ca)[p] \in {"none", "stub"}
<1>1. PICK f \in [0 .. Len(q) -> Records] :
        /\ f[0] = ca[p] /\ Delivered(q, ca)[p] = f[Len(q)]
        /\ \A n \in 1 .. Len(q) : f[n] = Brought(q[n], p, f[n - 1])
  BY DeliveredDef
<1> DEFINE S == {n \in 0 .. Len(q) : f[n] \in {"none", "stub"}}
<1>2. Len(q) \in Nat OBVIOUS
<1>3. 0 \in S BY <1>1, <1>2
<1>4. ASSUME NEW n \in 1 .. Len(q), n - 1 \in S PROVE n \in S
  <2>1. n \in 0 .. Len(q) /\ f[n - 1] \in {"none", "stub"} BY <1>2, <1>4
  <2>2. q[n] \in Responses /\ q[n].type \in {"push", "ack"} BY <1>4
  <2>3. f[n] = Brought(q[n], p, f[n - 1]) BY <1>1, <1>4
  <2>4. CASE q[n].type = "push" /\ q[n].write.post = p
    <3>1. q[n] = Push(q[n].write) /\ q[n].write \in LocalWrites
      BY <2>2, <2>4 DEF Responses, Acks, Push
    <3>2. q[n].write = Write(q[n].write.type, p) /\ q[n].write.type \in WriteOps
      BY <2>4, <3>1 DEF LocalWrites, Write
    <3>3. q[n].write.type # "set"
      <4> SUFFICES ASSUME q[n].write.type = "set" PROVE FALSE
        OBVIOUS
      <4>1. q[n] \in Pushes(Write("set", p)) BY <3>1, <3>2 DEF Pushes
      <4> QED BY <1>4, <4>1 DEF In
    <3>4. f[n] = Apply(q[n].write.type, f[n - 1]) BY <2>3, <2>4 DEF Brought
    <3>5. f[n] \in {"none", "stub"} BY <2>1, <3>2, <3>3, <3>4 DEF Apply, WriteOps
    <3> QED BY <2>1, <3>5
  <2>5. CASE ~(q[n].type = "push" /\ q[n].write.post = p)
    <3>1. f[n] = f[n - 1] BY <2>2, <2>3, <2>5 DEF Brought
    <3> QED BY <2>1, <3>1
  <2> QED BY <2>4, <2>5
<1>5. 0 .. Len(q) \subseteq S
  <2> HIDE DEF S
  <2> QED BY <1>2, <1>3, <1>4, InductionUpTo
<1> QED BY <1>1, <1>2, <1>5

(* A write in the tree, and the creation's push still on its way to its    *)
(* creator, have no response yet.                                          *)
LEMMA TreeUnacked ==
  ASSUME SyncInv, NEW c \in Clients, TunedIn(c), NEW e, Has(writes[c], e)
  PROVE  Has(Unacked(c), e)
<1>1. Unanswered(c) = writes[c]
  <2>1. held[c] = <<>>
    <3>1. TypeOK /\ Sound(c) /\ Following(c)
      BY DEF SyncInv, TypeInv, TunedIn
    <3> QED BY <3>1 DEF Sound, HeldFor, Following
  <2>2. writes[c] \in Seq(LocalWrites) BY DEF SyncInv, TypeInv, TypeOK
  <2> QED BY <2>1, <2>2 DEF Unanswered
<1> QED BY <1>1, UnansweredUnacked

(* A creation pushed back to its creator is one it still waits for. *)
LEMMA PushedUnspent ==
  ASSUME SyncInv, NEW c \in Clients, NEW p \in Posts, c = Creator[p],
         NEW r, Wired(down[c], r, c, p), In(down[c], Pushes(Write("set", p)))
  PROVE  ~Spent(p)
<1>1. Met(down[c], Pushes(Write("set", p)), {}, {}, AcksTo(Write("set", p)))
  BY DEF Wired
<1>2. PICK j \in 1 .. Len(down[c]) : down[c][j] \in AcksTo(Write("set", p))
  BY <1>1 DEF Met, In
<1>3. Has(Unacked(c), Write("set", p)) BY <1>2, UnansweredUnacked DEF AcksTo
<1> QED BY <1>3 DEF Spent

(* A removal pushed back to the creator is one it still waits for. *)
LEMMA PushedRemoval ==
  ASSUME SyncInv, NEW c \in Clients, TunedIn(c), NEW p \in Posts, c = Creator[p],
         RemovedByCreator(p), NEW r, Wired(down[c], r, c, p),
         In(down[c], Pushes(Removal(p)))
  PROVE  Has(writes[c], Removal(p))
<1>1. Met(down[c], Pushes(Removal(p)), {}, {}, AcksTo(Removal(p)))
  BY DEF Wired
<1>2. PICK j \in 1 .. Len(down[c]) : down[c][j] \in AcksTo(Removal(p))
  BY <1>1 DEF Met, In
<1>3. TypeOK /\ EveryWriteTracked BY SoundTracked DEF SyncInv, TypeInv
<1>4. down[c] \in Seq(Responses) BY <1>3 DEF TypeOK
<1>5. Has(Answered(down[c]), Removal(p))
  <2>1. down[c][j].type = "ack" /\ down[c][j].write = Removal(p) BY <1>2 DEF AcksTo
  <2> QED BY <1>4, <2>1, AnsweredHasAll
<1>6. connected[c] /\ Unanswered(c) = writes[c] BY TunedClient
<1>7. PICK D \in Seq(LocalWrites), Q \in Seq(LocalWrites) :
        D = Answered(down[c]) /\ Q = Requested(up[c])
  BY <1>3, QueueTypes
<1>8. writes[c] = D \o Q BY <1>3, <1>6, <1>7, HeldAreOldest
<1>9. Has(D \o Q, Removal(p)) BY <1>5, <1>7, HasInConcat
<1> QED BY <1>8, <1>9

(* What a push does to the picture of p, but for a post that is void. *)
LEMMA PushGoes ==
  ASSUME PostInv, NEW c \in Clients, NEW p \in Posts,
         PostPhase(c, p), TunedIn(c), Wired(down[c], cache[c][p], c, p), ~Void(p),
         down[c] # <<>>, NEW w \in LocalWrites, Head(down[c]) = Push(w)
  PROVE  Goes(Written(writes[c], p, cache[c][p]),
              Written(writes[c], p, Laid(w, p, cache[c][p])))
<1> DEFINE r == cache[c][p]
           ws == writes[c]
           q == down[c]
<1>1. TypeOK /\ SyncInv BY DEF PostInv, SyncInv, TypeInv
<1>2. /\ ws \in Seq(LocalWrites) /\ q \in Seq(Responses) /\ cache[c] \in Boards
  BY <1>1, QueueTypes
<1>3. /\ \A i \in 1 .. Len(q) : q[i].type \in {"push", "ack"}
      /\ Delivered(q, cache[c]) = server /\ r \in Records
  BY <1>1, TunedClient
<1>4. Tail(q) \in Seq(Responses) /\ \A S : In(q, S) <=> Head(q) \in S \/ In(Tail(q), S)
  BY <1>2, InHead, TailPlaces
<1>5. CASE w.post # p
  <2>1. Laid(w, p, r) = r BY <1>5 DEF Laid
  <2> QED BY <2>1 DEF Goes
<1>6. CASE w.post = p
  <2> DEFINE op == w.type
             t == Apply(op, r)
  <2>1. Laid(w, p, r) = t /\ op \in WriteOps /\ w = Write(op, p)
    BY <1>6 DEF Laid, LocalWrites, Write
  <2>2. t \in Records BY <1>3, <2>1, ApplyType
  <2>3. In(q, Pushes(w)) BY <1>4 DEF Pushes
  <2>4. CASE Has(ws, Write("set", p))
    <3>1. Has(Unacked(c), Write("set", p)) BY <1>1, <2>4, TreeUnacked
    <3>2. In(Unacked(c), Sets(p)) BY <3>1 DEF Has, In, Sets
    <3>3. Creator[p] = c BY <3>2 DEF PostInv, Orderly
    <3>4. ~Spent(p) BY <3>1, <3>3 DEF Spent
    <3>5. r \in {"none", "created"} /\ op # "update"
      BY <2>1, <2>3, <3>4 DEF Wired
    <3>6. t \in {"none", "created"} BY <2>1, <3>5 DEF Apply, WriteOps
    <3>7. ~Has(ws, Write("update", p))
      BY <1>1, <3>4, TreeUnacked DEF PostPhase
    <3>8. /\ Written(ws, p, r) \in {"none", "created"}
          /\ Written(ws, p, t) \in {"none", "created"}
      BY <1>2, <3>5, <3>6, <3>7, Unstamped
    <3> QED BY <2>1, <3>8 DEF Goes
  <2>5. CASE ~Has(ws, Write("set", p))
    <3>1. Shaped(ws, p) BY <1>2, <2>5, Shape
    <3>2. CASE \E v \in {"none", "stub"} : \A x \in Seen : Written(ws, p, x) = v
      <4>1. Written(ws, p, r) = Written(ws, p, t) BY <1>3, <2>2, <3>2 DEF Seen
      <4> QED BY <2>1, <4>1 DEF Goes
    <3>3. CASE \A x \in Seen : Written(ws, p, x) = x
      <4>1. op = "set" => r \in {"none", "created"} BY <2>1, <2>3 DEF Wired
      <4>2. Goes(r, t) BY <1>3, <2>1, <4>1, LaidGoes
      <4>3. Written(ws, p, r) = r /\ Written(ws, p, t) = t BY <1>3, <2>2, <3>3 DEF Seen
      <4> HIDE DEF r, t
      <4> QED BY <2>1, <4>2, <4>3 DEF r
    <3>4. CASE /\ Has(ws, Write("update", p)) /\ ~Has(ws, Write("remove", p))
               /\ \A x \in Seen : Written(ws, p, x) = Apply("update", x)
      <4>1. Creator[p] = c /\ Spent(p)
        BY <1>1, <3>4, TreeUnacked DEF PostPhase
      <4>2. ~In(q, Pushes(Write("set", p))) BY <1>1, <4>1, PushedUnspent
      <4>3. op # "set" BY <2>1, <2>3, <4>2
      <4>4. Written(ws, p, r) = Apply("update", r) /\ Written(ws, p, t) = Apply("update", t)
        BY <1>3, <2>2, <3>4 DEF Seen
      <4>5. CASE op = "update"
        <5>1. Apply("update", t) = Apply("update", r) BY <1>3, <4>5 DEF Apply, Records
        <5> HIDE DEF r, t
        <5> QED BY <2>1, <4>4, <5>1 DEF Goes, r
      <4>6. CASE op = "remove"
        <5>1. w = Removal(p) BY <2>1, <4>6 DEF Removal
        <5>2. ~RemovedByCreator(p)
          BY <1>1, <2>3, <3>4, <4>1, <5>1, PushedRemoval DEF Removal
        <5>3. server[p] \in {"none", "stub"}
          <6>1. Head(q) \in Responses BY <1>2, HeadThenTail
          <6>2. server = Delivered(Tail(q), After(Head(q), cache[c]))
            BY <1>2, <1>3, DeliveredHead
          <6>3. After(Head(q), cache[c]) \in Boards BY <1>2, <6>1, AfterType
          <6>4. After(Head(q), cache[c])[p] = "none"
            BY <1>6, <4>6 DEF After, Brought, Push, Apply
          <6>5. ~In(Tail(q), Pushes(Write("set", p))) BY <1>4, <4>2
          <6>6. \A i \in 1 .. Len(Tail(q)) : Tail(q)[i].type \in {"push", "ack"}
            <7>1. /\ Len(q) = Len(Tail(q)) + 1 /\ Len(Tail(q)) \in Nat
                  /\ \A i \in 1 .. Len(Tail(q)) : Tail(q)[i] = q[i + 1]
              BY <1>2, TailPlaces
            <7> QED BY <1>3, <7>1
          <6> HIDE DEF q
          <6> QED BY <1>4, <6>2, <6>3, <6>4, <6>5, <6>6, DeliveredUnposted
        <5>4. ~IsPost(server[p]) BY <5>3 DEF IsPost
        <5> QED BY <4>1, <5>2, <5>4 DEF Void
      <4> QED BY <2>1, <4>3, <4>5, <4>6 DEF WriteOps
    <3> QED BY <3>1, <3>2, <3>3, <3>4 DEF Shaped
  <2> QED BY <2>4, <2>5
<1> QED BY <1>5, <1>6

(* Fewer responses on their way keep the client tuned in. *)
LEMMA TailTuned ==
  ASSUME TypeOK, NEW c \in Clients, TunedIn(c), down[c] # <<>>, down'[c] = Tail(down[c]),
         connected'[c] = connected[c], up'[c] = up[c], regs'[c] = regs[c],
         phase'[c] = phase[c], session'[c] = session[c]
  PROVE  TunedIn(c)'
<1>1. down[c] \in Seq(Responses) BY DEF TypeOK
<1>2. \A i \in DOMAIN down'[c] : \E j \in DOMAIN down[c] : down'[c][i] = down[c][j]
  <2>1. /\ Tail(down[c]) \in Seq(Responses) /\ Len(down[c]) = Len(Tail(down[c])) + 1
        /\ Len(Tail(down[c])) \in Nat
        /\ \A i \in 1 .. Len(Tail(down[c])) : Tail(down[c])[i] = down[c][i + 1]
    BY <1>1, TailPlaces
  <2>2. DOMAIN down[c] = 1 .. Len(down[c]) BY <1>1
  <2>3. DOMAIN Tail(down[c]) = 1 .. Len(Tail(down[c])) BY <2>1
  <2> SUFFICES ASSUME NEW i \in DOMAIN Tail(down[c])
               PROVE  \E j \in DOMAIN down[c] : Tail(down[c])[i] = down[c][j]
    OBVIOUS
  <2>4. i + 1 \in DOMAIN down[c] BY <2>1, <2>2, <2>3
  <2>5. Tail(down[c])[i] = down[c][i + 1] BY <2>1, <2>3
  <2> QED BY <2>4, <2>5
<1> QED BY <1>2 DEF TunedIn, Following, ListenPending

(* What the server tells is taken over by the cache; *)
LEMMA PushTuned ==
  ASSUME PostInv, [Next]_vars, ~RejectsWrites, NEW c \in Clients, NEW p \in Posts,
         PostPhase(c, p), Tuned(c, p), ReceivePush(c)
  PROVE  Tuned(c, p)'
<1>1. TypeOK /\ SyncInv BY DEF PostInv, SyncInv, TypeInv
<1>2. TunedIn(c) /\ Wired(down[c], cache[c][p], c, p) BY DEF Tuned
<1>3. /\ regs[c] # {} /\ complete[c] /\ session[c] \in Sessions
      /\ {<<"changed", session[c]>>, <<"removed", session[c]>>} \subseteq regs[c]
      /\ Picture(c)[p] = Written(writes[c], p, cache[c][p])
      /\ cache[c][p] \in Records /\ Picture(c)[p] \in Records
  BY <1>1, <1>2, TunedClient
<1>4. down[c] # <<>> /\ down[c] \in Seq(Responses) /\ Head(down[c]).type = "push"
  BY <1>1 DEF ReceivePush, Message, TypeOK
<1>5. PICK w \in LocalWrites : w = Head(down[c]).write /\ Head(down[c]) = Push(w)
  <2>1. Head(down[c]) \in Responses BY <1>4, HeadThenTail
  <2> QED BY <1>4, <2>1 DEF Responses, Acks, Push
<1>6. /\ connected'[c] = connected[c] /\ up'[c] = up[c] /\ regs'[c] = regs[c]
      /\ complete'[c] = complete[c] /\ writes'[c] = writes[c] /\ cache'[c] = Patch(c, w)
      /\ phase'[c] = phase[c] /\ session'[c] = session[c] /\ rows'[c] = rows[c]
      /\ down'[c] = Tail(down[c])
      /\ mainQ'[c] = mainQ[c] \o
           ChildEvents(c, regs[c], Picture(c), Overlay(cache'[c], complete[c], writes[c]))
  BY <1>1, <1>5 DEF ReceivePush, TypeOK, appVars
<1>7. cache'[c] \in Boards /\ cache'[c][p] = Laid(w, p, cache[c][p])
  <2>1. cache'[c] = [cache[c] EXCEPT ![w.post] = Apply(w.type, cache[c][w.post])]
    BY <1>3, <1>6 DEF Patch
  <2>2. cache[c] \in [Posts -> Records] BY <1>1 DEF TypeOK, Boards
  <2>3. Patch(c, w) \in Boards BY <1>1, PatchType
  <2> QED BY <1>6, <2>1, <2>2, <2>3 DEF Laid
<1>8. Picture(c)' = Overlay(cache'[c], complete[c], writes[c])
  <2>1. complete'[c] = complete[c] /\ writes'[c] = writes[c] BY <1>6
  <2> QED BY <2>1 DEF Picture, Overlay, Written
<1>9. /\ Picture(c)'[p] = Written(writes[c], p, Laid(w, p, cache[c][p]))
      /\ Picture(c)'[p] \in Records
  <2>1. PICK ca \in Boards : ca = cache'[c] BY <1>7
  <2>2. writes[c] \in Seq(LocalWrites) /\ complete[c] = TRUE BY <1>1, <1>3 DEF TypeOK
  <2>3. /\ Overlay(ca, TRUE, writes[c])[p] = Written(writes[c], p, ca[p])
        /\ Written(writes[c], p, ca[p]) \in Records
    BY <1>1, <2>2, WholePicture
  <2> QED BY <1>7, <1>8, <2>1, <2>2, <2>3
<1>10. TunedIn(c)' BY <1>1, <1>2, <1>4, <1>6, TailTuned
<1>11. Wired(Tail(down[c]), cache'[c][p], c, p)
  <2>1. PICK q \in Seq(Responses) : q = down[c] BY <1>4
  <2>2. Wired(Tail(q), Laid(w, p, cache[c][p]), c, p)
    BY <1>2, <1>3, <1>4, <1>5, <2>1, WiredPushed
  <2> QED BY <1>7, <2>1, <2>2
<1>12. ASSUME ~Void(p), Shows(c, p) PROVE Shows(c, p)'
  <2>1. Goes(Picture(c)[p], Picture(c)'[p])
    BY <1>2, <1>3, <1>4, <1>5, <1>9, <1>12, PushGoes
  <2>2. mainQ'[c] = mainQ[c] \o ChildEvents(c, regs[c], Picture(c), Picture(c)')
    BY <1>6, <1>8
  <2> QED BY <1>1, <1>3, <1>6, <1>9, <1>12, <2>1, <2>2, ShowsGoes
<1> QED BY <1>6, <1>10, <1>11, <1>12, TunedStays

(* an answer uncovers what the cache has already. *)
LEMMA AckTuned ==
  ASSUME PostInv, [Next]_vars, ~RejectsWrites, NEW c \in Clients, NEW p \in Posts,
         Tuned(c, p), ReceiveAck(c)
  PROVE  Tuned(c, p)'
<1>1. TypeOK /\ SyncInv /\ EveryWriteTracked
  BY SoundTracked DEF PostInv, SyncInv, TypeInv
<1>2. TunedIn(c) /\ Wired(down[c], cache[c][p], c, p) BY DEF Tuned
<1>3. /\ complete[c] /\ session[c] \in Sessions /\ connected[c] /\ held[c] = <<>>
      /\ {<<"changed", session[c]>>, <<"removed", session[c]>>} \subseteq regs[c]
      /\ ~ListenPending(up[c], down[c]) /\ Unanswered(c) = writes[c]
      /\ Picture(c)[p] = Written(writes[c], p, cache[c][p])
      /\ cache[c][p] \in Records /\ Picture(c)[p] \in Records
  BY <1>1, <1>2, TunedClient
<1>4. Message(c, "ack") BY DEF ReceiveAck
<1>5. down[c] # <<>> /\ down[c] \in Seq(Responses) /\ Head(down[c]).type = "ack"
  BY <1>1, <1>4 DEF Message, TypeOK
<1> DEFINE ack == Head(down[c])
           left == Left(c, ack)
           told == SettleEvents(c, regs[c], cache[c], complete[c], writes[c], left, ack)
<1>6. /\ connected'[c] = connected[c] /\ up'[c] = up[c] /\ regs'[c] = regs[c]
      /\ complete'[c] = complete[c] /\ cache'[c] = cache[c] /\ writes'[c] = left
      /\ phase'[c] = phase[c] /\ session'[c] = session[c] /\ rows'[c] = rows[c]
      /\ down'[c] = Tail(down[c]) /\ mainQ'[c] = mainQ[c] \o told
  BY <1>1, <1>3 DEF ReceiveAck, TypeOK, appVars
<1>7. /\ ack \in Acks /\ left \in Seq(LocalWrites)
      /\ writes[c] \in Seq(LocalWrites) /\ writes[c] # <<>>
      /\ Head(writes[c]) = ack.write /\ Tail(writes[c]) = left /\ ack.write \in LocalWrites
  <2>1. PICK D \in Seq(LocalWrites) : D = Answered(Tail(down[c]))
    <3>1. Tail(down[c]) \in Seq(Responses) BY <1>5, HeadThenTail
    <3> QED BY <3>1, AnsweredType
  <2>2. PICK Q \in Seq(LocalWrites) : Q = Requested(up[c]) BY <1>1, QueueTypes
  <2>3. ack \in Acks BY <1>1, <1>3, <1>4, LeftRest
  <2>4. PICK w \in LocalWrites : w = ack.write BY <2>3 DEF Acks
  <2>5. Answered(down[c]) = <<w>> \o D
    BY <1>1, <1>3, <1>4, <2>1, <2>4, LeftRest
  <2>6. left = Answered(held[c]) \o D \o Q
    BY <1>1, <1>3, <1>4, <2>1, <2>2, LeftRest
  <2>7. Answered(held[c]) = <<>> BY <1>3, AnsweredEmpty
  <2>8. left = D \o Q
    <3>1. <<>> \o D = D BY EmptySeq, ConcatEmptySeq
    <3> QED BY <2>6, <2>7, <3>1
  <2>9. writes[c] = (<<w>> \o D) \o Q BY <1>1, <1>3, <2>2, <2>5, HeldAreOldest
  <2>10. /\ D \o Q \in Seq(LocalWrites) /\ <<w>> \in Seq(LocalWrites)
         /\ (<<w>> \o D) \o Q = <<w>> \o (D \o Q)
    BY ConcatThree
  <2>11. PICK E \in Seq(LocalWrites) : E = D \o Q BY <2>10
  <2>12. writes[c] = <<w>> \o E BY <2>9, <2>10, <2>11
  <2>13. /\ <<w>> \o E # <<>> /\ Head(<<w>> \o E) = w /\ Tail(<<w>> \o E) = E
    BY HeadOfConcat
  <2>14. writes[c] \in Seq(LocalWrites) BY <1>1 DEF TypeOK
  <2> HIDE DEF left, ack
  <2> QED BY <2>3, <2>4, <2>8, <2>11, <2>12, <2>13, <2>14
<1>8. Laid(ack.write, p, cache[c][p]) = cache[c][p]
  <2>1. Paired(down[c], p, cache[c][p]) BY <1>2 DEF Wired
  <2>2. 1 \in 1 .. Len(down[c]) /\ down[c][1] = ack BY <1>5
  <2>3. ack.write.post = p => Apply(ack.write.type, cache[c][p]) = cache[c][p]
    <3> SUFFICES ASSUME ack.write.post = p
                 PROVE  Apply(ack.write.type, cache[c][p]) = cache[c][p]
      OBVIOUS
    <3>1. down[c][1].type = "ack" /\ down[c][1].write.post = p BY <1>5, <2>2
    <3>2. Apply(down[c][1].write.type, cache[c][p]) = cache[c][p]
      BY <2>1, <2>2, <3>1 DEF Paired
    <3> QED BY <2>2, <3>2
  <2> HIDE DEF ack
  <2> QED BY <2>3 DEF Laid
<1>9. Written(left, p, cache[c][p]) = Picture(c)[p]
  <2>1. Written(writes[c], p, cache[c][p])
          = Written(Tail(writes[c]), p, Laid(Head(writes[c]), p, cache[c][p]))
    BY <1>3, <1>7, WrittenHead
  <2> HIDE DEF left, ack
  <2> QED BY <1>3, <1>7, <1>8, <2>1
<1>10. Picture(c)' = Overlay(cache[c], complete[c], left)
  <2>1. cache'[c] = cache[c] /\ complete'[c] = complete[c] /\ writes'[c] = left BY <1>6
  <2> HIDE DEF left
  <2> QED BY <2>1 DEF Picture, Overlay, Written
<1>11. Picture(c)'[p] = Picture(c)[p]
  <2>1. complete[c] = TRUE /\ cache[c] \in Boards BY <1>1, <1>3 DEF TypeOK
  <2>2. Overlay(cache[c], TRUE, left)[p] = Written(left, p, cache[c][p])
    BY <1>1, <1>7, <2>1, WholePicture
  <2> HIDE DEF left
  <2> QED BY <1>9, <1>10, <2>1, <2>2
<1>12. TunedIn(c)' BY <1>1, <1>2, <1>5, <1>6, TailTuned
<1>13. Wired(Tail(down[c]), cache[c][p], c, p)
  <2>1. PICK q \in Seq(Responses) : q = down[c] BY <1>5
  <2>2. Wired(Tail(q), cache[c][p], c, p) BY <1>2, <1>3, <1>5, <2>1, WiredAcked
  <2> QED BY <2>1, <2>2
<1>14. ASSUME Shows(c, p) PROVE Shows(c, p)'
  <2> DEFINE v == ChildEvents(c, regs[c], Picture(c), Picture(c)')
             u == IF ack.ok /\ ack.write.type = "set"
                  THEN <<[type |-> "written", post |-> ack.write.post]>> ELSE <<>>
             n == Rowed(Picture(c)[p])
  <2>1. told = v \o u
    <3> HIDE DEF left, ack
    <3> QED BY <1>10 DEF SettleEvents, Picture, u
  <2>2. v \in Seq(Callbacks) BY <1>3, ChildEventsType
  <2>3. u \in Seq(Callbacks) /\ \A i \in 1 .. Len(u) : u[i].type \in {"value", "cancelled", "written"}
    <3>1. ack.write.post \in Posts BY <1>7 DEF LocalWrites
    <3> HIDE DEF ack
    <3>2. [type |-> "written", post |-> ack.write.post] \in Callbacks
      BY <3>1 DEF Callbacks
    <3>3. CASE ack.ok /\ ack.write.type = "set"
      <4>1. u = <<[type |-> "written", post |-> ack.write.post]>> BY <3>3
      <4> QED BY <3>2, <4>1
    <3>4. CASE ~(ack.ok /\ ack.write.type = "set")
      <4>1. u = <<>> BY <3>4
      <4> QED BY <4>1
    <3> QED BY <3>3, <3>4
  <2>4. n \in Nat BY DEF Rowed
  <2>5. Leads(v, session[c], p, n, Noticed(Picture(c)[p], Picture(c)'[p], n))
    BY <1>3, <2>4, ChildEventsLead
  <2>6. Noticed(Picture(c)[p], Picture(c)'[p], n) = n
    BY <1>3, <1>11, GoesRowed DEF Goes
  <2> HIDE DEF u
  <2>7. Leads(u, session[c], p, n, n) BY <2>3, <2>4, SilentCallbacks
  <2> HIDE DEF v
  <2>8. Leads(v \o u, session[c], p, n, n) BY <2>2, <2>3, <2>5, <2>6, <2>7, LeadsConcat
  <2>9. v \o u \in Seq(Callbacks) BY <2>2, <2>3, ConcatProperties
  <2>10. mainQ'[c] = mainQ[c] \o (v \o u) BY <1>6, <2>1
  <2>11. Rowed(Picture(c)'[p]) = n BY <1>11
  <2> HIDE DEF n, told
  <2> QED BY <1>1, <1>6, <1>14, <2>8, <2>9, <2>10, <2>11, ShowsGrows DEF n
<1>15. down'[c] = Tail(down[c]) /\ cache'[c][p] = cache[c][p] BY <1>6
<1> QED BY <1>12, <1>13, <1>14, <1>15, TunedStays

-----------------------------------------------------------------------------
(* The server, and the making of a post *)

(* The server performs a write, whoever made it. *)
LEMMA ServedTuned ==
  ASSUME PostInv, [Next]_vars, ~RejectsWrites, NEW c \in Clients, NEW p \in Posts,
         NEW d \in Clients, PostPhase(d, p), Tuned(c, p), ServeWrite(d)
  PROVE  Tuned(c, p)'
<1>1. TypeOK /\ SyncInv BY DEF PostInv, SyncInv, TypeInv
<1>2. TunedIn(c) /\ Wired(down[c], cache[c][p], c, p) BY DEF Tuned
<1>3. PICK w \in LocalWrites, ok \in BOOLEAN :
        /\ w = Head(up[d]) /\ up[d] # <<>> /\ (~RejectsWrites => ok)
        /\ down'[c] = down[c] \o Pushed(c, w, ok) \o AckedTo(c, d, w, ok)
        /\ up' = [up EXCEPT ![d] = Tail(@)]
  BY <1>1, ServeWriteDef
<1>4. listening[c] BY <1>1, <1>2, TunedClient
<1> DEFINE a == [type |-> "ack", write |-> w, ok |-> ok]
           own == c = d
<1>5. Push(w) \in Responses /\ a \in Responses /\ a \in AcksTo(w)
  BY PushesAndAcks DEF Responses, Acks, AcksTo
<1>6. PICK q \in Seq(Responses) : q = down[c] BY <1>1 DEF TypeOK
<1>7. Append(q, Push(w)) \in Seq(Responses) BY <1>5, AppendPlaces
<1>8. /\ own => down'[c] = Append(Append(q, Push(w)), a)
      /\ ~own => down'[c] = Append(q, Push(w))
  <2>1. Pushed(c, w, ok) = <<Push(w)>> BY <1>3, <1>4 DEF Pushed, Push
  <2>2. q \o <<Push(w)>> = Append(q, Push(w)) BY <1>5, <1>6, AppendIsConcat
  <2> DEFINE t == Append(q, Push(w))
  <2>3. down'[c] = t \o AckedTo(c, d, w, ok) BY <1>3, <1>6, <2>1, <2>2
  <2>4. t \in Seq(Responses) BY <1>7
  <2> HIDE DEF t
  <2>5. CASE own
    <3>1. AckedTo(c, d, w, ok) = <<a>> BY <2>5 DEF AckedTo
    <3>2. t \o <<a>> = Append(t, a) BY <1>5, <2>4, AppendIsConcat
    <3>3. down'[c] = Append(t, a) BY <2>3, <3>1, <3>2
    <3> QED BY <2>5, <3>3 DEF t
  <2>6. CASE ~own
    <3>1. AckedTo(c, d, w, ok) = <<>> BY <2>6 DEF AckedTo
    <3>2. t \o <<>> = t BY <2>4, ConcatEmptySeq
    <3>3. down'[c] = t BY <2>3, <3>1, <3>2
    <3> QED BY <2>6, <3>3 DEF t
  <2> QED BY <2>5, <2>6
<1>9. \A e : w = e => Has(Unacked(d), e)
  <2>1. /\ Unserved(d) \in Seq(LocalWrites) /\ Unserved(d) # <<>>
        /\ w = Head(Unserved(d))
    BY <1>1, <1>3, ServedOldest
  <2>2. Has(Unserved(d), w) BY <2>1, HasInHead
  <2> QED BY <1>1, <2>2, UnservedUnacked
<1>10. Wired(down'[c], cache[c][p], c, p)
  <2>1. w = Write("set", p) => ~Spent(p) /\ (c = Creator[p] => own)
    BY <1>3, SetIsCreators
  <2>2. w = Removal(p) /\ c = Creator[p] /\ RemovedByCreator(p) => own
    BY <1>9 DEF PostPhase, RemovedByCreator
  <2>3. w = Write("update", p) => Spent(p) BY <1>9 DEF PostPhase
  <2>4. own \in BOOLEAN OBVIOUS
  <2>5. Wired(q, cache[c][p], c, p) BY <1>2, <1>6
  <2> HIDE DEF a, own
  <2>6. /\ own => Wired(Append(Append(q, Push(w)), a), cache[c][p], c, p)
        /\ ~own => Wired(Append(q, Push(w)), cache[c][p], c, p)
    BY <1>5, <2>1, <2>2, <2>3, <2>4, <2>5, WiredServed
  <2> QED BY <1>8, <2>6
<1>11. TunedIn(c)'
  <2>1. /\ ~ListenPending(up[c], down[c]) /\ up[c] \in Seq(Requests)
        /\ ~HasType(up[c], "listen") /\ ~HasType(up[c], "unlisten")
        /\ \A i \in 1 .. Len(down[c]) : down[c][i].type \in {"push", "ack"}
    BY <1>1, <1>2, TunedClient, QueueTypes
  <2>2. /\ connected'[c] = connected[c] /\ regs'[c] = regs[c] /\ phase'[c] = phase[c]
        /\ session'[c] = session[c]
    BY DEF ServeWrite, sdkVars, appVars
  <2>3. up'[c] \in Seq(Requests) /\ \A t : HasType(up'[c], t) => HasType(up[c], t)
    <3>1. CASE own
      <4>1. up'[c] = Tail(up[c]) /\ up[c] # <<>> BY <1>1, <1>3, <3>1 DEF TypeOK
      <4>2. Tail(up[c]) \in Seq(Requests) BY <2>1, <4>1, HeadThenTail
      <4>3. \A t : HasType(up[c], t) <=> Head(up[c]).type = t \/ HasType(Tail(up[c]), t)
        BY <2>1, <4>1, HasInHead
      <4> QED BY <4>1, <4>2, <4>3
    <3>2. CASE ~own
      <4>1. up'[c] = up[c] BY <1>1, <1>3, <3>2 DEF TypeOK
      <4> QED BY <2>1, <4>1
    <3> QED BY <3>1, <3>2
  <2>4. /\ down'[c] \in Seq(Responses)
        /\ \A i \in 1 .. Len(down'[c]) : down'[c][i].type \in {"push", "ack"}
    <3> DEFINE t == Append(q, Push(w))
    <3>1. t \in Seq(Responses) /\ \A i \in 1 .. Len(t) : t[i].type \in {"push", "ack"}
      <4>1. Push(w).type = "push" BY PushesAndAcks
      <4>2. /\ Len(q) \in Nat /\ Len(t) = Len(q) + 1
            /\ \A i \in 1 .. Len(q) : t[i] = q[i]
            /\ t[Len(q) + 1] = Push(w)
        BY <1>5, AppendPlaces
      <4> HIDE DEF t
      <4> QED BY <1>6, <1>7, <2>1, <4>1, <4>2 DEF t
    <3>2. CASE own
      <4> HIDE DEF t
      <4>1. /\ Append(t, a) \in Seq(Responses)
            /\ Len(t) \in Nat /\ Len(Append(t, a)) = Len(t) + 1
            /\ \A i \in 1 .. Len(t) : Append(t, a)[i] = t[i]
            /\ Append(t, a)[Len(t) + 1] = a
        BY <1>5, <3>1, AppendPlaces
      <4>2. down'[c] = Append(t, a) BY <1>8, <3>2 DEF t
      <4> QED BY <3>1, <4>1, <4>2
    <3>3. CASE ~own
      <4>1. down'[c] = t BY <1>8, <3>3
      <4> HIDE DEF t
      <4> QED BY <3>1, <4>1
    <3> QED BY <3>2, <3>3
  <2>5. /\ \A i \in DOMAIN up'[c] : up'[c][i].type \notin {"listen", "unlisten"}
        /\ \A i \in DOMAIN down'[c] : down'[c][i].type \in {"push", "ack"}
    <3>1. ~HasType(up'[c], "listen") /\ ~HasType(up'[c], "unlisten") BY <2>1, <2>3
    <3>2. DOMAIN up'[c] = 1 .. Len(up'[c]) BY <2>3
    <3>3. DOMAIN down'[c] = 1 .. Len(down'[c]) BY <2>4
    <3> QED BY <2>4, <3>1, <3>2, <3>3 DEF HasType
  <2> QED BY <1>2, <2>2, <2>5 DEF TunedIn, Following, ListenPending
<1>12. /\ cache'[c] = cache[c] /\ complete'[c] = complete[c] /\ writes'[c] = writes[c]
       /\ mainQ'[c] = mainQ[c] /\ session'[c] = session[c] /\ rows'[c] = rows[c]
  BY DEF ServeWrite, sdkVars, appVars
<1>13. Picture(c)' = Picture(c) BY <1>12, PictureSame
<1>14. Shows(c, p) => Shows(c, p)' BY <1>12, <1>13 DEF Shows
<1>15. cache'[c][p] = cache[c][p] BY <1>12
<1> QED BY <1>10, <1>11, <1>14, <1>15, TunedStays

(* The actions of the client itself, *)
LEMMA OwnTuned ==
  ASSUME PostInv, StopsLoads, [Next]_vars, ~RejectsWrites, NEW c \in Clients,
         NEW p \in Posts, PostPhase(c, p), Tuned(c, p), ActionOf(c), c \in tuned'[p]
  PROVE  Tuned(c, p)'
<1>1. TypeOK /\ SyncInv BY DEF PostInv, SyncInv, TypeInv
<1>2. TunedIn(c) BY DEF Tuned
<1>3. /\ connected[c] /\ ~HasType(up[c], "listen") /\ ~HasType(up[c], "unlisten")
      /\ \A i \in 1 .. Len(down[c]) : down[c][i].type \in {"push", "ack"}
  BY <1>1, <1>2, TunedClient
<1>4. down[c] # <<>> => Head(down[c]).type \in {"push", "ack"}
  <2>1. down[c] \in Seq(Responses) BY <1>1 DEF TypeOK
  <2>2. ASSUME down[c] # <<>> PROVE Head(down[c]) = down[c][1] /\ 1 \in 1 .. Len(down[c])
    BY <2>1, <2>2
  <2> QED BY <1>3, <2>2
<1>5. up[c] # <<>> => Head(up[c]).type \notin {"listen", "unlisten"}
  <2>1. up[c] \in Seq(Requests) BY <1>1 DEF TypeOK
  <2> QED BY <1>3, <2>1, HasInHead
<1>6. CASE User(c) BY <1>6, UserTuned
<1>7. CASE MainThread(c) BY <1>7, MainThreadTuned
<1>8. CASE RepoBlock(c)
  BY <1>8, ObserverTuned, LocalWriteTuned DEF RepoBlock
<1>9. CASE Receive(c)
  <2>1. ~ReceiveSnapshot(c) /\ ~ReceiveRefusal(c) /\ ~ReceiveRevocation(c)
    BY <1>4 DEF ReceiveSnapshot, ReceiveRefusal, ReceiveRevocation, Message
  <2> QED BY <1>9, <2>1, PushTuned, AckTuned DEF Receive
<1>10. CASE Serve(c)
  <2>1. ~ServeListen(c) /\ ~ServeUnlisten(c)
    BY <1>5 DEF ServeListen, ServeUnlisten, Request
  <2> QED BY <1>10, <2>1, ServedTuned DEF Serve
<1>11. ~RevokeListen(c) /\ ~Disconnect(c) /\ ~Crash(c)
  BY <1>1 DEF RevokeListen, Disconnect, Crash, TuneOut, TypeOK
<1>12. ~Reconnect(c) BY <1>3 DEF Reconnect, Reconnected
<1> QED BY <1>6, <1>7, <1>8, <1>9, <1>10, <1>11, <1>12 DEF ActionOf

(* and the making of p, which has not been heard of yet. *)
LEMMA CreationTuned ==
  ASSUME PostInv, [Next]_vars, NEW k \in Clients, NEW p \in Posts, CreatePost(k, p),
         NEW c \in Clients, c \in tuned'[p]
  PROVE  Tuned(c, p)'
<1>1. TypeOK BY DEF PostInv, SyncInv, TypeInv
<1>2. p \notin posted /\ TunedIn(c) /\ Idle(c) /\ p \in posted'
  BY <1>1 DEF CreatePost, Idle, sdkVars, appVars, TypeOK
<1>3. Unheard(c, p) BY <1>2 DEF PostInv, Hidden
<1>4. TunedIn(c)' BY <1>2, IdleTuned
<1>5. down'[c] \in Seq(OtherResponses(p)) /\ cache'[c][p] = "none"
  BY <1>2, <1>3 DEF Unheard, Idle
<1>6. \A i \in 1 .. Len(down'[c]) :
        /\ down'[c][i].type \in {"push", "ack"} => down'[c][i].write.post # p
  BY <1>5 DEF OtherResponses
<1>7. Wired(down[c], cache[c][p], c, p)'
  <2>1. Paired(down[c], p, cache[c][p])' BY <1>6 DEF Paired, Push
  <2>2. \A op \in WriteOps : ~In(down'[c], Pushes(Write(op, p)))
    BY <1>6 DEF In, Pushes, Push, Write
  <2>3. /\ ~In(down'[c], Pushes(Write("set", p))) /\ ~In(down'[c], Pushes(Removal(p)))
        /\ ~In(down'[c], Pushes(Write("update", p)))
    BY <2>2 DEF WriteOps, Removal
  <2> QED BY <1>5, <2>1, <2>3
          DEF Wired, In, Met, NeverAfter, Pushes, Push, AcksTo, Responses, Removal, Write
<1>8. Shows(c, p)'
  <2>1. /\ mainQ[c] \in Seq(OtherCallbacks(p)) /\ writes[c] \in Seq(OtherWrites(p))
        /\ cache[c][p] = "none" /\ rows[c][p] = 0
    BY <1>3 DEF Unheard
  <2>2. Picture(c)[p] = "none" BY <2>1, OtherPicture DEF Picture
  <2>3. \A i \in 1 .. Len(mainQ[c]) : ~Tells(mainQ[c][i], session[c], p)
    BY <2>1 DEF OtherCallbacks, Tells
  <2>4. Leads(mainQ[c], session[c], p, 0, 0) BY <2>1, <2>3, LeadsOthers
  <2>5. Shows(c, p) BY <2>1, <2>2, <2>4 DEF Shows, Rowed
  <2> QED BY <1>2, <2>5, IdleTuned
<1> QED BY <1>2, <1>4, <1>7, <1>8 DEF Tuned

-----------------------------------------------------------------------------
(* The invariant *)

(* The app takes back loads' registrations only. *)
LEMMA StopsKept ==
  ASSUME TypeInv, [Next]_vars, StopsLoads, NEW d \in Clients
  PROVE  repoQ'[d] \in Seq(LoadStops)
<1>0. TypeOK BY DEF TypeInv
<1>1. repoQ[d] \in Seq(LoadStops) BY DEF StopsLoads
<1>2. /\ \A b \in LoadStops : Append(repoQ[d], b) \in Seq(LoadStops)
      /\ \A v \in Seq(LoadStops) : repoQ[d] \o v \in Seq(LoadStops)
  BY <1>1, AppendProperties, ConcatProperties
<1>3. \A b \in Blocks : b.type # "stop" => b \in LoadStops BY DEF LoadStops
<1>4. CASE UNCHANGED vars BY <1>1, <1>4 DEF vars
<1>5. ASSUME NEW c \in Clients \ {d}, ActionOf(c) PROVE repoQ'[d] \in Seq(LoadStops)
  BY <1>0, <1>1, <1>5, OthersKeep DEF ActionOf
<1>6. CASE User(d)
  <2>1. CASE OpenTimeline(d)
    <3> DEFINE b == [type |-> "observe", reg |-> <<"value", session'[d]>>]
    <3>1. <<"value", session'[d]>> \in Regs
      <4>1. session'[d] \in Sessions BY <2>1, UserTypes DEF TypeInv, TypeOK
      <4> QED BY <4>1 DEF Regs
    <3>2. b \in Blocks BY <3>1 DEF Blocks
    <3>3. b.type # "stop" OBVIOUS
    <3>4. repoQ'[d] = Append(repoQ[d], b) BY <1>0, <2>1 DEF OpenTimeline, TypeOK
    <3> HIDE DEF b
    <3> QED BY <1>2, <1>3, <3>2, <3>3, <3>4
  <2>2. CASE Logout(d) BY <1>1, <2>2 DEF Logout
  <2>3. ASSUME NEW q \in Posts, NEW op \in WriteOps,
               repoQ'[d] = Append(repoQ[d], Write(op, q))
        PROVE  repoQ'[d] \in Seq(LoadStops)
    <3>1. Write(op, q) \in Blocks /\ Write(op, q).type # "stop"
      BY DEF Write, Blocks, LocalWrites, WriteOps
    <3> QED BY <1>2, <1>3, <2>3, <3>1
  <2>4. ASSUME NEW q \in Posts, CreatePost(d, q) PROVE repoQ'[d] \in Seq(LoadStops)
    BY <1>0, <2>3, <2>4 DEF CreatePost, TypeOK, WriteOps
  <2>5. ASSUME NEW q \in Posts, RemovePost(d, q) PROVE repoQ'[d] \in Seq(LoadStops)
    BY <1>0, <2>3, <2>5 DEF RemovePost, TypeOK, WriteOps
  <2> QED BY <1>6, <2>1, <2>2, <2>4, <2>5 DEF User
<1>7. CASE MainThread(d)
  <2> DEFINE m == Head(mainQ[d])
  <2>1. m \in Callbacks
    <3>1. mainQ[d] # <<>>
      BY <1>7 DEF MainThread, PostsRetrieved, RetrievalFailed, PostAdded, PostRemoved,
                  FeedEvent, PostWritten, Callback
    <3> QED BY <1>0, <3>1, HeadsOfQueues
  <2> DEFINE off == [type |-> "stop", reg |-> <<"value", m.session>>]
             on(kind) == [type |-> "observe", reg |-> <<kind, m.session>>]
  <2>2. m.type \in {"value", "cancelled"} =>
          off \in LoadStops /\ on("changed") \in LoadStops /\ on("removed") \in LoadStops
    <3> HIDE DEF m
    <3> SUFFICES ASSUME m.type \in {"value", "cancelled"}
                 PROVE  /\ off \in LoadStops /\ on("changed") \in LoadStops
                        /\ on("removed") \in LoadStops
      OBVIOUS
    <3>1. m.session \in Sessions BY <2>1 DEF Callbacks
    <3> QED BY <3>1 DEF LoadStops, Blocks, Regs
  <2>3. CASE PostsRetrieved(d)
    <3>1. \/ repoQ'[d] = repoQ[d] \o <<off>>
          \/ repoQ'[d] = repoQ[d] \o <<off, on("changed"), on("removed")>>
      BY <1>0, <2>3 DEF PostsRetrieved, TypeOK
    <3>2. m.type = "value" BY <2>3 DEF PostsRetrieved, Callback
    <3> HIDE DEF off, on, m
    <3>3. /\ <<off>> \in Seq(LoadStops)
          /\ <<off, on("changed"), on("removed")>> \in Seq(LoadStops)
      BY <2>2, <3>2
    <3>4. PICK v \in Seq(LoadStops) : repoQ'[d] = repoQ[d] \o v BY <3>1, <3>3
    <3> QED BY <1>2, <3>4
  <2>4. CASE RetrievalFailed(d)
    <3>1. repoQ'[d] = Append(repoQ[d], off) BY <1>0, <2>4 DEF RetrievalFailed, TypeOK
    <3>2. m.type = "cancelled" BY <2>4 DEF RetrievalFailed, Callback
    <3> HIDE DEF off, on, m
    <3> QED BY <1>2, <2>2, <3>1, <3>2
  <2>5. CASE PostAdded(d) \/ PostRemoved(d)
    BY <1>1, <2>5 DEF PostAdded, PostRemoved, FeedEvent
  <2>6. CASE PostWritten(d)
    <3>1. repoQ'[d] = Append(repoQ[d], Write("update", m.post))
      BY <1>0, <2>6 DEF PostWritten, TypeOK
    <3>2. m.type = "written" BY <2>6 DEF PostWritten, Callback
    <3> HIDE DEF m
    <3>3. m.post \in Posts BY <2>1, <3>2 DEF Callbacks
    <3>4. Write("update", m.post) \in Blocks /\ Write("update", m.post).type # "stop"
      BY <3>3 DEF Write, Blocks, LocalWrites, WriteOps
    <3> QED BY <1>2, <1>3, <3>1, <3>4
  <2> QED BY <1>7, <2>3, <2>4, <2>5, <2>6 DEF MainThread
<1>8. CASE RepoBlock(d)
  <2>1. repoQ[d] # <<>> /\ repoQ'[d] = Tail(repoQ[d])
    BY <1>0, <1>8 DEF RepoBlock, AddObserver, RemoveObserver, LocalWrite, Block, TypeOK
  <2> QED BY <1>1, <2>1, HeadTailProperties
<1>9. CASE Receive(d) \/ Serve(d)
  <2>1. repoQ' = repoQ
    BY <1>9 DEF Receive, ReceivePush, ReceiveSnapshot, ReceiveAck, ReceiveRefusal,
                ReceiveRevocation, Serve, ServeListen, ServeUnlisten, ServeWrite
  <2> QED BY <1>1, <2>1
<1>10. CASE RevokeListen(d) \/ Disconnect(d) \/ Reconnect(d) \/ Crash(d)
  <2>1. repoQ'[d] = repoQ[d] \/ repoQ'[d] = <<>>
    BY <1>0, <1>10 DEF RevokeListen, Disconnect, Reconnect, Reconnected, Crash, TypeOK
  <2> QED BY <1>1, <2>1, EmptySeq
<1>11. ASSUME ActionOf(d) PROVE repoQ'[d] \in Seq(LoadStops)
  BY <1>6, <1>7, <1>8, <1>9, <1>10, <1>11 DEF ActionOf
<1> QED BY <1>4, <1>5, <1>11, SomebodyActs

(* Who is listed as tuned in was so before, or p has just been made. *)
LEMMA TunedBefore ==
  ASSUME TypeOK, NEW d \in Clients, ActionOf(d), NEW c \in Clients, NEW p \in Posts,
         c \in tuned'[p], c \notin tuned[p]
  PROVE  CreatePost(d, p)
<1>1. CASE User(d)
  <2>1. tuned' = tuned \/ TuneOut(d) \/ \E q \in Posts : CreatePost(d, q)
    BY <1>1 DEF User, OpenTimeline, Logout, RemovePost, historyVars
  <2>2. ~TuneOut(d) /\ tuned' # tuned BY DEF TuneOut, TypeOK
  <2>3. PICK q \in Posts : CreatePost(d, q) BY <2>1, <2>2
  <2>4. q = p BY <2>3 DEF CreatePost, TypeOK
  <2> QED BY <2>3, <2>4
<1>2. CASE ~User(d)
  <2>1. tuned' = tuned \/ TuneOut(d)
    <3>1. CASE MainThread(d) \/ RepoBlock(d)
      BY <3>1 DEF MainThread, PostsRetrieved, RetrievalFailed, PostAdded, PostRemoved,
                  FeedEvent, PostWritten, RepoBlock, AddObserver, RemoveObserver,
                  LocalWrite, historyVars
    <3>2. CASE Receive(d) \/ Serve(d)
      BY <3>2 DEF Receive, ReceivePush, ReceiveSnapshot, ReceiveAck, ReceiveRefusal,
                  ReceiveRevocation, Serve, ServeListen, ServeUnlisten, ServeWrite,
                  historyVars
    <3>3. CASE RevokeListen(d) \/ Disconnect(d) \/ Reconnect(d) \/ Crash(d)
      BY <3>3 DEF RevokeListen, Disconnect, Reconnect, Reconnected, Crash, historyVars
    <3> QED BY <1>2, <3>1, <3>2, <3>3 DEF ActionOf
  <2>2. ~TuneOut(d) /\ tuned' # tuned BY DEF TuneOut, TypeOK
  <2> QED BY <2>1, <2>2
<1> QED BY <1>1, <1>2

(* The invariant holds at first. *)
LEMMA RowsInit == Init => RowsInv
<1> SUFFICES ASSUME Init PROVE RowsInv OBVIOUS
<1>1. PostInv BY PostInit
<1>2. StopsLoads BY EmptySeq DEF Init, StopsLoads
<1>3. ASSUME NEW c \in Clients, NEW p \in Posts PROVE PostPhase(c, p)
  <2>1. /\ repoQ[c] = <<>> /\ writes[c] = <<>> /\ held[c] = <<>> /\ mainQ[c] = <<>>
    BY DEF Init
  <2>2. Unanswered(c) = <<>>
    <3>1. Len(<<>>) = 0 /\ SubSeq(<<>>, 0 + 1, 0) = <<>> OBVIOUS
    <3> QED BY <2>1, <3>1 DEF Unanswered
  <2>3. <<>> \o <<>> = <<>> BY ConcatEmptySeq, <<>> \in Seq(LocalWrites)
  <2>4. Unacked(c) = <<>> BY <2>1, <2>2, <2>3, RequestedEmpty DEF Unacked
  <2> QED BY <2>1, <2>4, HasInNone, InNone DEF PostPhase
<1>4. \A p \in Posts : tuned[p] = {} BY DEF Init
<1> QED BY <1>1, <1>2, <1>3, <1>4 DEF RowsInv

(* The invariant is inductive; *)
LEMMA RowsStep == RowsInv /\ [Next]_vars => RowsInv'
<1> SUFFICES ASSUME RowsInv, [Next]_vars PROVE RowsInv' OBVIOUS
<1>1. /\ PostInv /\ StopsLoads /\ TypeOK /\ SyncInv /\ TypeInv
      /\ \A c \in Clients, p \in Posts : PostPhase(c, p)
      /\ ~RejectsWrites => \A p \in Posts : \A c \in tuned[p] : Tuned(c, p)
  BY DEF RowsInv, PostInv, SyncInv, TypeInv
<1>2. PostInv' BY <1>1, PostStep
<1>3. StopsLoads'
  <2>1. \A c \in Clients : repoQ'[c] \in Seq(LoadStops) BY <1>1, StopsKept
  <2> QED BY <2>1 DEF StopsLoads, LoadStops, Blocks, LocalWrites, Regs, Sessions
<1>4. \A c \in Clients, p \in Posts : PostPhase(c, p)' BY <1>1, PhaseStep
<1>5. ASSUME ~RejectsWrites, NEW p \in Posts, NEW c \in Clients, c \in tuned'[p]
      PROVE  Tuned(c, p)'
  <2>1. CASE UNCHANGED vars
    <3>1. Idle(c) /\ tuned' = tuned BY <2>1 DEF vars, Idle, sdkVars, appVars, historyVars
    <3> QED BY <1>1, <1>5, <3>1, TunedIdle
  <2>2. ASSUME NEW d \in Clients, ActionOf(d) PROVE Tuned(c, p)'
    <3>1. CASE c \notin tuned[p]
      <4>1. CreatePost(d, p) BY <1>1, <1>5, <2>2, <3>1, TunedBefore
      <4> QED BY <1>1, <1>5, <4>1, CreationTuned
    <3>2. CASE c \in tuned[p]
      <4>1. Tuned(c, p) BY <1>1, <1>5, <3>2
      <4>2. CASE d = c BY <1>1, <1>5, <2>2, <4>1, <4>2, OwnTuned
      <4>3. CASE ServeWrite(d) BY <1>1, <1>5, <4>1, <4>3, ServedTuned
      <4>4. CASE d # c /\ ~ServeWrite(d)
        <5>1. Idle(c) BY <1>1, <2>2, <4>4, OthersIdle
        <5> QED BY <1>1, <1>5, <4>1, <5>1, TunedIdle
      <4> QED BY <4>2, <4>3, <4>4
    <3> QED BY <3>1, <3>2
  <2> QED BY <2>1, <2>2, SomebodyActs
<1>6. ~RejectsWrites => \A p \in Posts : \A c \in tuned'[p] : Tuned(c, p)'
  <2>1. \A p \in Posts : tuned'[p] \subseteq Clients BY <1>2 DEF PostInv, SyncInv, TypeInv, TypeOK
  <2> QED BY <1>5, <2>1
<1> QED BY <1>2, <1>3, <1>4, <1>6 DEF RowsInv

(* and with all queues empty the rows are the server's. *)
LEMMA RowsQuiet == RowsInv => LiveRowsExact
<1> SUFFICES ASSUME RowsInv, Quiescent, ~RejectsWrites, NEW p \in Posts, NEW c \in tuned[p]
             PROVE  /\ server[p] = "stamped" => rows[c][p] = 1
                    /\ server[p] = "none" /\ RemovedByCreator(p) => rows[c][p] = 0
  BY DEF LiveRowsExact
<1>1. SyncInv /\ TypeOK /\ Tuned(c, p) BY DEF RowsInv, PostInv, SyncInv, TypeInv
<1>2. c \in Clients BY <1>1 DEF TypeOK
<1>3. regs[c] # {} BY <1>1, <1>2, TunedClient DEF Tuned
<1>4. Picture(c) = server /\ mainQ[c] = <<>>
  BY <1>1, <1>2, <1>3, QuiescentView DEF Quiescent
<1>5. CASE Shows(c, p)
  <2>1. Leads(<<>>, session[c], p, rows[c][p], Rowed(server[p])) BY <1>4, <1>5 DEF Shows
  <2>2. rows[c][p] = Rowed(server[p]) BY <2>1, LeadsNone
  <2> QED BY <2>2 DEF Rowed
<1>6. CASE Void(p) BY <1>6 DEF Void, IsPost
<1> QED BY <1>1, <1>5, <1>6 DEF Tuned

(* A client that had its live updates running since before a post was made *)
(* and never lost the connection ends with exactly one row for it, or none *)
(* if its creator removed it, for any number of clients, screens, posts,   *)
(* removals, lost connections, revoked listens and crashes, if the server  *)
(* refuses no write                                                        *)
(* (FirebaseTimelineService.swift:67-118, TimelineViewModel.swift:78-97).  *)
THEOREM LiveRowsAlwaysExact == Spec => []LiveRowsExact
<1>1. RowsInv /\ [Next]_vars => RowsInv' BY RowsStep
<1> QED BY RowsInit, <1>1, RowsQuiet, PTL DEF Spec
=============================================================================
